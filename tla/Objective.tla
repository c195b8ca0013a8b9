------------------------------ MODULE Objective ------------------------------
(***************************************************************************)
(* What a solve minimises (scaling.py, and the objective that              *)
(* cp_sat_adapter.py assembles): travel time, cost and the longest way,    *)
(* each normalised, weighted, scaled to an integer and rounded, plus a     *)
(* penalty for each missing qualified person when C3 is demoted.           *)
(*                                                                         *)
(* Weights are whole numbers of 1/SCALE.  Fractions are exact here, where  *)
(* the code has floats.                                                    *)
(***************************************************************************)
EXTENDS Constraints, Travel

CONSTANTS ResidenceOf,   \* [Staff -> Districts]: residence_district_id
          DistrictOf,    \* [Facilities -> Districts]: district_id
          TravelParams,  \* TravelParameters
          Weights        \* ObjectiveWeights

\* BR-02: no negative weight, and not all of them zero.
ASSUME ObjectiveAssumption ==
    /\ ResidenceOf \in [Staff -> Districts]
    /\ DistrictOf \in [Facilities -> Districts]
    /\ TravelParams \in TravelParameters
    /\ TravelParametersAccepted(TravelParams)
    /\ Weights \in [time : Nat, cost : Nat, inequity : Nat]
    /\ Weights # [time |-> 0, cost |-> 0, inequity |-> 0]

\* travel_matrix
Metrics(p) == ComputeTravelMetrics(ResidenceOf[p[1]], DistrictOf[p[2]], TravelParams)

TravelTimes == [p \in Posts |-> Metrics(p).time]

TravelCosts == [p \in Posts |-> Metrics(p).cost]

-----------------------------------------------------------------------------
(* scaling.py *)

\* sum(f.required_headcount for f in problem.facilities)
TotalRequired(p) == SumFunctionOnSet(p.headcount, p.facilities)

MaxSeconds(pairs) == Max({0} \cup {TravelTimes[p] : p \in pairs})

MaxYen(pairs) == Max({0} \cup {TravelCosts[p] : p \in pairs})

\* compute_normalisation: n_time, n_cost and n_time_single.  A cost scale of at least
\* one yen is ten units.
Normalisation(problem) ==
    LET required == Max({TotalRequired(problem), 1})
        seconds == Max({MaxSeconds(ModelPairs(problem)), 1})
    IN  [time |-> required * seconds,
         cost |-> required * Max({MaxYen(ModelPairs(problem)), 10}),
         single |-> seconds]

\* round(): to the nearest integer, halves to the even one.
Rounded(numerator, denominator) ==
    LET below == numerator \div denominator
        twice == 2 * (numerator % denominator)
    IN  IF twice > denominator \/ (twice = denominator /\ below % 2 = 1) THEN below + 1 ELSE below

PairObjectiveCoeff(norm, p) ==
    Rounded(Weights.time * TravelTimes[p] * norm.cost + Weights.cost * TravelCosts[p] * norm.time,
            norm.time * norm.cost)

TmaxCoeff(norm) == Rounded(Weights.inequity, norm.single)

\* Mutant of BigM: the weight of the longest way is forgotten.
BigMOfSums(problem) == Weights.time + Weights.cost + Cardinality(ModelPairs(problem)) + 2

BigM(problem) ==
    Weights.time + Weights.cost + Weights.inequity + Cardinality(ModelPairs(problem)) + 2

\* normalised_objective, with the three scales brought to one denominator.
NormalisedObjective(problem, X) ==
    LET norm == Normalisation(problem)
    IN  Weights.time * SumFunctionOnSet(TravelTimes, X) * norm.cost * norm.single
        + Weights.cost * SumFunctionOnSet(TravelCosts, X) * norm.time * norm.single
        + Weights.inequity * MaxSeconds(X) * norm.time * norm.cost

-----------------------------------------------------------------------------
(* cp_sat_adapter.py *)

\* The least that the slack variables of the demoted rows can sum up to.
Slack(problem, X) ==
    SumFunction([r \in Shortfalls(problem, X) |->
                    Requirement[r[1]][r[2]] - Cardinality(C3Terms(X, r))])

\* cp.Minimize
Minimised(problem, c3, X) ==
    LET norm == Normalisation(problem)
    IN  SumFunction([p \in X |-> PairObjectiveCoeff(norm, p)])
        + TmaxCoeff(norm) * MaxSeconds(X)
        + (IF c3 = "soft" THEN BigM(problem) * Slack(problem, X) ELSE 0)

\* The solutions that CP-SAT may call OPTIMAL.
Optima(problem, c3) ==
    LET best == Min({Minimised(problem, c3, X) : X \in Solutions(problem, c3)})
    IN  {X \in Solutions(problem, c3) : Minimised(problem, c3, X) = best}

\* The premise under which big_m is the strict upper bound that scaling.py:69 calls it:
\* what tmax_coeff gained by rounding, times the longest way, is within the margin.
RoundingFits(problem) ==
    LET norm == Normalisation(problem)
    IN  2 * (TmaxCoeff(norm) * norm.single - Weights.inequity)
            <= Cardinality(ModelPairs(problem)) + 2
=============================================================================
