------------------------ MODULE OptimizationService -------------------------
(***************************************************************************)
(* One call of OptimizationService.optimize: check the pins, solve with    *)
(* C3, and if nothing came back solve without C3 to find out whether C3    *)
(* was the cause, then with C3 demoted to a penalty; else diagnose.        *)
(*                                                                         *)
(* CP-SAT itself is external: within its time limit it returns an optimum  *)
(* of the program it is given, proves that it has no solution, or stops    *)
(* with any solution or with none.                                         *)
(***************************************************************************)
EXTENDS Objective

CONSTANTS Headcounts,  \* the required headcounts that facilities may have
          Caps,        \* department_cap_limit values
          TimeLimits   \* TRUE if the time limit can bite, FALSE if solves run to the end

ASSUME OptimizationServiceAssumption ==
    /\ Headcounts \subseteq [Facilities -> Nat]
    /\ Caps \subseteq Nat
    /\ TimeLimits \in BOOLEAN

VARIABLES problem,   \* the AssignmentProblem of this call
          stage,     \* the next thing optimize does
          outcome,   \* what it returned or raised
          gaveUp     \* history: a solve ended without an answer

vars == <<problem, stage, outcome, gaveUp>>

Stages == {"pins", "full", "relaxed", "demoted", "classify", "done"}

\* Mutant of C3Of: the relaxed program keeps C3.
NeverRelaxed == [full |-> "hard", relaxed |-> "hard", demoted |-> "soft"]

\* Which C3 rows the program of a solving stage carries.
C3Of == [full |-> "hard", relaxed |-> "dropped", demoted |-> "soft"]

Pending == [kind |-> "pending"]

Init ==
    /\ problem \in Problems(Headcounts, Caps)
    /\ stage = "pins"
    /\ outcome = Pending
    /\ gaveUp = FALSE

\* Mutant of ValidatePins: pins are taken as they come.
AcceptPins ==
    /\ stage = "pins"
    /\ stage' = "full"
    /\ UNCHANGED <<problem, outcome, gaveUp>>

\* _validate_pins: a partial assignment, so neither exact headcount nor C3.
ValidatePins ==
    /\ stage = "pins"
    /\ IF CheckAssignments(problem, problem.pins, FALSE, FALSE) = {}
       THEN stage' = "full" /\ UNCHANGED outcome
       ELSE /\ stage' = "done"
            /\ outcome' = [kind |-> "PinnedAssignmentInfeasibleError"]
    /\ UNCHANGED <<problem, gaveUp>>

\* to_assignment_result: the constructor of AssignmentResult refuses a person who is sent
\* to two facilities.  The objective it also judges is a sum of non-negative terms.
ToAssignmentResult(X, reported, optimal) ==
    IF \E a, b \in X : a # b /\ a[1] = b[1]
    THEN [kind |-> "DuplicateAssignmentError"]
    ELSE [kind |-> "AssignmentResult", assignments |-> X, violations |-> reported,
          status |-> IF optimal THEN "OPTIMAL" ELSE "TIME_LIMIT_REACHED"]

\* A feasible outcome of the first or the demoted solve becomes the result.  The
\* slack variables of an OPTIMAL demoted solution are as small as they can be; a
\* solution cut off by the time limit may report more rows than it violates.
Solved(X, reported, optimal) ==
    /\ stage \in {"full", "demoted"}
    /\ X \in Solutions(problem, C3Of[stage])
    /\ IF optimal THEN X \in Optima(problem, C3Of[stage]) ELSE TimeLimits
    /\ IF stage = "full" THEN reported = {}
       ELSE IF optimal THEN reported = Shortfalls(problem, X)
       ELSE Shortfalls(problem, X) \subseteq reported
    /\ stage' = "done"
    /\ outcome' = ToAssignmentResult(X, reported, optimal)
    /\ UNCHANGED <<problem, gaveUp>>

\* A feasible relaxed solve: C3 is the cause, go on to the demoted solve.
C3IsTheCause ==
    /\ stage = "relaxed"
    /\ Solutions(problem, C3Of[stage]) # {}
    /\ stage' = "demoted"
    /\ UNCHANGED <<problem, outcome, gaveUp>>

\* Where a solve without a solution leads.
AfterNothing == [full |-> "relaxed", relaxed |-> "classify", demoted |-> "classify"]

\* CP-SAT answers INFEASIBLE or, out of time, UNKNOWN: feasible=False either way.
NotSolved(outOfTime) ==
    /\ stage \in {"full", "relaxed", "demoted"}
    /\ IF outOfTime THEN TimeLimits ELSE Solutions(problem, C3Of[stage]) = {}
    /\ gaveUp' = (gaveUp \/ outOfTime)
    /\ stage' = AfterNothing[stage]
    /\ UNCHANGED <<problem, outcome>>

\* Mutant of TotalShortage: the difference the wrong way round.
TotalSurplus(p) == Max({0, Cardinality(p.available) - TotalRequired(p)})

\* diagnoser.total_shortage
TotalShortage(p) == Max({0, TotalRequired(p) - Cardinality(p.available)})

\* classify_after_relaxed_infeasible
Classify ==
    /\ stage = "classify"
    /\ stage' = "done"
    /\ outcome' = [kind |-> "InfeasibilityDiagnosis",
                   cause |-> IF TotalShortage(problem) > 0 THEN "TOTAL_SHORTAGE"
                                                           ELSE "HARD_CONSTRAINT",
                   shortage |-> TotalShortage(problem)]
    /\ UNCHANGED <<problem, gaveUp>>

Optimize ==
    \/ ValidatePins
    \/ \E X \in SUBSET ModelPairs(problem), R \in SUBSET C3Requirements(problem), optimal \in BOOLEAN :
          Solved(X, R, optimal)
    \/ C3IsTheCause
    \/ \E outOfTime \in BOOLEAN : NotSolved(outOfTime)
    \/ Classify

Spec == Init /\ [][Optimize]_vars

-----------------------------------------------------------------------------
(* Properties. *)

\* Each variable holds what the call can hold at that point.
TypeOK ==
    /\ problem \in AnyProblem
    /\ stage \in Stages
    /\ outcome.kind \in {"pending", "PinnedAssignmentInfeasibleError", "AssignmentResult",
                         "InfeasibilityDiagnosis"}
    /\ (stage = "done") <=> (outcome # Pending)
    /\ gaveUp \in BOOLEAN

\* The program and the checker mean the same constraints: the checker finds nothing
\* wrong with a result except C3 rows, and every C3 row it finds was reported as a
\* violation of the result (BR-07: only C3 is ever demoted, and never silently).
ResultsPassTheChecker ==
    outcome.kind = "AssignmentResult" =>
        ValidateAssignments(problem, outcome.assignments)
            \subseteq {<<"C3", r>> : r \in outcome.violations}

\* Every pin is in the result, although the adapter skips a pin that has no
\* decision variable: _validate_pins has refused all such pins before.
PinsAreKept ==
    outcome.kind = "AssignmentResult" => problem.pins \subseteq outcome.assignments

\* When every solve runs to its end, C3 is given up only if no assignment meets it,
\* and a diagnosis is returned only if no assignment meets C1, C2 and C5 at all.
CompleteSearchIsTruthful ==
    ~gaveUp =>
        /\ outcome.kind = "AssignmentResult" /\ outcome.violations # {} =>
              Solutions(problem, "hard") = {}
        /\ outcome.kind = "InfeasibilityDiagnosis" => Solutions(problem, "dropped") = {}

\* Even when the solver ran out of time, a TOTAL_SHORTAGE diagnosis is right: no
\* assignment exists, and `shortage` more people would have to be found at least.
ShortageIsReal ==
    outcome.kind = "InfeasibilityDiagnosis" =>
        /\ outcome.cause = "TOTAL_SHORTAGE" => Solutions(problem, "dropped") = {}
        /\ outcome.shortage + Cardinality(problem.available) >= TotalRequired(problem)

\* What the rounding of each coefficient can make of the objective.
RoundingLoss(p) == TotalRequired(p) + Normalisation(p).single

\* INV-12 as far as it holds: an OPTIMAL result of the demoted solve lacks no more
\* qualified people than any assignment must, provided the rounding of tmax_coeff fits
\* the margin of big_m; and of those that lack as many none has a lower objective, but
\* for the rounding of each coefficient (scaling.py:68).
OptimalMeansBest ==
    outcome.kind = "AssignmentResult" /\ outcome.status = "OPTIMAL" =>
        LET norm == Normalisation(problem)
        IN  \A Y \in Solutions(problem, "dropped") :
               /\ RoundingFits(problem) =>
                     Slack(problem, outcome.assignments) <= Slack(problem, Y)
               /\ Slack(problem, outcome.assignments) = Slack(problem, Y) =>
                     NormalisedObjective(problem, outcome.assignments)
                        <= NormalisedObjective(problem, Y)
                             + RoundingLoss(problem) * norm.time * norm.cost * norm.single

Distances(X) == {GreatCircle[ResidenceOf[p[1]], DistrictOf[p[2]]] * TravelParams.detour : p \in X}

Prices == PriceLists(Distances(Posts))

\* BR-D04 as far as it holds: whatever cost table CostModel accepts, each way of a roster
\* has a cost, and a longer way is never cheaper by more than the tolerance at each
\* boundary between them (value_objects.py:196).  So to send somebody further never pays.
TravelCostNeverFalls ==
    outcome.kind = "AssignmentResult" =>
        \A price \in Prices, near, far \in Distances(outcome.assignments) :
            near <= far => price[near].cost <= price[far].cost
                               + Tolerance * (price[far].band - price[near].band)

\* What optimize knows at each stage: past the pins all of them have variables, and what
\* a finished solve has refuted is refuted.
SearchIsSound ==
    /\ stage \notin {"pins", "done"} => problem.pins \subseteq ModelPairs(problem)
    /\ stage \in {"relaxed", "demoted"} /\ ~gaveUp => Solutions(problem, "hard") = {}
    /\ stage = "classify" /\ ~gaveUp => Solutions(problem, "dropped") = {}

\* How optimize came by its outcome: a result solves the program without C3, an OPTIMAL
\* one is an optimum of one of the two programs that results are taken from, and a
\* diagnosis states the shortage of the problem.
OutcomeIsAccounted ==
    /\ outcome.kind = "AssignmentResult" =>
          /\ outcome.assignments \in Solutions(problem, "dropped")
          /\ outcome.status = "OPTIMAL" =>
                \E c3 \in {"hard", "soft"} : outcome.assignments \in Optima(problem, c3)
    /\ outcome.kind = "InfeasibilityDiagnosis" =>
          /\ outcome.shortage = TotalShortage(problem)
          /\ outcome.cause = "TOTAL_SHORTAGE" => outcome.shortage > 0

\* Together these are inductive.
CallInv ==
    /\ TypeOK
    /\ SearchIsSound
    /\ OutcomeIsAccounted
    /\ ResultsPassTheChecker
    /\ PinsAreKept
    /\ CompleteSearchIsTruthful

\* service.py: "Even the relaxed model is infeasible: total shortage or a C2/C5
\* interaction."  So a diagnosis means that no assignment exists.
DiagnosisMeansInfeasible ==
    outcome.kind = "InfeasibilityDiagnosis" => Solutions(problem, "dropped") = {}
=============================================================================
