------------------------ MODULE OptimizationProofs -------------------------
(***************************************************************************)
(* Proofs about one call of optimize, for every problem, every master and  *)
(* every way its solves may end: a result passes the checker and keeps its *)
(* pins, what complete searches conclude is true, and what a comparison    *)
(* with a past roster tells is fair.                                       *)
(***************************************************************************)
EXTENDS Comparison, ConstraintsProofs, SumProofs, SequenceTheorems

-----------------------------------------------------------------------------
(* Cost tables. *)

\* The bands of an accepted table, and the band that a distance falls into.
LEMMA AcceptedBands ==
    ASSUME NEW bands \in Seq(CostBands(Int, Int)), CostModelAccepted(bands)
    PROVE  /\ Len(bands) \in Nat \ {0}
           /\ bands[Len(bands)].upper = Unbounded
           /\ \A i \in 1 .. Len(bands) : /\ bands[i].rule \in {"FLAT", "PER_KM"}
                                        /\ bands[i].amount \in Nat
           /\ \A i \in 1 .. Len(bands) - 1 : bands[i].upper \in Nat \ {0}
<1>1. DOMAIN bands = 1 .. Len(bands) /\ Len(bands) \in Nat /\ bands # <<>>
  BY DEF CostModelAccepted
<1>2. Len(bands) \in Nat \ {0}
  BY <1>1, EmptySeq
<1>3. \A i \in 1 .. Len(bands) : bands[i] \in CostBands(Int, Int)
  BY <1>1
<1>4. \A i \in 1 .. Len(bands) : CostBandAccepted(bands[i])
  BY <1>1 DEF CostModelAccepted
<1>5. {i \in DOMAIN bands : bands[i].upper = Unbounded} = {Len(bands)}
  BY DEF CostModelAccepted
<1>6. ASSUME NEW i \in 1 .. Len(bands) - 1 PROVE bands[i].upper \in Nat \ {0}
  <2>1. i \in 1 .. Len(bands) /\ i # Len(bands)
    BY <1>2
  <2>2. bands[i].upper # Unbounded
    BY <1>1, <1>5, <2>1
  <2>3. bands[i].upper \in Int /\ bands[i].upper > 0
    BY <1>3, <1>4, <2>1, <2>2 DEF CostBands, CostBandAccepted
  <2>q. QED
    BY <2>3
<1>7. \A i \in 1 .. Len(bands) : /\ bands[i].rule \in {"FLAT", "PER_KM"}
                               /\ bands[i].amount \in Nat
  BY <1>3, <1>4 DEF CostBands, CostBandAccepted
<1>q. QED
  BY <1>1, <1>2, <1>5, <1>6, <1>7

LEMMA MatchedBand ==
    ASSUME NEW bands \in Seq(CostBands(Int, Int)), CostModelAccepted(bands), NEW d \in Nat
    PROVE  LET m == Min(Matching(bands, d))
           IN  /\ m \in 1 .. Len(bands)
               /\ m < Len(bands) => d < bands[m].upper
               /\ \A i \in 1 .. Len(bands) : d < bands[i].upper => m <= i
               /\ \A i \in 1 .. m - 1 : bands[i].upper <= d
<1> DEFINE Q == Matching(bands, d)
<1>1. /\ Len(bands) \in Nat \ {0} /\ DOMAIN bands = 1 .. Len(bands)
      /\ bands[Len(bands)].upper = Unbounded
      /\ \A i \in 1 .. Len(bands) - 1 : bands[i].upper \in Nat \ {0}
  BY AcceptedBands
<1>2. Unbounded \notin Int
  BY TravelAssumption
<1>3. \A i \in 1 .. Len(bands) : i \in Q <=> bands[i].upper = Unbounded \/ d < bands[i].upper
  BY <1>1 DEF Matching
<1>4. Q \in SUBSET Nat /\ Q \subseteq 1 .. Len(bands) /\ Len(bands) \in Q
  BY <1>1 DEF Matching
<1> HIDE DEF Q
<1> DEFINE m == Min(Q)
           n == Len(bands)
<1>5. m \in Q /\ \A i \in Q : m <= i
  BY <1>4, MinIsLeast
<1>m. n \in Nat \ {0} /\ m \in 1 .. n
  BY <1>1, <1>4, <1>5
<1>6. \A i \in 1 .. n - 1 : bands[i].upper \in Nat /\ bands[i].upper # Unbounded
  BY <1>1, <1>2
<1>7. \A i \in 1 .. n : d < bands[i].upper => m <= i
  BY <1>3, <1>5
<1>8. n \notin 1 .. n - 1 /\ 1 .. n - 1 \subseteq 1 .. n /\ (m < n => m \in 1 .. n - 1)
  BY <1>m
<1> HIDE DEF m, n
<1>9. m < n => d < bands[m].upper
  BY <1>3, <1>5, <1>6, <1>8, <1>m DEF n
<1>10. ASSUME NEW i \in 1 .. m - 1 PROVE bands[i].upper <= d
  <2>1. i \in 1 .. n - 1 /\ i \in 1 .. n /\ ~(m <= i)
    BY <1>m
  <2>2. i \notin Q
    BY <1>5, <2>1
  <2>q. QED
    BY <1>3, <1>6, <2>1, <2>2 DEF n
<1>q. QED
  BY <1>m, <1>7, <1>9, <1>10 DEF Q, m, n

\* Within a band a longer way is not cheaper.
LEMMA CostRisesWithin ==
    ASSUME NEW band, band.rule \in {"FLAT", "PER_KM"}, band.amount \in Nat,
           NEW d \in Nat, NEW e \in Nat, d <= e
    PROVE  CostAt(band, d) \in Nat /\ CostAt(band, e) \in Nat /\ CostAt(band, d) <= CostAt(band, e)
<1>1. d * band.amount \in Nat /\ e * band.amount \in Nat /\ d * band.amount <= e * band.amount
  <2>1. \A m, n, k \in Nat : m <= n => m * k \in Nat /\ n * k \in Nat /\ m * k <= n * k
    OBVIOUS
  <2>q. QED
    BY <2>1
<1>q. QED
  BY <1>1 DEF CostAt

\* Over several boundaries the tolerances add up.
LEMMA CostClimbs ==
    ASSUME NEW bands \in Seq(CostBands(Int, Int)), CostModelAccepted(bands),
           NEW near \in Nat, NEW far \in Nat, near <= far
    PROVE  CostFor(bands, near)
               <= CostFor(bands, far)
                    + Tolerance * (Min(Matching(bands, far)) - Min(Matching(bands, near)))
<1> DEFINE n == Len(bands)
           a == Min(Matching(bands, near))
           z == Min(Matching(bands, far))
           Upper(i) == bands[i].upper
           Cost(i, d) == CostAt(bands[i], d)
<1>1. /\ n \in Nat \ {0}
      /\ \A i \in 1 .. n : bands[i].rule \in {"FLAT", "PER_KM"} /\ bands[i].amount \in Nat
      /\ \A i \in 1 .. n - 1 : Upper(i) \in Nat
  BY AcceptedBands
<1>2. /\ a \in 1 .. n
      /\ a < n => near < Upper(a)
      /\ \A i \in 1 .. n : near < Upper(i) => a <= i
  BY MatchedBand
<1>3. /\ z \in 1 .. n
      /\ z < n => far < Upper(z)
      /\ \A i \in 1 .. z - 1 : Upper(i) <= far
  BY MatchedBand
<1>4. \A i \in 1 .. n, d, e \in Nat : d <= e =>
          Cost(i, d) \in Nat /\ Cost(i, e) \in Nat /\ Cost(i, d) <= Cost(i, e)
  BY <1>1, CostRisesWithin, SMTT(30)
<1>5. \A i \in 1 .. n - 1 : Cost(i, Upper(i)) - Cost(i + 1, Upper(i)) <= Tolerance
  BY DEF CostModelAccepted, Monotonic, Boundaries
<1>6. \A i \in 1 .. n - 1 : i + 1 < n => Upper(i) < Upper(i + 1)
  BY DEF CostModelAccepted, Boundaries
<1>7. Tolerance \in Nat
  BY TravelAssumption
<1>8. CostFor(bands, near) = Cost(a, near) /\ CostFor(bands, far) = Cost(z, far)
  BY DEF CostFor
<1> HIDE DEF n, a, z, Upper, Cost
<1>9. a <= z
  <2>1. CASE z < n
    BY <1>1, <1>2, <1>3, <2>1
  <2>2. CASE z = n
    BY <1>1, <1>2, <2>2
  <2>q. QED
    BY <1>1, <1>3, <2>1, <2>2
<1> DEFINE Good == {k \in Nat : a + k < z =>
                       Cost(a, near) <= Cost(a + k, Upper(a + k)) + Tolerance * k}
<1>10. 0 \in Good
  <2>1. ASSUME a < z PROVE Cost(a, near) <= Cost(a, Upper(a))
    <3>1. a \in 1 .. n - 1 /\ near < Upper(a)
      BY <1>1, <1>2, <1>3, <2>1
    <3>q. QED
      BY <1>1, <1>2, <1>4, <3>1
  <2>2. Tolerance * 0 = 0 /\ a + 0 = a
    BY <1>1, <1>2, <1>7
  <2>3. a < z => Cost(a, Upper(a)) \in Nat
    BY <1>1, <1>2, <1>3, <1>4
  <2>q. QED
    BY <2>1, <2>2, <2>3
<1>11. ASSUME NEW k \in Nat, k \in Good PROVE k + 1 \in Good
  <2> SUFFICES ASSUME a + (k + 1) < z
               PROVE  Cost(a, near)
                        <= Cost(a + (k + 1), Upper(a + (k + 1))) + Tolerance * (k + 1)
    OBVIOUS
  <2> DEFINE i == a + k
  <2>1. i \in 1 .. n - 1 /\ i + 1 \in 1 .. n - 1 /\ i + 1 < n /\ i + 1 = a + (k + 1) /\ i < z
    BY <1>1, <1>2, <1>3
  <2>2. Cost(a, near) <= Cost(i, Upper(i)) + Tolerance * k
    BY <1>11, <2>1
  <2> HIDE DEF i, Good
  <2>3. Cost(i, Upper(i)) - Cost(i + 1, Upper(i)) <= Tolerance
    BY <1>5, <2>1
  <2>4. /\ Upper(i) \in Nat /\ Upper(i + 1) \in Nat /\ Upper(i) <= Upper(i + 1)
        /\ i \in 1 .. n /\ i + 1 \in 1 .. n
    BY <1>1, <1>6, <2>1
  <2>5. /\ Cost(i + 1, Upper(i)) <= Cost(i + 1, Upper(i + 1))
        /\ Cost(i + 1, Upper(i)) \in Nat /\ Cost(i + 1, Upper(i + 1)) \in Nat
        /\ Cost(i, Upper(i)) \in Nat
    BY <1>4, <2>4
  <2>6. Tolerance * (k + 1) = Tolerance * k + Tolerance /\ Tolerance * k \in Nat
    BY <1>7
  <2>7. Cost(a, near) \in Nat
    BY <1>2, <1>4
  <2>8. Cost(a, near) <= Cost(i + 1, Upper(i + 1)) + Tolerance * (k + 1)
    BY <1>7, <2>2, <2>3, <2>5, <2>6, <2>7
  <2>q. QED
    BY <2>1, <2>8
<1>12. \A k \in Nat : k \in Good
  <2> HIDE DEF Good
  <2>q. QED
    BY <1>10, <1>11, NatInductionBySet
<1>13. Cost(a, near) <= Cost(z, far) + Tolerance * (z - a)
  <2>1. CASE a = z
    <3>1. Tolerance * (z - a) = 0
      BY <1>7, <1>2, <1>3, <2>1
    <3>q. QED
      BY <1>2, <1>4, <2>1, <3>1
  <2>2. CASE a < z
    <3> DEFINE k == (z - 1) - a
               i == z - 1
    <3>1. k \in Nat /\ a + k = i /\ a + k < z /\ z - a = k + 1
      BY <1>2, <1>3, <2>2
    <3>2. i \in 1 .. n - 1 /\ i \in 1 .. z - 1 /\ i + 1 = z /\ i \in 1 .. n
      BY <1>1, <1>2, <1>3, <2>2
    <3>3. Cost(a, near) <= Cost(i, Upper(i)) + Tolerance * k
      BY <1>12, <3>1
    <3> HIDE DEF i, k, Good
    <3>4. Cost(i, Upper(i)) - Cost(z, Upper(i)) <= Tolerance
      BY <1>5, <3>2
    <3>5. Upper(i) \in Nat /\ Upper(i) <= far
      BY <1>1, <1>3, <3>2
    <3>6. /\ Cost(z, Upper(i)) <= Cost(z, far)
          /\ Cost(z, Upper(i)) \in Nat /\ Cost(z, far) \in Nat /\ Cost(i, Upper(i)) \in Nat
      BY <1>3, <1>4, <3>2, <3>5
    <3>7. Tolerance * (z - a) = Tolerance * k + Tolerance /\ Tolerance * k \in Nat
      BY <1>7, <3>1
    <3>8. Cost(a, near) \in Nat
      BY <1>2, <1>4
    <3>q. QED
      BY <1>7, <3>3, <3>4, <3>6, <3>7, <3>8
  <2>q. QED
    BY <1>2, <1>3, <1>9, <2>1, <2>2
<1>q. QED
  BY <1>8, <1>13 DEF a, z

\* However the bounds on the tables are chosen, the tables are tables.
LEMMA TablesAreSequences == BandTables \subseteq Seq(CostBands(Int, Int))
<1>1. CostBands(BandBounds, BandAmounts) \subseteq CostBands(Int, Int)
  BY TravelAssumption DEF CostBands
<1>2. ASSUME NEW n \in 0 .. MaxBands, NEW t \in [1 .. n -> CostBands(BandBounds, BandAmounts)]
      PROVE  t \in Seq(CostBands(Int, Int))
  <2>1. n \in Nat /\ t \in [1 .. n -> CostBands(Int, Int)]
    BY <1>1, <1>2, TravelAssumption
  <2>q. QED
    BY <2>1, SeqDef
<1>q. QED
  BY <1>2 DEF BandTables

-----------------------------------------------------------------------------
(* The call. *)

LEMMA ProblemFacts ==
    ASSUME TypeOK
    PROVE  /\ problem \in AnyProblem
           /\ \A c3 : Solutions(problem, c3) \subseteq SUBSET Posts
<1>1. problem \in AnyProblem
  BY OptimizationServiceAssumption DEF TypeOK, AnyProblem, Problems
<1>2. ModelPairs(problem) \subseteq Posts
  BY <1>1 DEF AnyProblem, Problems, ModelPairs, Posts
<1>q. QED
  BY <1>1, <1>2 DEF Solutions

\* Where the checker faults none of the pins, each has a decision variable.
LEMMA CheckedPinsAreVariables ==
    ASSUME TypeOK, CheckAssignments(problem, problem.pins, FALSE, FALSE) = {}
    PROVE  problem.pins \subseteq ModelPairs(problem)
<1>1. problem.pins \subseteq Posts
  BY ProblemFacts DEF AnyProblem, Problems
<1>2. \A a \in problem.pins : a[1] \in problem.available /\ a[2] \in problem.facilities
  BY CheckerParts
<1>q. QED
  BY <1>1, <1>2 DEF ModelPairs, Posts

\* Every call begins with the pins of some problem.
LEMMA FreshCalls ==
    ASSUME problem \in AnyProblem, stage = "pins", outcome = Pending, gaveUp = FALSE
    PROVE  CallInv
BY DEF CallInv, TypeOK, Stages, Pending, SearchIsSound, ResultsPassTheChecker,
       PinsAreKept, CompleteSearchIsTruthful, OutcomeIsAccounted

LEMMA CallInvInit == ASSUME Init PROVE CallInv
<1>1. problem \in AnyProblem
  BY OptimizationServiceAssumption DEF Init, AnyProblem, Problems
<1>q. QED
  BY <1>1, FreshCalls DEF Init

\* A roster that solves the program, with all pins among its variables, keeps them and
\* is faulted for its shortfalls at most.
LEMMA SolutionFacts ==
    ASSUME TypeOK, NEW c3, NEW X \in Solutions(problem, c3),
           problem.pins \subseteq ModelPairs(problem)
    PROVE  /\ problem.pins \subseteq X
           /\ ValidateAssignments(problem, X) = {<<"C3", r>> : r \in Shortfalls(problem, X)}
           /\ c3 = "hard" => Shortfalls(problem, X) = {}
<1>1. Obeys(problem, X) /\ X \in SUBSET Posts
  BY ProblemFacts DEF Solutions, CommonRows, Obeys
<1>2. ValidateAssignments(problem, X) = {<<"C3", r>> : r \in Shortfalls(problem, X)}
  BY CheckerFindsShortfalls, ProblemFacts, <1>1
<1>3. problem.pins \subseteq X /\ (c3 = "hard" => Shortfalls(problem, X) = {})
  BY DEF Solutions, CommonRows
<1>q. QED
  BY <1>2, <1>3

\* The constructor of AssignmentResult has nothing to refuse in a solution.
LEMMA ResultsAreConstructed ==
    ASSUME TypeOK, NEW c3, NEW X \in Solutions(problem, c3), NEW R, NEW optimal
    PROVE  ToAssignmentResult(X, R, optimal) =
               [kind |-> "AssignmentResult", assignments |-> X, violations |-> R,
                status |-> IF optimal THEN "OPTIMAL" ELSE "TIME_LIMIT_REACHED"]
<1>1. X \in SUBSET Posts /\ X \subseteq ModelPairs(problem)
  BY ProblemFacts DEF Solutions
<1>2. ASSUME NEW a \in X, NEW b \in X, a[1] = b[1] PROVE a = b
  <2>1. a[1] \in problem.available
    BY <1>1 DEF ModelPairs
  <2>2. Cardinality(PostsOf(X, a[1])) <= 1
    BY <2>1 DEF Solutions, CommonRows
  <2>3. IsFiniteSet(PostsOf(X, a[1]))
    BY <1>1, RostersAreFinite, PartsAreFinite
  <2>4. a \in PostsOf(X, a[1]) /\ b \in PostsOf(X, a[1])
    BY <1>2 DEF PostsOf
  <2>q. QED
    BY AtMostOne, <2>2, <2>3, <2>4
<1>q. QED
  BY <1>2 DEF ToAssignmentResult

LEMMA CallInvStep == ASSUME CallInv, [Optimize]_vars PROVE CallInv'
<1> USE DEF CallInv
<1>1. CASE ValidatePins
  <2>1. CASE CheckAssignments(problem, problem.pins, FALSE, FALSE) = {}
    <3>1. problem.pins \subseteq ModelPairs(problem)
      BY CheckedPinsAreVariables, <2>1
    <3>2. stage' = "full" /\ UNCHANGED <<problem, outcome, gaveUp>>
      BY <1>1, <2>1 DEF ValidatePins
    <3>3. outcome = Pending
      BY <1>1 DEF ValidatePins, TypeOK
    <3>q. QED
      BY <3>1, <3>2, <3>3 DEF TypeOK, Stages, Pending, SearchIsSound, ResultsPassTheChecker,
                             PinsAreKept, CompleteSearchIsTruthful, OutcomeIsAccounted
  <2>2. CASE CheckAssignments(problem, problem.pins, FALSE, FALSE) # {}
    <3>1. /\ stage' = "done" /\ UNCHANGED <<problem, gaveUp>>
          /\ outcome' = [kind |-> "PinnedAssignmentInfeasibleError"]
      BY <1>1, <2>2 DEF ValidatePins
    <3>2. outcome'.kind = "PinnedAssignmentInfeasibleError" /\ outcome' # Pending
      BY <3>1 DEF Pending
    <3>q. QED
      BY <3>1, <3>2 DEF TypeOK, Stages, SearchIsSound, ResultsPassTheChecker,
                       PinsAreKept, CompleteSearchIsTruthful, OutcomeIsAccounted
  <2>q. QED
    BY <2>1, <2>2
<1>2. ASSUME NEW X, NEW R, NEW optimal, Solved(X, R, optimal) PROVE CallInv'
  <2>1. /\ stage \in {"full", "demoted"}
        /\ X \in Solutions(problem, C3Of[stage])
        /\ stage' = "done" /\ UNCHANGED <<problem, gaveUp>>
        /\ outcome' = ToAssignmentResult(X, R, optimal)
    BY <1>2 DEF Solved
  <2>r. /\ outcome'.kind = "AssignmentResult"
        /\ outcome'.assignments = X
        /\ outcome'.violations = R
        /\ outcome' # Pending
    BY <2>1, ResultsAreConstructed DEF Pending
  <2>2. /\ problem.pins \subseteq X
        /\ ValidateAssignments(problem, X) = {<<"C3", r>> : r \in Shortfalls(problem, X)}
        /\ stage = "full" => Shortfalls(problem, X) = {}
    BY SolutionFacts, <2>1 DEF SearchIsSound, C3Of
  <2>3. Shortfalls(problem, X) \subseteq R
    BY <1>2, <2>2, <2>1 DEF Solved
  <2>4. ValidateAssignments(problem, X) \subseteq {<<"C3", r>> : r \in R}
    BY <2>2, <2>3
  <2>5. R # {} /\ ~gaveUp => Solutions(problem, "hard") = {}
    BY <1>2, <2>1 DEF Solved, SearchIsSound
  <2>6. TypeOK' /\ SearchIsSound' /\ PinsAreKept'
    BY <2>1, <2>r, <2>2 DEF TypeOK, Stages, SearchIsSound, PinsAreKept
  <2>7. ResultsPassTheChecker'
    BY <2>r, <2>1, <2>4 DEF ResultsPassTheChecker
  <2>8. CompleteSearchIsTruthful'
    BY <2>r, <2>1, <2>5 DEF CompleteSearchIsTruthful
  <2>9. OutcomeIsAccounted'
    <3>1. X \in Solutions(problem, "dropped")
      BY <2>1 DEF Solutions
    <3>2. optimal => X \in Optima(problem, C3Of[stage])
      BY <1>2 DEF Solved
    <3>3. C3Of[stage] \in {"hard", "soft"}
      BY <2>1 DEF C3Of
    <3>4. outcome'.status = "OPTIMAL" => optimal
      BY <2>1, ResultsAreConstructed
    <3>5. outcome'.status = "OPTIMAL" =>
              \E c3 \in {"hard", "soft"} : outcome'.assignments \in Optima(problem', c3)
      BY <2>r, <2>1, <3>2, <3>3, <3>4
    <3>6. outcome'.assignments \in Solutions(problem', "dropped")
      BY <2>r, <2>1, <3>1
    <3>q. QED
      BY <2>r, <3>5, <3>6 DEF OutcomeIsAccounted
  <2>q. QED
    BY <2>6, <2>7, <2>8, <2>9
<1>3. CASE C3IsTheCause
  <2>1. outcome = Pending /\ stage' = "demoted" /\ UNCHANGED <<problem, outcome, gaveUp>>
    BY <1>3 DEF C3IsTheCause, TypeOK
  <2>q. QED
    BY <1>3, <2>1 DEF C3IsTheCause, TypeOK, Stages, Pending, SearchIsSound,
                     ResultsPassTheChecker, PinsAreKept, CompleteSearchIsTruthful, OutcomeIsAccounted
<1>4. ASSUME NEW outOfTime \in BOOLEAN, NotSolved(outOfTime) PROVE CallInv'
  <2>1. /\ stage \in {"full", "relaxed", "demoted"}
        /\ outcome = Pending
        /\ UNCHANGED <<problem, outcome>>
        /\ stage' = AfterNothing[stage]
    BY <1>4 DEF NotSolved, TypeOK
  <2>2. gaveUp' \in BOOLEAN
    BY <1>4 DEF NotSolved, TypeOK
  <2>3. ~gaveUp' => ~gaveUp /\ Solutions(problem, C3Of[stage]) = {}
    BY <1>4 DEF NotSolved
  <2>4. Solutions(problem, "soft") = Solutions(problem, "dropped")
    BY DEF Solutions
  <2>5. SearchIsSound'
    <3>1. CASE stage = "full"
      BY <2>1, <2>3, <3>1 DEF SearchIsSound, AfterNothing, C3Of
    <3>2. CASE stage = "relaxed"
      BY <2>1, <2>3, <3>2 DEF SearchIsSound, AfterNothing, C3Of
    <3>3. CASE stage = "demoted"
      BY <2>1, <2>3, <2>4, <3>3 DEF SearchIsSound, AfterNothing, C3Of
    <3>q. QED
      BY <2>1, <3>1, <3>2, <3>3
  <2>q. QED
    BY <2>1, <2>2, <2>5 DEF TypeOK, Stages, Pending, AfterNothing, ResultsPassTheChecker,
                           PinsAreKept, CompleteSearchIsTruthful, OutcomeIsAccounted
<1>5. CASE Classify
  <2>1. /\ stage = "classify" /\ stage' = "done" /\ UNCHANGED <<problem, gaveUp>>
        /\ outcome'.kind = "InfeasibilityDiagnosis"
        /\ outcome' # Pending
        /\ outcome'.shortage = TotalShortage(problem')
        /\ outcome'.cause = "TOTAL_SHORTAGE" => outcome'.shortage > 0
    BY <1>5 DEF Classify, Pending
  <2>q. QED
    BY <2>1 DEF TypeOK, Stages, SearchIsSound, ResultsPassTheChecker, PinsAreKept,
               CompleteSearchIsTruthful, OutcomeIsAccounted
<1>6. CASE UNCHANGED vars
  BY <1>6 DEF vars, TypeOK, SearchIsSound, ResultsPassTheChecker, PinsAreKept,
             CompleteSearchIsTruthful, OutcomeIsAccounted
<1>q. QED
  BY <1>1, <1>2, <1>3, <1>4, <1>5, <1>6 DEF Optimize

\* The invariant of the call.
THEOREM CallInvariant == Spec => []CallInv
BY CallInvInit, CallInvStep, PTL DEF Spec

\* optimize returns no roster in which the checker of pins and manual edits finds
\* anything but the C3 rows that the result reports.
THEOREM ResultsAreChecked == Spec => []ResultsPassTheChecker
<1>1. CallInv => ResultsPassTheChecker
  BY DEF CallInv
<1>q. QED
  BY CallInvariant, <1>1, PTL

\* No pin is lost, although the adapter skips pins without a variable.
THEOREM PinsSurvive == Spec => []PinsAreKept
<1>1. CallInv => PinsAreKept
  BY DEF CallInv
<1>q. QED
  BY CallInvariant, <1>1, PTL

\* Where no solve was cut off, C3 is given up and infeasibility diagnosed only with reason.
THEOREM CompleteSearchesAreTruthful == Spec => []CompleteSearchIsTruthful
<1>1. CallInv => CompleteSearchIsTruthful
  BY DEF CallInv
<1>q. QED
  BY CallInvariant, <1>1, PTL

-----------------------------------------------------------------------------
(* What travel costs. *)

LEMMA WaysAreNatural ==
    ASSUME NEW r \in Districts, NEW d \in Districts
    PROVE  GreatCircle[r, d] * TravelParams.detour \in Nat
<1>1. GreatCircle[r, d] \in Nat
  <2>1. GreatCircle \in [Districts \X Districts -> Nat]
    BY TravelAssumption
  <2>q. QED
    BY <2>1
<1>2. TravelParams.detour \in Nat
  BY ObjectiveAssumption DEF TravelParameters, TravelParametersAccepted
<1>3. \A m, n \in Nat : m * n \in Nat
  OBVIOUS
<1>q. QED
  BY <1>1, <1>2, <1>3

LEMMA CallsSendNobodyFurther == CallInv => TravelCostNeverFalls
<1>1. ASSUME CallInv PROVE TravelCostNeverFalls
  <2> SUFFICES ASSUME outcome.kind = "AssignmentResult",
                      NEW price \in Prices,
                      NEW near \in Distances(outcome.assignments),
                      NEW far \in Distances(outcome.assignments),
                      near <= far
               PROVE  price[near].cost <= price[far].cost
                          + Tolerance * (price[far].band - price[near].band)
    BY DEF TravelCostNeverFalls
  <2> DEFINE D == Distances(Posts)
  <2>1. outcome.assignments \subseteq Posts
    BY <1>1, ProblemFacts DEF CallInv, OutcomeIsAccounted
  <2>2. near \in D /\ far \in D
    BY <2>1 DEF Distances
  <2>3. D \subseteq Nat
    <3>1. ASSUME NEW p \in Posts
          PROVE  GreatCircle[ResidenceOf[p[1]], DistrictOf[p[2]]] * TravelParams.detour \in Nat
      <4>1. ResidenceOf[p[1]] \in Districts /\ DistrictOf[p[2]] \in Districts
        BY ObjectiveAssumption DEF Posts
      <4>q. QED
        BY <4>1, WaysAreNatural
    <3>q. QED
      BY <3>1 DEF Distances
  <2> HIDE DEF D
  <2>4. PICK bands \in BandTables :
            /\ CostModelAccepted(bands)
            /\ price = [d \in D |-> [cost |-> CostFor(bands, d), band |-> Min(Matching(bands, d))]]
    BY DEF Prices, PriceLists, D
  <2>5. bands \in Seq(CostBands(Int, Int))
    BY TablesAreSequences
  <2>6. CostFor(bands, near) <= CostFor(bands, far)
            + Tolerance * (Min(Matching(bands, far)) - Min(Matching(bands, near)))
    BY <2>2, <2>3, <2>4, <2>5, CostClimbs
  <2>7. /\ price[near].cost = CostFor(bands, near) /\ price[near].band = Min(Matching(bands, near))
        /\ price[far].cost = CostFor(bands, far) /\ price[far].band = Min(Matching(bands, far))
    BY <2>2, <2>4
  <2>q. QED
    BY <2>6, <2>7
<1>q. QED
  BY <1>1

\* BR-D04 as far as it holds: the sending of somebody further never pays by more than
\* the tolerances of the boundaries between.  (CostModel._validate_monotonic)
THEOREM LongerWaysAreDearer == Spec => []TravelCostNeverFalls
BY CallInvariant, CallsSendNobodyFurther, PTL

-----------------------------------------------------------------------------
(* How many people are required, and how many there are. *)

\* A roster that fills each facility to its headcount is as large as all headcounts.
LEMMA RosterSize ==
    ASSUME NEW p \in AnyProblem, NEW c3, NEW X \in Solutions(p, c3)
    PROVE  Cardinality(X) = TotalRequired(p) /\ TotalRequired(p) \in Nat
<1> DEFINE F == p.facilities
           Within(G) == {a \in X : a[2] \in G}
           Good == {G \in SUBSET F : Cardinality(Within(G)) = SumFunctionOnSet(p.headcount, G)}
<1>1. /\ F \subseteq Facilities /\ X \subseteq ModelPairs(p) /\ X \in SUBSET Posts
      /\ \A f \in F : Cardinality(At(X, f)) = p.headcount[f]
  BY DEF AnyProblem, Problems, Solutions, CommonRows, ModelPairs, Posts
<1>2. IsFiniteSet(F) /\ \A f \in F : p.headcount[f] \in Nat /\ p.headcount[f] \in Int
  <2>1. p.headcount \in [Facilities -> Nat]
    BY DEF AnyProblem, Problems
  <2>q. QED
    BY <1>1, <2>1, FS_Subset, ConstraintsAssumption
<1>3. {} \in Good
  <2>1. Within({}) = {}
    OBVIOUS
  <2>q. QED
    BY <2>1, SumOfNothing, FS_EmptySet
<1>4. ASSUME NEW G \in SUBSET F, NEW f \in G, G \ {f} \in Good PROVE G \in Good
  <2>1. /\ Within(G) = Within(G \ {f}) \cup At(X, f)
        /\ Within(G \ {f}) \cap At(X, f) = {}
        /\ Within(G \ {f}) \in SUBSET Posts /\ At(X, f) \in SUBSET Posts
    BY <1>1 DEF At
  <2> DEFINE A == Within(G \ {f})
             B == At(X, f)
  <2> HIDE DEF Within, A, B
  <2>2. IsFiniteSet(A) /\ IsFiniteSet(B) /\ Cardinality(A) \in Nat
    BY <2>1, RostersAreFinite DEF A, B
  <2>3. Cardinality(A \cup B) = Cardinality(A) + Cardinality(B)
    <3>1. A \cap B = {}
      BY <2>1 DEF A, B
    <3>2. Cardinality(A \cup B) = Cardinality(A) + Cardinality(B) - Cardinality(A \cap B)
      BY <2>2, FS_Union
    <3>3. Cardinality(A \cap B) = 0
      BY <3>1, FS_EmptySet
    <3>4. Cardinality(B) \in Nat
      BY <2>2, FS_CardinalityType
    <3>q. QED
      BY <2>2, <3>2, <3>3, <3>4
  <2>4. Cardinality(A) = SumFunctionOnSet(p.headcount, G \ {f})
    BY <1>4 DEF A
  <2>5. Cardinality(B) = p.headcount[f]
    BY <1>1 DEF B
  <2>6. SumFunctionOnSet(p.headcount, G) = p.headcount[f] + SumFunctionOnSet(p.headcount, G \ {f})
    BY <1>2, SumStep
  <2>7. Cardinality(Within(G)) = Cardinality(A \cup B)
    BY <2>1 DEF A, B
  <2>q. QED
    BY <1>2, <2>2, <2>3, <2>4, <2>5, <2>6, <2>7
<1>5. F \in Good
  <2>1. IsFiniteSet(F)
    BY <1>2
  <2>2. \A G \in SUBSET F : \A f \in G : G \ {f} \in Good => G \in Good
    BY <1>4
  <2> HIDE DEF Good, F
  <2>q. QED
    BY <2>1, <2>2, <1>3, SetInduction
<1>6. Within(F) = X
  BY <1>1 DEF ModelPairs
<1>7. SumFunctionOnSet(p.headcount, F) \in Nat
  BY <1>2, SumIsNatural
<1>q. QED
  BY <1>5, <1>6, <1>7 DEF TotalRequired

\* Nobody serves twice, so a roster is no larger than the people available.
LEMMA RosterNeedsPeople ==
    ASSUME NEW p \in AnyProblem, NEW c3, NEW X \in Solutions(p, c3)
    PROVE  Cardinality(X) <= Cardinality(p.available)
<1> DEFINE who == [a \in X |-> a[1]]
<1>1. X \subseteq ModelPairs(p) /\ X \in SUBSET Posts /\ p.available \subseteq Staff
  BY DEF AnyProblem, Problems, Solutions, ModelPairs, Posts
<1>2. ASSUME NEW a \in X, NEW b \in X, a[1] = b[1] PROVE a = b
  <2>1. Cardinality(PostsOf(X, a[1])) <= 1
    BY <1>1 DEF Solutions, CommonRows, ModelPairs
  <2>2. IsFiniteSet(PostsOf(X, a[1]))
    BY <1>1, RostersAreFinite, PartsAreFinite
  <2>3. a \in PostsOf(X, a[1]) /\ b \in PostsOf(X, a[1])
    BY <1>2 DEF PostsOf
  <2>q. QED
    BY AtMostOne, <2>1, <2>2, <2>3
<1>3. who \in Injection(X, p.available)
  <2>1. who \in [X -> p.available]
    BY <1>1 DEF ModelPairs
  <2>2. \A a, b \in DOMAIN who : who[a] = who[b] => a = b
    BY <1>2
  <2> HIDE DEF who
  <2>q. QED
    BY <2>1, <2>2 DEF Injection, IsInjective
<1>4. IsFiniteSet(p.available)
  BY <1>1, FS_Subset, ConstraintsAssumption
<1>q. QED
  BY <1>3, <1>4, FS_Injection

LEMMA RequirementsAreNatural ==
    ASSUME NEW p \in AnyProblem
    PROVE  TotalRequired(p) \in Nat /\ IsFiniteSet(p.available) /\ Cardinality(p.available) \in Nat
<1>1. p.facilities \subseteq Facilities /\ p.available \subseteq Staff
  BY DEF AnyProblem, Problems
<1>2. IsFiniteSet(p.facilities) /\ IsFiniteSet(p.available)
  BY <1>1, FS_Subset, ConstraintsAssumption
<1>3. \A f \in p.facilities : p.headcount[f] \in Nat
  BY <1>1 DEF AnyProblem, Problems
<1>q. QED
  BY <1>2, <1>3, SumIsNatural, FS_CardinalityType DEF TotalRequired

LEMMA CallsCountRight == CallInv => ShortageIsReal
<1>1. ASSUME CallInv PROVE ShortageIsReal
  <2> SUFFICES ASSUME outcome.kind = "InfeasibilityDiagnosis"
               PROVE  /\ outcome.cause = "TOTAL_SHORTAGE" => Solutions(problem, "dropped") = {}
                      /\ outcome.shortage + Cardinality(problem.available)
                            >= TotalRequired(problem)
    BY DEF ShortageIsReal
  <2> DEFINE required == TotalRequired(problem)
             people == Cardinality(problem.available)
  <2>1. problem \in AnyProblem
    BY <1>1, ProblemFacts DEF CallInv
  <2>2. required \in Nat /\ people \in Nat
    BY <2>1, RequirementsAreNatural
  <2>3. /\ outcome.shortage = Max({0, required - people})
        /\ outcome.cause = "TOTAL_SHORTAGE" => outcome.shortage > 0
    BY <1>1 DEF CallInv, OutcomeIsAccounted, TotalShortage
  <2>4. /\ Max({0, required - people}) \in {0, required - people}
        /\ Max({0, required - people}) >= required - people
    <3> DEFINE d == required - people
    <3> HIDE DEF required, people
    <3>1. 0 \in Int /\ d \in Int
      BY <2>2
    <3> HIDE DEF d
    <3>2. Max({0, d}) \in {0, d} /\ Max({0, d}) >= d
      BY <3>1, MaxOfTwo
    <3>q. QED
      BY <3>2 DEF d
  <2>5. \A X \in Solutions(problem, "dropped") : required <= people
    BY <2>1, RosterSize, RosterNeedsPeople
  <2> HIDE DEF required, people
  <2>6. outcome.shortage + people >= required
    BY <2>2, <2>3, <2>4
  <2>7. ASSUME outcome.cause = "TOTAL_SHORTAGE" PROVE Solutions(problem, "dropped") = {}
    <3>1. ~(required <= people)
      BY <2>2, <2>3, <2>4, <2>7
    <3>q. QED
      BY <2>5, <3>1
  <2>q. QED
    BY <2>6, <2>7 DEF required, people
<1>q. QED
  BY <1>1

\* A TOTAL_SHORTAGE diagnosis is right even if every solve ran out of time, and no fewer
\* people than the shortage would do.  (diagnoser.py)
THEOREM ShortagesAreReal == Spec => []ShortageIsReal
BY CallInvariant, CallsCountRight, PTL

-----------------------------------------------------------------------------
(* What an OPTIMAL result is best at. *)

LEMMA Arithmetic ==
    /\ \A m, n \in Nat : m + n \in Nat /\ m * n \in Nat
    /\ \A m, n, k \in Nat : m <= n => m * k <= n * k /\ k * m <= k * n
    /\ \A m, n \in Nat \ {0} : m * n \in Nat \ {0}
OBVIOUS

\* Each way takes a natural number of seconds and costs a natural amount.
LEMMA TravelIsNatural ==
    \A p \in Posts : TravelTimes[p] \in Nat /\ TravelCosts[p] \in Nat
<1> SUFFICES ASSUME NEW p \in Posts PROVE TravelTimes[p] \in Nat /\ TravelCosts[p] \in Nat
  OBVIOUS
<1> DEFINE from == ResidenceOf[p[1]]
           to == DistrictOf[p[2]]
           distance == GreatCircle[from, to] * TravelParams.detour
           bands == TravelParams.bands
<1>1. from \in Districts /\ to \in Districts
  BY ObjectiveAssumption DEF Posts
<1>2. distance \in Nat
  BY <1>1, WaysAreNatural
<1>3. /\ bands \in Seq(CostBands(Int, Int)) /\ CostModelAccepted(bands)
      /\ TravelParams.speed \in Nat \ {0} /\ TravelParams.sameDistrict \in Nat
  BY ObjectiveAssumption DEF TravelParameters, TravelParametersAccepted
<1>4. TravelTimes[p] = Metrics(p).time /\ TravelCosts[p] = Metrics(p).cost
  BY DEF TravelTimes, TravelCosts
<1>5. Metrics(p) = IF from = to
                   THEN [time |-> TravelParams.sameDistrict, cost |-> 0]
                   ELSE [time |-> TravelTimeSeconds(distance, TravelParams.speed),
                         cost |-> CostFor(bands, distance)]
  BY DEF Metrics, ComputeTravelMetrics
<1> HIDE DEF distance, bands
<1>6. TravelTimeSeconds(distance, TravelParams.speed) \in Nat
  <2>1. \A n \in Nat, d \in Nat \ {0} : (360 * n + d - 1) \div d \in Nat
    OBVIOUS
  <2>q. QED
    BY <1>2, <1>3, <2>1 DEF TravelTimeSeconds
<1>7. CostFor(bands, distance) \in Nat
  <2> DEFINE i == Min(Matching(bands, distance))
  <2>1. i \in 1 .. Len(bands)
    BY <1>2, <1>3, MatchedBand
  <2> HIDE DEF i
  <2>2. bands[i].rule \in {"FLAT", "PER_KM"} /\ bands[i].amount \in Nat
    BY <1>3, <2>1, AcceptedBands
  <2>3. CostAt(bands[i], distance) \in Nat
    BY <1>2, <2>2, CostRisesWithin
  <2>q. QED
    BY <2>3 DEF CostFor, i
<1>q. QED
  BY <1>3, <1>4, <1>5, <1>6, <1>7

\* A rounded quotient is off by a half at most.
LEMMA RoundedIsNear ==
    ASSUME NEW n \in Nat, NEW d \in Nat \ {0}
    PROVE  /\ Rounded(n, d) \in Nat
           /\ 2 * (d * Rounded(n, d)) <= 2 * n + d
           /\ 2 * n <= 2 * (d * Rounded(n, d)) + d
<1> DEFINE q == n \div d
           r == n % d
<1>1. q \in Nat /\ r \in Nat /\ r < d /\ n = d * q + r
  OBVIOUS
<1>2. \/ Rounded(n, d) = q + 1 /\ 2 * r >= d
      \/ Rounded(n, d) = q /\ 2 * r <= d
  <2>1. Rounded(n, d) = IF 2 * r > d \/ (2 * r = d /\ q % 2 = 1) THEN q + 1 ELSE q
    BY DEF Rounded
  <2> HIDE DEF q, r
  <2>q. QED
    BY <1>1, <2>1
<1> HIDE DEF q, r
<1>3. d * (q + 1) = d * q + d /\ d * q \in Nat
  BY <1>1
<1>q. QED
  BY <1>1, <1>2, <1>3

\* The longest way of a roster, and the dearest of all.
LEMMA LongestWay ==
    ASSUME NEW X \in SUBSET Posts
    PROVE  /\ MaxSeconds(X) \in Nat /\ MaxYen(X) \in Nat
           /\ \A q \in X : TravelTimes[q] <= MaxSeconds(X) /\ TravelCosts[q] <= MaxYen(X)
           /\ \A Y \in SUBSET X : MaxSeconds(Y) <= MaxSeconds(X)
<1>1. ASSUME NEW Y \in SUBSET Posts
      PROVE  /\ MaxSeconds(Y) \in Nat
             /\ MaxSeconds(Y) = 0 \/ \E q \in Y : MaxSeconds(Y) = TravelTimes[q]
             /\ \A q \in Y : TravelTimes[q] <= MaxSeconds(Y)
  <2>1. IsFiniteSet(Y) /\ \A q \in Y : TravelTimes[q] \in Nat
    BY RostersAreFinite, TravelIsNatural
  <2>q. QED
    BY <2>1, MaxOfValues DEF MaxSeconds
<1>2. MaxYen(X) \in Nat /\ \A q \in X : TravelCosts[q] <= MaxYen(X)
  <2>1. IsFiniteSet(X) /\ \A q \in X : TravelCosts[q] \in Nat
    BY RostersAreFinite, TravelIsNatural
  <2>q. QED
    BY <2>1, MaxOfValues DEF MaxYen
<1>3. ASSUME NEW Y \in SUBSET X PROVE MaxSeconds(Y) <= MaxSeconds(X)
  <2>1. Y \in SUBSET Posts
    OBVIOUS
  <2>q. QED
    BY <1>1, <2>1
<1>q. QED
  BY <1>1, <1>2, <1>3

\* The scales are positive and no roster exceeds them.
LEMMA ScalesAreUpperBounds ==
    ASSUME NEW p \in AnyProblem
    PROVE  LET norm == Normalisation(p)
           IN  /\ norm.time \in Nat \ {0} /\ norm.cost \in Nat \ {0} /\ norm.single \in Nat \ {0}
               /\ MaxSeconds(ModelPairs(p)) <= norm.single
               /\ TotalRequired(p) * MaxSeconds(ModelPairs(p)) <= norm.time
               /\ TotalRequired(p) * MaxYen(ModelPairs(p)) <= norm.cost
<1> DEFINE n == TotalRequired(p)
           S == MaxSeconds(ModelPairs(p))
           Y == MaxYen(ModelPairs(p))
           n1 == Max({n, 1})
           s1 == Max({S, 1})
           y1 == Max({Y, 10})
<1>1. n \in Nat
  BY RequirementsAreNatural
<1>2. S \in Nat /\ Y \in Nat
  <2>1. ModelPairs(p) \in SUBSET Posts
    BY DEF AnyProblem, Problems, ModelPairs, Posts
  <2>q. QED
    BY <2>1, LongestWay
<1>3. /\ Normalisation(p).time = n1 * s1
      /\ Normalisation(p).cost = n1 * y1
      /\ Normalisation(p).single = s1
  BY DEF Normalisation
<1> HIDE DEF n, S, Y
<1>4. /\ n1 \in {n, 1} /\ n1 >= n /\ n1 >= 1
      /\ s1 \in {S, 1} /\ s1 >= S /\ s1 >= 1
      /\ y1 \in {Y, 10} /\ y1 >= Y /\ y1 >= 10
  <2>1. n1 \in {n, 1} /\ n1 >= n /\ n1 >= 1
    BY <1>1, MaxOfTwo
  <2>2. s1 \in {S, 1} /\ s1 >= S /\ s1 >= 1
    BY <1>2, MaxOfTwo
  <2>3. y1 \in {Y, 10} /\ y1 >= Y /\ y1 >= 10
    BY <1>2, MaxOfTwo
  <2>q. QED
    BY <2>1, <2>2, <2>3
<1> HIDE DEF n1, s1, y1
<1>5. /\ n1 \in Nat \ {0} /\ s1 \in Nat \ {0} /\ y1 \in Nat \ {0}
      /\ n <= n1 /\ S <= s1 /\ Y <= y1
  BY <1>1, <1>2, <1>4
<1>6. n1 * s1 \in Nat \ {0} /\ n1 * y1 \in Nat \ {0}
  BY <1>5, Arithmetic
<1>7. n * S <= n1 * S /\ n1 * S <= n1 * s1 /\ n * Y <= n1 * Y /\ n1 * Y <= n1 * y1
  BY <1>1, <1>2, <1>5, Arithmetic
<1>8. n * S \in Nat /\ n1 * S \in Nat /\ n * Y \in Nat /\ n1 * Y \in Nat
  BY <1>1, <1>2, <1>5, Arithmetic
<1>9. n * S <= n1 * s1 /\ n * Y <= n1 * y1
  BY <1>6, <1>7, <1>8
<1>q. QED
  BY <1>3, <1>5, <1>6, <1>9 DEF n, S, Y

\* Nearness of the scaled sum and of the scaled longest way, brought to one denominator.
LEMMA NearObjective ==
    ASSUME NEW a \in Nat, NEW b \in Nat, NEW c \in Nat,
           NEW w1 \in Nat, NEW w2 \in Nat, NEW w3 \in Nat, NEW n \in Nat,
           NEW K \in Nat, NEW T \in Nat, NEW C \in Nat, NEW M \in Nat, NEW m \in Nat,
           Near(2 * (a * b), K, 2 * (w1 * b), T, 2 * (w2 * a), C, n * (a * b)),
           2 * (c * m) <= 2 * w3 + c, 2 * w3 <= 2 * (c * m) + c, M <= c
    PROVE  LET N == w1 * T * b * c + w2 * C * a * c + w3 * M * a * b
               V == K + m * M
               E == a * b * c
           IN  /\ N \in Nat /\ V \in Nat /\ E \in Nat
               /\ 2 * (E * V) <= 2 * N + E * (n + c)
               /\ 2 * N <= 2 * (E * V) + E * (n + c)
<1> DEFINE e == a * b
           x == w1 * b * T
           y == w2 * a * C
           z == w3 * (e * M)
           f == n * e
           eK == e * K
           cm == c * m
<1>1. e \in Nat /\ x \in Nat /\ y \in Nat /\ z \in Nat /\ f \in Nat /\ eK \in Nat /\ cm \in Nat
  BY Arithmetic
<1>2. 2 * eK <= 2 * x + 2 * y + f /\ 2 * x + 2 * y <= 2 * eK + f
  <2>1. /\ (2 * (a * b)) * K = 2 * eK
        /\ (2 * (w1 * b)) * T = 2 * x
        /\ (2 * (w2 * a)) * C = 2 * y
    OBVIOUS
  <2>q. QED
    BY <2>1 DEF Near
<1>3. 2 * (eK * c) <= 2 * (x * c) + 2 * (y * c) + f * c
  <2> HIDE DEF eK, x, y, f
  <2>1. (2 * eK) * c <= (2 * x + 2 * y + f) * c
    BY <1>1, <1>2, Arithmetic
  <2>q. QED
    BY <1>1, <2>1
<1>4. 2 * (x * c) + 2 * (y * c) <= 2 * (eK * c) + f * c
  <2> HIDE DEF eK, x, y, f
  <2>1. (2 * x + 2 * y) * c <= (2 * eK + f) * c
    BY <1>1, <1>2, Arithmetic
  <2>q. QED
    BY <1>1, <2>1
<1> DEFINE eM == e * M
<1>5. eM \in Nat /\ eM <= e * c
  BY <1>1, Arithmetic
<1>6. 2 * (cm * eM) <= 2 * z + c * eM /\ 2 * z <= 2 * (cm * eM) + c * eM
  <2> HIDE DEF eM, cm
  <2>1. (2 * cm) * eM <= (2 * w3 + c) * eM /\ (2 * w3) * eM <= (2 * cm + c) * eM
    <3>1. 2 * cm <= 2 * w3 + c /\ 2 * w3 <= 2 * cm + c
      BY DEF cm
    <3>q. QED
      BY <1>1, <1>5, <3>1, Arithmetic
  <2>2. z = w3 * eM
    BY DEF eM
  <2> HIDE DEF z
  <2>q. QED
    BY <1>1, <1>5, <2>1, <2>2
<1>7. c * eM <= c * (e * c)
  BY <1>1, <1>5, Arithmetic
<1>8. /\ (a * b * c) * (K + m * M) = eK * c + cm * eM
      /\ w1 * T * b * c + w2 * C * a * c + w3 * M * a * b = x * c + y * c + z
      /\ (a * b * c) * (n + c) = f * c + c * (e * c)
  OBVIOUS
<1>9. /\ eK * c \in Nat /\ cm * eM \in Nat /\ x * c \in Nat /\ y * c \in Nat
      /\ f * c \in Nat /\ c * (e * c) \in Nat /\ c * eM \in Nat
  BY <1>1, <1>5, Arithmetic
<1>10. K + m * M \in Nat /\ a * b * c \in Nat
  BY Arithmetic
<1> DEFINE EV == eK * c + cm * eM
           N == x * c + y * c + z
           Off == f * c + c * (e * c)
<1>11. 2 * EV <= 2 * N + Off /\ 2 * N <= 2 * EV + Off /\ N \in Nat
  <2> HIDE DEF e, x, y, z, f, eK, cm, eM
  <2>q. QED
    BY <1>1, <1>3, <1>4, <1>6, <1>7, <1>9
<1>12. /\ (a * b * c) * (K + m * M) = EV
       /\ w1 * T * b * c + w2 * C * a * c + w3 * M * a * b = N
       /\ (a * b * c) * (n + c) = Off
  BY <1>8
<1> HIDE DEF EV, N, Off
<1>q. QED
  BY <1>10, <1>11, <1>12

\* The scaled sum stays below the weights it is made of, but for the rounding.
LEMMA SumIsSmall ==
    ASSUME NEW a \in Nat \ {0}, NEW b \in Nat \ {0}, NEW w1 \in Nat, NEW w2 \in Nat, NEW n \in Nat,
           NEW K \in Nat, NEW T \in Nat, NEW C \in Nat, T <= a, C <= b,
           Near(2 * (a * b), K, 2 * (w1 * b), T, 2 * (w2 * a), C, n * (a * b))
    PROVE  2 * K <= 2 * w1 + 2 * w2 + n
<1> DEFINE e == a * b
<1>1. e \in Nat \ {0}
  BY Arithmetic
<1>2. b * T <= e /\ a * C <= e /\ b * T \in Nat /\ a * C \in Nat
  BY Arithmetic
<1>3. 2 * (e * K) <= 2 * (w1 * (b * T)) + 2 * (w2 * (a * C)) + n * e
  <2>1. /\ (2 * (a * b)) * K = 2 * (e * K)
        /\ (2 * (w1 * b)) * T = 2 * (w1 * (b * T))
        /\ (2 * (w2 * a)) * C = 2 * (w2 * (a * C))
    OBVIOUS
  <2>q. QED
    BY <2>1 DEF Near
<1> DEFINE bT == b * T
           aC == a * C
<1> HIDE DEF e, bT, aC
<1>4. w1 * bT <= w1 * e /\ w2 * aC <= w2 * e
  BY <1>1, <1>2, Arithmetic DEF bT, aC
<1>5. 2 * (e * K) <= e * (2 * w1 + 2 * w2 + n)
  <2>1. 2 * (e * K) <= 2 * (w1 * bT) + 2 * (w2 * aC) + n * e
    BY <1>3 DEF bT, aC
  <2>2. e * (2 * w1 + 2 * w2 + n) = 2 * (w1 * e) + 2 * (w2 * e) + n * e
    BY <1>1
  <2>3. /\ e * K \in Nat /\ w1 * bT \in Nat /\ w2 * aC \in Nat /\ n * e \in Nat
        /\ w1 * e \in Nat /\ w2 * e \in Nat
    BY <1>1, <1>2, Arithmetic DEF bT, aC
  <2>q. QED
    BY <1>4, <2>1, <2>2, <2>3
<1>6. ASSUME 2 * w1 + 2 * w2 + n < 2 * K PROVE FALSE
  <2> DEFINE r == 2 * w1 + 2 * w2 + n
  <2>1. r \in Nat /\ r + 1 <= 2 * K
    BY <1>6
  <2> HIDE DEF r
  <2>2. e * (r + 1) <= e * (2 * K)
    BY <1>1, <2>1, Arithmetic
  <2>3. e * (r + 1) = e * r + e /\ e * (2 * K) = 2 * (e * K) /\ e * r \in Nat /\ e * K \in Nat
    BY <1>1, <2>1, Arithmetic
  <2>4. 2 * (e * K) <= e * r
    BY <1>5 DEF r
  <2>q. QED
    BY <1>1, <2>2, <2>3, <2>4
<1>q. QED
  BY <1>6

\* What CP-SAT minimises for a roster besides the slack.
PairSum(p, X) == SumFunction([q \in X |-> PairObjectiveCoeff(Normalisation(p), q)])

Value(p, X) == PairSum(p, X) + TmaxCoeff(Normalisation(p)) * MaxSeconds(X)

\* The coefficient of a pair is off by a half at most.
LEMMA CoefficientIsNear ==
    ASSUME NEW p \in AnyProblem, NEW q \in Posts
    PROVE  LET norm == Normalisation(p)
               a == norm.time
               b == norm.cost
           IN  /\ PairObjectiveCoeff(norm, q) \in Nat
               /\ Near(2 * (a * b), PairObjectiveCoeff(norm, q),
                       2 * (Weights.time * b), TravelTimes[q],
                       2 * (Weights.cost * a), TravelCosts[q], a * b)
<1> DEFINE norm == Normalisation(p)
           a == norm.time
           b == norm.cost
           w1 == Weights.time
           w2 == Weights.cost
           t == TravelTimes[q]
           u == TravelCosts[q]
           up == w1 * t * b + w2 * u * a
           e == a * b
           k == Rounded(up, e)
<1>1. a \in Nat \ {0} /\ b \in Nat \ {0}
  BY ScalesAreUpperBounds
<1>2. w1 \in Nat /\ w2 \in Nat /\ t \in Nat /\ u \in Nat
  BY ObjectiveAssumption, TravelIsNatural
<1>3. PairObjectiveCoeff(norm, q) = k
  BY DEF PairObjectiveCoeff
<1> HIDE DEF norm, a, b, w1, w2, t, u, k
<1>4. up \in Nat /\ e \in Nat \ {0}
  BY <1>1, <1>2, Arithmetic
<1>5. k \in Nat /\ 2 * (e * k) <= 2 * up + e /\ 2 * up <= 2 * (e * k) + e
  <2> HIDE DEF up, e
  <2>q. QED
    BY <1>4, RoundedIsNear DEF k
<1>6. /\ (2 * (a * b)) * k = 2 * (e * k)
      /\ (2 * (w1 * b)) * t + (2 * (w2 * a)) * u = 2 * up
  BY <1>1, <1>2, <1>5
<1>7. Near(2 * (a * b), k, 2 * (w1 * b), t, 2 * (w2 * a), u, a * b)
  <2>1. (2 * (a * b)) * k <= (2 * (w1 * b)) * t + (2 * (w2 * a)) * u + a * b
    <3> HIDE DEF up
    <3>q. QED
      BY <1>5, <1>6
  <2>2. (2 * (w1 * b)) * t + (2 * (w2 * a)) * u <= (2 * (a * b)) * k + a * b
    <3> HIDE DEF up
    <3>q. QED
      BY <1>5, <1>6
  <2>q. QED
    BY <2>1, <2>2 DEF Near
<1>q. QED
  BY <1>3, <1>5, <1>7 DEF norm, a, b, w1, w2, t, u

\* The figures of a roster, and how they are bounded by the scales of its problem.
LEMMA RosterFigures ==
    ASSUME NEW p \in AnyProblem, NEW c3, NEW X \in Solutions(p, c3)
    PROVE  LET norm == Normalisation(p)
               a == norm.time
               b == norm.cost
               c == norm.single
               n == TotalRequired(p)
               T == SumFunctionOnSet(TravelTimes, X)
               C == SumFunctionOnSet(TravelCosts, X)
           IN  /\ n \in Nat /\ PairSum(p, X) \in Nat /\ T \in Nat /\ C \in Nat
               /\ MaxSeconds(X) \in Nat /\ TmaxCoeff(norm) \in Nat
               /\ Near(2 * (a * b), PairSum(p, X), 2 * (Weights.time * b), T,
                       2 * (Weights.cost * a), C, n * (a * b))
               /\ 2 * (c * TmaxCoeff(norm)) <= 2 * Weights.inequity + c
               /\ 2 * Weights.inequity <= 2 * (c * TmaxCoeff(norm)) + c
               /\ MaxSeconds(X) <= c /\ T <= a /\ C <= b
<1> DEFINE norm == Normalisation(p)
           a == norm.time
           b == norm.cost
           c == norm.single
           n == TotalRequired(p)
           T == SumFunctionOnSet(TravelTimes, X)
           C == SumFunctionOnSet(TravelCosts, X)
           k == [q \in X |-> PairObjectiveCoeff(norm, q)]
           P == ModelPairs(p)
<1>1. X \subseteq P /\ P \in SUBSET Posts /\ X \in SUBSET Posts
  BY DEF Solutions, AnyProblem, Problems, ModelPairs, Posts
<1>2. IsFiniteSet(X) /\ Cardinality(X) = n /\ n \in Nat
  BY <1>1, RostersAreFinite, RosterSize
<1>3. /\ a \in Nat \ {0} /\ b \in Nat \ {0} /\ c \in Nat \ {0}
      /\ MaxSeconds(P) <= c /\ n * MaxSeconds(P) <= a /\ n * MaxYen(P) <= b
  BY ScalesAreUpperBounds
<1>4. /\ MaxSeconds(P) \in Nat /\ MaxYen(P) \in Nat /\ MaxSeconds(X) \in Nat
      /\ MaxSeconds(X) <= MaxSeconds(P)
      /\ \A q \in X : TravelTimes[q] <= MaxSeconds(P) /\ TravelCosts[q] <= MaxYen(P)
  BY <1>1, LongestWay
<1>5. \A q \in X : /\ TravelTimes[q] \in Nat /\ TravelTimes[q] \in Int
                  /\ TravelCosts[q] \in Nat /\ TravelCosts[q] \in Int
  BY <1>1, TravelIsNatural
<1>6. T \in Nat /\ C \in Nat
  BY <1>2, <1>5, SumIsNatural
<1>7. T <= a
  <2>1. T <= Cardinality(X) * MaxSeconds(P)
    BY <1>2, <1>4, <1>5, SumAtMost
  <2>2. n * MaxSeconds(P) \in Nat
    BY <1>2, <1>4, Arithmetic
  <2> HIDE DEF T, a, n, P
  <2>q. QED
    BY <1>2, <1>3, <1>6, <2>1, <2>2
<1>8. C <= b
  <2>1. C <= Cardinality(X) * MaxYen(P)
    BY <1>2, <1>4, <1>5, SumAtMost
  <2>2. n * MaxYen(P) \in Nat
    BY <1>2, <1>4, Arithmetic
  <2> HIDE DEF C, b, n, P
  <2>q. QED
    BY <1>2, <1>3, <1>6, <2>1, <2>2
<1>9. PairSum(p, X) = SumFunctionOnSet(k, X)
  BY DEF PairSum, SumFunction
<1>10. \A q \in X : /\ k[q] \in Nat /\ k[q] \in Int
                   /\ Near(2 * (a * b), k[q], 2 * (Weights.time * b), TravelTimes[q],
                           2 * (Weights.cost * a), TravelCosts[q], a * b)
  <2>1. ASSUME NEW q \in X
        PROVE  /\ k[q] \in Nat
               /\ Near(2 * (a * b), k[q], 2 * (Weights.time * b), TravelTimes[q],
                       2 * (Weights.cost * a), TravelCosts[q], a * b)
    <3>1. k[q] = PairObjectiveCoeff(norm, q) /\ q \in Posts
      BY <1>1
    <3>q. QED
      BY <3>1, CoefficientIsNear
  <2>q. QED
    BY <2>1
<1>11. SumFunctionOnSet(k, X) \in Nat
  <2> HIDE DEF k
  <2>q. QED
    BY <1>2, <1>10, SumIsNatural
<1>12. Near(2 * (a * b), SumFunctionOnSet(k, X), 2 * (Weights.time * b), T,
            2 * (Weights.cost * a), C, n * (a * b))
  <2> DEFINE A == 2 * (a * b)
             B == 2 * (Weights.time * b)
             D == 2 * (Weights.cost * a)
             e == a * b
  <2>1. A \in Nat /\ B \in Nat /\ D \in Nat /\ e \in Nat
    BY <1>3, ObjectiveAssumption, Arithmetic
  <2>2. \A q \in X : Near(A, k[q], B, TravelTimes[q], D, TravelCosts[q], e)
    BY <1>10
  <2> HIDE DEF k, A, B, D, e
  <2>3. Near(A, SumFunctionOnSet(k, X), B, T, D, C, Cardinality(X) * e)
    BY <1>2, <1>5, <1>10, <2>1, <2>2, SumsRounded
  <2>q. QED
    BY <1>2, <2>3 DEF A, B, D, e
<1>13. /\ TmaxCoeff(norm) \in Nat
       /\ 2 * (c * TmaxCoeff(norm)) <= 2 * Weights.inequity + c
       /\ 2 * Weights.inequity <= 2 * (c * TmaxCoeff(norm)) + c
  BY <1>3, ObjectiveAssumption, RoundedIsNear DEF TmaxCoeff
<1>14. MaxSeconds(X) <= c
  BY <1>3, <1>4
<1> HIDE DEF k
<1>q. QED
  BY <1>2, <1>4, <1>6, <1>7, <1>8, <1>9, <1>11, <1>12, <1>13, <1>14

\* What CP-SAT minimises follows the exact objective, but for the rounding.
LEMMA ValueIsNear ==
    ASSUME NEW p \in AnyProblem, NEW c3, NEW X \in Solutions(p, c3)
    PROVE  LET norm == Normalisation(p)
               E == norm.time * norm.cost * norm.single
               off == E * (TotalRequired(p) + norm.single)
           IN  /\ NormalisedObjective(p, X) \in Nat /\ Value(p, X) \in Nat
               /\ E \in Nat /\ off \in Nat
               /\ 2 * (E * Value(p, X)) <= 2 * NormalisedObjective(p, X) + off
               /\ 2 * NormalisedObjective(p, X) <= 2 * (E * Value(p, X)) + off
<1> DEFINE norm == Normalisation(p)
           a == norm.time
           b == norm.cost
           c == norm.single
           n == TotalRequired(p)
           K == PairSum(p, X)
           T == SumFunctionOnSet(TravelTimes, X)
           C == SumFunctionOnSet(TravelCosts, X)
           M == MaxSeconds(X)
           m == TmaxCoeff(norm)
           w1 == Weights.time
           w2 == Weights.cost
           w3 == Weights.inequity
<1>1. a \in Nat /\ b \in Nat /\ c \in Nat
  BY ScalesAreUpperBounds
<1>2. w1 \in Nat /\ w2 \in Nat /\ w3 \in Nat
  BY ObjectiveAssumption
<1>3. /\ n \in Nat /\ K \in Nat /\ T \in Nat /\ C \in Nat /\ M \in Nat /\ m \in Nat
      /\ Near(2 * (a * b), K, 2 * (w1 * b), T, 2 * (w2 * a), C, n * (a * b))
      /\ 2 * (c * m) <= 2 * w3 + c /\ 2 * w3 <= 2 * (c * m) + c /\ M <= c
  BY RosterFigures
<1>4. /\ Value(p, X) = K + m * M
      /\ NormalisedObjective(p, X) = w1 * T * b * c + w2 * C * a * c + w3 * M * a * b
  BY DEF Value, NormalisedObjective
<1> HIDE DEF norm, a, b, c, n, K, T, C, M, m, w1, w2, w3
<1>5. a * b * c * (n + c) \in Nat
  BY <1>1, <1>3, Arithmetic
<1> DEFINE N == w1 * T * b * c + w2 * C * a * c + w3 * M * a * b
           V == K + m * M
           E == a * b * c
<1>6. /\ N \in Nat /\ V \in Nat /\ E \in Nat
      /\ 2 * (E * V) <= 2 * N + E * (n + c)
      /\ 2 * N <= 2 * (E * V) + E * (n + c)
  BY <1>1, <1>2, <1>3, NearObjective
<1>7. Value(p, X) = V /\ NormalisedObjective(p, X) = N
  BY <1>4
<1>8. E * (n + c) \in Nat
  BY <1>5
<1> HIDE DEF N, V
<1>q. QED
  BY <1>6, <1>7, <1>8 DEF norm, a, b, c, n, E

\* Where the rounding of the longest way fits the margin, big_m exceeds whatever the
\* rest of the objective can be.  (scaling.py:69)
LEMMA BigMIsAnUpperBound ==
    ASSUME NEW p \in AnyProblem, NEW c3, NEW X \in Solutions(p, c3), RoundingFits(p)
    PROVE  BigM(p) \in Nat /\ Value(p, X) < BigM(p)
<1> DEFINE norm == Normalisation(p)
           a == norm.time
           b == norm.cost
           c == norm.single
           n == TotalRequired(p)
           K == PairSum(p, X)
           T == SumFunctionOnSet(TravelTimes, X)
           C == SumFunctionOnSet(TravelCosts, X)
           M == MaxSeconds(X)
           m == TmaxCoeff(norm)
           w1 == Weights.time
           w2 == Weights.cost
           w3 == Weights.inequity
           pairs == Cardinality(ModelPairs(p))
<1>1. a \in Nat \ {0} /\ b \in Nat \ {0} /\ c \in Nat \ {0}
  BY ScalesAreUpperBounds
<1>2. w1 \in Nat /\ w2 \in Nat /\ w3 \in Nat
  BY ObjectiveAssumption
<1>3. /\ n \in Nat /\ K \in Nat /\ T \in Nat /\ C \in Nat /\ M \in Nat /\ m \in Nat
      /\ Near(2 * (a * b), K, 2 * (w1 * b), T, 2 * (w2 * a), C, n * (a * b))
      /\ M <= c /\ T <= a /\ C <= b
  BY RosterFigures
<1>4. n <= pairs /\ pairs \in Nat
  <2>1. ModelPairs(p) \in SUBSET Posts /\ X \in SUBSET ModelPairs(p)
    BY DEF Solutions, AnyProblem, Problems, ModelPairs, Posts
  <2>2. IsFiniteSet(ModelPairs(p)) /\ Cardinality(ModelPairs(p)) \in Nat
    BY <2>1, RostersAreFinite
  <2>3. Cardinality(X) <= Cardinality(ModelPairs(p))
    BY <2>1, <2>2, FS_Subset
  <2>4. Cardinality(X) = n
    BY RosterSize
  <2>q. QED
    BY <2>2, <2>3, <2>4
<1>5. 2 * (m * c - w3) <= pairs + 2
  BY DEF RoundingFits
<1>6. BigM(p) = w1 + w2 + w3 + pairs + 2 /\ Value(p, X) = K + m * M
  BY DEF BigM, Value
<1> HIDE DEF norm, a, b, c, n, K, T, C, M, m, w1, w2, w3, pairs
<1>7. 2 * K <= 2 * w1 + 2 * w2 + n
  BY <1>1, <1>2, <1>3, SumIsSmall
<1>8. m * M <= m * c /\ m * M \in Nat /\ m * c \in Nat
  BY <1>1, <1>3, Arithmetic
<1>q. QED
  BY <1>2, <1>3, <1>4, <1>5, <1>6, <1>7, <1>8

\* The slack of a roster is zero only where it has no shortfall.
LEMMA SlackCountsShortfalls ==
    ASSUME NEW p \in AnyProblem, NEW X \in SUBSET Posts
    PROVE  /\ Slack(p, X) \in Nat
           /\ Slack(p, X) = 0 <=> Shortfalls(p, X) = {}
<1> DEFINE S == Shortfalls(p, X)
           lack == [r \in S |-> Requirement[r[1]][r[2]] - Cardinality(C3Terms(X, r))]
<1>1. ASSUME NEW r \in S PROVE lack[r] \in Nat \ {0} /\ lack[r] \in Nat
  <2>1. r[1] \in Facilities /\ r[2] \in Skills
    BY DEF Shortfalls, C3Requirements, AnyProblem, Problems
  <2>2. Requirement[r[1]][r[2]] \in Nat
    BY <2>1, ConstraintsAssumption
  <2>3. C3Terms(X, r) \in SUBSET Posts
    BY DEF C3Terms, At
  <2>4. Cardinality(C3Terms(X, r)) \in Nat
    BY <2>3, RostersAreFinite
  <2>5. Cardinality(C3Terms(X, r)) < Requirement[r[1]][r[2]]
    BY DEF Shortfalls
  <2>q. QED
    BY <2>2, <2>4, <2>5
<1>2. IsFiniteSet(S)
  <2>1. IsFiniteSet(p.facilities) /\ IsFiniteSet(Skills)
    BY FS_Subset, ConstraintsAssumption DEF AnyProblem, Problems
  <2>2. IsFiniteSet(p.facilities \X Skills)
    BY <2>1, FS_Product
  <2>3. S \in SUBSET (p.facilities \X Skills)
    BY DEF Shortfalls, C3Requirements
  <2>q. QED
    BY <2>2, <2>3, FS_Subset
<1>3. Slack(p, X) = SumFunctionOnSet(lack, S)
  BY DEF Slack, SumFunction
<1> HIDE DEF lack, S
<1>4. /\ SumFunctionOnSet(lack, S) \in Nat
      /\ \A r \in S : lack[r] <= SumFunctionOnSet(lack, S)
  BY <1>1, <1>2, SumIsNatural
<1>5. S = {} => SumFunctionOnSet(lack, S) = 0
  BY SumOfNothing
<1>6. SumFunctionOnSet(lack, S) = 0 => S = {}
  BY <1>1, <1>4
<1>q. QED
  BY <1>3, <1>4, <1>5, <1>6 DEF S

\* What CP-SAT minimises is a natural number, so there is a least one.
LEMMA OptimumIsLeast ==
    ASSUME NEW p \in AnyProblem, NEW c3, NEW X \in Optima(p, c3)
    PROVE  /\ X \in Solutions(p, c3)
           /\ \A Y \in Solutions(p, c3) : Minimised(p, c3, X) <= Minimised(p, c3, Y)
<1> DEFINE Q == {Minimised(p, c3, Y) : Y \in Solutions(p, c3)}
<1>1. X \in Solutions(p, c3) /\ Minimised(p, c3, X) = Min(Q)
  BY DEF Optima
<1>2. ASSUME NEW Y \in Solutions(p, c3) PROVE Minimised(p, c3, Y) \in Nat
  <2>1. Value(p, Y) \in Nat
    BY ValueIsNear
  <2>2. Y \in SUBSET Posts
    BY DEF Solutions, AnyProblem, Problems, ModelPairs, Posts
  <2>3. Slack(p, Y) \in Nat
    BY <2>2, SlackCountsShortfalls
  <2>4. BigM(p) \in Nat
    <3>1. ModelPairs(p) \in SUBSET Posts
      BY DEF AnyProblem, Problems, ModelPairs, Posts
    <3>2. Cardinality(ModelPairs(p)) \in Nat
      BY <3>1, RostersAreFinite
    <3>q. QED
      BY <3>2, ObjectiveAssumption DEF BigM
  <2>5. Minimised(p, c3, Y) = Value(p, Y) + (IF c3 = "soft" THEN BigM(p) * Slack(p, Y) ELSE 0)
    BY DEF Minimised, Value, PairSum
  <2>q. QED
    BY <2>1, <2>3, <2>4, <2>5, Arithmetic
<1>3. Q \in SUBSET Nat /\ Q # {}
  BY <1>1, <1>2
<1>4. \A Y \in Solutions(p, c3) : Minimised(p, c3, Y) \in Q
  OBVIOUS
<1> HIDE DEF Q
<1>5. \A m \in Q : Min(Q) <= m
  BY <1>3, MinIsLeast
<1>q. QED
  BY <1>1, <1>4, <1>5

\* A roster of smaller value has a lower objective, but for the rounding.
LEMMA ValueDecides ==
    ASSUME NEW p \in AnyProblem, NEW c3, NEW X \in Solutions(p, c3), NEW Y \in Solutions(p, c3),
           Value(p, X) <= Value(p, Y)
    PROVE  LET norm == Normalisation(p)
           IN  NormalisedObjective(p, X)
                  <= NormalisedObjective(p, Y)
                       + RoundingLoss(p) * norm.time * norm.cost * norm.single
<1> DEFINE norm == Normalisation(p)
           a == norm.time
           b == norm.cost
           c == norm.single
           n == TotalRequired(p)
           E == a * b * c
           off == E * (n + c)
           VX == Value(p, X)
           VY == Value(p, Y)
           NX == NormalisedObjective(p, X)
           NY == NormalisedObjective(p, Y)
<1>1. /\ NX \in Nat /\ VX \in Nat /\ E \in Nat /\ off \in Nat
      /\ 2 * NX <= 2 * (E * VX) + off
  BY ValueIsNear
<1>2. NY \in Nat /\ VY \in Nat /\ 2 * (E * VY) <= 2 * NY + off
  BY ValueIsNear
<1>3. a \in Nat /\ b \in Nat /\ c \in Nat /\ n \in Nat
  BY ScalesAreUpperBounds, RequirementsAreNatural
<1>4. VX <= VY
  OBVIOUS
<1> HIDE DEF a, b, c, n, VX, VY, NX, NY
<1>5. (n + c) * a * b * c = off
  BY <1>3
<1> HIDE DEF E, off
<1>6. E * VX <= E * VY /\ E * VX \in Nat /\ E * VY \in Nat
  BY <1>1, <1>2, <1>4, Arithmetic
<1>7. NX <= NY + off
  BY <1>1, <1>2, <1>6
<1>8. NX <= NY + (n + c) * a * b * c
  BY <1>5, <1>7
<1>q. QED
  BY <1>8 DEF NX, NY, n, a, b, c, RoundingLoss

\* An optimum of either program is one among all rosters that fill every post.
LEMMA CallsMeanBest == CallInv => OptimalMeansBest
<1>1. ASSUME CallInv PROVE OptimalMeansBest
  <2> DEFINE p == problem
             X == outcome.assignments
             norm == Normalisation(p)
             Better(Y) == NormalisedObjective(p, X)
                            <= NormalisedObjective(p, Y)
                                 + RoundingLoss(p) * norm.time * norm.cost * norm.single
  <2> SUFFICES ASSUME outcome.kind = "AssignmentResult", outcome.status = "OPTIMAL",
                      NEW Y \in Solutions(p, "dropped")
               PROVE  /\ RoundingFits(p) => Slack(p, X) <= Slack(p, Y)
                      /\ Slack(p, X) = Slack(p, Y) => Better(Y)
    BY DEF OptimalMeansBest
  <2>1. p \in AnyProblem
    BY <1>1, ProblemFacts DEF CallInv
  <2>2. PICK c3 \in {"hard", "soft"} : X \in Optima(p, c3)
    BY <1>1 DEF CallInv, OutcomeIsAccounted
  <2>3. /\ X \in Solutions(p, c3)
        /\ \A Z \in Solutions(p, c3) : Minimised(p, c3, X) <= Minimised(p, c3, Z)
    BY <2>1, <2>2, OptimumIsLeast
  <2>4. X \in Solutions(p, "dropped")
    BY <2>3 DEF Solutions
  <2>5. X \in SUBSET Posts /\ Y \in SUBSET Posts
    BY <2>1, <2>4 DEF Solutions, AnyProblem, Problems, ModelPairs, Posts
  <2>6. /\ Slack(p, X) \in Nat /\ Slack(p, Y) \in Nat
        /\ Slack(p, X) = 0 <=> Shortfalls(p, X) = {}
        /\ Slack(p, Y) = 0 <=> Shortfalls(p, Y) = {}
    BY <2>1, <2>5, SlackCountsShortfalls
  <2>7. Value(p, X) \in Nat /\ Value(p, Y) \in Nat
    BY <2>1, <2>4, ValueIsNear
  <2>8. ASSUME NEW Z
        PROVE  Minimised(p, c3, Z) =
                   Value(p, Z) + (IF c3 = "soft" THEN BigM(p) * Slack(p, Z) ELSE 0)
    BY DEF Minimised, Value, PairSum
  <2>9. Value(p, X) <= Value(p, Y) => Better(Y)
    BY <2>1, <2>4, ValueDecides
  <2> HIDE DEF p, X, Better
  <2>10. CASE c3 = "hard"
    <3>1. Shortfalls(p, X) = {}
      BY <2>3, <2>10 DEF Solutions
    <3>2. Slack(p, X) = 0
      BY <2>6, <3>1
    <3>3. ASSUME Slack(p, Y) = 0 PROVE Value(p, X) <= Value(p, Y)
      <4>1. Y \in Solutions(p, "hard")
        BY <2>6, <3>3 DEF Solutions
      <4>2. Minimised(p, c3, X) <= Minimised(p, c3, Y)
        BY <2>3, <2>10, <4>1
      <4>3. Minimised(p, c3, X) = Value(p, X) + 0 /\ Minimised(p, c3, Y) = Value(p, Y) + 0
        BY <2>8, <2>10
      <4>q. QED
        BY <2>7, <4>2, <4>3
    <3>q. QED
      BY <2>6, <2>9, <3>2, <3>3
  <2>11. CASE c3 = "soft"
    <3> DEFINE B == BigM(p)
               SX == Slack(p, X)
               SY == Slack(p, Y)
    <3>1. Y \in Solutions(p, c3)
      BY <2>11 DEF Solutions
    <3>2. /\ Minimised(p, c3, X) = Value(p, X) + B * SX
          /\ Minimised(p, c3, Y) = Value(p, Y) + B * SY
      BY <2>8, <2>11
    <3>3. Value(p, X) + B * SX <= Value(p, Y) + B * SY
      BY <2>3, <3>1, <3>2
    <3>4. B \in Nat
      <4>1. ModelPairs(p) \in SUBSET Posts
        BY <2>1 DEF AnyProblem, Problems, ModelPairs, Posts
      <4>2. Cardinality(ModelPairs(p)) \in Nat
        BY <4>1, RostersAreFinite
      <4>q. QED
        BY <4>2, ObjectiveAssumption DEF BigM
    <3>5. RoundingFits(p) => Value(p, Y) < B
      BY <2>1, BigMIsAnUpperBound
    <3>6. SX \in Nat /\ SY \in Nat
      BY <2>6
    <3> HIDE DEF B, SX, SY
    <3>7. ASSUME RoundingFits(p), SY < SX PROVE FALSE
      <4>1. B * (SY + 1) <= B * SX /\ B * (SY + 1) = B * SY + B
        BY <3>4, <3>6, <3>7, Arithmetic
      <4>2. B * SX \in Nat /\ B * SY \in Nat
        BY <3>4, <3>6, Arithmetic
      <4>q. QED
        BY <2>7, <3>3, <3>4, <3>5, <3>7, <4>1, <4>2
    <3>8. SX = SY => Value(p, X) <= Value(p, Y)
      <4>1. B * SX \in Nat
        BY <3>4, <3>6, Arithmetic
      <4>q. QED
        BY <2>7, <3>3, <4>1
    <3>q. QED
      BY <2>9, <3>6, <3>7, <3>8 DEF SX, SY
  <2>q. QED
    BY <2>2, <2>10, <2>11
<1>q. QED
  BY <1>1

\* INV-12 as far as it holds: no other roster lacks fewer qualified people, where the
\* rounding fits the margin of big_m, and none that lacks as many is better but for the
\* rounding of the coefficients.  (CpSatAdapter.solve, scaling.py)
THEOREM OptimaAreBest == Spec => []OptimalMeansBest
BY CallInvariant, CallsMeanBest, PTL
-----------------------------------------------------------------------------
(* Comparisons with a past roster. *)

\* A record holds posts, and what build_replay makes of it is a problem.
LEMMA RecordFacts ==
    ASSUME NEW record \in HistoricalRecord
    PROVE  /\ IsFiniteSet(DOMAIN record.actual)
           /\ \A i \in DOMAIN record.actual : record.actual[i] \in Posts
           /\ Range(record.actual) \in SUBSET Posts
           /\ \A f \in Facilities : ActualCounts(record)[f] \in Nat
           /\ \A cap \in Nat : BuildReplay(record, cap) \in AnyProblem
<1>1. record.actual \in Seq(Posts) /\ record.master.facilities \in SUBSET Facilities
  BY ComparisonAssumption DEF HistoricalRecord, ParseHistoricalAssignments, ToHistoricalRecord
<1>2. DOMAIN record.actual = 1 .. Len(record.actual) /\ Len(record.actual) \in Nat
  BY <1>1
<1>3. IsFiniteSet(DOMAIN record.actual)
  BY <1>2, FS_Interval
<1>4. \A i \in DOMAIN record.actual : record.actual[i] \in Posts
  BY <1>1, <1>2
<1>5. ASSUME NEW f \in Facilities
      PROVE  Cardinality({i \in DOMAIN record.actual : record.actual[i][2] = f}) \in Nat
  BY <1>3, FS_Subset, FS_CardinalityType
<1>6. ActualCounts(record) \in [Facilities -> Nat]
  BY <1>5 DEF ActualCounts
<1>7. AvailableIds(record) \in SUBSET Staff
  BY DEF AvailableIds
<1>8. ASSUME NEW cap \in Nat PROVE BuildReplay(record, cap) \in AnyProblem
  BY <1>1, <1>6, <1>7 DEF BuildReplay, AnyProblem, Problems
<1>q. QED
  BY <1>3, <1>4, <1>6, <1>8 DEF Range

\* What evaluate_totals adds up along a roster in which no post occurs twice.
LEMMA TotalsAlong ==
    ASSUME NEW ways, IsFiniteSet(DOMAIN ways),
           \A i \in DOMAIN ways : ways[i] \in Posts,
           \A i, j \in DOMAIN ways : ways[i] = ways[j] => i = j
    PROVE  /\ EvaluateTotals(ways).time = SumFunctionOnSet(TravelTimes, Range(ways))
           /\ EvaluateTotals(ways).cost = SumFunctionOnSet(TravelCosts, Range(ways))
<1> DEFINE I == DOMAIN ways
           time == [i \in I |-> TravelTimes[ways[i]]]
           cost == [i \in I |-> TravelCosts[ways[i]]]
<1>1. /\ EvaluateTotals(ways).time = SumFunctionOnSet(time, I)
      /\ EvaluateTotals(ways).cost = SumFunctionOnSet(cost, I)
  BY DEF EvaluateTotals, SumFunction
<1>2. Range(ways) = {ways[i] : i \in I}
  BY DEF Range
<1>3. \A i \in I : /\ time[i] \in Int /\ time[i] = TravelTimes[ways[i]]
                  /\ cost[i] \in Int /\ cost[i] = TravelCosts[ways[i]]
  BY TravelIsNatural
<1>4. IsFiniteSet(I) /\ \A i, j \in I : ways[i] = ways[j] => i = j
  OBVIOUS
<1> HIDE DEF I, time, cost
<1>5. SumFunctionOnSet(time, I) = SumFunctionOnSet(TravelTimes, {ways[i] : i \in I})
  BY <1>3, <1>4, SumAlong
<1>6. SumFunctionOnSet(cost, I) = SumFunctionOnSet(TravelCosts, {ways[i] : i \in I})
  BY <1>3, <1>4, SumAlong
<1>q. QED
  BY <1>1, <1>2, <1>5, <1>6

\* A replay asks of every facility what the record gave it, if the master knows it.
LEMMA ReplaysCountAlike ==
    ASSUME CallInv, NEW record \in HistoricalRecord, NEW X,
           problem = BuildReplay(record, problem.cap),
           X \in Solutions(problem, "dropped"),
           \A i \in DOMAIN record.actual : Known(record.master, record.actual[i])
    PROVE  \A f \in Facilities :
               Cardinality(At(X, f))
                   = Cardinality({i \in DOMAIN record.actual : record.actual[i][2] = f})
<1> DEFINE There(f) == {i \in DOMAIN record.actual : record.actual[i][2] = f}
<1> SUFFICES ASSUME NEW f \in Facilities PROVE Cardinality(At(X, f)) = Cardinality(There(f))
  OBVIOUS
<1>1. ActualCounts(record)[f] = Cardinality(There(f))
  BY DEF ActualCounts
<1>2. /\ problem.headcount = ActualCounts(record)
      /\ problem.facilities = {g \in record.master.facilities : ActualCounts(record)[g] > 0}
  BY DEF BuildReplay
<1>3. CASE f \in problem.facilities
  BY <1>1, <1>2, <1>3 DEF Solutions, CommonRows
<1>4. CASE f \notin problem.facilities
  <2>1. At(X, f) = {}
    BY <1>4 DEF Solutions, ModelPairs, At
  <2>2. Cardinality(There(f)) = 0
    <3>1. CASE f \in record.master.facilities
      <4>1. ActualCounts(record)[f] \in Nat /\ ~(ActualCounts(record)[f] > 0)
        BY <1>2, <1>4, <3>1, RecordFacts
      <4>q. QED
        BY <1>1, <4>1
    <3>2. CASE f \notin record.master.facilities
      <4>1. There(f) = {}
        BY <3>2 DEF Known
      <4>q. QED
        BY <4>1, FS_EmptySet
    <3>q. QED
      BY <3>1, <3>2
  <2>q. QED
    BY <2>1, <2>2, FS_EmptySet
<1>q. QED
  BY <1>3, <1>4

LEMMA DifferencesAddUp ==
    ASSUME NEW a \in Nat, NEW b \in Nat, NEW c \in Nat, NEW L \in Nat,
           NEW w1 \in Nat, NEW w2 \in Nat, NEW w3 \in Nat,
           NEW T \in Nat, NEW C \in Nat, NEW M \in Nat,
           NEW T2 \in Nat, NEW C2 \in Nat, NEW M2 \in Nat,
           w1 * T * b * c + w2 * C * a * c + w3 * M * a * b
               <= w1 * T2 * b * c + w2 * C2 * a * c + w3 * M2 * a * b + L * a * b * c
    PROVE  0 <= w1 * (T2 - T) * b * c + w2 * (C2 - C) * a * c + w3 * (M2 - M) * a * b
                    + L * a * b * c
<1> DEFINE x == w1 * T * b * c
           y == w2 * C * a * c
           z == w3 * M * a * b
           x2 == w1 * T2 * b * c
           y2 == w2 * C2 * a * c
           z2 == w3 * M2 * a * b
           l == L * a * b * c
<1>1. /\ w1 * (T2 - T) * b * c = x2 - x
      /\ w2 * (C2 - C) * a * c = y2 - y
      /\ w3 * (M2 - M) * a * b = z2 - z
  OBVIOUS
<1>2. /\ x \in Int /\ y \in Int /\ z \in Int /\ l \in Int
      /\ x2 \in Int /\ y2 \in Int /\ z2 \in Int
  OBVIOUS
<1>3. x + y + z <= x2 + y2 + z2 + l
  OBVIOUS
<1> HIDE DEF x, y, z, x2, y2, z2, l
<1>4. 0 <= (x2 - x) + (y2 - y) + (z2 - z) + l
  BY <1>2, <1>3
<1>q. QED
  BY <1>1, <1>4 DEF l

\* A feasible past roster is a solution of its replay without any shortfall, so an
\* OPTIMAL result is measured against it.
LEMMA FeasibleBaselinesAreBeaten ==
    ASSUME CallInv, request \in HistoricalRecord, NEW r,
           problem = BuildReplay(request, problem.cap),
           outcome.kind = "AssignmentResult", outcome.status = "OPTIMAL",
           RoundingFits(problem) \/ ~gaveUp, BaselineIsFeasible,
           r = ComparisonReport(request, outcome.assignments)
    PROVE  LET norm == Normalisation(problem)
               longest == MaxSeconds(Range(request.actual)) - MaxSeconds(outcome.assignments)
           IN  0 <= Weights.time * r.reduction.time * norm.cost * norm.single
                    + Weights.cost * r.reduction.cost * norm.time * norm.single
                    + Weights.inequity * longest * norm.time * norm.cost
                    + RoundingLoss(problem) * norm.time * norm.cost * norm.single
<1> DEFINE X == outcome.assignments
           Y == Range(request.actual)
           norm == Normalisation(problem)
           a == norm.time
           b == norm.cost
           c == norm.single
           L == RoundingLoss(problem)
           T == SumFunctionOnSet(TravelTimes, X)
           C == SumFunctionOnSet(TravelCosts, X)
           M == MaxSeconds(X)
           T2 == SumFunctionOnSet(TravelTimes, Y)
           C2 == SumFunctionOnSet(TravelCosts, Y)
           M2 == MaxSeconds(Y)
<1>1. problem \in AnyProblem /\ problem.pins = {} /\ Y \in SUBSET Posts
  <2>1. problem.pins = {}
    BY DEF BuildReplay
  <2>q. QED
    BY <2>1, ProblemFacts, RecordFacts DEF CallInv
<1>2. X \in Solutions(problem, "dropped") /\ X \in SUBSET Posts
  BY ProblemFacts DEF CallInv, OutcomeIsAccounted
<1>3. Y \in Solutions(problem, "hard") /\ Y \in Solutions(problem, "dropped")
      /\ Shortfalls(problem, Y) = {}
  <2>1. Y \in Solutions(problem, "hard")
    BY <1>1, SolutionsAreValidRosters DEF BaselineIsFeasible
  <2>q. QED
    BY <2>1 DEF Solutions
<1>4. Slack(problem, Y) = 0
  BY <1>1, <1>3, SlackCountsShortfalls
<1>5. Slack(problem, X) = 0
  <2>1. /\ Slack(problem, X) \in Nat
        /\ Slack(problem, X) = 0 <=> Shortfalls(problem, X) = {}
    BY <1>1, <1>2, SlackCountsShortfalls
  <2>2. CASE RoundingFits(problem)
    <3>1. Slack(problem, X) <= Slack(problem, Y)
      BY <1>3, <2>2, CallsMeanBest DEF OptimalMeansBest
    <3>q. QED
      BY <1>4, <2>1, <3>1
  <2>3. CASE ~gaveUp
    <3>1. outcome.violations = {}
      BY <1>3, <2>3 DEF CallInv, CompleteSearchIsTruthful
    <3>2. ValidateAssignments(problem, X) = {}
      BY <3>1 DEF CallInv, ResultsPassTheChecker
    <3>3. ValidateAssignments(problem, X) = {<<"C3", q>> : q \in Shortfalls(problem, X)}
      BY <1>1, <1>2, SolutionFacts DEF CallInv
    <3>4. Shortfalls(problem, X) = {}
      BY <3>2, <3>3
    <3>q. QED
      BY <2>1, <3>4
  <2>q. QED
    BY <2>2, <2>3
<1>6. NormalisedObjective(problem, X) <= NormalisedObjective(problem, Y) + L * a * b * c
  BY <1>3, <1>4, <1>5, CallsMeanBest DEF OptimalMeansBest
<1>7. r.reduction.time = T2 - T /\ r.reduction.cost = C2 - C
  <2> DEFINE self == [q \in X |-> q]
  <2>1. /\ IsFiniteSet(DOMAIN self) /\ Range(self) = X
        /\ \A q \in DOMAIN self : self[q] \in Posts
        /\ \A q, s \in DOMAIN self : self[q] = self[s] => q = s
    BY <1>2, RostersAreFinite DEF Range
  <2>2. /\ IsFiniteSet(DOMAIN request.actual)
        /\ \A i \in DOMAIN request.actual : request.actual[i] \in Posts
        /\ \A i, j \in DOMAIN request.actual : request.actual[i] = request.actual[j] => i = j
    BY RecordFacts DEF BaselineIsFeasible, NobodyTwice
  <2>3. /\ r.reduction.time = EvaluateTotals(request.actual).time - EvaluateTotals(self).time
        /\ r.reduction.cost = EvaluateTotals(request.actual).cost - EvaluateTotals(self).cost
    BY DEF ComparisonReport
  <2> HIDE DEF self
  <2>4. EvaluateTotals(self).time = T /\ EvaluateTotals(self).cost = C
    BY <2>1, TotalsAlong
  <2>5. EvaluateTotals(request.actual).time = T2 /\ EvaluateTotals(request.actual).cost = C2
    BY <2>2, TotalsAlong
  <2>q. QED
    BY <2>3, <2>4, <2>5
<1>8. a \in Nat /\ b \in Nat /\ c \in Nat /\ L \in Nat
  BY <1>1, ScalesAreUpperBounds, RequirementsAreNatural DEF RoundingLoss
<1>9. T \in Nat /\ C \in Nat /\ M \in Nat /\ T2 \in Nat /\ C2 \in Nat /\ M2 \in Nat
  BY <1>1, <1>2, <1>3, RosterFigures
<1>10. /\ NormalisedObjective(problem, X) =
              Weights.time * T * b * c + Weights.cost * C * a * c + Weights.inequity * M * a * b
       /\ NormalisedObjective(problem, Y) =
              Weights.time * T2 * b * c + Weights.cost * C2 * a * c + Weights.inequity * M2 * a * b
  BY DEF NormalisedObjective
<1> HIDE DEF X, Y, norm, a, b, c, L, T, C, M, T2, C2, M2
<1>11. /\ Weights.time \in Nat /\ Weights.cost \in Nat /\ Weights.inequity \in Nat
  BY ObjectiveAssumption
<1>12. 0 <= Weights.time * (T2 - T) * b * c + Weights.cost * (C2 - C) * a * c
              + Weights.inequity * (M2 - M) * a * b + L * a * b * c
  BY <1>6, <1>8, <1>9, <1>10, <1>11, DifferencesAddUp
<1>q. QED
  BY <1>7, <1>12 DEF X, Y, norm, a, b, c, L, M, M2

LEMMA StepsOfTheCall == ASSUME Optimize PROVE problem' = problem /\ stage # "done"
BY DEF Optimize, ValidatePins, Solved, C3IsTheCause, NotSolved, Classify

LEMMA FairInit == ASSUME CInit PROVE CallInv /\ ComparisonIsFair
<1>1. CASE CallByWorker
  BY <1>1, CallInvInit DEF CallByWorker, Pending, ComparisonIsFair, ReportIsAccounted,
                           LikeWithLike, BaselineIsBeaten
<1>2. CASE CallByComparison
  <2>1. PICK cap \in Nat : problem = BuildReplay(request, cap)
    BY <1>2, OptimizationServiceAssumption DEF CallByComparison
  <2>2. problem \in AnyProblem /\ problem.cap = cap
    <3>1. problem \in AnyProblem
      BY <1>2, <2>1, RecordFacts DEF CallByComparison
    <3>2. problem.cap = cap
      BY <2>1 DEF BuildReplay
    <3>q. QED
      BY <3>1, <3>2
  <2>3. CallInv
    BY <1>2, <2>2, FreshCalls DEF CallByComparison
  <2>q. QED
    BY <1>2, <2>1, <2>2, <2>3 DEF CallByComparison, Pending, ComparisonIsFair,
                                  ReportIsAccounted, LikeWithLike, BaselineIsBeaten
<1>q. QED
  BY <1>1, <1>2 DEF CInit

LEMMA FairStep ==
    ASSUME CallInv, ComparisonIsFair, [CNext]_<<vars, comparison>>
    PROVE  CallInv' /\ ComparisonIsFair'
<1> USE DEF ComparisonIsFair
<1>1. CASE Optimize /\ UNCHANGED comparison
  <2>1. CallInv'
    BY <1>1, CallInvStep
  <2>2. problem' = problem /\ stage # "done" /\ request' = request /\ report' = report
    BY <1>1, StepsOfTheCall DEF comparison
  <2>3. report.kind # "ComparisonReport"
    BY <2>2 DEF CallInv, TypeOK, Pending, ReportIsAccounted
  <2>q. QED
    BY <2>1, <2>2, <2>3 DEF ReportIsAccounted, LikeWithLike, BaselineIsBeaten
<1>2. CASE UNCHANGED vars /\ request' = request /\ report'.kind # "ComparisonReport"
  <2>1. CallInv'
    BY <1>2, CallInvStep
  <2>2. problem' = problem
    BY <1>2 DEF vars
  <2>q. QED
    BY <1>2, <2>1, <2>2 DEF ReportIsAccounted, LikeWithLike, BaselineIsBeaten
<1>3. CASE RefuseReplay
  BY <1>2, <1>3 DEF RefuseReplay
<1>4. CASE Compare
  <2>1. request # None /\ UNCHANGED vars /\ request' = request
    BY <1>4 DEF Compare
  <2>2. CASE PassOn
    <3>1. outcome.kind # "ComparisonReport"
      BY DEF CallInv, TypeOK
    <3>q. QED
      BY <1>2, <2>1, <2>2, <3>1 DEF PassOn
  <2>3. CASE Report
    <3> DEFINE X == outcome.assignments
               AllKnown == \A i \in DOMAIN request.actual :
                               Known(request.master, request.actual[i])
    <3>1. CASE ~AllKnown
      <4>1. report'.kind = "KeyError"
        BY <2>3, <3>1 DEF Report
      <4>q. QED
        BY <1>2, <2>1, <4>1
    <3>2. CASE AllKnown
      <4>1. outcome.kind = "AssignmentResult" /\ report' = ComparisonReport(request, X)
        BY <2>3, <3>2 DEF Report
      <4>2. request \in HistoricalRecord /\ problem = BuildReplay(request, problem.cap)
        BY <2>1 DEF ReportIsAccounted
      <4>3. X \in Solutions(problem, "dropped")
        BY <4>1 DEF CallInv, OutcomeIsAccounted
      <4>4. UNCHANGED <<problem, outcome, gaveUp, request>>
        BY <2>1 DEF vars
      <4>5. CallInv'
        BY <2>1, CallInvStep
      <4>6. ReportIsAccounted'
        BY <2>1, <3>2, <4>1, <4>2, <4>4 DEF ReportIsAccounted
      <4>7. \A f \in Facilities :
                Cardinality(At(X, f))
                    = Cardinality({i \in DOMAIN request.actual : request.actual[i][2] = f})
        BY <3>2, <4>2, <4>3, ReplaysCountAlike
      <4>8. LikeWithLike'
        BY <4>4, <4>7 DEF LikeWithLike
      <4>9. BaselineIsBeaten'
        <5> SUFFICES ASSUME outcome'.status = "OPTIMAL",
                            RoundingFits(problem') \/ ~gaveUp', BaselineIsFeasible'
                     PROVE  LET norm == Normalisation(problem')
                                longest == MaxSeconds(Range(request'.actual))
                                             - MaxSeconds(outcome'.assignments)
                            IN  0 <= Weights.time * report'.reduction.time * norm.cost * norm.single
                                     + Weights.cost * report'.reduction.cost * norm.time * norm.single
                                     + Weights.inequity * longest * norm.time * norm.cost
                                     + RoundingLoss(problem') * norm.time * norm.cost * norm.single
          BY DEF BaselineIsBeaten
        <5>1. /\ outcome.status = "OPTIMAL"
              /\ RoundingFits(problem) \/ ~gaveUp
              /\ BaselineIsFeasible
          BY <4>4 DEF BaselineIsFeasible
        <5>q. QED
          BY <4>1, <4>2, <4>4, <5>1, FeasibleBaselinesAreBeaten
      <4>q. QED
        BY <4>5, <4>6, <4>8, <4>9
    <3>q. QED
      BY <3>1, <3>2
  <2>q. QED
    BY <1>4, <2>2, <2>3 DEF Compare
<1>5. CASE UNCHANGED <<vars, comparison>>
  <2>1. CallInv'
    BY <1>5, CallInvStep
  <2>q. QED
    BY <1>5, <2>1 DEF vars, comparison, ReportIsAccounted, LikeWithLike, BaselineIsBeaten,
                      BaselineIsFeasible
<1>q. QED
  BY <1>1, <1>3, <1>4, <1>5 DEF CNext

\* A comparison tells of the record and the result it was made from, sends equally many
\* people to every facility in both, and a past roster that was feasible is not better
\* than an OPTIMAL one, but for the rounding.  (ComparisonService.compare, build_replay)
THEOREM ComparisonsAreFair == CSpec => []ComparisonIsFair
BY FairInit, FairStep, PTL DEF CSpec

\* A replay is a problem like any other: what is proved of a call of optimize holds of
\* those that ComparisonService makes.
THEOREM ReplaysAreCalls ==
    CSpec => [](CallInv /\ ShortageIsReal /\ OptimalMeansBest /\ TravelCostNeverFalls)
BY FairInit, FairStep, CallsCountRight, CallsMeanBest, CallsSendNobodyFurther, PTL DEF CSpec
=============================================================================
