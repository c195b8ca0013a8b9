------------------------- MODULE ConstraintsProofs -------------------------
(***************************************************************************)
(* The two statements of the hard constraints agree, for every master and  *)
(* every problem: the integer program without C3 admits exactly what the   *)
(* checker faults for nothing but C3, and the C3 rows it leaves unmet are  *)
(* the C3 violations the checker finds.                                    *)
(***************************************************************************)
EXTENDS Constraints, TLAPS, FiniteSetTheorems

LEMMA RostersAreFinite ==
    ASSUME NEW A \in SUBSET Posts
    PROVE  IsFiniteSet(A) /\ Cardinality(A) \in Nat
<1>1. IsFiniteSet(Posts)
  BY FS_Product, ConstraintsAssumption DEF Posts
<1>2. IsFiniteSet(A)
  BY FS_Subset, <1>1
<1>q. QED
  BY FS_CardinalityType, <1>2

\* The parts of a roster that the constraints count.
LEMMA PartsAreFinite ==
    ASSUME NEW A \in SUBSET Posts
    PROVE  /\ \A f : At(A, f) \in SUBSET Posts /\ Cardinality(At(A, f)) \in Nat
           /\ \A s : PostsOf(A, s) \in SUBSET Posts /\ Cardinality(PostsOf(A, s)) \in Nat
           /\ \A d : Cardinality({a \in A : DeptOf[a[1]] = d}) \in Nat
<1>1. ASSUME NEW f PROVE At(A, f) \in SUBSET Posts /\ Cardinality(At(A, f)) \in Nat
  BY RostersAreFinite DEF At
<1>2. ASSUME NEW s PROVE PostsOf(A, s) \in SUBSET Posts /\ Cardinality(PostsOf(A, s)) \in Nat
  BY RostersAreFinite DEF PostsOf
<1>3. ASSUME NEW d PROVE Cardinality({a \in A : DeptOf[a[1]] = d}) \in Nat
  BY RostersAreFinite
<1>q. QED
  BY <1>1, <1>2, <1>3

LEMMA AtMostOne ==
    ASSUME NEW S, IsFiniteSet(S), Cardinality(S) <= 1, NEW a \in S, NEW b \in S
    PROVE  a = b
<1>1. Cardinality(S) \in Nat /\ Cardinality(S) # 0
  BY FS_CardinalityType, FS_EmptySet
<1>2. Cardinality(S) = 1
  BY <1>1
<1>3. PICK x : S = {x}
  BY <1>2, FS_Singleton
<1>q. QED
  BY <1>3

\* The rows of the program that are never dropped, without the pins.
Obeys(problem, X) ==
    /\ X \subseteq ModelPairs(problem)
    /\ \A f \in problem.facilities : Cardinality(At(X, f)) = problem.headcount[f]
    /\ \A s \in problem.available : Cardinality(PostsOf(X, s)) <= 1
    /\ \A d \in Departments : Cardinality({a \in X : DeptOf[a[1]] = d}) <= problem.cap

\* What the checker faults besides C3, one set for each constraint.
LEMMA CheckerParts ==
    ASSUME NEW problem, NEW X, NEW exact, CheckAssignments(problem, X, exact, FALSE) = {}
    PROVE  /\ \A a \in X : a[1] \in problem.available
           /\ \A a \in X : a[2] \in problem.facilities
           /\ \A s \in Staff : ~(Cardinality(PostsOf(X, s)) > 1)
           /\ \A f \in problem.facilities : HeadcountMet(problem, X, f, exact)
           /\ \A d \in Departments : ~(Cardinality(FromDepartment(problem, X, d)) > problem.cap)
<1>1. \A a \in X : a[1] \in problem.available
  <2>1. {<<"C4", a[1]>> : a \in {b \in X : b[1] \notin problem.available}} = {}
    BY DEF CheckAssignments
  <2>q. QED
    BY <2>1
<1>2. \A a \in X : a[2] \in problem.facilities
  <2>1. {<<"C1", a[2]>> : a \in {b \in X : b[2] \notin problem.facilities}} = {}
    BY DEF CheckAssignments
  <2>q. QED
    BY <2>1
<1>3. \A s \in Staff : ~(Cardinality(PostsOf(X, s)) > 1)
  <2>1. {<<"C2", s>> : s \in {t \in Staff : Cardinality(PostsOf(X, t)) > 1}} = {}
    BY DEF CheckAssignments
  <2>q. QED
    BY <2>1
<1>4. \A f \in problem.facilities : HeadcountMet(problem, X, f, exact)
  <2>1. {<<"C1", f>> : f \in {g \in problem.facilities : ~HeadcountMet(problem, X, g, exact)}} = {}
    BY DEF CheckAssignments
  <2>q. QED
    BY <2>1
<1>5. \A d \in Departments : ~(Cardinality(FromDepartment(problem, X, d)) > problem.cap)
  <2>1. {<<"C5", d>> : d \in {x \in Departments :
            Cardinality(FromDepartment(problem, X, x)) > problem.cap}} = {}
    BY DEF CheckAssignments
  <2>q. QED
    BY <2>1
<1>q. QED
  BY <1>1, <1>2, <1>3, <1>4, <1>5

\* Nobody outside problem.available is in X, so the checker's departments are the
\* program's.
LEMMA SameDepartments ==
    ASSUME NEW problem, NEW X, \A a \in X : a[1] \in problem.available
    PROVE  \A d : FromDepartment(problem, X, d) = {a \in X : DeptOf[a[1]] = d}
BY DEF FromDepartment

\* C1, C2, C4 and C5: the checker accepts what the program admits, and nothing else.
\* (check_assignments, and the rows of CpSatAdapter.solve)
THEOREM CheckerMeansProgram ==
    ASSUME NEW problem \in AnyProblem, NEW X \in SUBSET Posts
    PROVE  CheckAssignments(problem, X, TRUE, FALSE) = {} <=> Obeys(problem, X)
<1>0. /\ problem.facilities \subseteq Facilities
      /\ problem.available \subseteq Staff
      /\ problem.headcount \in [Facilities -> Nat]
      /\ problem.cap \in Nat
  BY DEF AnyProblem, Problems
<1>1. ASSUME CheckAssignments(problem, X, TRUE, FALSE) = {} PROVE Obeys(problem, X)
  <2>1. X \subseteq ModelPairs(problem)
    BY CheckerParts, <1>1 DEF ModelPairs, Posts
  <2>2. ASSUME NEW f \in problem.facilities PROVE Cardinality(At(X, f)) = problem.headcount[f]
    <3>1. HeadcountMet(problem, X, f, TRUE)
      BY CheckerParts, <1>1
    <3>2. Cardinality(At(X, f)) \in Nat /\ problem.headcount[f] \in Nat
      BY PartsAreFinite, <1>0
    <3>q. QED
      BY <3>1, <3>2 DEF HeadcountMet
  <2>3. ASSUME NEW s \in problem.available PROVE Cardinality(PostsOf(X, s)) <= 1
    <3>1. ~(Cardinality(PostsOf(X, s)) > 1)
      BY CheckerParts, <1>0, <1>1
    <3>2. Cardinality(PostsOf(X, s)) \in Nat
      BY PartsAreFinite
    <3>q. QED
      BY <3>1, <3>2
  <2>4. ASSUME NEW d \in Departments
        PROVE  Cardinality({a \in X : DeptOf[a[1]] = d}) <= problem.cap
    <3>0. \A a \in X : a[1] \in problem.available
      BY CheckerParts, <1>1
    <3>1. FromDepartment(problem, X, d) = {a \in X : DeptOf[a[1]] = d}
      BY SameDepartments, <3>0
    <3>2. ~(Cardinality(FromDepartment(problem, X, d)) > problem.cap)
      BY CheckerParts, <1>1
    <3>3. Cardinality({a \in X : DeptOf[a[1]] = d}) \in Nat
      BY PartsAreFinite
    <3>q. QED
      BY <1>0, <3>1, <3>2, <3>3
  <2>q. QED
    BY <2>1, <2>2, <2>3, <2>4 DEF Obeys
<1>2. ASSUME Obeys(problem, X) PROVE CheckAssignments(problem, X, TRUE, FALSE) = {}
  <2>1. \A a \in X : a[1] \in problem.available /\ a[2] \in problem.facilities
    BY <1>2 DEF Obeys, ModelPairs
  <2>2. {<<"C4", a[1]>> : a \in {b \in X : b[1] \notin problem.available}} = {}
    BY <2>1
  <2>3. {<<"C1", a[2]>> : a \in {b \in X : b[2] \notin problem.facilities}} = {}
    BY <2>1
  <2>4. ASSUME NEW s \in Staff PROVE ~(Cardinality(PostsOf(X, s)) > 1)
    <3>1. CASE s \in problem.available
      <4>1. Cardinality(PostsOf(X, s)) <= 1
        BY <1>2, <3>1 DEF Obeys
      <4>2. Cardinality(PostsOf(X, s)) \in Nat
        BY PartsAreFinite
      <4>q. QED
        BY <4>1, <4>2
    <3>2. CASE s \notin problem.available
      <4>1. PostsOf(X, s) = {}
        BY <2>1, <3>2 DEF PostsOf
      <4>q. QED
        BY <4>1, FS_EmptySet
    <3>q. QED
      BY <3>1, <3>2
  <2>5. ASSUME NEW f \in problem.facilities PROVE HeadcountMet(problem, X, f, TRUE)
    <3>1. Cardinality(At(X, f)) = problem.headcount[f] /\ problem.headcount[f] \in Nat
      BY <1>0, <1>2 DEF Obeys
    <3>q. QED
      BY <3>1 DEF HeadcountMet
  <2>6. ASSUME NEW d \in Departments
        PROVE  ~(Cardinality(FromDepartment(problem, X, d)) > problem.cap)
    <3>1. FromDepartment(problem, X, d) = {a \in X : DeptOf[a[1]] = d}
      BY SameDepartments, <2>1
    <3>2. Cardinality({a \in X : DeptOf[a[1]] = d}) <= problem.cap
      BY <1>2 DEF Obeys
    <3>3. Cardinality({a \in X : DeptOf[a[1]] = d}) \in Nat
      BY PartsAreFinite
    <3>q. QED
      BY <1>0, <3>1, <3>2, <3>3
  <2>7. /\ {<<"C2", s>> : s \in {t \in Staff : Cardinality(PostsOf(X, t)) > 1}} = {}
        /\ {<<"C1", f>> : f \in {g \in problem.facilities : ~HeadcountMet(problem, X, g, TRUE)}} = {}
        /\ {<<"C5", d>> : d \in {x \in Departments :
                Cardinality(FromDepartment(problem, X, x)) > problem.cap}} = {}
    BY <2>4, <2>5, <2>6
  <2>q. QED
    BY <2>2, <2>3, <2>7 DEF CheckAssignments
<1>q. QED
  BY <1>1, <1>2

\* A roster the program admits is of available people only, so the checker's qualified
\* people are the terms of the C3 row.
LEMMA SameQualified ==
    ASSUME NEW problem, NEW X, \A a \in X : a[1] \in problem.available
    PROVE  \A r : Qualified(problem, X, r[1], r[2]) = C3Terms(X, r)
BY DEF Qualified, C3Terms, At

\* C3: what the checker faults of an admitted roster are the rows the program leaves
\* unmet, although the program has no row where nobody is required.
THEOREM CheckerFindsShortfalls ==
    ASSUME NEW problem \in AnyProblem, NEW X \in SUBSET Posts, Obeys(problem, X)
    PROVE  ValidateAssignments(problem, X) = {<<"C3", r>> : r \in Shortfalls(problem, X)}
<1> DEFINE Missing(q) == Cardinality(Qualified(problem, X, q[1], q[2])) < Requirement[q[1]][q[2]]
           Faults == {q \in problem.facilities \X Skills : TRUE /\ Missing(q)}
<1>1. \A a \in X : a[1] \in problem.available
  BY DEF Obeys, ModelPairs
<1>2. CheckAssignments(problem, X, TRUE, FALSE) = {}
  BY CheckerMeansProgram
<1>3. ValidateAssignments(problem, X) = {<<"C3", r>> : r \in Faults}
  <2>1. /\ {<<"C4", a[1]>> : a \in {b \in X : b[1] \notin problem.available}} = {}
        /\ {<<"C1", a[2]>> : a \in {b \in X : b[2] \notin problem.facilities}} = {}
        /\ {<<"C2", s>> : s \in {t \in Staff : Cardinality(PostsOf(X, t)) > 1}} = {}
        /\ {<<"C1", f>> : f \in {g \in problem.facilities : ~HeadcountMet(problem, X, g, TRUE)}} = {}
        /\ {<<"C5", d>> : d \in {x \in Departments :
                Cardinality(FromDepartment(problem, X, x)) > problem.cap}} = {}
    BY <1>2 DEF CheckAssignments
  <2>q. QED
    BY <2>1 DEF ValidateAssignments, CheckAssignments
<1>4. ASSUME NEW r \in problem.facilities \X Skills
      PROVE  Missing(r) <=> r \in Shortfalls(problem, X)
  <2>1. Qualified(problem, X, r[1], r[2]) = C3Terms(X, r)
    BY SameQualified, <1>1
  <2>2. C3Terms(X, r) \in SUBSET Posts
    BY DEF C3Terms, At
  <2>3. Cardinality(C3Terms(X, r)) \in Nat
    BY RostersAreFinite, <2>2
  <2>4. Requirement[r[1]][r[2]] \in Nat
    BY ConstraintsAssumption DEF AnyProblem, Problems
  <2>q. QED
    BY <2>1, <2>3, <2>4 DEF Shortfalls, C3Requirements
<1>5. Faults = Shortfalls(problem, X)
  BY <1>4 DEF Shortfalls, C3Requirements
<1>q. QED
  BY <1>3, <1>5

\* The program with C3 admits, among the rosters with all their pins, exactly those in
\* which the checker finds nothing.  (build_model(problem) and validate_assignments)
THEOREM SolutionsAreValidRosters ==
    ASSUME NEW problem \in AnyProblem, NEW X \in SUBSET Posts, problem.pins \subseteq X
    PROVE  X \in Solutions(problem, "hard") <=> ValidateAssignments(problem, X) = {}
<1>1. ASSUME X \in Solutions(problem, "hard") PROVE ValidateAssignments(problem, X) = {}
  <2>1. Obeys(problem, X) /\ Shortfalls(problem, X) = {}
    BY <1>1 DEF Solutions, CommonRows, Obeys
  <2>q. QED
    BY CheckerFindsShortfalls, <2>1
<1>2. ASSUME ValidateAssignments(problem, X) = {} PROVE X \in Solutions(problem, "hard")
  <2>1. CheckAssignments(problem, X, TRUE, FALSE) = {}
    BY <1>2 DEF ValidateAssignments, CheckAssignments
  <2>2. Obeys(problem, X)
    BY CheckerMeansProgram, <2>1
  <2>3. {<<"C3", r>> : r \in Shortfalls(problem, X)} = {}
    BY CheckerFindsShortfalls, <1>2, <2>2
  <2>q. QED
    BY <2>2, <2>3 DEF Solutions, CommonRows, Obeys
<1>q. QED
  BY <1>1, <1>2
=============================================================================
