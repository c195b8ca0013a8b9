---------------------------- MODULE Constraints -----------------------------
(***************************************************************************)
(* The hard constraints of an assignment, which the code states twice:     *)
(* once as the rows of the integer program (builder.py, cp_sat_adapter.py) *)
(* and once as the checker that judges pins and manual edits               *)
(* (validation.py).  Both are kept apart here so that they can be compared.*)
(*                                                                         *)
(*   C1  every facility gets exactly its headcount                         *)
(*   C2  nobody serves at two facilities                                   *)
(*   C3  every facility has the qualified staff it requires                *)
(*   C4  only staff who declared themselves available                      *)
(*   C5  at most `cap` people of one department                            *)
(*                                                                         *)
(* An assignment is a pair <<staff, facility>>; the event is implicit.     *)
(***************************************************************************)
EXTENDS Integers, FiniteSets

CONSTANTS Staff,         \* the staff master
          Facilities,    \* facilities that may be registered
          Departments,
          DeptOf,        \* [Staff -> Departments]
          Skills,        \* qualifications, positions and job types
          SkillsOf,      \* [Staff -> SUBSET Skills]
          Requirement    \* [Facilities -> [Skills -> Nat]]: required_count, 0 if none

ASSUME ConstraintsAssumption ==
    /\ IsFiniteSet(Staff)
    /\ IsFiniteSet(Facilities)
    /\ DeptOf \in [Staff -> Departments]
    /\ IsFiniteSet(Skills)
    /\ SkillsOf \in [Staff -> SUBSET Skills]
    /\ Requirement \in [Facilities -> [Skills -> Nat]]

Posts == Staff \X Facilities

\* AssignmentProblem: the facilities with their required_headcount, who may be assigned,
\* department_cap_limit and pinned_assignments.
Problems(headcounts, caps) ==
    [facilities : SUBSET Facilities, headcount : headcounts, available : SUBSET Staff,
     cap : caps, pins : SUBSET Posts]

AnyProblem == Problems([Facilities -> Nat], Nat)

At(A, f) == {a \in A : a[2] = f}

PostsOf(A, s) == {a \in A : a[1] = s}

\* The rows whose staff member belongs to department d and is available.
FromDepartment(problem, A, d) ==
    {a \in A : a[1] \in problem.available /\ DeptOf[a[1]] = d}

\* The rows at f filled by available staff with the skill k (_is_eligible).
Qualified(problem, A, f, k) ==
    {a \in At(A, f) : a[1] \in problem.available /\ k \in SkillsOf[a[1]]}

-----------------------------------------------------------------------------
(* validation.py *)

\* Mutant of HeadcountMet: no upper bound.
HeadcountReached(problem, A, f, exact) ==
    exact => Cardinality(At(A, f)) >= problem.headcount[f]

\* C1 as check_assignments judges it: never above the headcount, and not below it
\* either when the assignment is meant to be complete.
HeadcountMet(problem, A, f, exact) ==
    /\ Cardinality(At(A, f)) <= problem.headcount[f]
    /\ exact => Cardinality(At(A, f)) >= problem.headcount[f]

\* check_assignments: the violations found, each with what it is about.
CheckAssignments(problem, A, exact, qualifications) ==
    {<<"C4", a[1]>> : a \in {b \in A : b[1] \notin problem.available}}
    \cup {<<"C1", a[2]>> : a \in {b \in A : b[2] \notin problem.facilities}}
    \cup {<<"C2", s>> : s \in {t \in Staff : Cardinality(PostsOf(A, t)) > 1}}
    \cup {<<"C1", f>> : f \in {g \in problem.facilities : ~HeadcountMet(problem, A, g, exact)}}
    \cup {<<"C5", d>> :
            d \in {x \in Departments : Cardinality(FromDepartment(problem, A, x)) > problem.cap}}
    \cup {<<"C3", r>> :
            r \in {q \in problem.facilities \X Skills :
                     /\ qualifications
                     /\ Cardinality(Qualified(problem, A, q[1], q[2])) < Requirement[q[1]][q[2]]}}

\* Mutant of ValidateAssignments: judged as a partial assignment.
ValidatePartially(problem, A) == CheckAssignments(problem, A, FALSE, TRUE)

\* validate_assignments: the judgement of a complete assignment.
ValidateAssignments(problem, A) == CheckAssignments(problem, A, TRUE, TRUE)

-----------------------------------------------------------------------------
(* builder.py and cp_sat_adapter.py *)

\* Mutant of ModelPairs: variables for everybody.
AllPairs(problem) == Staff \X problem.facilities

\* The decision variables: one per available staff member and facility.
ModelPairs(problem) == problem.available \X problem.facilities

\* The C3 rows: [facility, skill] with a positive required_count.
C3Requirements(problem) ==
    {r \in problem.facilities \X Skills : Requirement[r[1]][r[2]] > 0}

\* Mutant of C3Terms: anybody counts as qualified.
AnybodyQualifies(X, r) == At(X, r[1])

\* terms of a C3 row: eligible, available staff sent to the facility.
C3Terms(X, r) == {a \in At(X, r[1]) : r[2] \in SkillsOf[a[1]]}

Shortfalls(problem, X) ==
    {r \in C3Requirements(problem) : Cardinality(C3Terms(X, r)) < Requirement[r[1]][r[2]]}

\* What every variant of the program demands of the chosen pairs X.  A pin whose
\* pair is not a variable is skipped.
CommonRows(problem, X) ==
    /\ problem.pins \cap ModelPairs(problem) \subseteq X
    /\ \A f \in problem.facilities : Cardinality(At(X, f)) = problem.headcount[f]
    /\ \A s \in problem.available : Cardinality(PostsOf(X, s)) <= 1
    /\ \A d \in Departments : Cardinality({a \in X : DeptOf[a[1]] = d}) <= problem.cap

\* The solutions of build_model(problem), of build_model(.., include_c3=False) and
\* of build_model(.., demote_c3=True).  A demoted row is met by its slack, so "soft"
\* and "dropped" admit the same pairs; "soft" reports the rows with positive slack.
Solutions(problem, c3) ==
    {X \in SUBSET ModelPairs(problem) :
        /\ CommonRows(problem, X)
        /\ c3 = "hard" => Shortfalls(problem, X) = {}}
=============================================================================
