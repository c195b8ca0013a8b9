---------------------------- MODULE RosterProofs ----------------------------
(***************************************************************************)
(* Proofs about Reoptimization, for every staff, facility and event, every *)
(* number of workers, requests and editors: it is a queue, so whatever is  *)
(* proved of JobQueue holds of it, and RosterInv is an invariant of it.    *)
(***************************************************************************)
EXTENDS Reoptimization, JobQueueProofs, ConstraintsProofs

-----------------------------------------------------------------------------
(* Every behaviour of Reoptimization is a behaviour of JobQueue. *)

\* The cases of a step.
RosterStep ==
    \/ QueueOnly
    \/ \E e \in Events, S \in Answers : ImportDeclarations(e, S)
    \/ \E f \in Facilities : ImportFacility(f)
    \/ \E e \in Events : RDeleteEvent(e)
    \/ \E w \in Workers : RBuildProblem(w)
    \/ \E w \in Workers, X \in SUBSET Posts : RSolved(w, X)
    \/ \E w \in Workers, v \in TERMINAL_STATES : RUnsolved(w, v)
    \/ \E w \in Workers : RSaveResult(w)
    \/ \E w \in Workers : RSaveRefused(w)
    \/ \E w \in Workers : RCrash(w)
    \/ \E d \in Editors, e \in Events, post \in Posts : LoadRoster(d, e, post)
    \/ \E d \in Editors : JudgeEdit(d)
    \/ \E d \in Editors : SaveEdit(d)
    \/ \E d \in Editors : SaveEditRefused(d)
    \/ \E d \in Editors : AuditEdit(d)
    \/ RApiCrash

LEMMA NextIsRosterStep == ASSUME RNext PROVE RosterStep
BY Zenon DEF RNext, RosterStep

LEMMA RosterStepIsQueueStep == ASSUME [RNext]_vars PROVE [Next]_queueVars
<1>1. CASE QueueOnly
  BY <1>1, Zenon DEF QueueOnly, Next, WorkerStep
<1>2. ASSUME NEW e \in Events, RDeleteEvent(e) PROVE Next
  BY <1>2, Zenon DEF RDeleteEvent, Next
<1>3. ASSUME NEW w \in Workers,
             RBuildProblem(w) \/ RSaveResult(w) \/ RSaveRefused(w) \/ RCrash(w)
      PROVE  Next
  <2>1. BuildProblem(w) \/ SaveResult(w) \/ SaveRefused(w) \/ Crash(w)
    BY <1>3, Zenon DEF RBuildProblem, RSaveResult, RSaveRefused, RCrash
  <2>q. QED
    BY <2>1, Zenon DEF Next, WorkerStep
<1>4. ASSUME NEW w \in Workers, NEW X, RSolved(w, X) PROVE Next
  <2>1. Solve(w, "SUCCEEDED") /\ "SUCCEEDED" \in TERMINAL_STATES
    BY <1>4 DEF RSolved, TERMINAL_STATES
  <2>q. QED
    BY <2>1, Zenon DEF Next, WorkerStep
<1>5. ASSUME NEW w \in Workers, NEW v \in TERMINAL_STATES, RUnsolved(w, v) PROVE Next
  BY <1>5, Zenon DEF RUnsolved, Next, WorkerStep
<1>6. CASE RApiCrash
  BY <1>6, Zenon DEF RApiCrash, Next
<1>7. ASSUME \/ \E e \in Events, S \in Answers : ImportDeclarations(e, S)
             \/ \E f \in Facilities : ImportFacility(f)
             \/ \E d \in Editors, e \in Events, post \in Posts : LoadRoster(d, e, post)
             \/ \E d \in Editors : JudgeEdit(d)
             \/ \E d \in Editors : SaveEdit(d)
             \/ \E d \in Editors : SaveEditRefused(d)
             \/ \E d \in Editors : AuditEdit(d)
      PROVE  UNCHANGED queueVars
  BY <1>7, Zenon DEF ImportDeclarations, ImportFacility, LoadRoster, JudgeEdit, SaveEdit,
                     SaveEditRefused, AuditEdit
<1>8. CASE UNCHANGED vars
  BY <1>8 DEF vars
<1>q. QED
  BY NextIsRosterStep, <1>1, <1>2, <1>3, <1>4, <1>5, <1>6, <1>7, <1>8, Zenon DEF RosterStep

\* A worker, a request or a deletion does nothing to the queue that JobQueue does not
\* allow, so its theorems carry over.
THEOREM RosterIsAQueue == RSpec => Spec
BY RosterStepIsQueueStep, PTL DEF RSpec, RInit, Spec

THEOREM RosterQueueInvariant == RSpec => []QueueInv
BY RosterIsAQueue, QueueInvariant, PTL

-----------------------------------------------------------------------------
(* Rosters. *)

\* The problems of this event have the headcounts of the master.
LEMMA RosterProblemFacts ==
    ASSUME NEW p \in RosterProblems
    PROVE  p \in AnyProblem /\ p.headcount = Headcount
BY ReoptimizationAssumption DEF RosterProblems, AnyProblem, Problems

\* What the solver returns could stand on its own.
LEMMA SolvedRosters ==
    ASSUME NEW p \in RosterProblems, NEW X \in Solutions(p, "soft")
    PROVE  /\ X \in SUBSET Posts
           /\ People(X) \subseteq p.available
           /\ OnePostEach(X)
           /\ WholeFacilities(X)
<1>0. p.facilities \subseteq Facilities /\ p.available \subseteq Staff
  BY DEF RosterProblems, Problems
<1>1. X \subseteq p.available \X p.facilities
  BY DEF Solutions, ModelPairs
<1>2. X \in SUBSET Posts
  BY <1>0, <1>1 DEF Posts
<1>3. People(X) \subseteq p.available
  BY <1>1 DEF People
<1>4. ASSUME NEW a \in X, NEW b \in X, a[1] = b[1] PROVE a = b
  <2>1. Cardinality(PostsOf(X, a[1])) <= 1
    BY <1>1 DEF Solutions, CommonRows
  <2>2. IsFiniteSet(PostsOf(X, a[1]))
    BY RostersAreFinite, <1>2 DEF PostsOf
  <2>3. a \in PostsOf(X, a[1]) /\ b \in PostsOf(X, a[1])
    BY <1>4 DEF PostsOf
  <2>q. QED
    BY AtMostOne, <2>1, <2>2, <2>3
<1>5. ASSUME NEW f \in Facilities PROVE Cardinality(At(X, f)) \in {0, Headcount[f]}
  <2>1. CASE f \in p.facilities
    BY <2>1, RosterProblemFacts DEF Solutions, CommonRows
  <2>2. CASE f \notin p.facilities
    <3>1. At(X, f) = {}
      BY <1>1, <2>2 DEF At
    <3>q. QED
      BY <3>1, FS_EmptySet
  <2>q. QED
    BY <2>1, <2>2
<1>q. QED
  BY <1>2, <1>3, <1>4, <1>5 DEF OnePostEach, WholeFacilities

\* So could what the checker accepts, but for double posts, which are not needed here.
LEMMA ValidRosters ==
    ASSUME NEW p \in RosterProblems, NEW A \in SUBSET Posts, ValidateAssignments(p, A) = {}
    PROVE  /\ People(A) \subseteq p.available
           /\ \A a \in A : a[2] \in p.facilities
           /\ \A f \in p.facilities : Cardinality(At(A, f)) = Headcount[f]
           /\ WholeFacilities(A)
<1>1. Obeys(p, A)
  <2>1. CheckAssignments(p, A, TRUE, FALSE) = {}
    BY DEF ValidateAssignments, CheckAssignments
  <2>q. QED
    BY CheckerMeansProgram, RosterProblemFacts, <2>1
<1>2. A \subseteq p.available \X p.facilities
  BY <1>1 DEF Obeys, ModelPairs
<1>3. \A f \in p.facilities : Cardinality(At(A, f)) = Headcount[f]
  BY <1>1, RosterProblemFacts DEF Obeys
<1>4. ASSUME NEW f \in Facilities PROVE Cardinality(At(A, f)) \in {0, Headcount[f]}
  <2>1. CASE f \in p.facilities
    BY <1>3, <2>1
  <2>2. CASE f \notin p.facilities
    <3>1. At(A, f) = {}
      BY <1>2, <2>2 DEF At
    <3>q. QED
      BY <3>1, FS_EmptySet
  <2>q. QED
    BY <2>1, <2>2
<1>5. People(A) \subseteq p.available /\ \A a \in A : a[2] \in p.facilities
  BY <1>2 DEF People
<1>q. QED
  BY <1>3, <1>4, <1>5 DEF WholeFacilities

\* The edit of a roster in which nobody has two posts is such a roster.
LEMMA EditsKeepOnePost ==
    ASSUME NEW A \in SUBSET Posts, NEW post \in Posts
    PROVE  /\ Edited(A, post) \in SUBSET Posts
           /\ OnePostEach(A) => OnePostEach(Edited(A, post))
BY DEF Edited, PostsOf, OnePostEach

\* With every headcount met before and after, the person stays where they were.
LEMMA CompleteEditsChangeNothing ==
    ASSUME NEW p \in RosterProblems, NEW A \in SUBSET Posts, NEW post \in Posts,
           OnePostEach(A), Complete(p, A), ValidateAssignments(p, Edited(A, post)) = {}
    PROVE  Edited(A, post) = A
<1> DEFINE B == Edited(A, post)
           f == post[2]
<1>1. B \in SUBSET Posts
  BY EditsKeepOnePost
<1>2. /\ f \in p.facilities
      /\ Cardinality(At(B, f)) = Headcount[f]
  <2>1. post \in B
    BY DEF Edited
  <2>q. QED
    BY ValidRosters, <1>1, <2>1
<1>3. Cardinality(At(A, f)) = Headcount[f]
  BY <1>2 DEF Complete
<1>4. post \in A
  <2>1. SUFFICES ASSUME post \notin A PROVE FALSE
    OBVIOUS
  <2>2. At(B, f) = At(A, f) \cup {post}
    BY <2>1 DEF Edited, PostsOf, At, Posts
  <2>3. post \notin At(A, f)
    BY <2>1 DEF At
  <2>4. At(A, f) \in SUBSET Posts
    BY DEF At
  <2>5. Cardinality(At(B, f)) = Cardinality(At(A, f)) + 1
    BY FS_AddElement, RostersAreFinite, <2>2, <2>3, <2>4
  <2>6. Headcount[f] \in Nat
    BY ReoptimizationAssumption DEF Posts
  <2>q. QED
    BY <1>2, <1>3, <2>5, <2>6
<1>5. PostsOf(A, post[1]) = {post}
  BY <1>4 DEF PostsOf, OnePostEach
<1>q. QED
  BY <1>4, <1>5 DEF Edited

LEMMA Multiples ==
    ASSUME NEW h \in Nat \ {0}, NEW k \in Nat
    PROVE  (h * k) % h = 0
BY Z3

\* Appending a whole number of headcounts to a whole number of them.
LEMMA WholeSums ==
    ASSUME NEW h \in Nat \ {0}, NEW m \in Nat, NEW n \in {0, h}, m % h = 0
    PROVE  (m + n) % h = 0
<1> DEFINE q == m \div h
<1>1. m = h * q /\ q \in Nat
  BY Z3
<1>2. CASE n = 0
  BY <1>2
<1>3. CASE n = h
  <2>1. m + n = h * (q + 1) /\ q + 1 \in Nat
    BY <1>1, <1>3, Z3
  <2> HIDE DEF q
  <2>2. (h * (q + 1)) % h = 0
    BY <2>1, Multiples
  <2>q. QED
    BY <2>1, <2>2, Zenon
<1>q. QED
  BY <1>2, <1>3

LEMMA RostersAdd ==
    ASSUME NEW A \in SUBSET Posts, NEW B \in SUBSET Posts,
           OnePostEach(A), OnePostEach(B), People(A) \cap People(B) = {}
    PROVE  /\ OnePostEach(A \cup B)
           /\ \A f : Cardinality(At(A \cup B, f)) = Cardinality(At(A, f)) + Cardinality(At(B, f))
<1>1. \A a \in A, b \in B : a[1] # b[1]
  BY DEF People
<1>2. OnePostEach(A \cup B)
  BY <1>1 DEF OnePostEach
<1>3. ASSUME NEW f
      PROVE  Cardinality(At(A \cup B, f)) = Cardinality(At(A, f)) + Cardinality(At(B, f))
  <2>1. At(A \cup B, f) = At(A, f) \cup At(B, f)
    BY DEF At
  <2>2. At(A, f) \cap At(B, f) = {}
    BY <1>1 DEF At
  <2>3. /\ IsFiniteSet(At(A, f)) /\ Cardinality(At(A, f)) \in Nat
        /\ IsFiniteSet(At(B, f)) /\ Cardinality(At(B, f)) \in Nat
    BY RostersAreFinite DEF At
  <2>4. Cardinality(At(A, f) \cup At(B, f))
          = Cardinality(At(A, f)) + Cardinality(At(B, f)) - Cardinality(At(A, f) \cap At(B, f))
    BY FS_Union, <2>3
  <2>5. Cardinality(At(A, f) \cap At(B, f)) = 0
    BY <2>2, FS_EmptySet
  <2>6. Cardinality(At(A, f) \cup At(B, f)) = Cardinality(At(A, f)) + Cardinality(At(B, f))
    BY <2>3, <2>4, <2>5
  <2>q. QED
    BY <2>1, <2>6
<1>q. QED
  BY <1>2, <1>3

-----------------------------------------------------------------------------
(* Type correctness. *)

\* Both writers read a problem.
LEMMA ProblemType ==
    ASSUME RTypeOK, NEW e \in Events, NEW cap \in Nat, NEW mode, NEW previous \in SUBSET Posts
    PROVE  /\ ProblemFor(e, cap, mode, previous) \in RosterProblems
           /\ ProblemFor(e, cap, mode, previous).available = available[e]
           /\ NoProblem \in RosterProblems
<1>1. Pins(mode, previous) \in SUBSET Posts
  BY DEF Pins
<1>2. ProblemFor(e, cap, mode, previous) \in RosterProblems
  BY <1>1 DEF ProblemFor, RosterProblems, Problems, RTypeOK
<1>q. QED
  BY <1>2 DEF ProblemFor, NoProblem, RosterProblems, Problems

LEMMA IdleTypes == NoProblem \in RosterProblems /\ NoPlan \in Plans /\ IdleEditor \in EditorStates
<1>1. NoProblem \in RosterProblems
  BY DEF NoProblem, RosterProblems, Problems
<1>q. QED
  BY <1>1 DEF NoPlan, Plans, IdleEditor, EditorStates

\* Updating the fields of a plan or an editor keeps its type.
LEMMA PlanType ==
    ASSUME NEW x \in Plans, NEW X \in SUBSET Posts
    PROVE  [x EXCEPT !.problem = NoProblem, !.roster = X] \in Plans
BY IdleTypes DEF Plans

LEMMA EditorType ==
    ASSUME NEW x \in EditorStates, NEW pc \in {"idle", "loaded", "saving", "auditing"},
           NEW p \in RosterProblems
    PROVE  [x EXCEPT !.pc = pc, !.problem = p] \in EditorStates
BY DEF EditorStates

\* Where a worker with a job builds its problem, the job is one of an event of the run
\* and carries a request.
LEMMA BuildFacts ==
    ASSUME QueueInv, JobsCarryRequests, NEW w \in Workers, BuildProblem(w)
    PROVE  EventOf(worker[w].job) \in Events /\ CapOf[worker[w].ask.params] \in Nat
<1> DEFINE j == worker[w].job
<1>1. worker[w].pc \in {"selected"} \cup Holding /\ EventOf(j) \in events
  BY DEF BuildProblem, Holding
<1>2. j \in JobIds /\ worker[w].ask = accepted[j] /\ HasRow(j)
  BY <1>1 DEF QueueInv, WorkersKnowTheirJobs
<1>3. jobs[j].ask = accepted[j] /\ jobs[j].ask \in Asks
  BY <1>2 DEF QueueInv, RowsAreAccepted, JobsCarryRequests
<1>4. worker[w].ask.params \in Params
  BY <1>2, <1>3 DEF Asks
<1>q. QED
  BY <1>2, <1>4, JobIdFacts, ReoptimizationAssumption

\* A worker that saves works on a job of an event of the run.
LEMMA SaveFacts ==
    ASSUME QueueInv, NEW w \in Workers, SaveResult(w)
    PROVE  EventOf(worker[w].job) \in Events /\ EventOf(worker[w].job) \in events
BY JobIdFacts DEF SaveResult, Holding, QueueInv, WorkersKnowTheirJobs

LEMMA AuditRecordType ==
    ASSUME RTypeOK, NEW d \in Editors, EditIsSound(d), editor[d].pc # "idle"
    PROVE  AuditRecord(d) \in AuditRecords
<1>1. editor[d].event \in Events /\ editor[d].post \in Posts /\ editor[d].current \in SUBSET Posts
  BY DEF EditIsSound, RTypeOK, EditorStates
<1>q. QED
  BY <1>1 DEF AuditRecord, AuditRecords, PostsOf

LEMMA RosterTypesStep ==
    ASSUME QueueInv, RosterInv, RNext, TypeOK' PROVE RTypeOK'
<1> USE DEF RTypeOK
<1>i. RTypeOK /\ JobsCarryRequests /\ \A d \in Editors : EditIsSound(d)
  BY DEF RosterInv
<1>1. CASE UNCHANGED rosterVars
  BY <1>i, <1>1 DEF rosterVars
<1>2. ASSUME NEW e \in Events, NEW S \in Answers, ImportDeclarations(e, S) PROVE RTypeOK'
  BY <1>i, <1>2, ReoptimizationAssumption DEF ImportDeclarations
<1>3. ASSUME NEW f \in Facilities, ImportFacility(f) PROVE RTypeOK'
  BY <1>i, <1>3 DEF ImportFacility
<1>4. ASSUME NEW e \in Events, RDeleteEvent(e) PROVE RTypeOK'
  BY <1>i, <1>4 DEF RDeleteEvent
<1>5. ASSUME NEW w \in Workers, RBuildProblem(w) PROVE RTypeOK'
  <2> DEFINE e == EventOf(worker[w].job)
             p == ProblemFor(e, CapOf[worker[w].ask.params], worker[w].ask.mode, {})
  <2>1. e \in Events /\ CapOf[worker[w].ask.params] \in Nat
    BY BuildFacts, <1>i, <1>5 DEF RBuildProblem
  <2>2. p \in RosterProblems /\ assigned[e] \in SUBSET Posts
    BY ProblemType, <1>i, <2>1
  <2> HIDE DEF p
  <2>3. [problem |-> p, previous |-> assigned[e], roster |-> {}] \in Plans
    BY <2>2 DEF Plans
  <2>4. plan' = [plan EXCEPT ![w] = [problem |-> p, previous |-> assigned[e], roster |-> {}]]
    BY <1>5 DEF RBuildProblem, p
  <2>q. QED
    BY <1>i, <1>5, <2>3, <2>4 DEF RBuildProblem
<1>6. ASSUME NEW w \in Workers, NEW X \in SUBSET Posts, RSolved(w, X) PROVE RTypeOK'
  <2>1. [plan[w] EXCEPT !.problem = NoProblem, !.roster = X] \in Plans
    BY PlanType, <1>i
  <2>q. QED
    BY <1>i, <1>6, <2>1 DEF RSolved
<1>7. ASSUME NEW w \in Workers, Forget(w) PROVE RTypeOK'
  BY IdleTypes, <1>i, <1>7 DEF Forget
<1>8. ASSUME NEW w \in Workers, RSaveResult(w) PROVE RTypeOK'
  <2>1. plan[w].roster \in SUBSET Posts
    BY <1>i DEF Plans
  <2>2. EventOf(worker[w].job) \in Events
    BY SaveFacts, <1>8 DEF RSaveResult
  <2>q. QED
    BY IdleTypes, <1>i, <1>8, <2>1, <2>2 DEF RSaveResult
<1>9. ASSUME NEW d \in Editors, NEW e \in Events, NEW post \in Posts, LoadRoster(d, e, post)
      PROVE  RTypeOK'
  <2>1. [pc |-> "loaded", event |-> e, post |-> post, current |-> assigned[e],
         problem |-> NoProblem] \in EditorStates
    BY IdleTypes, <1>i DEF EditorStates
  <2>q. QED
    BY <1>i, <1>9, <2>1 DEF LoadRoster
<1>10. ASSUME NEW d \in Editors, JudgeEdit(d) PROVE RTypeOK'
  <2> DEFINE p == ProblemFor(editor[d].event, ServerCap, "FULL", {})
  <2>1. editor[d].event \in Events
    BY <1>i, <1>10 DEF JudgeEdit, EditIsSound
  <2>2. p \in RosterProblems
    BY ProblemType, ReoptimizationAssumption, <1>i, <2>1
  <2> HIDE DEF p
  <2>3. [editor[d] EXCEPT !.pc = "saving", !.problem = p] \in EditorStates
    BY EditorType, <1>i, <2>2
  <2>4. \/ editor' = [editor EXCEPT ![d] = [editor[d] EXCEPT !.pc = "saving", !.problem = p]]
        \/ editor' = [editor EXCEPT ![d] = IdleEditor]
    BY <1>10 DEF JudgeEdit, p
  <2>5. editor' \in [Editors -> EditorStates]
    BY IdleTypes, <1>i, <2>3, <2>4
  <2>q. QED
    BY <1>i, <1>10, <2>5 DEF JudgeEdit
<1>11. ASSUME NEW d \in Editors, SaveEdit(d) PROVE RTypeOK'
  <2>1. editor[d].event \in Events /\ editor[d].post \in Posts /\ editor[d].current \in SUBSET Posts
    BY <1>i, <1>11 DEF SaveEdit, EditIsSound, EditorStates
  <2>2. EditOf(d) \in SUBSET Posts
    BY EditsKeepOnePost, <2>1 DEF EditOf
  <2>3. AuditRecord(d) \in AuditRecords
    BY AuditRecordType, <1>i, <1>11 DEF SaveEdit
  <2>4. [editor[d] EXCEPT !.pc = "auditing", !.problem = NoProblem] \in EditorStates
    BY EditorType, IdleTypes, <1>i
  <2>q. QED
    BY <1>i, <1>11, <2>1, <2>2, <2>3, <2>4 DEF SaveEdit
<1>12. ASSUME NEW d \in Editors, SaveEditRefused(d) PROVE RTypeOK'
  BY IdleTypes, <1>i, <1>12 DEF SaveEditRefused
<1>13. ASSUME NEW d \in Editors, AuditEdit(d) PROVE RTypeOK'
  <2>1. AuditRecord(d) \in AuditRecords
    BY AuditRecordType, <1>i, <1>13 DEF AuditEdit
  <2>q. QED
    BY IdleTypes, <1>i, <1>13, <2>1 DEF AuditEdit
<1>14. CASE RApiCrash
  BY IdleTypes, <1>i, <1>14 DEF RApiCrash
<1>15. ASSUME NEW w \in Workers,
              \/ \E v \in TERMINAL_STATES : RUnsolved(w, v)
              \/ RSaveRefused(w) \/ RCrash(w)
       PROVE  Forget(w)
  BY <1>15, Zenon DEF RUnsolved, RSaveRefused, RCrash
<1>q. QED
  BY NextIsRosterStep, <1>1, <1>2, <1>3, <1>4, <1>5, <1>6, <1>7, <1>8, <1>9, <1>10, <1>11,
     <1>12, <1>13, <1>14, <1>15, Zenon DEF RosterStep, QueueOnly

-----------------------------------------------------------------------------
(* Jobs and willing people. *)

LEMMA JobsCarryRequestsStep ==
    ASSUME QueueInv, JobsCarryRequests, [Next]_queueVars PROVE JobsCarryRequests'
<1> USE DEF tables, history
<1>i. TypeOK
  BY DEF QueueInv
<1>1. ASSUME NEW e \in Events, DeleteEvent(e) PROVE JobsCarryRequests'
  BY <1>i, <1>1 DEF DeleteEvent, JobsCarryRequests, TypeOK, HasRow, NoRow
<1>2. ASSUME NEW c \in Clients, NEW e \in Events, NEW a \in Asks, BeginEnqueue(c, e, a)
      PROVE  JobsCarryRequests'
  BY <1>i, <1>2 DEF BeginEnqueue, JobsCarryRequests, TypeOK, HasRow
<1>3. ASSUME NEW c \in Clients, InsertJob(c) PROVE JobsCarryRequests'
  <2> DEFINE j == JobIdAt(client[c].event, client[c].at)
  <2>1. client[c].ask \in Asks
    BY <1>3 DEF InsertJob, JobsCarryRequests
  <2>2. \A k \in JobIds : jobs'[k] = jobs[k] \/ jobs'[k].ask = client[c].ask
    BY <1>i, <1>3 DEF InsertJob, TypeOK
  <2>3. client' = [client EXCEPT ![c] = IdleClient]
    BY <1>3 DEF InsertJob
  <2>q. QED
    BY <1>i, <2>1, <2>2, <2>3 DEF JobsCarryRequests, TypeOK, HasRow, IdleClient
<1>4. ASSUME NEW c \in Clients, InsertRefused(c) PROVE JobsCarryRequests'
  BY <1>i, <1>4 DEF InsertRefused, JobsCarryRequests, TypeOK, HasRow, IdleClient
<1>5. CASE ApiCrash
  BY <1>i, <1>5 DEF ApiCrash, JobsCarryRequests, HasRow, IdleClient
<1>6. ASSUME NEW w \in Workers, ClaimCandidate(w) PROVE JobsCarryRequests'
  <2>1. \A k \in JobIds : jobs'[k].ask = jobs[k].ask /\ (HasRow(k)' <=> HasRow(k))
    BY <1>i, <1>6 DEF ClaimCandidate, TypeOK, Rows, HasRow
  <2>q. QED
    BY <1>6, <2>1 DEF ClaimCandidate, JobsCarryRequests
<1>7. ASSUME NEW w \in Workers, MarkJob(w) PROVE JobsCarryRequests'
  <2>1. \A k \in JobIds : jobs'[k].ask = jobs[k].ask /\ (HasRow(k)' => HasRow(k))
    BY MarkFacts, <1>7 DEF HasRow
  <2>q. QED
    BY <1>7, <2>1 DEF MarkJob, JobsCarryRequests
<1>8. CASE UNCHANGED <<client, jobs>>
  BY <1>8 DEF JobsCarryRequests, HasRow
<1>q. QED
  BY NextIsQueueStep, <1>1, <1>2, <1>3, <1>4, <1>5, <1>6, <1>7, <1>8
     DEF QueueStep, queueVars, Tick, SelectCandidate, LoseCandidate, BuildProblem, BuildFails,
         Solve, SaveResult, SaveRefused, Crash, Restart

\* Events go and never come; while an event is there, nobody who was available for it is
\* forgotten.
LEMMA WillingStep ==
    ASSUME RosterInv, [RNext]_vars
    PROVE  /\ \A S : \A e \in Events : Willing(S, e) => Willing(S, e)'
           /\ ImportsAreRemembered'
<1> USE DEF tables, history
<1>i. RTypeOK /\ TypeOK /\ ImportsAreRemembered
  BY DEF RosterInv, RTypeOK
<1>1. ASSUME NEW e \in Events, RDeleteEvent(e)
      PROVE  /\ \A S : \A x \in Events : Willing(S, x) => Willing(S, x)'
             /\ ImportsAreRemembered'
  <2>1. /\ events' = events \ {e}
        /\ available' = [available EXCEPT ![e] = {}]
        /\ everAvailable' = [everAvailable EXCEPT ![e] = {}]
    BY <1>1 DEF RDeleteEvent, DeleteEvent
  <2>q. QED
    BY <1>i, <2>1 DEF RTypeOK, Willing, ImportsAreRemembered
<1>2. ASSUME NEW e \in Events, NEW S \in Answers, ImportDeclarations(e, S)
      PROVE  /\ \A T : \A x \in Events : Willing(T, x) => Willing(T, x)'
             /\ ImportsAreRemembered'
  <2>1. /\ events' = events
        /\ available' = [available EXCEPT ![e] = S]
        /\ everAvailable' = [everAvailable EXCEPT ![e] = @ \cup S]
    BY <1>2 DEF ImportDeclarations, queueVars
  <2>q. QED
    BY <1>i, <2>1 DEF RTypeOK, Willing, ImportsAreRemembered
<1>3. CASE UNCHANGED <<events, available, everAvailable>>
  BY <1>i, <1>3 DEF Willing, ImportsAreRemembered
<1>4. CASE QueueOnly
  <2>1. UNCHANGED <<events, available, everAvailable>>
    BY <1>4 DEF QueueOnly, rosterVars, Tick, BeginEnqueue, InsertJob, InsertRefused,
                SelectCandidate, ClaimCandidate, LoseCandidate, BuildFails, MarkJob, Restart
  <2>q. QED
    BY <1>3, <2>1
<1>5. ASSUME NEW w \in Workers,
             \/ RBuildProblem(w) \/ RSaveResult(w) \/ RSaveRefused(w) \/ RCrash(w)
             \/ \E X \in SUBSET Posts : RSolved(w, X)
             \/ \E v \in TERMINAL_STATES : RUnsolved(w, v)
      PROVE  UNCHANGED <<events, available, everAvailable>>
  BY <1>5 DEF RBuildProblem, RSaveResult, RSaveRefused, RCrash, RSolved, RUnsolved, Forget,
              BuildProblem, SaveResult, SaveRefused, Crash, Solve
<1>6. ASSUME \/ \E f \in Facilities : ImportFacility(f)
             \/ \E d \in Editors, e \in Events, post \in Posts : LoadRoster(d, e, post)
             \/ \E d \in Editors :
                   JudgeEdit(d) \/ SaveEdit(d) \/ SaveEditRefused(d) \/ AuditEdit(d)
             \/ RApiCrash
      PROVE  UNCHANGED <<events, available, everAvailable>>
  BY <1>6 DEF ImportFacility, LoadRoster, JudgeEdit, SaveEdit, SaveEditRefused, AuditEdit,
              RApiCrash, ApiCrash, queueVars
<1>7. CASE UNCHANGED vars
  BY <1>3, <1>7 DEF vars, queueVars, rosterVars
<1>q. QED
  BY NextIsRosterStep, <1>1, <1>2, <1>3, <1>4, <1>5, <1>6, <1>7, Zenon DEF RosterStep

-----------------------------------------------------------------------------
(* Plans. *)

\* What a step leaves alone stays sound.
LEMMA PlanKept ==
    ASSUME RosterInv, [RNext]_vars, NEW w \in Workers, PlanIsSound(w),
           EventOf(worker[w].job) \in Events \/ worker[w].pc \notin Holding,
           worker'[w] = worker[w] /\ plan'[w] = plan[w]
    PROVE  PlanIsSound(w)'
<1>1. \A S : \A e \in Events : Willing(S, e) => Willing(S, e)'
  BY WillingStep
<1>q. QED
  BY <1>1 DEF PlanIsSound, Holding

\* A worker that has no problem and no roster has no unsound ones.
LEMMA NoPlanIsSound ==
    ASSUME NEW w \in Workers, worker'[w].pc \notin {"solving", "saving"}
    PROVE  PlanIsSound(w)'
BY DEF PlanIsSound

LEMMA PlansStep ==
    ASSUME QueueInv, RosterInv, [RNext]_vars, NEW w \in Workers PROVE PlanIsSound(w)'
<1> USE DEF tables, history
<1>i. /\ RTypeOK /\ TypeOK /\ PlanIsSound(w)
      /\ worker \in [Workers -> WorkerStates] /\ plan \in [Workers -> Plans]
  BY DEF RosterInv, RTypeOK, TypeOK
<1>j. EventOf(worker[w].job) \in Events \/ worker[w].pc \notin Holding
  BY JobIdFacts DEF QueueInv, WorkersKnowTheirJobs
<1>1. CASE UNCHANGED <<worker, plan>>
  BY PlanKept, <1>i, <1>j, <1>1
<1>2. CASE QueueOnly
  <2>1. plan' = plan
    BY <1>2 DEF QueueOnly, rosterVars
  <2>2. worker'[w] = worker[w] \/ worker'[w].pc \notin {"solving", "saving"}
    <3>1. ASSUME \/ Tick
                 \/ \E c \in Clients, e \in Events, a \in Asks : BeginEnqueue(c, e, a)
                 \/ \E c \in Clients : InsertJob(c) \/ InsertRefused(c)
          PROVE  worker'[w] = worker[w]
      BY <3>1 DEF Tick, BeginEnqueue, InsertJob, InsertRefused
    <3>2. ASSUME NEW v \in Workers, SelectCandidate(v)
          PROVE  worker'[w] = worker[w] \/ worker'[w].pc \notin {"solving", "saving"}
      BY <1>i, <3>2 DEF SelectCandidate
    <3>3. ASSUME NEW v \in Workers, ClaimCandidate(v)
          PROVE  worker'[w] = worker[w] \/ worker'[w].pc \notin {"solving", "saving"}
      BY <1>i, <3>3 DEF ClaimCandidate, WorkerStates
    <3>4. ASSUME NEW v \in Workers, LoseCandidate(v) \/ MarkJob(v) \/ Restart(v)
          PROVE  worker'[w] = worker[w] \/ worker'[w].pc \notin {"solving", "saving"}
      <4>1. worker' = [worker EXCEPT ![v] = IdleWorker]
        BY <3>4 DEF LoseCandidate, MarkJob, Restart
      <4>q. QED
        BY <1>i, <4>1 DEF IdleWorker
    <3>5. ASSUME NEW v \in Workers, BuildFails(v)
          PROVE  worker'[w] = worker[w] \/ worker'[w].pc \notin {"solving", "saving"}
      BY <1>i, <3>5 DEF BuildFails, WorkerStates
    <3>q. QED
      BY <1>2, <3>1, <3>2, <3>3, <3>4, <3>5, Zenon DEF QueueOnly
  <2>q. QED
    BY PlanKept, NoPlanIsSound, <1>i, <1>j, <2>1, <2>2
<1>3. ASSUME NEW v \in Workers, RBuildProblem(v) PROVE PlanIsSound(w)'
  <2> DEFINE e == EventOf(worker[v].job)
             p == ProblemFor(e, CapOf[worker[v].ask.params], worker[v].ask.mode, {})
  <2>1. CASE w = v
    <3>1. e \in Events
      BY BuildFacts, <1>3 DEF RBuildProblem, RosterInv
    <3>2. worker'[w].pc = "solving" /\ worker'[w].job = worker[w].job /\ events' = events
      BY <1>i, <1>3, <2>1 DEF RBuildProblem, BuildProblem, WorkerStates
    <3>3. plan'[w].problem = p
      BY <1>i, <1>3, <2>1 DEF RBuildProblem
    <3>4. p.available = available[e]
      BY DEF ProblemFor
    <3>5. available[e] \subseteq everAvailable[e] /\ everAvailable' = everAvailable
      BY <1>3, <3>1 DEF RBuildProblem, RosterInv, ImportsAreRemembered
    <3>q. QED
      BY <2>1, <3>2, <3>3, <3>4, <3>5 DEF PlanIsSound, Willing
  <2>2. CASE w # v
    BY PlanKept, <1>i, <1>j, <1>3, <2>2 DEF RBuildProblem, BuildProblem
  <2>q. QED
    BY <2>1, <2>2
<1>4. ASSUME NEW v \in Workers, NEW X \in SUBSET Posts, RSolved(v, X) PROVE PlanIsSound(w)'
  <2>1. CASE w = v
    <3>1. plan[v].problem \in RosterProblems /\ X \in Solutions(plan[v].problem, "soft")
      BY <1>i, <1>4 DEF RSolved, Plans
    <3>2. /\ People(X) \subseteq plan[v].problem.available
          /\ OnePostEach(X) /\ WholeFacilities(X)
      BY SolvedRosters, <3>1
    <3>3. Willing(plan[v].problem.available, EventOf(worker[v].job))
      BY <1>i, <1>4, <2>1 DEF RSolved, Solve, PlanIsSound
    <3>4. /\ worker'[w].pc = "saving" /\ worker'[w].job = worker[w].job
          /\ plan'[w].roster = X
          /\ UNCHANGED <<events, everAvailable>>
      BY <1>i, <1>4, <2>1 DEF RSolved, Solve, WorkerStates, Plans
    <3>5. Willing(People(X), EventOf(worker[v].job))'
      BY <2>1, <3>2, <3>3, <3>4 DEF Willing
    <3>q. QED
      BY <2>1, <3>2, <3>4, <3>5 DEF PlanIsSound, Willing, WholeFacilities
  <2>2. CASE w # v
    BY PlanKept, <1>i, <1>j, <1>4, <2>2 DEF RSolved, Solve
  <2>q. QED
    BY <2>1, <2>2
<1>5. ASSUME NEW v \in Workers,
             \/ RSaveResult(v) \/ RSaveRefused(v) \/ RCrash(v)
             \/ \E s \in TERMINAL_STATES : RUnsolved(v, s)
      PROVE  PlanIsSound(w)'
  <2>1. /\ plan' = [plan EXCEPT ![v] = NoPlan]
        /\ \E x : x.pc \notin {"solving", "saving"} /\ worker' = [worker EXCEPT ![v] = x]
    <3>1. CASE RSaveResult(v)
      <4> DEFINE x == [worker[v] EXCEPT !.pc = "marking"]
      <4>1. x.pc = "marking" /\ worker' = [worker EXCEPT ![v] = x]
        BY <1>i, <3>1 DEF RSaveResult, SaveResult, WorkerStates
      <4> HIDE DEF x
      <4>q. QED
        BY <3>1, <4>1 DEF RSaveResult
    <3>2. CASE RSaveRefused(v) \/ RCrash(v)
      <4>1. DownWorker.pc = "down" /\ worker' = [worker EXCEPT ![v] = DownWorker]
        BY <3>2 DEF RSaveRefused, RCrash, SaveRefused, Crash, Die, DownWorker, IdleWorker
      <4>q. QED
        BY <3>2, <4>1 DEF RSaveRefused, RCrash, Forget
    <3>3. ASSUME NEW s \in TERMINAL_STATES, RUnsolved(v, s)
          PROVE  /\ plan' = [plan EXCEPT ![v] = NoPlan]
                 /\ \E x : x.pc \notin {"solving", "saving"} /\ worker' = [worker EXCEPT ![v] = x]
      <4> DEFINE x == [worker[v] EXCEPT !.pc = "marking", !.verdict = s]
      <4>1. x.pc = "marking" /\ worker' = [worker EXCEPT ![v] = x]
        BY <1>i, <3>3 DEF RUnsolved, Solve, WorkerStates
      <4> HIDE DEF x
      <4>q. QED
        BY <3>3, <4>1 DEF RUnsolved, Forget
    <3>q. QED
      BY <1>5, <3>1, <3>2, <3>3
  <2>2. CASE w = v
    BY NoPlanIsSound, <1>i, <2>1, <2>2
  <2>3. CASE w # v
    BY PlanKept, <1>i, <1>j, <2>1, <2>3
  <2>q. QED
    BY <2>2, <2>3
<1>6. ASSUME \/ \E e \in Events, S \in Answers : ImportDeclarations(e, S)
             \/ \E f \in Facilities : ImportFacility(f)
             \/ \E e \in Events : RDeleteEvent(e)
             \/ \E d \in Editors, e \in Events, post \in Posts : LoadRoster(d, e, post)
             \/ \E d \in Editors :
                   JudgeEdit(d) \/ SaveEdit(d) \/ SaveEditRefused(d) \/ AuditEdit(d)
             \/ RApiCrash
      PROVE  UNCHANGED <<worker, plan>>
  BY <1>6 DEF ImportDeclarations, ImportFacility, RDeleteEvent, DeleteEvent, LoadRoster,
              JudgeEdit, SaveEdit, SaveEditRefused, AuditEdit, RApiCrash, ApiCrash, queueVars
<1>7. CASE UNCHANGED vars
  BY <1>1, <1>7 DEF vars, queueVars, rosterVars
<1>q. QED
  BY NextIsRosterStep, <1>1, <1>2, <1>3, <1>4, <1>5, <1>6, <1>7, Zenon DEF RosterStep

-----------------------------------------------------------------------------
(* Edits. *)

\* What a step leaves alone stays sound.
LEMMA EditKept ==
    ASSUME RosterInv, [RNext]_vars, NEW d \in Editors, EditIsSound(d),
           editor'[d] = editor[d], edits \subseteq edits'
    PROVE  EditIsSound(d)'
<1>1. \A S : \A e \in Events : Willing(S, e) => Willing(S, e)'
  BY WillingStep
<1>2. EditOf(d)' = EditOf(d) /\ AuditRecord(d)' = AuditRecord(d)
  BY DEF EditOf, AuditRecord
<1>q. QED
  BY <1>1, <1>2 DEF EditIsSound, WholeFacilities

LEMMA IdleIsSound ==
    ASSUME NEW d \in Editors, editor'[d].pc = "idle" PROVE EditIsSound(d)'
BY DEF EditIsSound

\* An edit that was judged valid: whole facilities and willing people; and if it changes a
\* complete roster at all, it was not.
LEMMA JudgedEdits ==
    ASSUME RosterInv, NEW d \in Editors, JudgeEdit(d),
           editor'[d].pc = "saving"
    PROVE  /\ editor'[d].event = editor[d].event /\ editor'[d].post = editor[d].post
           /\ editor'[d].current = editor[d].current
           /\ OnePostEach(editor[d].current)
           /\ editor[d].event \in Events /\ editor[d].post \in Posts
           /\ WholeFacilities(EditOf(d))
           /\ People(EditOf(d)) \subseteq available[editor[d].event]
           /\ Complete(editor'[d].problem, editor[d].current) => EditOf(d) = editor[d].current
<1> DEFINE p == ProblemFor(editor[d].event, ServerCap, "FULL", {})
<1>1. /\ RTypeOK /\ EditIsSound(d) /\ editor[d] \in EditorStates
      /\ editor[d].current \in SUBSET Posts
  BY DEF RosterInv, RTypeOK, EditorStates
<1>2. /\ editor[d].event \in Events /\ editor[d].post \in Posts
      /\ OnePostEach(editor[d].current)
  BY <1>1 DEF JudgeEdit, EditIsSound
<1>3. p \in RosterProblems /\ p.available = available[editor[d].event]
  BY ProblemType, ReoptimizationAssumption, <1>1, <1>2
<1>4. /\ editor'[d] = [editor[d] EXCEPT !.pc = "saving", !.problem = p]
      /\ ValidateAssignments(p, EditOf(d)) = {}
  <2>1. editor'[d] # IdleEditor
    BY DEF IdleEditor
  <2>q. QED
    BY <1>1, <2>1 DEF JudgeEdit, RTypeOK
<1> HIDE DEF p
<1>5. /\ editor'[d].event = editor[d].event /\ editor'[d].post = editor[d].post
      /\ editor'[d].current = editor[d].current /\ editor'[d].problem = p
  BY <1>1, <1>4 DEF EditorStates
<1>6. EditOf(d) = Edited(editor[d].current, editor[d].post) /\ EditOf(d) \in SUBSET Posts
  BY EditsKeepOnePost, <1>1, <1>2 DEF EditOf
<1>7. WholeFacilities(EditOf(d)) /\ People(EditOf(d)) \subseteq available[editor[d].event]
  BY ValidRosters, <1>3, <1>4, <1>6
<1>8. Complete(p, editor[d].current) => EditOf(d) = editor[d].current
  BY CompleteEditsChangeNothing, <1>1, <1>2, <1>3, <1>4, <1>6
<1>q. QED
  BY <1>2, <1>5, <1>7, <1>8

\* The steps of editors, as seen by editor d: those of its own, and the others.
LEMMA EditorSteps ==
    ASSUME RosterInv, [RNext]_vars, NEW d \in Editors
    PROVE  \/ editor'[d] = editor[d] /\ edits \subseteq edits'
           \/ editor'[d] = IdleEditor
           \/ \E e \in Events, post \in Posts : LoadRoster(d, e, post)
           \/ JudgeEdit(d)
           \/ SaveEdit(d)
<1>i. editor \in [Editors -> EditorStates]
  BY DEF RosterInv, RTypeOK
<1>1. ASSUME NEW x \in Editors, NEW e \in Events, NEW post \in Posts, LoadRoster(x, e, post)
      PROVE  LoadRoster(d, e, post) \/ (editor'[d] = editor[d] /\ edits' = edits)
  BY <1>i, <1>1 DEF LoadRoster
<1>2. ASSUME NEW x \in Editors, JudgeEdit(x)
      PROVE  JudgeEdit(d) \/ (editor'[d] = editor[d] /\ edits' = edits)
  <2>1. CASE x = d
    BY <1>2, <2>1
  <2>2. CASE x # d
    BY <1>i, <1>2, <2>2 DEF JudgeEdit
  <2>q. QED
    BY <2>1, <2>2
<1>3. ASSUME NEW x \in Editors, SaveEdit(x)
      PROVE  SaveEdit(d) \/ (editor'[d] = editor[d] /\ edits \subseteq edits')
  <2>1. CASE x = d
    BY <1>3, <2>1
  <2>2. CASE x # d
    BY <1>i, <1>3, <2>2 DEF SaveEdit
  <2>q. QED
    BY <2>1, <2>2
<1>4. ASSUME NEW x \in Editors, SaveEditRefused(x) \/ AuditEdit(x)
      PROVE  editor'[d] = IdleEditor \/ (editor'[d] = editor[d] /\ edits' = edits)
  BY <1>i, <1>4 DEF SaveEditRefused, AuditEdit
<1>5. CASE RApiCrash
  BY <1>5 DEF RApiCrash
<1>6. ASSUME \/ QueueOnly
             \/ \E e \in Events, S \in Answers : ImportDeclarations(e, S)
             \/ \E f \in Facilities : ImportFacility(f)
             \/ \E e \in Events : RDeleteEvent(e)
             \/ \E w \in Workers : RBuildProblem(w)
             \/ \E w \in Workers, X \in SUBSET Posts : RSolved(w, X)
             \/ \E w \in Workers, v \in TERMINAL_STATES : RUnsolved(w, v)
             \/ \E w \in Workers : RSaveResult(w)
             \/ \E w \in Workers : RSaveRefused(w)
             \/ \E w \in Workers : RCrash(w)
      PROVE  UNCHANGED <<editor, edits>>
  BY <1>6 DEF QueueOnly, rosterVars, ImportDeclarations, ImportFacility, RDeleteEvent,
              RBuildProblem, RSolved, RUnsolved, RSaveResult, RSaveRefused, RCrash, Forget
<1>7. CASE UNCHANGED vars
  BY <1>7 DEF vars, rosterVars
<1>q. QED
  BY NextIsRosterStep, <1>1, <1>2, <1>3, <1>4, <1>5, <1>6, <1>7 DEF RosterStep

LEMMA EditsStep ==
    ASSUME RosterInv, [RNext]_vars, NEW d \in Editors
    PROVE  /\ EditIsSound(d)'
           /\ (editor[d].pc = "saving" /\ Complete(editor[d].problem, editor[d].current)
                  => EditOf(d) = editor[d].current)'
<1> DEFINE Frozen == editor[d].pc = "saving" /\ Complete(editor[d].problem, editor[d].current)
                         => EditOf(d) = editor[d].current
<1>i. /\ editor \in [Editors -> EditorStates] /\ assigned \in [Events -> SUBSET Posts]
      /\ EditIsSound(d) /\ Frozen
  BY DEF RosterInv, RTypeOK, CompleteRosterIsFrozen
<1>1. CASE editor'[d] = editor[d] /\ edits \subseteq edits'
  <2>1. EditIsSound(d)'
    BY EditKept, <1>i, <1>1
  <2>2. Frozen'
    BY <1>i, <1>1 DEF EditOf, Complete
  <2>q. QED
    BY <2>1, <2>2
<1>2. CASE editor'[d] = IdleEditor
  BY IdleIsSound, <1>2 DEF IdleEditor
<1>3. ASSUME NEW e \in Events, NEW post \in Posts, LoadRoster(d, e, post)
      PROVE  EditIsSound(d)' /\ Frozen'
  <2>1. editor'[d] = [pc |-> "loaded", event |-> e, post |-> post, current |-> assigned[e],
                      problem |-> NoProblem]
    BY <1>i, <1>3 DEF LoadRoster
  <2>2. OnePostEach(assigned[e])
    BY DEF RosterInv, OneFacilityEach
  <2>q. QED
    BY <2>1, <2>2 DEF EditIsSound, OnePostEach
<1>4. CASE JudgeEdit(d)
  <2>1. CASE editor'[d].pc = "saving"
    <3>1. /\ editor'[d].event = editor[d].event /\ editor'[d].post = editor[d].post
          /\ editor'[d].current = editor[d].current
          /\ OnePostEach(editor[d].current)
          /\ editor[d].event \in Events /\ editor[d].post \in Posts
          /\ WholeFacilities(EditOf(d))
          /\ People(EditOf(d)) \subseteq available[editor[d].event]
          /\ Complete(editor'[d].problem, editor[d].current) => EditOf(d) = editor[d].current
      BY JudgedEdits, <1>4, <2>1
    <3>2. EditOf(d)' = EditOf(d)
      BY <3>1 DEF EditOf
    <3>3. Willing(People(EditOf(d)), editor[d].event)'
      BY <1>4, <3>1, <3>2
         DEF JudgeEdit, Willing, RosterInv, ImportsAreRemembered, queueVars
    <3>4. EditIsSound(d)'
      BY <2>1, <3>1, <3>2, <3>3 DEF EditIsSound, OnePostEach, WholeFacilities
    <3>5. Frozen'
      BY <3>1, <3>2 DEF Complete
    <3>q. QED
      BY <3>4, <3>5
  <2>2. CASE editor'[d].pc # "saving"
    <3>1. editor'[d] = IdleEditor
      <4> DEFINE p == ProblemFor(editor[d].event, ServerCap, "FULL", {})
                 x == [editor[d] EXCEPT !.pc = "saving", !.problem = p]
      <4>1. x.pc = "saving"
        BY <1>i DEF EditorStates
      <4>2. editor'[d] = x \/ editor'[d] = IdleEditor
        BY <1>i, <1>4 DEF JudgeEdit
      <4> HIDE DEF x
      <4>q. QED
        BY <2>2, <4>1, <4>2
    <3>q. QED
      BY IdleIsSound, <3>1 DEF IdleEditor
  <2>q. QED
    BY <2>1, <2>2
<1>5. CASE SaveEdit(d)
  <2>1. /\ editor'[d].pc = "auditing" /\ editor'[d].event = editor[d].event
        /\ editor'[d].post = editor[d].post /\ editor'[d].current = editor[d].current
        /\ edits' = edits \cup {AuditRecord(d)}
    BY <1>i, <1>5 DEF SaveEdit, EditorStates
  <2>2. AuditRecord(d)' = AuditRecord(d)
    BY <2>1 DEF AuditRecord
  <2>3. editor[d].event \in Events /\ editor[d].post \in Posts /\ OnePostEach(editor[d].current)
    BY <1>i, <1>5 DEF SaveEdit, EditIsSound
  <2>q. QED
    BY <2>1, <2>2, <2>3 DEF EditIsSound, OnePostEach
<1>q. QED
  BY EditorSteps, <1>1, <1>2, <1>3, <1>4, <1>5
-----------------------------------------------------------------------------
(* Rosters and the audit log. *)

\* Who is in a roster that is added to, or written back.
LEMMA PeopleAdd == \A A, B : People(A \cup B) = People(A) \cup People(B)
BY DEF People

\* The roster of an event, before and after a step.
LEMMA RosterSteps ==
    ASSUME QueueInv, RosterInv, [RNext]_vars, NEW e \in Events
    PROVE  \/ assigned'[e] = {}
           \/ assigned'[e] = assigned[e] /\ everAvailable[e] \subseteq everAvailable'[e]
           \/ \E w \in Workers :
                 /\ RSaveResult(w)
                 /\ e = EventOf(worker[w].job)
                 /\ assigned'[e] = assigned[e] \cup plan[w].roster
           \/ \E d \in Editors :
                 /\ SaveEdit(d)
                 /\ e = editor[d].event
                 /\ assigned'[e] = EditOf(d)
<1>i. /\ assigned \in [Events -> SUBSET Posts]
      /\ everAvailable \in [Events -> SUBSET Staff]
  BY DEF RosterInv, RTypeOK
<1>1. CASE UNCHANGED <<assigned, everAvailable>>
  BY <1>1
<1>2. ASSUME NEW x \in Events, RDeleteEvent(x)
      PROVE  \/ assigned'[e] = {}
             \/ assigned'[e] = assigned[e] /\ everAvailable[e] \subseteq everAvailable'[e]
  BY <1>i, <1>2 DEF RDeleteEvent
<1>3. ASSUME NEW x \in Events, NEW S \in Answers, ImportDeclarations(x, S)
      PROVE  assigned'[e] = assigned[e] /\ everAvailable[e] \subseteq everAvailable'[e]
  BY <1>i, <1>3 DEF ImportDeclarations
<1>4. ASSUME NEW w \in Workers, RSaveResult(w)
      PROVE  \/ assigned'[e] = assigned[e] /\ everAvailable' = everAvailable
             \/ /\ e = EventOf(worker[w].job)
                /\ assigned'[e] = assigned[e] \cup plan[w].roster
  BY <1>i, <1>4 DEF RSaveResult
<1>5. ASSUME NEW d \in Editors, SaveEdit(d)
      PROVE  \/ assigned'[e] = assigned[e] /\ everAvailable' = everAvailable
             \/ e = editor[d].event /\ assigned'[e] = EditOf(d)
  BY <1>i, <1>5 DEF SaveEdit
<1>6. ASSUME \/ QueueOnly
             \/ \E f \in Facilities : ImportFacility(f)
             \/ \E w \in Workers : RBuildProblem(w)
             \/ \E w \in Workers, X \in SUBSET Posts : RSolved(w, X)
             \/ \E w \in Workers, v \in TERMINAL_STATES : RUnsolved(w, v)
             \/ \E w \in Workers : RSaveRefused(w)
             \/ \E w \in Workers : RCrash(w)
             \/ \E d \in Editors, x \in Events, post \in Posts : LoadRoster(d, x, post)
             \/ \E d \in Editors : JudgeEdit(d)
             \/ \E d \in Editors : SaveEditRefused(d)
             \/ \E d \in Editors : AuditEdit(d)
             \/ RApiCrash
             \/ UNCHANGED vars
      PROVE  UNCHANGED <<assigned, everAvailable>>
  BY <1>6 DEF QueueOnly, vars, rosterVars, ImportFacility, RBuildProblem, RSolved, RUnsolved,
              RSaveRefused, RCrash, Forget, LoadRoster, JudgeEdit, SaveEditRefused,
              AuditEdit, RApiCrash
<1>q. QED
  BY NextIsRosterStep, <1>1, <1>2, <1>3, <1>4, <1>5, <1>6 DEF RosterStep

\* What is proved of one event's roster.
SoundRoster(e) ==
    /\ OnePostEach(assigned[e])
    /\ People(assigned[e]) \subseteq everAvailable[e]
    /\ \A f \in Facilities : Cardinality(At(assigned[e], f)) % Headcount[f] = 0

LEMMA HeadcountFacts ==
    ASSUME NEW f \in Facilities
    PROVE  /\ Headcount[f] \in Nat \ {0}
           /\ 0 % Headcount[f] = 0
           /\ Headcount[f] % Headcount[f] = 0
<1>1. Headcount[f] \in Nat \ {0}
  BY ReoptimizationAssumption
<1>2. \A h \in Nat \ {0} : h * 0 = 0 /\ h * 1 = h
  OBVIOUS
<1>q. QED
  BY Multiples, <1>1, <1>2

LEMMA RostersStep ==
    ASSUME QueueInv, RosterInv, [RNext]_vars, NEW e \in Events PROVE SoundRoster(e)'
<1>i. /\ assigned \in [Events -> SUBSET Posts] /\ assigned[e] \in SUBSET Posts
      /\ plan \in [Workers -> Plans] /\ editor \in [Editors -> EditorStates]
      /\ SoundRoster(e)
  BY DEF RosterInv, RTypeOK, OneFacilityEach, AssignedWereAvailable, NeverHalfStaffed,
         SoundRoster
<1>1. CASE assigned'[e] = {}
  <2>1. OnePostEach({}) /\ People({}) = {} /\ \A f : At({}, f) = {}
    BY DEF OnePostEach, People, At
  <2>2. \A f \in Facilities : Cardinality(At({}, f)) % Headcount[f] = 0
    BY <2>1, HeadcountFacts, FS_EmptySet
  <2>q. QED
    BY <1>1, <2>1, <2>2 DEF SoundRoster
<1>2. CASE assigned'[e] = assigned[e] /\ everAvailable[e] \subseteq everAvailable'[e]
  BY <1>i, <1>2 DEF SoundRoster
<1>3. ASSUME NEW w \in Workers, RSaveResult(w), e = EventOf(worker[w].job),
             assigned'[e] = assigned[e] \cup plan[w].roster
      PROVE  SoundRoster(e)'
  <2> DEFINE X == plan[w].roster
  <2>1. X \in SUBSET Posts
    BY <1>i DEF Plans
  <2>2. worker[w].pc = "saving" /\ e \in events
    BY <1>3 DEF RSaveResult, SaveResult
  <2>3. OnePostEach(X) /\ WholeFacilities(X) /\ People(X) \subseteq everAvailable[e]
    BY <1>3, <2>2 DEF RosterInv, PlanIsSound, Willing
  <2>4. People(assigned[e]) \cap People(X) = {}
    BY <1>3 DEF RSaveResult, KeysFree
  <2> HIDE DEF X
  <2>5. /\ OnePostEach(assigned[e] \cup X)
        /\ \A f : Cardinality(At(assigned[e] \cup X, f))
                    = Cardinality(At(assigned[e], f)) + Cardinality(At(X, f))
    BY <1>i, <2>1, <2>3, <2>4, RostersAdd DEF SoundRoster
  <2>6. ASSUME NEW f \in Facilities
        PROVE  Cardinality(At(assigned[e] \cup X, f)) % Headcount[f] = 0
    <3> DEFINE m == Cardinality(At(assigned[e], f))
               n == Cardinality(At(X, f))
    <3>1. m \in Nat /\ m % Headcount[f] = 0 /\ n \in {0, Headcount[f]}
      BY <1>i, <2>3, PartsAreFinite DEF SoundRoster, WholeFacilities
    <3>2. Cardinality(At(assigned[e] \cup X, f)) = m + n
      BY <2>5
    <3> HIDE DEF m, n
    <3>3. (m + n) % Headcount[f] = 0
      BY <3>1, HeadcountFacts, WholeSums
    <3>q. QED
      BY <3>2, <3>3
  <2>7. everAvailable' = everAvailable /\ assigned'[e] = assigned[e] \cup X
    BY <1>3 DEF RSaveResult, X
  <2>8. People(assigned[e] \cup X) \subseteq everAvailable[e]
    BY <1>i, <2>3, PeopleAdd DEF SoundRoster
  <2>q. QED
    BY <2>5, <2>6, <2>7, <2>8 DEF SoundRoster
<1>4. ASSUME NEW d \in Editors, SaveEdit(d), e = editor[d].event, assigned'[e] = EditOf(d)
      PROVE  SoundRoster(e)'
  <2>1. editor[d].pc = "saving" /\ e \in events /\ everAvailable' = everAvailable
    BY <1>4 DEF SaveEdit
  <2>2. /\ editor[d].post \in Posts /\ editor[d].current \in SUBSET Posts
        /\ OnePostEach(editor[d].current)
        /\ WholeFacilities(EditOf(d)) /\ People(EditOf(d)) \subseteq everAvailable[e]
    BY <1>i, <1>4, <2>1 DEF RosterInv, EditIsSound, EditorStates, Willing
  <2>3. OnePostEach(EditOf(d))
    BY <2>2, EditsKeepOnePost DEF EditOf
  <2>4. \A f \in Facilities : Cardinality(At(EditOf(d), f)) % Headcount[f] = 0
    BY <2>2, HeadcountFacts DEF WholeFacilities
  <2>q. QED
    BY <1>4, <2>1, <2>2, <2>3, <2>4 DEF SoundRoster
<1>q. QED
  BY RosterSteps, <1>1, <1>2, <1>3, <1>4

\* Deaths are counted and never forgotten.
LEMMA CrashesStay ==
    ASSUME TypeOK, [Next]_queueVars, crashes' = 0 PROVE crashes = 0 /\ ~ApiCrash
<1>1. crashes \in Nat
  BY JobQueueAssumption DEF TypeOK
<1>2. crashes' = crashes \/ crashes' = crashes + 1
  BY NextIsQueueStep
     DEF QueueStep, queueVars, Tick, DeleteEvent, BeginEnqueue, InsertJob, InsertRefused,
         ApiCrash, SelectCandidate, ClaimCandidate, LoseCandidate, BuildProblem, BuildFails,
         Solve, SaveResult, SaveRefused, MarkJob, Crash, Die, Restart
<1>3. ~ApiCrash
  BY <1>1 DEF ApiCrash
<1>q. QED
  BY <1>1, <1>2, <1>3

\* An edit is recorded by the editor that committed it, which nothing but the death of
\* the process keeps from it.
LEMMA AuditStep ==
    ASSUME RosterInv, [RNext]_vars PROVE AuditFollowsEdits'
<1> DEFINE Pending(r) == \E d \in Editors : editor[d].pc = "auditing" /\ AuditRecord(d) = r
<1>i. /\ editor \in [Editors -> EditorStates] /\ TypeOK /\ AuditFollowsEdits
      /\ \A d \in Editors : EditIsSound(d)
  BY DEF RosterInv, RTypeOK
<1>c. crashes' = 0 => crashes = 0 /\ ~RApiCrash
  BY <1>i, CrashesStay, RosterStepIsQueueStep DEF RApiCrash
<1>1. CASE UNCHANGED <<editor, audit, edits>>
  <2>1. \A r : Pending(r) => Pending(r)'
    BY <1>1 DEF AuditRecord
  <2>q. QED
    BY <1>i, <1>c, <1>1, <2>1 DEF AuditFollowsEdits
<1>2. ASSUME NEW x \in Editors, editor[x].pc \in {"idle", "loaded", "saving"},
             \A d \in Editors \ {x} : editor'[d] = editor[d], UNCHANGED <<audit, edits>>
      PROVE  AuditFollowsEdits'
  <2>1. \A r : Pending(r) => Pending(r)'
    BY <1>2 DEF AuditRecord
  <2>q. QED
    BY <1>i, <1>c, <1>2, <2>1 DEF AuditFollowsEdits
<1>3. ASSUME NEW x \in Editors, SaveEdit(x) PROVE AuditFollowsEdits'
  <2>1. /\ editor'[x].pc = "auditing" /\ editor'[x].event = editor[x].event
        /\ editor'[x].post = editor[x].post /\ editor'[x].current = editor[x].current
    BY <1>i, <1>3 DEF SaveEdit, EditorStates
  <2>2. AuditRecord(x)' = AuditRecord(x)
    BY <2>1 DEF AuditRecord
  <2>3. /\ editor[x].pc = "saving" /\ audit' = audit /\ edits' = edits \cup {AuditRecord(x)}
        /\ \A d \in Editors \ {x} : editor'[d] = editor[d]
    BY <1>i, <1>3 DEF SaveEdit
  <2>4. \A r : Pending(r) => Pending(r)'
    BY <2>3 DEF AuditRecord
  <2>5. \A r : r = AuditRecord(x) => Pending(r)'
    BY <2>1, <2>2
  <2> HIDE DEF Pending
  <2>6. audit' \subseteq edits'
    BY <1>i, <2>3 DEF AuditFollowsEdits
  <2>7. ASSUME crashes' = 0, NEW r \in edits' \ audit' PROVE Pending(r)'
    <3>1. r \in edits \ audit \/ r = AuditRecord(x)
      BY <2>3, <2>7
    <3>2. \A t \in edits \ audit : Pending(t)
      BY <1>i, <1>c, <2>7 DEF AuditFollowsEdits, Pending
    <3>q. QED
      BY <2>4, <2>5, <3>1, <3>2
  <2>q. QED
    BY <2>6, <2>7 DEF AuditFollowsEdits, Pending
<1>4. ASSUME NEW x \in Editors, AuditEdit(x) PROVE AuditFollowsEdits'
  <2>1. /\ editor[x].pc = "auditing" /\ edits' = edits /\ audit' = audit \cup {AuditRecord(x)}
        /\ \A d \in Editors \ {x} : editor'[d] = editor[d]
    BY <1>i, <1>4 DEF AuditEdit
  <2>2. AuditRecord(x) \in edits
    BY <1>i, <2>1 DEF EditIsSound
  <2>3. \A r : Pending(r) /\ r # AuditRecord(x) => Pending(r)'
    BY <2>1 DEF AuditRecord
  <2> HIDE DEF Pending
  <2>4. audit' \subseteq edits'
    BY <1>i, <2>1, <2>2 DEF AuditFollowsEdits
  <2>5. ASSUME crashes' = 0, NEW r \in edits' \ audit' PROVE Pending(r)'
    <3>1. r \in edits \ audit /\ r # AuditRecord(x)
      BY <2>1, <2>5
    <3>2. Pending(r)
      BY <1>i, <1>c, <2>5, <3>1 DEF AuditFollowsEdits, Pending
    <3>q. QED
      BY <2>3, <3>1, <3>2
  <2>q. QED
    BY <2>4, <2>5 DEF AuditFollowsEdits, Pending
<1>5. CASE RApiCrash
  BY <1>i, <1>c, <1>5 DEF RApiCrash, AuditFollowsEdits
<1>6. ASSUME NEW x \in Editors, NEW e \in Events, NEW post \in Posts, LoadRoster(x, e, post)
      PROVE  AuditFollowsEdits'
  <2>1. /\ editor[x].pc = "idle" /\ UNCHANGED <<audit, edits>>
        /\ \A d \in Editors \ {x} : editor'[d] = editor[d]
    BY <1>i, <1>6 DEF LoadRoster
  <2>q. QED
    BY <1>2, <2>1
<1>7. ASSUME NEW x \in Editors, JudgeEdit(x) \/ SaveEditRefused(x)
      PROVE  AuditFollowsEdits'
  <2>1. /\ editor[x].pc \in {"loaded", "saving"} /\ UNCHANGED <<audit, edits>>
        /\ \A d \in Editors \ {x} : editor'[d] = editor[d]
    BY <1>i, <1>7 DEF JudgeEdit, SaveEditRefused
  <2>q. QED
    BY <1>2, <2>1
<1>8. ASSUME \/ QueueOnly
             \/ \E e \in Events, S \in Answers : ImportDeclarations(e, S)
             \/ \E f \in Facilities : ImportFacility(f)
             \/ \E e \in Events : RDeleteEvent(e)
             \/ \E w \in Workers : RBuildProblem(w)
             \/ \E w \in Workers, X \in SUBSET Posts : RSolved(w, X)
             \/ \E w \in Workers, v \in TERMINAL_STATES : RUnsolved(w, v)
             \/ \E w \in Workers : RSaveResult(w)
             \/ \E w \in Workers : RSaveRefused(w)
             \/ \E w \in Workers : RCrash(w)
             \/ UNCHANGED vars
      PROVE  UNCHANGED <<editor, audit, edits>>
  BY <1>8 DEF QueueOnly, vars, rosterVars, ImportDeclarations, ImportFacility, RDeleteEvent,
              RBuildProblem, RSolved, RUnsolved, RSaveResult, RSaveRefused, RCrash, Forget
<1>q. QED
  BY NextIsRosterStep, <1>1, <1>3, <1>4, <1>5, <1>6, <1>7, <1>8, Zenon DEF RosterStep

-----------------------------------------------------------------------------
(* The invariant. *)

LEMMA RosterInvInit == ASSUME RInit PROVE RosterInv
<1>1. RTypeOK
  <2>1. TypeOK /\ Opening \subseteq Facilities
    BY TypeInit, ReoptimizationAssumption DEF RInit
  <2>q. QED
    BY <2>1, IdleTypes DEF RInit, RTypeOK
<1>2. JobsCarryRequests
  BY DEF RInit, Init, JobsCarryRequests, HasRow, NoRow, IdleClient
<1>3. ImportsAreRemembered
  BY DEF RInit, ImportsAreRemembered
<1>4. ASSUME NEW w \in Workers PROVE PlanIsSound(w)
  BY DEF RInit, Init, PlanIsSound, IdleWorker
<1>5. ASSUME NEW d \in Editors PROVE EditIsSound(d) /\ editor[d].pc # "saving"
  BY DEF RInit, EditIsSound, IdleEditor
<1>6. OneFacilityEach /\ AssignedWereAvailable
  BY DEF RInit, OneFacilityEach, OnePostEach, AssignedWereAvailable, People
<1>7. NeverHalfStaffed
  <2>1. ASSUME NEW e \in Events, NEW f \in Facilities
        PROVE  Cardinality(At(assigned[e], f)) % Headcount[f] = 0
    <3>1. At(assigned[e], f) = {}
      BY DEF RInit, At
    <3>q. QED
      BY <3>1, FS_EmptySet, HeadcountFacts
  <2>q. QED
    BY <2>1 DEF NeverHalfStaffed
<1>8. AuditFollowsEdits
  BY DEF RInit, AuditFollowsEdits
<1>q. QED
  BY <1>1, <1>2, <1>3, <1>4, <1>5, <1>6, <1>7, <1>8 DEF RosterInv, CompleteRosterIsFrozen

LEMMA RosterInvStep ==
    ASSUME QueueInv, QueueInv', RosterInv, [RNext]_vars PROVE RosterInv'
<1>1. RTypeOK'
  <2>1. CASE RNext
    BY RosterTypesStep, <2>1 DEF QueueInv
  <2>2. CASE UNCHANGED vars
    BY <2>2 DEF RosterInv, RTypeOK, QueueInv, vars, rosterVars
  <2>q. QED
    BY <2>1, <2>2
<1>2. JobsCarryRequests'
  BY JobsCarryRequestsStep, RosterStepIsQueueStep DEF RosterInv
<1>3. ImportsAreRemembered'
  BY WillingStep
<1>4. \A w \in Workers : PlanIsSound(w)'
  BY PlansStep
<1>5. (\A d \in Editors : EditIsSound(d))' /\ CompleteRosterIsFrozen'
  BY EditsStep DEF CompleteRosterIsFrozen
<1>6. OneFacilityEach' /\ AssignedWereAvailable' /\ NeverHalfStaffed'
  <2>1. \A e \in Events : SoundRoster(e)'
    BY RostersStep
  <2>q. QED
    BY <2>1 DEF SoundRoster, OneFacilityEach, AssignedWereAvailable, NeverHalfStaffed
<1>7. AuditFollowsEdits'
  BY AuditStep
<1>q. QED
  BY <1>1, <1>2, <1>3, <1>4, <1>5, <1>6, <1>7 DEF RosterInv

\* Whatever the interleaving of workers, editors and imports, what each of them knows
\* when it writes keeps the roster sound.  (persistence/repositories.py, api/routers)
THEOREM RosterInvariant == RSpec => []RosterInv
<1>1. RInit => RosterInv
  BY RosterInvInit
<1>2. QueueInv /\ QueueInv' /\ RosterInv /\ [RNext]_vars => RosterInv'
  BY RosterInvStep
<1>q. QED
  BY <1>1, <1>2, RosterQueueInvariant, PTL DEF RSpec

\* Tables, logs and locals keep their shapes.
THEOREM RosterTypes == RSpec => []RTypeOK
<1>1. RosterInv => RTypeOK
  BY DEF RosterInv
<1>q. QED
  BY <1>1, RosterInvariant, PTL

\* INV-01: nobody has two posts at one event.  (the key of the assignments table, and the
\* handler of PATCH, which removes a person's row before it adds one)
THEOREM NobodyServesTwice == RSpec => []OneFacilityEach
<1>1. RosterInv => OneFacilityEach
  BY DEF RosterInv
<1>q. QED
  BY <1>1, RosterInvariant, PTL

\* FR-04.1: everybody on a roster declared themselves available at some point.
THEOREM OnlyTheWilling == RSpec => []AssignedWereAvailable
<1>1. RosterInv => AssignedWereAvailable
  BY DEF RosterInv
<1>q. QED
  BY <1>1, RosterInvariant, PTL

\* A facility's rows are a whole number of its headcount.  (CpSatAdapter's rows for
\* headcounts, and check_headcounts on every edit)
THEOREM FacilitiesAreWhole == RSpec => []NeverHalfStaffed
<1>1. RosterInv => NeverHalfStaffed
  BY DEF RosterInv
<1>q. QED
  BY <1>1, RosterInvariant, PTL

\* A valid edit of a complete roster is no edit.  (patch_assignment)
THEOREM CompleteRostersAreFrozen == RSpec => []CompleteRosterIsFrozen
<1>1. RosterInv => CompleteRosterIsFrozen
  BY DEF RosterInv
<1>q. QED
  BY <1>1, RosterInvariant, PTL

\* Only committed edits are on record, and all of them, once their handler ends alive.
\* (patch_assignment, audit_assignment_change)
THEOREM EditsAreAudited == RSpec => []AuditFollowsEdits
<1>1. RosterInv => AuditFollowsEdits
  BY DEF RosterInv
<1>q. QED
  BY <1>1, RosterInvariant, PTL
=============================================================================
