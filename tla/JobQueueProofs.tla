--------------------------- MODULE JobQueueProofs ---------------------------
(***************************************************************************)
(* Proofs about JobQueue, for every number of events, workers, requests    *)
(* and crashes: QueueInv is an inductive invariant of Spec, the safety     *)
(* properties follow from it, and the queue implements JobLifecycle.       *)
(***************************************************************************)
EXTENDS JobQueue, TLAPS

-----------------------------------------------------------------------------
(* The parts of a step. *)

\* An id names one of the events of the run, and the same event it is asked for.
LEMMA JobIdFacts ==
    /\ \A e \in Events, t \in Instants : JobIdAt(e, t) \in JobIds /\ EventOf(JobIdAt(e, t)) = e
    /\ \A j \in JobIds : EventOf(j) \in Events
BY DEF JobIds, JobIdAt, EventOf

\* Every step is one of these; the proofs below go through them in this order.
QueueStep ==
    \/ Tick
    \/ \E e \in Events : DeleteEvent(e)
    \/ \E c \in Clients, e \in Events, a \in Asks : BeginEnqueue(c, e, a)
    \/ \E c \in Clients : InsertJob(c)
    \/ \E c \in Clients : InsertRefused(c)
    \/ ApiCrash
    \/ \E w \in Workers : SelectCandidate(w)
    \/ \E w \in Workers : ClaimCandidate(w)
    \/ \E w \in Workers : LoseCandidate(w)
    \/ \E w \in Workers : BuildProblem(w)
    \/ \E w \in Workers : BuildFails(w)
    \/ \E w \in Workers, v \in TERMINAL_STATES : Solve(w, v)
    \/ \E w \in Workers : SaveResult(w)
    \/ \E w \in Workers : SaveRefused(w)
    \/ \E w \in Workers : MarkJob(w)
    \/ \E w \in Workers : Crash(w)
    \/ \E w \in Workers : Restart(w)

LEMMA NextIsQueueStep == ASSUME Next PROVE QueueStep
BY Zenon DEF Next, WorkerStep, QueueStep

-----------------------------------------------------------------------------
(* Type correctness. *)

LEMMA TypeInit == ASSUME Init PROVE TypeOK
BY JobQueueAssumption
   DEF Init, TypeOK, Instants, NoRow, Rows, IdleClient, ClientStates, IdleWorker, WorkerStates

\* Updating the fields of a worker or of a row keeps its type.
LEMMA WorkerType ==
    ASSUME NEW x \in WorkerStates, NEW p \in {"idle", "selected", "down"} \cup Holding
    PROVE  /\ [x EXCEPT !.pc = p] \in WorkerStates
           /\ \A v \in TERMINAL_STATES : [x EXCEPT !.pc = p, !.verdict = v] \in WorkerStates
<1>1. [x EXCEPT !.pc = p] \in WorkerStates
  BY DEF WorkerStates
<1>2. ASSUME NEW v \in TERMINAL_STATES
      PROVE  [x EXCEPT !.pc = p, !.verdict = v] \in WorkerStates
  BY DEF WorkerStates
<1>q. QED
  BY <1>1, <1>2

LEMMA RowType ==
    ASSUME NEW r \in Rows, NEW s \in JobState
    PROVE  /\ [r EXCEPT !.status = s] \in Rows
           /\ \A j \in JobIds : [r EXCEPT !.status = s, !.result = j] \in Rows
<1>1. [r EXCEPT !.status = s] \in Rows
  BY DEF Rows
<1>2. ASSUME NEW j \in JobIds
      PROVE  [r EXCEPT !.status = s, !.result = j] \in Rows
  BY DEF Rows
<1>q. QED
  BY <1>1, <1>2

LEMMA RestTypes ==
    /\ NoRow \in Rows /\ IdleClient \in ClientStates
    /\ IdleWorker \in WorkerStates /\ DownWorker \in WorkerStates
<1>1. 0 \in Instants
  BY JobQueueAssumption DEF Instants
<1>2. NoRow \in Rows
  BY <1>1 DEF NoRow, Rows
<1>3. IdleClient \in ClientStates
  BY <1>1 DEF IdleClient, ClientStates
<1>4. IdleWorker \in WorkerStates /\ DownWorker \in WorkerStates
  BY DEF IdleWorker, DownWorker, WorkerStates
<1>q. QED
  BY <1>2, <1>3, <1>4

LEMMA TypeStep == ASSUME QueueInv, Next PROVE TypeOK'
<1> USE DEF TypeOK, tables, history
<1>i. TypeOK /\ WorkersKnowTheirJobs /\ VerdictsMatchResults
  BY DEF QueueInv
<1>1. CASE Tick
  BY JobQueueAssumption, <1>i, <1>1 DEF Tick, Instants
<1>2. ASSUME NEW e \in Events, DeleteEvent(e) PROVE TypeOK'
  BY RestTypes, <1>i, <1>2 DEF DeleteEvent
<1>3. ASSUME NEW c \in Clients, NEW e \in Events, NEW a \in Asks, BeginEnqueue(c, e, a)
      PROVE  TypeOK'
  <2>1. [pc |-> "inserting", event |-> e, at |-> clock, ask |-> a] \in ClientStates
    BY <1>i DEF ClientStates
  <2>q. QED
    BY <1>i, <1>3, <2>1 DEF BeginEnqueue
<1>4. ASSUME NEW c \in Clients, InsertJob(c) PROVE TypeOK'
  <2>1. client[c].at \in Instants /\ client[c].ask \in Asks \cup {None}
    BY <1>i DEF ClientStates
  <2>2. [status |-> "QUEUED", created |-> client[c].at, ask |-> client[c].ask,
         result |-> None] \in Rows
    BY <2>1 DEF Rows, JobState
  <2>q. QED
    BY RestTypes, <1>i, <1>4, <2>1, <2>2 DEF InsertJob
<1>5. ASSUME NEW c \in Clients, InsertRefused(c) PROVE TypeOK'
  BY RestTypes, <1>i, <1>5 DEF InsertRefused
<1>6. CASE ApiCrash
  BY JobQueueAssumption, RestTypes, <1>i, <1>6 DEF ApiCrash
<1>7. ASSUME NEW w \in Workers, SelectCandidate(w) PROVE TypeOK'
  <2> PICK j \in Oldest :
         worker' = [worker EXCEPT ![w] = [pc |-> "selected", job |-> j,
                                          ask |-> jobs[j].ask, verdict |-> None]]
    BY <1>7 DEF SelectCandidate
  <2>1. j \in JobIds /\ jobs[j].ask \in Asks \cup {None}
    BY <1>i DEF Oldest, Queued, Rows
  <2>2. [pc |-> "selected", job |-> j, ask |-> jobs[j].ask, verdict |-> None] \in WorkerStates
    BY <2>1 DEF WorkerStates
  <2>q. QED
    BY <1>i, <1>7, <2>2 DEF SelectCandidate
<1>8. ASSUME NEW w \in Workers, ClaimCandidate(w) PROVE TypeOK'
  <2>1. [worker[w] EXCEPT !.pc = "claimed"] \in WorkerStates
    BY WorkerType, <1>i DEF Holding
  <2>2. worker[w].job \in JobIds
    BY <1>i, <1>8 DEF ClaimCandidate, WorkersKnowTheirJobs
  <2>3. [jobs[worker[w].job] EXCEPT !.status = "RUNNING"] \in Rows
    BY RowType, <1>i, <2>2 DEF JobState
  <2>q. QED
    BY <1>i, <1>8, <2>1, <2>2, <2>3 DEF ClaimCandidate
<1>9. ASSUME NEW w \in Workers, LoseCandidate(w) PROVE TypeOK'
  BY RestTypes, <1>i, <1>9 DEF LoseCandidate
<1>10. ASSUME NEW w \in Workers, BuildProblem(w) PROVE TypeOK'
  <2>1. [worker[w] EXCEPT !.pc = "solving"] \in WorkerStates
    BY WorkerType, <1>i DEF Holding
  <2>q. QED
    BY <1>i, <1>10, <2>1 DEF BuildProblem
<1>11. ASSUME NEW w \in Workers, BuildFails(w) PROVE TypeOK'
  <2>1. [worker[w] EXCEPT !.pc = "marking", !.verdict = "FAILED"] \in WorkerStates
    BY WorkerType, <1>i DEF Holding, TERMINAL_STATES
  <2>q. QED
    BY <1>i, <1>11, <2>1 DEF BuildFails
<1>12. ASSUME NEW w \in Workers, NEW v \in TERMINAL_STATES, Solve(w, v) PROVE TypeOK'
  <2> DEFINE p == IF v = "SUCCEEDED" THEN "saving" ELSE "marking"
  <2>1. [worker[w] EXCEPT !.pc = p, !.verdict = v] \in WorkerStates
    BY WorkerType, <1>i DEF Holding
  <2>q. QED
    BY <1>i, <1>12, <2>1 DEF Solve
<1>13. ASSUME NEW w \in Workers, SaveResult(w) PROVE TypeOK'
  <2>1. [worker[w] EXCEPT !.pc = "marking"] \in WorkerStates
    BY WorkerType, <1>i DEF Holding
  <2>2. worker[w].job \in JobIds
    BY <1>i, <1>13 DEF SaveResult, WorkersKnowTheirJobs, Holding
  <2>q. QED
    BY <1>i, <1>13, <2>1, <2>2 DEF SaveResult
<1>14. ASSUME NEW w \in Workers, SaveRefused(w) PROVE TypeOK'
  BY RestTypes, <1>i, <1>14 DEF SaveRefused, Die, WorkersKnowTheirJobs
<1>15. ASSUME NEW w \in Workers, MarkJob(w) PROVE TypeOK'
  <2>1. /\ worker[w].job \in JobIds
        /\ worker[w].verdict \in TERMINAL_STATES
        /\ worker[w].verdict \in JobState
    BY <1>i, <1>15 DEF MarkJob, VerdictsMatchResults, WorkersKnowTheirJobs, Holding, JobState
  <2> DEFINE row == jobs[worker[w].job]
  <2>2. /\ [row EXCEPT !.status = worker[w].verdict] \in Rows
        /\ [row EXCEPT !.status = worker[w].verdict, !.result = worker[w].job] \in Rows
    BY RowType, <1>i, <2>1
  <2>3. jobs' \in [JobIds -> Rows]
    BY <1>i, <1>15, <2>1, <2>2 DEF MarkJob, Finish
  <2>q. QED
    BY RestTypes, <1>i, <1>15, <2>3 DEF MarkJob
<1>16. ASSUME NEW w \in Workers, Crash(w) PROVE TypeOK'
  BY JobQueueAssumption, RestTypes, <1>i, <1>16 DEF Crash, Die, WorkersKnowTheirJobs
<1>17. ASSUME NEW w \in Workers, Restart(w) PROVE TypeOK'
  BY RestTypes, <1>i, <1>17 DEF Restart
<1>q. QED
  BY NextIsQueueStep, <1>1, <1>2, <1>3, <1>4, <1>5, <1>6, <1>7, <1>8, <1>9, <1>10, <1>11,
     <1>12, <1>13, <1>14, <1>15, <1>16, <1>17 DEF QueueStep
-----------------------------------------------------------------------------
(* The other parts of the invariant.  They do not look at the clock, at    *)
(* requests in flight or at the count of crashes.                          *)

QuietStep == UNCHANGED <<tables, worker, history>>

\* The steps that are not quiet.
LoudStep ==
    \/ \E e \in Events : DeleteEvent(e)
    \/ \E c \in Clients : InsertJob(c)
    \/ \E w \in Workers : SelectCandidate(w)
    \/ \E w \in Workers : ClaimCandidate(w)
    \/ \E w \in Workers : LoseCandidate(w)
    \/ \E w \in Workers : BuildProblem(w)
    \/ \E w \in Workers : BuildFails(w)
    \/ \E w \in Workers, v \in TERMINAL_STATES : Solve(w, v)
    \/ \E w \in Workers : SaveResult(w)
    \/ \E w \in Workers : SaveRefused(w)
    \/ \E w \in Workers : MarkJob(w)
    \/ \E w \in Workers : Crash(w)
    \/ \E w \in Workers : Restart(w)

LEMMA QuietOrLoud == ASSUME [Next]_queueVars PROVE QuietStep \/ LoudStep
<1>1. CASE UNCHANGED queueVars
  BY <1>1 DEF queueVars, QuietStep
<1>2. CASE Tick \/ ApiCrash
  BY <1>2 DEF Tick, ApiCrash, QuietStep
<1>3. CASE \E c \in Clients, e \in Events, a \in Asks : BeginEnqueue(c, e, a)
  BY <1>3 DEF BeginEnqueue, QuietStep
<1>4. CASE \E c \in Clients : InsertRefused(c)
  BY <1>4 DEF InsertRefused, QuietStep
<1>q. QED
  BY NextIsQueueStep, <1>1, <1>2, <1>3, <1>4, Zenon DEF QueueStep, LoudStep

\* What MarkJob does to the table: it settles the one row it is about, if it is there.
LEMMA MarkFacts ==
    ASSUME QueueInv, NEW w \in Workers, MarkJob(w)
    PROVE  /\ worker[w].job \in JobIds /\ worker[w].verdict \in TERMINAL_STATES
           /\ Holds(w, worker[w].job)
           /\ \A k \in JobIds \ {worker[w].job} : jobs'[k] = jobs[k]
           /\ ~HasRow(worker[w].job) => /\ jobs'[worker[w].job] = jobs[worker[w].job]
                                        /\ EventOf(worker[w].job) \notin events
           /\ HasRow(worker[w].job) =>
                 /\ jobs[worker[w].job].status = "RUNNING"
                 /\ jobs'[worker[w].job].status = worker[w].verdict
                 /\ jobs'[worker[w].job].ask = jobs[worker[w].job].ask
                 /\ worker[w].verdict = "SUCCEEDED" =>
                       jobs'[worker[w].job].result = worker[w].job
<1> DEFINE j == worker[w].job
<1>i. TypeOK /\ WorkersKnowTheirJobs /\ VerdictsMatchResults
  BY DEF QueueInv
<1>1. worker[w].pc = "marking" /\ worker[w].pc \in Holding /\ Holds(w, j)
  BY DEF MarkJob, Holding, Holds
<1>2. j \in JobIds /\ worker[w].verdict \in TERMINAL_STATES
  BY <1>i, <1>1 DEF WorkersKnowTheirJobs, VerdictsMatchResults
<1>3. /\ HasRow(j) => jobs[j].status = "RUNNING"
      /\ ~HasRow(j) => EventOf(j) \notin events
  BY <1>i, <1>1, <1>2 DEF WorkersKnowTheirJobs
<1>4. jobs' = Finish(jobs, j, worker[w].verdict) /\ jobs \in [JobIds -> Rows]
  BY <1>i DEF MarkJob, TypeOK
<1>5. \A k \in JobIds \ {j} : jobs'[k] = jobs[k]
  BY <1>2, <1>4 DEF Finish
<1>6. ~HasRow(j) => jobs'[j] = jobs[j]
  BY <1>4 DEF Finish, HasRow
<1>7. HasRow(j) =>
        /\ jobs'[j].status = worker[w].verdict
        /\ jobs'[j].ask = jobs[j].ask
        /\ worker[w].verdict = "SUCCEEDED" => jobs'[j].result = j
  BY <1>2, <1>4 DEF Finish, HasRow, Rows
<1>q. QED
  BY <1>1, <1>2, <1>3, <1>5, <1>6, <1>7

\* What InsertJob does to the table: a new row where there was none.
LEMMA InsertFacts ==
    ASSUME QueueInv, NEW c \in Clients, InsertJob(c)
    PROVE  \E j \in JobIds :
              /\ EventOf(j) \in events /\ ~HasRow(j)
              /\ \A k \in JobIds \ {j} : jobs'[k] = jobs[k] /\ accepted'[k] = accepted[k]
              /\ jobs'[j].status = "QUEUED" /\ jobs'[j].ask = accepted'[j]
              /\ UNCHANGED <<events, results, worker, claims, lost>>
<1> DEFINE j == JobIdAt(client[c].event, client[c].at)
<1>i. TypeOK
  BY DEF QueueInv
<1>1. EventOf(j) \in events /\ ~HasRow(j)
  BY DEF InsertJob
<1>2. client[c].event \in Events /\ client[c].at \in Instants
  BY <1>i, <1>1 DEF TypeOK, ClientStates, EventOf, JobIdAt
<1>3. j \in JobIds
  BY <1>2, JobIdFacts
<1>4. \A k \in JobIds \ {j} : jobs'[k] = jobs[k] /\ accepted'[k] = accepted[k]
  BY <1>i DEF InsertJob, TypeOK
<1>5. jobs'[j].status = "QUEUED" /\ jobs'[j].ask = accepted'[j]
  BY <1>i, <1>3 DEF InsertJob, TypeOK
<1>q. QED
  BY <1>1, <1>3, <1>4, <1>5 DEF InsertJob

\* What the death of a worker changes.
LEMMA DeathFacts ==
    ASSUME QueueInv, NEW w \in Workers, SaveRefused(w) \/ Crash(w)
    PROVE  /\ worker' = [worker EXCEPT ![w] = DownWorker]
           /\ worker[w].pc \in Holding => /\ worker[w].job \in JobIds
                                          /\ lost' = lost \cup {worker[w].job}
           /\ worker[w].pc \notin Holding => lost' = lost
           /\ UNCHANGED <<events, jobs, results, accepted, claims>>
<1>1. worker[w].pc \in Holding => worker[w].job \in JobIds
  BY DEF QueueInv, WorkersKnowTheirJobs
<1>q. QED
  BY <1>1 DEF SaveRefused, Crash, Die, tables

LEMMA RowsAreAcceptedStep ==
    ASSUME QueueInv, [Next]_queueVars PROVE RowsAreAccepted'
<1> USE DEF tables, history
<1>i. TypeOK /\ RowsAreAccepted
  BY DEF QueueInv
<1>1. ASSUME NEW e \in Events, DeleteEvent(e) PROVE RowsAreAccepted'
  BY <1>i, <1>1 DEF DeleteEvent, RowsAreAccepted, TypeOK, HasRow, NoRow
<1>2. ASSUME NEW c \in Clients, InsertJob(c) PROVE RowsAreAccepted'
  BY InsertFacts, <1>i, <1>2 DEF RowsAreAccepted, HasRow
<1>3. ASSUME NEW w \in Workers, ClaimCandidate(w) PROVE RowsAreAccepted'
  BY <1>i, <1>3 DEF ClaimCandidate, RowsAreAccepted, TypeOK, HasRow, Rows
<1>4. ASSUME NEW w \in Workers, MarkJob(w) PROVE RowsAreAccepted'
  BY MarkFacts, <1>i, <1>4 DEF MarkJob, RowsAreAccepted, HasRow, TERMINAL_STATES
<1>5. CASE UNCHANGED <<events, jobs, accepted>>
  BY <1>i, <1>5 DEF RowsAreAccepted, HasRow
<1>q. QED
  BY QuietOrLoud, <1>1, <1>2, <1>3, <1>4, <1>5
     DEF QuietStep, LoudStep, SelectCandidate, LoseCandidate, BuildProblem, BuildFails, Solve,
         SaveResult, SaveRefused, Crash, Restart

LEMMA UntouchedWhileNewStep ==
    ASSUME QueueInv, [Next]_queueVars PROVE UntouchedWhileNew'
<1> USE DEF tables, history
<1>i. TypeOK /\ RowsAreAccepted /\ UntouchedWhileNew /\ WorkersKnowTheirJobs
  BY DEF QueueInv
<1>1. ASSUME NEW e \in Events, DeleteEvent(e) PROVE UntouchedWhileNew'
  BY <1>i, <1>1 DEF DeleteEvent, UntouchedWhileNew, TypeOK
<1>2. ASSUME NEW c \in Clients, InsertJob(c) PROVE UntouchedWhileNew'
  BY InsertFacts, <1>i, <1>2 DEF UntouchedWhileNew, HasRow
<1>3. ASSUME NEW w \in Workers, ClaimCandidate(w) PROVE UntouchedWhileNew'
  BY <1>i, <1>3 DEF ClaimCandidate, UntouchedWhileNew, TypeOK, Rows
<1>4. ASSUME NEW w \in Workers, MarkJob(w) PROVE UntouchedWhileNew'
  BY MarkFacts, <1>i, <1>4 DEF MarkJob, UntouchedWhileNew, HasRow, TERMINAL_STATES
<1>5. ASSUME NEW w \in Workers, SaveRefused(w) \/ Crash(w) PROVE UntouchedWhileNew'
  BY DeathFacts, <1>i, <1>5 DEF UntouchedWhileNew, WorkersKnowTheirJobs, HasRow
<1>6. CASE UNCHANGED <<events, jobs, claims, lost>>
  BY <1>i, <1>6 DEF UntouchedWhileNew
<1>q. QED
  BY QuietOrLoud, <1>1, <1>2, <1>3, <1>4, <1>5, <1>6
     DEF QuietStep, LoudStep, SelectCandidate, LoseCandidate, BuildProblem, BuildFails, Solve,
         SaveResult, Restart

\* A worker that goes on with its job keeps it, and leaves the rows alone.
LEMMA ProgressFacts ==
    ASSUME QueueInv, NEW w \in Workers,
           \/ BuildProblem(w) \/ BuildFails(w) \/ SaveResult(w)
           \/ \E v \in TERMINAL_STATES : Solve(w, v)
    PROVE  /\ \A v \in Workers \ {w} : worker'[v] = worker[v]
           /\ worker[w].pc \in Holding /\ worker'[w].pc \in Holding
           /\ worker'[w].job = worker[w].job /\ worker'[w].ask = worker[w].ask
           /\ UNCHANGED <<events, jobs, accepted, claims, lost>>
<1> USE DEF tables, history
<1>i. worker \in [Workers -> WorkerStates]
  BY DEF QueueInv, TypeOK
<1>1. CASE BuildProblem(w)
  BY <1>i, <1>1 DEF BuildProblem, WorkerStates, Holding
<1>2. CASE BuildFails(w)
  BY <1>i, <1>2 DEF BuildFails, WorkerStates, Holding
<1>3. CASE SaveResult(w)
  BY <1>i, <1>3 DEF SaveResult, WorkerStates, Holding
<1>4. ASSUME NEW v \in TERMINAL_STATES, Solve(w, v)
      PROVE  /\ \A u \in Workers \ {w} : worker'[u] = worker[u]
             /\ worker[w].pc \in Holding /\ worker'[w].pc \in Holding
             /\ worker'[w].job = worker[w].job /\ worker'[w].ask = worker[w].ask
             /\ UNCHANGED <<events, jobs, accepted, claims, lost>>
  <2> DEFINE p == IF v = "SUCCEEDED" THEN "saving" ELSE "marking"
             x == [worker[w] EXCEPT !.pc = p, !.verdict = v]
  <2>1. worker' = [worker EXCEPT ![w] = x]
    BY <1>4 DEF Solve
  <2>2. x.pc \in Holding /\ x.job = worker[w].job /\ x.ask = worker[w].ask
    BY <1>i DEF WorkerStates, Holding
  <2> HIDE DEF x
  <2>q. QED
    BY <1>i, <1>4, <2>1, <2>2 DEF Solve, Holding
<1>q. QED
  BY <1>1, <1>2, <1>3, <1>4

LEMMA WorkersKnowTheirJobsStep ==
    ASSUME QueueInv, [Next]_queueVars PROVE WorkersKnowTheirJobs'
<1> USE DEF tables, history
<1>i. TypeOK /\ RowsAreAccepted /\ WorkersKnowTheirJobs
  BY DEF QueueInv
<1>1. ASSUME NEW e \in Events, DeleteEvent(e) PROVE WorkersKnowTheirJobs'
  BY <1>i, <1>1 DEF DeleteEvent, WorkersKnowTheirJobs, TypeOK, HasRow, NoRow, Holding
<1>2. ASSUME NEW c \in Clients, InsertJob(c) PROVE WorkersKnowTheirJobs'
  BY InsertFacts, <1>i, <1>2 DEF WorkersKnowTheirJobs, HasRow
<1>3. ASSUME NEW w \in Workers, SelectCandidate(w) PROVE WorkersKnowTheirJobs'
  BY <1>i, <1>3 DEF SelectCandidate, Oldest, Queued, RowsAreAccepted, WorkersKnowTheirJobs,
                    TypeOK, HasRow, Holding
<1>4. ASSUME NEW w \in Workers, ClaimCandidate(w) PROVE WorkersKnowTheirJobs'
  BY <1>i, <1>4 DEF ClaimCandidate, WorkersKnowTheirJobs, TypeOK, HasRow, Holding, Rows
<1>5. ASSUME NEW w \in Workers, LoseCandidate(w) \/ Restart(w) PROVE WorkersKnowTheirJobs'
  BY <1>i, <1>5 DEF LoseCandidate, Restart, IdleWorker, WorkersKnowTheirJobs, TypeOK, HasRow,
                    Holding
<1>6. ASSUME NEW w \in Workers,
             \/ BuildProblem(w) \/ BuildFails(w) \/ SaveResult(w)
             \/ \E v \in TERMINAL_STATES : Solve(w, v)
      PROVE  WorkersKnowTheirJobs'
  BY ProgressFacts, <1>i, <1>6 DEF WorkersKnowTheirJobs, HasRow, Holding
<1>7. ASSUME NEW w \in Workers, SaveRefused(w) \/ Crash(w) PROVE WorkersKnowTheirJobs'
  BY DeathFacts, <1>i, <1>7 DEF DownWorker, IdleWorker, WorkersKnowTheirJobs, TypeOK, HasRow,
                                Holding
<1>8. ASSUME NEW w \in Workers, MarkJob(w) PROVE WorkersKnowTheirJobs'
  <2>1. \A v \in Workers \ {w} : worker[v].pc \in Holding => worker[v].job # worker[w].job
    BY MarkFacts, <1>8 DEF QueueInv, ClaimedAtMostOnce, Holds
  <2>2. /\ \A v \in Workers \ {w} : worker'[v] = worker[v]
        /\ worker'[w].pc = "idle"
        /\ UNCHANGED <<events, accepted>>
    BY <1>i, <1>8 DEF MarkJob, IdleWorker, TypeOK
  <2>3. \A k \in JobIds : HasRow(k) <=> HasRow(k)'
    BY MarkFacts, <1>8 DEF HasRow, TERMINAL_STATES
  <2>4. \A v \in Workers \ {w} :
           worker[v].pc \in Holding => jobs'[worker[v].job] = jobs[worker[v].job]
    BY MarkFacts, <1>i, <1>8, <2>1 DEF WorkersKnowTheirJobs
  <2>q. QED
    BY <1>i, <2>2, <2>3, <2>4 DEF WorkersKnowTheirJobs, Holding
<1>9. CASE QuietStep
  BY <1>i, <1>9 DEF QuietStep, WorkersKnowTheirJobs, HasRow
<1>q. QED
  BY QuietOrLoud, <1>1, <1>2, <1>3, <1>4, <1>5, <1>6, <1>7, <1>8, <1>9 DEF LoudStep

LEMMA VerdictsMatchResultsStep ==
    ASSUME QueueInv, [Next]_queueVars PROVE VerdictsMatchResults'
<1> USE DEF tables, history
<1>i. TypeOK /\ VerdictsMatchResults
  BY DEF QueueInv
<1>1. ASSUME NEW e \in Events, DeleteEvent(e) PROVE VerdictsMatchResults'
  BY <1>i, <1>1 DEF DeleteEvent, VerdictsMatchResults
<1>2. ASSUME NEW w \in Workers,
             SelectCandidate(w) \/ LoseCandidate(w) \/ Restart(w) \/ MarkJob(w)
      PROVE  VerdictsMatchResults'
  BY <1>i, <1>2 DEF SelectCandidate, LoseCandidate, Restart, MarkJob, IdleWorker,
                    VerdictsMatchResults, TypeOK
<1>3. ASSUME NEW w \in Workers, ClaimCandidate(w) PROVE VerdictsMatchResults'
  <2>1. worker[w].job \notin results
    BY <1>i, <1>3 DEF ClaimCandidate, QueueInv, ResultsMatchJobs, TypeOK
  <2>q. QED
    BY <1>i, <1>3, <2>1 DEF ClaimCandidate, VerdictsMatchResults, TypeOK, WorkerStates
<1>4. ASSUME NEW w \in Workers, BuildProblem(w) PROVE VerdictsMatchResults'
  BY <1>i, <1>4 DEF BuildProblem, VerdictsMatchResults, TypeOK, WorkerStates
<1>5. ASSUME NEW w \in Workers, BuildFails(w) PROVE VerdictsMatchResults'
  BY <1>i, <1>5 DEF BuildFails, VerdictsMatchResults, TypeOK, WorkerStates, TERMINAL_STATES
<1>6. ASSUME NEW w \in Workers, NEW v \in TERMINAL_STATES, Solve(w, v)
      PROVE  VerdictsMatchResults'
  BY <1>i, <1>6 DEF Solve, VerdictsMatchResults, TypeOK, WorkerStates
<1>7. ASSUME NEW w \in Workers, SaveResult(w) PROVE VerdictsMatchResults'
  <2> DEFINE j == worker[w].job
  <2>1. worker[w].pc = "saving" /\ Holds(w, j) /\ j \in JobIds
    BY <1>7 DEF SaveResult, Holds, Holding, QueueInv, WorkersKnowTheirJobs
  <2>2. \A v \in Workers \ {w} : worker[v].pc \in Holding => worker[v].job # j
    BY <2>1 DEF QueueInv, ClaimedAtMostOnce, Holds
  <2>3. /\ \A v \in Workers \ {w} : worker'[v] = worker[v]
        /\ worker'[w].pc = "marking" /\ worker'[w].job = j
        /\ worker'[w].verdict = worker[w].verdict
        /\ results' = results \cup {j} /\ events' = events
    BY <1>i, <1>7 DEF SaveResult, TypeOK, WorkerStates
  <2>4. worker[w].verdict = "SUCCEEDED" /\ "SUCCEEDED" \in TERMINAL_STATES
    BY <1>i, <2>1 DEF VerdictsMatchResults, TERMINAL_STATES
  <2>q. QED
    BY <1>i, <2>2, <2>3, <2>4 DEF VerdictsMatchResults, Holding
<1>8. ASSUME NEW w \in Workers, SaveRefused(w) \/ Crash(w) PROVE VerdictsMatchResults'
  BY DeathFacts, <1>i, <1>8 DEF DownWorker, IdleWorker, VerdictsMatchResults, TypeOK
<1>9. CASE UNCHANGED <<events, results, worker>>
  BY <1>i, <1>9 DEF VerdictsMatchResults
<1>q. QED
  BY QuietOrLoud, <1>1, <1>2, <1>3, <1>4, <1>5, <1>6, <1>7, <1>8, <1>9
     DEF QuietStep, LoudStep, InsertJob

LEMMA ClaimedAtMostOnceStep ==
    ASSUME QueueInv, [Next]_queueVars PROVE ClaimedAtMostOnce'
<1> USE DEF tables, history
<1>i. TypeOK /\ ClaimedAtMostOnce
  BY DEF QueueInv
<1>1. ASSUME NEW w \in Workers, ClaimCandidate(w) PROVE ClaimedAtMostOnce'
  <2> DEFINE j == worker[w].job
  <2>1. j \in JobIds /\ jobs[j].status = "QUEUED" /\ worker[w].pc = "selected"
    BY <1>1 DEF ClaimCandidate, QueueInv, WorkersKnowTheirJobs
  <2>2. claims[j] = 0
    BY <2>1 DEF QueueInv, RowsAreAccepted, UntouchedWhileNew, HasRow
  <2>3. \A v \in Workers : ~Holds(v, j)
    BY <2>1 DEF QueueInv, WorkersKnowTheirJobs, Holds, HasRow
  <2>4. \A k \in JobIds : claims'[k] <= 1
    BY <1>i, <1>1, <2>2 DEF ClaimCandidate, ClaimedAtMostOnce, TypeOK
  <2>5. \A v \in Workers, k \in JobIds : Holds(v, k)' <=> Holds(v, k) \/ (v = w /\ k = j)
    BY <1>i, <1>1, <2>1 DEF ClaimCandidate, TypeOK, WorkerStates, Holds, Holding
  <2>q. QED
    BY <1>i, <2>3, <2>4, <2>5 DEF ClaimedAtMostOnce
<1>2. ASSUME NEW w \in Workers,
             SelectCandidate(w) \/ LoseCandidate(w) \/ MarkJob(w) \/ Restart(w)
      PROVE  ClaimedAtMostOnce'
  BY <1>i, <1>2 DEF SelectCandidate, LoseCandidate, MarkJob, Restart, IdleWorker,
                    ClaimedAtMostOnce, TypeOK, Holds, Holding
<1>3. ASSUME NEW w \in Workers,
             \/ BuildProblem(w) \/ BuildFails(w) \/ SaveResult(w)
             \/ \E v \in TERMINAL_STATES : Solve(w, v)
      PROVE  ClaimedAtMostOnce'
  BY ProgressFacts, <1>i, <1>3 DEF ClaimedAtMostOnce, Holds
<1>4. ASSUME NEW w \in Workers, SaveRefused(w) \/ Crash(w) PROVE ClaimedAtMostOnce'
  BY DeathFacts, <1>i, <1>4 DEF DownWorker, IdleWorker, ClaimedAtMostOnce, TypeOK, Holds,
                                Holding
<1>5. CASE UNCHANGED <<worker, claims>>
  BY <1>i, <1>5 DEF ClaimedAtMostOnce, Holds
<1>q. QED
  BY QuietOrLoud, <1>1, <1>2, <1>3, <1>4, <1>5
     DEF QuietStep, LoudStep, DeleteEvent, InsertJob

LEMMA ResultsMatchJobsStep ==
    ASSUME QueueInv, [Next]_queueVars PROVE ResultsMatchJobs'
<1> USE DEF tables, history
<1>i. TypeOK /\ ResultsMatchJobs
  BY DEF QueueInv
<1>1. ASSUME NEW e \in Events, DeleteEvent(e) PROVE ResultsMatchJobs'
  BY <1>i, <1>1 DEF DeleteEvent, ResultsMatchJobs, TypeOK, NoRow
<1>2. ASSUME NEW c \in Clients, InsertJob(c) PROVE ResultsMatchJobs'
  BY InsertFacts, <1>i, <1>2 DEF ResultsMatchJobs, HasRow
<1>3. ASSUME NEW w \in Workers, ClaimCandidate(w) PROVE ResultsMatchJobs'
  BY <1>i, <1>3 DEF ClaimCandidate, ResultsMatchJobs, TypeOK, Rows
<1>4. ASSUME NEW w \in Workers, SaveResult(w) PROVE ResultsMatchJobs'
  <2>1. worker[w].job \in JobIds /\ EventOf(worker[w].job) \in events
    BY <1>4 DEF SaveResult, QueueInv, WorkersKnowTheirJobs, Holding
  <2>2. jobs[worker[w].job].status = "RUNNING"
    BY <1>4, <2>1 DEF SaveResult, QueueInv, WorkersKnowTheirJobs, Holding
  <2>q. QED
    BY <1>i, <1>4, <2>2 DEF SaveResult, ResultsMatchJobs
<1>5. ASSUME NEW w \in Workers, MarkJob(w) PROVE ResultsMatchJobs'
  <2> DEFINE j == worker[w].job
  <2>1. results' = results /\ \A k \in JobIds \ {j} : jobs'[k] = jobs[k]
    BY MarkFacts, <1>5 DEF MarkJob
  <2>2. CASE ~HasRow(j)
    BY MarkFacts, <1>i, <1>5, <2>1, <2>2 DEF ResultsMatchJobs
  <2>3. CASE HasRow(j)
    <3>1. IF worker[w].verdict = "SUCCEEDED" THEN j \in results ELSE j \notin results
      BY MarkFacts, <1>5, <2>3 DEF MarkJob, QueueInv, VerdictsMatchResults, RowsAreAccepted
    <3>2. /\ jobs'[j].status = worker[w].verdict
          /\ worker[w].verdict = "SUCCEEDED" => jobs'[j].result = j
      BY MarkFacts, <1>5, <2>3
    <3>q. QED
      BY <1>i, <2>1, <3>1, <3>2 DEF ResultsMatchJobs
  <2>q. QED
    BY <2>2, <2>3
<1>6. CASE UNCHANGED <<jobs, results>>
  BY <1>i, <1>6 DEF ResultsMatchJobs
<1>q. QED
  BY QuietOrLoud, <1>1, <1>2, <1>3, <1>4, <1>5, <1>6
     DEF QuietStep, LoudStep, SelectCandidate, LoseCandidate, BuildProblem, BuildFails, Solve,
         SaveRefused, Crash, Restart

LEMMA OrphansComeFromDeathsStep ==
    ASSUME QueueInv, [Next]_queueVars PROVE OrphansComeFromDeaths'
<1> USE DEF tables, history
<1>i. TypeOK /\ OrphansComeFromDeaths /\ ClaimedAtMostOnce
  BY DEF QueueInv
<1>1. ASSUME NEW e \in Events, DeleteEvent(e) PROVE OrphansComeFromDeaths'
  BY <1>i, <1>1 DEF DeleteEvent, OrphansComeFromDeaths, TypeOK, NoRow, Holds
<1>2. ASSUME NEW c \in Clients, InsertJob(c) PROVE OrphansComeFromDeaths'
  BY InsertFacts, <1>i, <1>2 DEF OrphansComeFromDeaths, Holds
<1>3. ASSUME NEW w \in Workers, SelectCandidate(w) \/ LoseCandidate(w) \/ Restart(w)
      PROVE  OrphansComeFromDeaths'
  BY <1>i, <1>3 DEF SelectCandidate, LoseCandidate, Restart, IdleWorker,
                    OrphansComeFromDeaths, TypeOK, Holds, Holding
<1>4. ASSUME NEW w \in Workers, ClaimCandidate(w) PROVE OrphansComeFromDeaths'
  <2> DEFINE j == worker[w].job
  <2>1. j \in JobIds /\ jobs[j].status = "QUEUED" /\ worker[w].pc = "selected"
    BY <1>4 DEF ClaimCandidate, QueueInv, WorkersKnowTheirJobs
  <2>2. j \notin lost
    BY <2>1 DEF QueueInv, RowsAreAccepted, UntouchedWhileNew, HasRow
  <2>3. \A v \in Workers, k \in JobIds : Holds(v, k)' <=> Holds(v, k) \/ (v = w /\ k = j)
    BY <1>i, <1>4, <2>1 DEF ClaimCandidate, TypeOK, WorkerStates, Holds, Holding
  <2>4. \A k \in JobIds \ {j} : jobs'[k] = jobs[k]
    BY <1>i, <1>4 DEF ClaimCandidate, TypeOK
  <2>q. QED
    BY <1>i, <1>4, <2>1, <2>2, <2>3, <2>4 DEF ClaimCandidate, OrphansComeFromDeaths
<1>5. ASSUME NEW w \in Workers,
             \/ BuildProblem(w) \/ BuildFails(w) \/ SaveResult(w)
             \/ \E v \in TERMINAL_STATES : Solve(w, v)
      PROVE  OrphansComeFromDeaths'
  BY ProgressFacts, <1>i, <1>5 DEF OrphansComeFromDeaths, Holds
<1>6. ASSUME NEW w \in Workers, SaveRefused(w) \/ Crash(w) PROVE OrphansComeFromDeaths'
  <2>1. \A v \in Workers, k \in JobIds : Holds(v, k)' <=> Holds(v, k) /\ v # w
    BY DeathFacts, <1>i, <1>6 DEF DownWorker, IdleWorker, TypeOK, Holds, Holding
  <2>2. \A k \in JobIds : k \in lost' <=> k \in lost \/ Holds(w, k)
    BY DeathFacts, <1>6 DEF Holds
  <2>3. jobs' = jobs
    BY DeathFacts, <1>6
  <2>q. QED
    BY <1>i, <2>1, <2>2, <2>3 DEF OrphansComeFromDeaths, ClaimedAtMostOnce
<1>7. ASSUME NEW w \in Workers, MarkJob(w) PROVE OrphansComeFromDeaths'
  <2>1. \A v \in Workers, k \in JobIds : Holds(v, k)' <=> Holds(v, k) /\ v # w
    BY <1>i, <1>7 DEF MarkJob, IdleWorker, TypeOK, Holds, Holding
  <2>2. lost' = lost /\ jobs'[worker[w].job].status # "RUNNING"
    BY MarkFacts, <1>7 DEF MarkJob, TERMINAL_STATES, HasRow
  <2>3. \A k \in JobIds \ {worker[w].job} : jobs'[k] = jobs[k] /\ ~Holds(w, k)
    BY MarkFacts, <1>7 DEF Holds
  <2>q. QED
    BY <1>i, <2>1, <2>2, <2>3 DEF OrphansComeFromDeaths
<1>8. CASE UNCHANGED <<jobs, worker, lost>>
  BY <1>i, <1>8 DEF OrphansComeFromDeaths, Holds
<1>q. QED
  BY QuietOrLoud, <1>1, <1>2, <1>3, <1>4, <1>5, <1>6, <1>7, <1>8
     DEF QuietStep, LoudStep

LEMMA QueueInvInit == ASSUME Init PROVE QueueInv
<1>1. /\ events = Events /\ results = {} /\ lost = {}
      /\ jobs = [j \in JobIds |-> NoRow] /\ claims = [j \in JobIds |-> 0]
      /\ worker = [w \in Workers |-> IdleWorker]
  BY DEF Init
<1>2. RowsAreAccepted /\ UntouchedWhileNew /\ ResultsMatchJobs
  BY <1>1 DEF RowsAreAccepted, UntouchedWhileNew, ResultsMatchJobs, HasRow, NoRow
<1>3. WorkersKnowTheirJobs /\ VerdictsMatchResults
  BY <1>1 DEF WorkersKnowTheirJobs, VerdictsMatchResults, IdleWorker, Holding
<1>4. ClaimedAtMostOnce /\ OrphansComeFromDeaths
  BY <1>1 DEF ClaimedAtMostOnce, OrphansComeFromDeaths, Holds, Holding, IdleWorker, NoRow
<1>q. QED
  BY TypeInit, <1>2, <1>3, <1>4 DEF QueueInv

LEMMA QueueInvStep == ASSUME QueueInv, [Next]_queueVars PROVE QueueInv'
<1>1. TypeOK'
  <2>1. CASE UNCHANGED queueVars
    BY <2>1 DEF queueVars, tables, history, QueueInv, TypeOK
  <2>q. QED
    BY TypeStep, <2>1
<1>q. QED
  BY <1>1, RowsAreAcceptedStep, UntouchedWhileNewStep, WorkersKnowTheirJobsStep,
     VerdictsMatchResultsStep, ClaimedAtMostOnceStep, ResultsMatchJobsStep,
     OrphansComeFromDeathsStep DEF QueueInv

-----------------------------------------------------------------------------
(* The theorems. *)

\* The queue's inductive invariant holds whatever the numbers of events, workers,
\* requests, ticks and crashes.
THEOREM QueueInvariant == Spec => []QueueInv
BY QueueInvInit, QueueInvStep, PTL DEF Spec

\* Every variable of the queue keeps its type.
THEOREM QueueTypes == Spec => []TypeOK
<1>1. QueueInv => TypeOK
  BY DEF QueueInv
<1>q. QED
  BY QueueInvariant, <1>1, PTL

\* claim_next hands every job to at most one worker, once.
THEOREM AtMostOneClaim == Spec => []ClaimedAtMostOnce
<1>1. QueueInv => ClaimedAtMostOnce
  BY DEF QueueInv
<1>q. QED
  BY QueueInvariant, <1>1, PTL

\* A job is SUCCEEDED only with its result stored, and only RUNNING or SUCCEEDED jobs
\* have one.
THEOREM ResultsAndJobsAgree == Spec => []ResultsMatchJobs
<1>1. QueueInv => ResultsMatchJobs
  BY DEF QueueInv
<1>q. QED
  BY QueueInvariant, <1>1, PTL

\* A worker works on exactly the request that was accepted under the job's id.
THEOREM RequestsAreHonoured == Spec => []RequestHonoured
<1>1. QueueInv => RequestHonoured
  BY DEF QueueInv, WorkersKnowTheirJobs, RequestHonoured
<1>q. QED
  BY QueueInvariant, <1>1, PTL

\* A RUNNING job without a worker is one whose worker died.
THEOREM OrphansAreExplained == Spec => []OrphansComeFromDeaths
<1>1. QueueInv => OrphansComeFromDeaths
  BY DEF QueueInv
<1>q. QED
  BY QueueInvariant, <1>1, PTL

\* How one step may change one row: the five ways of JobLifecycle.  The properties
\* of steps and the refinement follow from this case distinction.
RowStep(j) ==
    \/ jobs'[j] = jobs[j]
    \/ ~HasRow(j) /\ jobs'[j].status = "QUEUED"
    \/ jobs[j].status = "QUEUED" /\ jobs'[j].status = "RUNNING"
    \/ /\ jobs[j].status = "RUNNING" /\ jobs'[j].status \in TERMINAL_STATES
       /\ \E w \in Workers : Holds(w, j)
    \/ jobs'[j] = NoRow

LEMMA RowSteps ==
    ASSUME QueueInv, [Next]_queueVars, NEW j \in JobIds PROVE RowStep(j)
<1> USE DEF tables, history
<1>i. TypeOK
  BY DEF QueueInv
<1>1. ASSUME NEW e \in Events, DeleteEvent(e) PROVE RowStep(j)
  BY <1>1 DEF DeleteEvent, RowStep
<1>2. ASSUME NEW c \in Clients, InsertJob(c) PROVE RowStep(j)
  BY InsertFacts, <1>2 DEF RowStep
<1>3. ASSUME NEW w \in Workers, ClaimCandidate(w) PROVE RowStep(j)
  BY <1>i, <1>3 DEF ClaimCandidate, RowStep, TypeOK, Rows
<1>4. ASSUME NEW w \in Workers, MarkJob(w) PROVE RowStep(j)
  BY MarkFacts, <1>4 DEF RowStep
<1>5. CASE jobs' = jobs
  BY <1>5 DEF RowStep
<1>q. QED
  BY QuietOrLoud, <1>1, <1>2, <1>3, <1>4, <1>5
     DEF QuietStep, LoudStep, SelectCandidate, LoseCandidate, BuildProblem, BuildFails, Solve,
         SaveResult, SaveRefused, Crash, Restart

\* TERMINAL_STATES: a terminal row is never overwritten, although _finish has no guard.
THEOREM TerminalStatesAreKept == Spec => TerminalStatesKept
<1>1. QueueInv /\ [Next]_queueVars =>
        [\A j \in JobIds : jobs[j].status \in TERMINAL_STATES => jobs'[j] \in {jobs[j], NoRow}]_jobs
  BY RowSteps DEF RowStep, HasRow, TERMINAL_STATES
<1>q. QED
  BY QueueInvariant, <1>1, PTL DEF Spec, TerminalStatesKept

\* An orphan stays RUNNING until its event is deleted.
THEOREM OrphansAreForever == Spec => OrphansStay
<1>1. QueueInv /\ [Next]_queueVars =>
        [\A j \in JobIds :
            j \in lost /\ jobs[j].status = "RUNNING" => jobs'[j] \in {jobs[j], NoRow}]_jobs
  BY RowSteps DEF RowStep, HasRow, QueueInv, OrphansComeFromDeaths
<1>q. QED
  BY QueueInvariant, <1>1, PTL DEF Spec, OrphansStay

-----------------------------------------------------------------------------
(* Refinement: every step of the queue is a step of JobLifecycle or leaves *)
(* its variables alone.                                                    *)

LEMMA LifecycleInit == ASSUME Init PROVE Lifecycle!Init
BY JobIdFacts DEF Init, Lifecycle!Init, phaseOf, HasRow, NoRow

\* Where no event comes or goes, a job whose row is unchanged stays in its phase.
LEMMA PhaseChange ==
    ASSUME NEW j \in JobIds, events' = events,
           \A k \in JobIds \ {j} : jobs'[k] = jobs[k],
           jobs'[j].status # "ABSENT"
    PROVE  phaseOf' = [phaseOf EXCEPT ![j] = jobs'[j].status]
BY DEF phaseOf, HasRow

LEMMA LifecycleStep ==
    ASSUME QueueInv, [Next]_queueVars PROVE [Lifecycle!Next]_(Lifecycle!lifecycleVars)
<1> USE DEF tables, history, Lifecycle!lifecycleVars
<1>i. TypeOK
  BY DEF QueueInv
<1>1. ASSUME NEW e \in Events, DeleteEvent(e) PROVE Lifecycle!Next
  <2> DEFINE S == {j \in JobIds : EventOf(j) = e}
  <2>1. phaseOf' = [j \in JobIds |-> IF j \in S THEN "DELETED" ELSE phaseOf[j]]
    BY <1>1 DEF DeleteEvent, phaseOf, HasRow, NoRow
  <2>2. results' = results \ S
    BY <1>i, <1>1 DEF DeleteEvent, TypeOK
  <2>3. Lifecycle!Discard(S)
    BY <2>1, <2>2 DEF Lifecycle!Discard
  <2>q. QED
    BY <2>3 DEF Lifecycle!Next
<1>2. ASSUME NEW c \in Clients, InsertJob(c) PROVE Lifecycle!Next
  <2>1. PICK j \in JobIds :
           /\ EventOf(j) \in events /\ ~HasRow(j)
           /\ \A k \in JobIds \ {j} : jobs'[k] = jobs[k]
           /\ jobs'[j].status = "QUEUED"
           /\ UNCHANGED <<events, results>>
    BY InsertFacts, <1>2
  <2>2. phaseOf' = [phaseOf EXCEPT ![j] = "QUEUED"]
    BY PhaseChange, <2>1
  <2>3. phaseOf[j] = "NEW"
    BY <2>1 DEF phaseOf
  <2>q. QED
    BY <2>1, <2>2, <2>3 DEF Lifecycle!Next, Lifecycle!Submit
<1>3. ASSUME NEW w \in Workers, ClaimCandidate(w) PROVE Lifecycle!Next
  <2> DEFINE j == worker[w].job
  <2>1. j \in JobIds /\ jobs[j].status = "QUEUED"
    BY <1>3 DEF ClaimCandidate, QueueInv, WorkersKnowTheirJobs
  <2>2. /\ \A k \in JobIds \ {j} : jobs'[k] = jobs[k]
        /\ jobs'[j].status = "RUNNING"
        /\ UNCHANGED <<events, results>>
    BY <1>i, <1>3, <2>1 DEF ClaimCandidate, TypeOK, Rows
  <2>3. phaseOf' = [phaseOf EXCEPT ![j] = "RUNNING"]
    BY PhaseChange, <2>1, <2>2
  <2>4. phaseOf[j] = "QUEUED"
    BY <2>1 DEF phaseOf, HasRow
  <2>q. QED
    BY <2>1, <2>2, <2>3, <2>4 DEF Lifecycle!Next, Lifecycle!Start
<1>4. ASSUME NEW w \in Workers, SaveResult(w) PROVE Lifecycle!Next
  <2> DEFINE j == worker[w].job
  <2>1. j \in JobIds /\ jobs[j].status = "RUNNING"
    BY <1>4 DEF SaveResult, QueueInv, WorkersKnowTheirJobs, Holding
  <2>2. phaseOf[j] = "RUNNING" /\ phaseOf' = phaseOf
    BY <1>4, <2>1 DEF SaveResult, phaseOf, HasRow
  <2>q. QED
    BY <1>4, <2>1, <2>2 DEF SaveResult, Lifecycle!Next, Lifecycle!Store
<1>5. ASSUME NEW w \in Workers, MarkJob(w)
      PROVE  Lifecycle!Next \/ UNCHANGED <<phaseOf, results>>
  <2> DEFINE j == worker[w].job
             v == worker[w].verdict
  <2>1. /\ j \in JobIds /\ v \in TERMINAL_STATES
        /\ \A k \in JobIds \ {j} : jobs'[k] = jobs[k]
        /\ UNCHANGED <<events, results>>
    BY MarkFacts, <1>5 DEF MarkJob
  <2>2. CASE ~HasRow(j)
    <3>1. \A k \in JobIds : jobs'[k] = jobs[k]
      BY MarkFacts, <1>5, <2>1, <2>2
    <3>q. QED
      BY <2>1, <3>1 DEF phaseOf, HasRow
  <2>3. CASE HasRow(j)
    <3>1. jobs[j].status = "RUNNING" /\ jobs'[j].status = v
      BY MarkFacts, <1>5, <2>3
    <3>2. phaseOf' = [phaseOf EXCEPT ![j] = v]
      BY PhaseChange, <2>1, <3>1 DEF TERMINAL_STATES
    <3>3. phaseOf[j] = "RUNNING"
      BY <2>1, <3>1 DEF phaseOf, HasRow
    <3>4. v = "SUCCEEDED" <=> j \in results
      BY <1>5, <2>1, <2>3 DEF MarkJob, QueueInv, VerdictsMatchResults, RowsAreAccepted
    <3>5. Lifecycle!Settle(j, v)
      BY <2>1, <3>2, <3>3, <3>4 DEF Lifecycle!Settle
    <3>q. QED
      BY <2>1, <3>5 DEF Lifecycle!Next, TERMINAL_STATES, Lifecycle!TERMINAL_STATES
  <2>q. QED
    BY <2>2, <2>3
<1>6. CASE UNCHANGED <<events, jobs, results>>
  BY <1>6 DEF phaseOf, HasRow
<1>q. QED
  BY QuietOrLoud, <1>1, <1>2, <1>3, <1>4, <1>5, <1>6
     DEF QuietStep, LoudStep, SelectCandidate, LoseCandidate, BuildProblem, BuildFails, Solve,
         SaveRefused, Crash, Restart

\* The tables live the life of JobLifecycle, whatever the workers, the requests, the
\* deletions and the crashes do.
THEOREM QueueImplementsLifecycle == Spec => ImplementsLifecycle
BY QueueInvariant, LifecycleInit, LifecycleStep, PTL DEF Spec, ImplementsLifecycle, Lifecycle!Spec
=============================================================================
