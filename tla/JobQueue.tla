------------------------------ MODULE JobQueue ------------------------------
(***************************************************************************)
(* The optimisation job queue: the optimization_jobs table, the API        *)
(* handlers that insert into it (POST /optimizations) and the worker       *)
(* processes that claim a job, solve it outside any transaction and record *)
(* the outcome.  Each transaction of the code is one action; a SELECT that *)
(* precedes the first write of a transaction is an action of its own,      *)
(* because neither SQLite (no BEGIN before the first DML statement) nor    *)
(* PostgreSQL (READ COMMITTED) holds what it read until the write.         *)
(*                                                                         *)
(* What the solver returns and what the assignments table says belong to   *)
(* the module Reoptimization: here a solve has one of three outcomes and   *)
(* the transaction that saves a result may be refused by the database.     *)
(***************************************************************************)
EXTENDS Naturals, FiniteSets

CONSTANTS Events,          \* ids of the events created before the run
          Params,          \* what a coordinator may ask for: weights, limits
          Workers,         \* worker processes
          Clients,         \* concurrent POST /optimizations requests
          MaxTime,         \* bound on the clock, in ticks
          TicksPerSecond,  \* job ids carry whole seconds, created_at does not
          MaxCrashes,      \* bound on crashes of the worker and API processes
          None             \* no value

Instants == 0 .. MaxTime

\* int(moment.timestamp()): the whole second of an instant.
Second(t) == t \div TicksPerSecond

\* The id f"J-{event_id}-{int(moment.timestamp())}".
JobIds == Events \X {Second(t) : t \in Instants}

JobIdAt(e, t) == <<e, Second(t)>>

EventOf(j) == j[1]

\* jobs.py: ReoptimizationMode, JobState, TERMINAL_STATES.
ReoptimizationMode == {"FULL", "INCREMENTAL"}

TERMINAL_STATES == {"SUCCEEDED", "INFEASIBLE", "FAILED"}

JobState == {"QUEUED", "RUNNING"} \cup TERMINAL_STATES

\* The request a job carries to the worker.
Asks == [mode : ReoptimizationMode, params : Params]

ASSUME JobQueueAssumption ==
    /\ MaxTime \in Nat
    /\ TicksPerSecond \in Nat \ {0}
    /\ MaxCrashes \in Nat
    /\ None \notin JobIds
    /\ None \notin Asks
    /\ None \notin TERMINAL_STATES
    /\ None \notin Events

VARIABLES clock,     \* the current instant
          events,    \* ids of the rows of the events table
          jobs,      \* the optimization_jobs table, "ABSENT" where there is no row
          results,   \* ids of the rows of assignment_results, R-<job id> being <job id>
          client,    \* the handler of each request in flight
          worker,    \* the process state of each worker
          crashes,   \* how many crashes have happened
          accepted,  \* history: what was asked, for each job answered 202
          claims,    \* history: how often each job has been claimed
          lost       \* history: the jobs whose worker died while it held them

tables == <<events, jobs, results>>

history == <<accepted, claims, lost>>

queueVars == <<clock, tables, client, worker, crashes, history>>

NoRow == [status |-> "ABSENT", created |-> 0, ask |-> None, result |-> None]

Rows == [status : JobState \cup {"ABSENT"}, created : Instants,
         ask : Asks \cup {None}, result : JobIds \cup {None}]

IdleClient == [pc |-> "idle", event |-> None, at |-> 0, ask |-> None]

ClientStates == [pc : {"idle", "inserting"}, event : Events \cup {None},
                 at : Instants, ask : Asks \cup {None}]

IdleWorker == [pc |-> "idle", job |-> None, ask |-> None, verdict |-> None]

DownWorker == [IdleWorker EXCEPT !.pc = "down"]

\* claim_next returned the job to this worker, and it has not written its end.
Holding == {"claimed", "solving", "saving", "marking"}

WorkerStates == [pc : {"idle", "selected", "down"} \cup Holding,
                 job : JobIds \cup {None}, ask : Asks \cup {None},
                 verdict : TERMINAL_STATES \cup {None}]

HasRow(j) == jobs[j].status # "ABSENT"

Holds(w, j) == worker[w].pc \in Holding /\ worker[w].job = j

Init ==
    /\ clock = 0
    /\ events = Events
    /\ jobs = [j \in JobIds |-> NoRow]
    /\ results = {}
    /\ client = [c \in Clients |-> IdleClient]
    /\ worker = [w \in Workers |-> IdleWorker]
    /\ crashes = 0
    /\ accepted = [j \in JobIds |-> None]
    /\ claims = [j \in JobIds |-> 0]
    /\ lost = {}

-----------------------------------------------------------------------------
(* The environment. *)

Tick ==
    /\ clock < MaxTime
    /\ clock' = clock + 1
    /\ UNCHANGED <<tables, client, worker, crashes, history>>

\* Mutant of DeleteEvent: assignment_results without ON DELETE CASCADE.
DeleteKeepsResults(e) ==
    /\ e \in events
    /\ events' = events \ {e}
    /\ jobs' = [j \in JobIds |-> IF EventOf(j) = e THEN NoRow ELSE jobs[j]]
    /\ UNCHANGED <<clock, results, client, worker, crashes, history>>

\* EventService.delete_event: ON DELETE CASCADE takes the event's jobs and
\* results along.  The refusal of a confirmed event is left to EventLifecycle.
DeleteEvent(e) ==
    /\ e \in events
    /\ events' = events \ {e}
    /\ jobs' = [j \in JobIds |-> IF EventOf(j) = e THEN NoRow ELSE jobs[j]]
    /\ results' = {j \in results : EventOf(j) # e}
    /\ UNCHANGED <<clock, client, worker, crashes, history>>

-----------------------------------------------------------------------------
(* POST /optimizations. *)

\* The handler reads the clock: the moment gives the id and created_at.
BeginEnqueue(c, e, a) ==
    /\ client[c].pc = "idle"
    /\ client' = [client EXCEPT
                    ![c] = [pc |-> "inserting", event |-> e, at |-> clock, ask |-> a]]
    /\ UNCHANGED <<clock, tables, worker, crashes, history>>

\* Mutant of InsertJob: an upsert, which a request of the same second overwrites.
UpsertJob(c) ==
    LET j == JobIdAt(client[c].event, client[c].at)
    IN /\ client[c].pc = "inserting"
       /\ EventOf(j) \in events
       /\ jobs' = [jobs EXCEPT ![j] = [status |-> "QUEUED", created |-> client[c].at,
                                       ask |-> client[c].ask, result |-> None]]
       /\ accepted' = [accepted EXCEPT ![j] = client[c].ask]
       /\ client' = [client EXCEPT ![c] = IdleClient]
       /\ UNCHANGED <<clock, events, results, worker, crashes, claims, lost>>

\* The insert commits: neither the primary key nor the foreign key objects.
InsertJob(c) ==
    LET j == JobIdAt(client[c].event, client[c].at)
    IN /\ client[c].pc = "inserting"
       /\ EventOf(j) \in events
       /\ ~HasRow(j)
       /\ jobs' = [jobs EXCEPT ![j] = [status |-> "QUEUED", created |-> client[c].at,
                                       ask |-> client[c].ask, result |-> None]]
       /\ accepted' = [accepted EXCEPT ![j] = client[c].ask]
       /\ client' = [client EXCEPT ![c] = IdleClient]
       /\ UNCHANGED <<clock, events, results, worker, crashes, claims, lost>>

\* The API process is killed or restarted: the requests it was serving are gone,
\* none of them half done, since each makes one insert.
ApiCrash ==
    /\ crashes < MaxCrashes
    /\ crashes' = crashes + 1
    /\ client' = [c \in Clients |-> IdleClient]
    /\ UNCHANGED <<clock, tables, worker, history>>

\* IntegrityError: an id of the same second exists, or the event does not.  The
\* caller gets an error and no row is touched.
InsertRefused(c) ==
    LET j == JobIdAt(client[c].event, client[c].at)
    IN /\ client[c].pc = "inserting"
       /\ EventOf(j) \notin events \/ HasRow(j)
       /\ client' = [client EXCEPT ![c] = IdleClient]
       /\ UNCHANGED <<clock, tables, worker, crashes, history>>

-----------------------------------------------------------------------------
(* worker.step *)

Queued == {j \in JobIds : jobs[j].status = "QUEUED"}

\* Mutant of Oldest: OFFSET 1.
SecondOldest == {j \in Queued : \E k \in Queued : jobs[k].created < jobs[j].created}

\* ORDER BY created_at LIMIT 1; SQL leaves the order of equal instants open.
Oldest == {j \in Queued : \A k \in Queued : jobs[j].created <= jobs[k].created}

\* claim_next, the SELECT.  With no candidate the step returns False and the
\* loop sleeps, which changes nothing.
SelectCandidate(w) ==
    /\ worker[w].pc = "idle"
    /\ \E j \in Oldest :
          worker' = [worker EXCEPT ![w] = [pc |-> "selected", job |-> j,
                                           ask |-> jobs[j].ask, verdict |-> None]]
    /\ UNCHANGED <<clock, tables, client, crashes, history>>

\* Mutant of ClaimCandidate: the UPDATE without its status guard.
ClaimUnguarded(w) ==
    LET j == worker[w].job
    IN /\ worker[w].pc = "selected"
       /\ HasRow(j)
       /\ jobs' = [jobs EXCEPT ![j].status = "RUNNING"]
       /\ worker' = [worker EXCEPT ![w].pc = "claimed"]
       /\ claims' = [claims EXCEPT ![j] = @ + 1]
       /\ UNCHANGED <<clock, events, results, client, crashes, accepted, lost>>

\* claim_next, the conditional UPDATE with rowcount 1.
ClaimCandidate(w) ==
    LET j == worker[w].job
    IN /\ worker[w].pc = "selected"
       /\ jobs[j].status = "QUEUED"
       /\ jobs' = [jobs EXCEPT ![j].status = "RUNNING"]
       /\ worker' = [worker EXCEPT ![w].pc = "claimed"]
       /\ claims' = [claims EXCEPT ![j] = @ + 1]
       /\ UNCHANGED <<clock, events, results, client, crashes, accepted, lost>>

\* claim_next, the conditional UPDATE with rowcount 0.
LoseCandidate(w) ==
    /\ worker[w].pc = "selected"
    /\ jobs[worker[w].job].status # "QUEUED"
    /\ worker' = [worker EXCEPT ![w] = IdleWorker]
    /\ UNCHANGED <<clock, tables, client, crashes, history>>

\* build_problem read the event and the master data.
BuildProblem(w) ==
    /\ worker[w].pc = "claimed"
    /\ EventOf(worker[w].job) \in events
    /\ worker' = [worker EXCEPT ![w].pc = "solving"]
    /\ UNCHANGED <<clock, tables, client, crashes, history>>

\* Mutant of BuildFails: the reason is written where the state belongs.
BuildFailsWithReason(w) ==
    /\ worker[w].pc = "claimed"
    /\ EventOf(worker[w].job) \notin events
    /\ worker' = [worker EXCEPT ![w] = [@ EXCEPT !.pc = "marking",
                                                !.verdict = "event not found"]]
    /\ UNCHANGED <<clock, tables, client, crashes, history>>

\* ProblemBuildError("event not found").
BuildFails(w) ==
    /\ worker[w].pc = "claimed"
    /\ EventOf(worker[w].job) \notin events
    /\ worker' = [worker EXCEPT ![w] = [@ EXCEPT !.pc = "marking", !.verdict = "FAILED"]]
    /\ UNCHANGED <<clock, tables, client, crashes, history>>

\* Mutant of Solve: success is marked without saving the result.
SolveUnsaved(w, v) ==
    /\ worker[w].pc = "solving"
    /\ worker' = [worker EXCEPT ![w] = [@ EXCEPT !.pc = "marking", !.verdict = v]]
    /\ UNCHANGED <<clock, tables, client, crashes, history>>

\* optimize() returned a result, a diagnosis, or raised; no transaction is open.
Solve(w, v) ==
    /\ worker[w].pc = "solving"
    /\ worker' = [worker EXCEPT
                    ![w] = [@ EXCEPT !.pc = IF v = "SUCCEEDED" THEN "saving" ELSE "marking",
                                     !.verdict = v]]
    /\ UNCHANGED <<clock, tables, client, crashes, history>>

\* _record_success, the first transaction: save_assignment_result commits.
SaveResult(w) ==
    LET j == worker[w].job
    IN /\ worker[w].pc = "saving"
       /\ EventOf(j) \in events
       /\ j \notin results
       /\ results' = results \cup {j}
       /\ worker' = [worker EXCEPT ![w].pc = "marking"]
       /\ UNCHANGED <<clock, events, jobs, client, crashes, history>>

\* The process ends and forgets what it was doing.
Die(w) ==
    /\ worker' = [worker EXCEPT ![w] = DownWorker]
    /\ lost' = IF worker[w].pc \in Holding THEN lost \cup {worker[w].job} ELSE lost

\* save_assignment_result raises (a foreign or primary key of one of its three
\* inserts).  Nothing catches it: the process ends with the job RUNNING.
SaveRefused(w) ==
    /\ worker[w].pc = "saving"
    /\ Die(w)
    /\ UNCHANGED <<clock, tables, client, crashes, accepted, claims>>

\* Mutant of Finish: guarded like the claim, by the wrong state.
FinishQueued(table, j, v) ==
    IF table[j].status # "QUEUED"
    THEN table
    ELSE [table EXCEPT ![j].status = v,
                       ![j].result = IF v = "SUCCEEDED" THEN j ELSE @]

\* _finish: UPDATE ... WHERE id = ?, whatever the status; no row, no effect.
Finish(table, j, v) ==
    IF table[j].status = "ABSENT"
    THEN table
    ELSE [table EXCEPT ![j].status = v,
                       ![j].result = IF v = "SUCCEEDED" THEN j ELSE @]

\* mark_succeeded, mark_infeasible or mark_failed; the step returns True.
MarkJob(w) ==
    /\ worker[w].pc = "marking"
    /\ jobs' = Finish(jobs, worker[w].job, worker[w].verdict)
    /\ worker' = [worker EXCEPT ![w] = IdleWorker]
    /\ UNCHANGED <<clock, events, results, client, crashes, history>>

\* The process is killed, or an exception step() does not catch ends it (a
\* locked database in any of its transactions); an open transaction rolls back.
Crash(w) ==
    /\ worker[w].pc # "down"
    /\ crashes < MaxCrashes
    /\ crashes' = crashes + 1
    /\ Die(w)
    /\ UNCHANGED <<clock, tables, client, accepted, claims>>

\* Mutant of Restart: what was RUNNING is queued again at start-up.
RestartRequeues(w) ==
    /\ worker[w].pc = "down"
    /\ jobs' = [j \in JobIds |-> IF jobs[j].status = "RUNNING"
                                 THEN [jobs[j] EXCEPT !.status = "QUEUED"] ELSE jobs[j]]
    /\ worker' = [worker EXCEPT ![w] = IdleWorker]
    /\ UNCHANGED <<clock, events, results, client, crashes, history>>

\* systemd, Restart=always: run_forever starts over, and looks at QUEUED only.
Restart(w) ==
    /\ worker[w].pc = "down"
    /\ worker' = [worker EXCEPT ![w] = IdleWorker]
    /\ UNCHANGED <<clock, tables, client, crashes, history>>

-----------------------------------------------------------------------------

WorkerStep(w) ==
    \/ SelectCandidate(w) \/ ClaimCandidate(w) \/ LoseCandidate(w)
    \/ BuildProblem(w) \/ BuildFails(w)
    \/ \E v \in TERMINAL_STATES : Solve(w, v)
    \/ SaveResult(w) \/ SaveRefused(w) \/ MarkJob(w)
    \/ Restart(w)

Next ==
    \/ Tick
    \/ \E e \in Events : DeleteEvent(e)
    \/ \E c \in Clients, e \in Events, a \in Asks : BeginEnqueue(c, e, a)
    \/ \E c \in Clients : InsertJob(c) \/ InsertRefused(c)
    \/ ApiCrash
    \/ \E w \in Workers : WorkerStep(w) \/ Crash(w)

Spec == Init /\ [][Next]_queueVars

\* The worker loop runs whenever it can, and systemd restarts it.  Nobody is
\* obliged to send requests, to delete events or to crash.
Fairness == \A w \in Workers : WF_queueVars(WorkerStep(w))

FairSpec == Spec /\ Fairness

-----------------------------------------------------------------------------
(* Properties. *)

\* Every variable keeps the shape of the table, record or counter it stands for.
TypeOK ==
    /\ clock \in Instants
    /\ events \subseteq Events
    /\ jobs \in [JobIds -> Rows]
    /\ results \subseteq JobIds
    /\ client \in [Clients -> ClientStates]
    /\ worker \in [Workers -> WorkerStates]
    /\ crashes \in 0 .. MaxCrashes
    /\ accepted \in [JobIds -> Asks \cup {None}]
    /\ claims \in [JobIds -> Nat]
    /\ lost \subseteq JobIds

\* claim_next hands a job to one worker only, over its whole life: no job is ever
\* claimed twice and no two workers hold the same job, however their SELECTs and
\* conditional UPDATEs interleave and whoever dies in between.
ClaimedAtMostOnce ==
    /\ \A j \in JobIds : claims[j] <= 1
    /\ \A v, w \in Workers, j \in JobIds : Holds(v, j) /\ Holds(w, j) => v = w

\* TERMINAL_STATES, "States a job can never leave": although _finish writes
\* whatever status it is given over whatever status it finds, a terminal row is
\* never changed again; it only disappears with its event.
TerminalStatesKept ==
    [][\A j \in JobIds :
          jobs[j].status \in TERMINAL_STATES => jobs'[j] \in {jobs[j], NoRow}]_jobs

\* The two transactions of _record_success agree with each other: a SUCCEEDED job
\* names its own result, which is stored, and a stored result belongs to a job that
\* is SUCCEEDED or, between the two or after a death between them, still RUNNING.
\* A FAILED or INFEASIBLE job never leaves a result behind.
ResultsMatchJobs ==
    \A j \in JobIds :
        /\ jobs[j].status = "SUCCEEDED" => jobs[j].result = j /\ j \in results
        /\ j \in results => jobs[j].status \in {"RUNNING", "SUCCEEDED"}

\* The coordinator's mode and parameters travel with the job: what a worker solves
\* is what the 202 answer accepted under that id, never what another request of the
\* same second asked for.
RequestHonoured ==
    \A w \in Workers :
        worker[w].pc \in Holding => worker[w].ask = accepted[worker[w].job]

\* A RUNNING job no worker is working on got there by the death of its worker and
\* in no other way, and no later worker takes it up.
OrphansComeFromDeaths ==
    \A j \in JobIds :
        /\ jobs[j].status = "RUNNING" => j \in lost \/ \E w \in Workers : Holds(w, j)
        /\ j \in lost => \A w \in Workers : ~Holds(w, j)

\* Nothing repairs such a job: it stays RUNNING until its event is deleted.  There
\* is no requeue, lease or timeout in job_queue.py or worker.py.
OrphansStay ==
    [][\A j \in JobIds :
          j \in lost /\ jobs[j].status = "RUNNING" => jobs'[j] \in {jobs[j], NoRow}]_jobs

\* Why the three above hold: the inductive invariant behind them.  It says of every
\* worker which row it works on, in which state, and what is stored by then.

\* ON DELETE CASCADE: a row belongs to an event, and is what was accepted.
RowsAreAccepted ==
    \A j \in JobIds : HasRow(j) => EventOf(j) \in events /\ jobs[j].ask = accepted[j]

\* A row that nobody claimed carries no trace of a worker, nor does a free id.
UntouchedWhileNew ==
    \A j \in JobIds : EventOf(j) \in events /\ jobs[j].status \in {"ABSENT", "QUEUED"} =>
                         claims[j] = 0 /\ j \notin lost

\* A worker past its SELECT knows an accepted job, whose row only a deletion removes;
\* once it holds the job, the row is RUNNING.
WorkersKnowTheirJobs ==
    \A w \in Workers : worker[w].pc \in {"selected"} \cup Holding =>
        /\ worker[w].job \in JobIds
        /\ worker[w].ask = accepted[worker[w].job]
        /\ \/ HasRow(worker[w].job) /\ (worker[w].pc \in Holding =>
                                           jobs[worker[w].job].status = "RUNNING")
           \/ ~HasRow(worker[w].job) /\ EventOf(worker[w].job) \notin events

\* A worker about to mark a job knows the verdict, and a result is stored exactly when
\* the verdict is SUCCEEDED; until then there is none.
VerdictsMatchResults ==
    \A w \in Workers :
        /\ worker[w].pc \in {"claimed", "solving", "saving"} => worker[w].job \notin results
        /\ worker[w].pc = "saving" => worker[w].verdict = "SUCCEEDED"
        /\ worker[w].pc = "marking" =>
              /\ worker[w].verdict \in TERMINAL_STATES
              /\ IF worker[w].verdict = "SUCCEEDED"
                 THEN worker[w].job \in results \/ EventOf(worker[w].job) \notin events
                 ELSE worker[w].job \notin results

\* The conjunction, inductive as it stands.
QueueInv ==
    /\ TypeOK
    /\ RowsAreAccepted
    /\ UntouchedWhileNew
    /\ WorkersKnowTheirJobs
    /\ VerdictsMatchResults
    /\ ClaimedAtMostOnce
    /\ ResultsMatchJobs
    /\ OrphansComeFromDeaths

\* Every queued job is eventually claimed by some worker, or deleted.
QueuedIsClaimed ==
    \A j \in JobIds : jobs[j].status = "QUEUED" ~> jobs[j].status # "QUEUED"

\* Every claimed job eventually reaches a terminal state, unless its worker died or
\* its event was deleted.
RunningSettles ==
    \A j \in JobIds :
        jobs[j].status = "RUNNING" ~>
            \/ jobs[j].status \in TERMINAL_STATES
            \/ ~HasRow(j)
            \/ j \in lost

\* The queue implements the promised life of a job.  A job that has no row is new
\* while its event exists and deleted afterwards.
phaseOf == [j \in JobIds |-> IF HasRow(j) THEN jobs[j].status
                             ELSE IF EventOf(j) \in events THEN "NEW" ELSE "DELETED"]

Lifecycle == INSTANCE JobLifecycle
                WITH Jobs <- JobIds, phase <- phaseOf, stored <- results

\* Every behaviour of the tables is a life of JobLifecycle: one submission, one
\* start, one settlement, SUCCEEDED exactly when the result was stored before.
ImplementsLifecycle == Lifecycle!Spec
=============================================================================
