--------------------------- MODULE Reoptimization ---------------------------
(***************************************************************************)
(* The roster of an event and everybody who writes it: the workers of      *)
(* JobQueue, which append a solver's result to the assignments table, and  *)
(* the handlers of PATCH /events/{id}/assignments, which read the roster,  *)
(* change one person's post, have the result judged by the checker and     *)
(* write the whole roster back.  Meanwhile coordinators import             *)
(* declarations and facilities.  Every action is an action of JobQueue     *)
(* with what it does to the roster, or leaves JobQueue alone.              *)
(***************************************************************************)
EXTENDS JobQueue, Constraints

CONSTANTS Headcount,   \* [Facilities -> Nat]: required_headcount in the facility master
          Editors,     \* concurrent PATCH requests
          CapOf,       \* [Params -> Nat]: department_cap_limit of a request
          ServerCap,   \* department_cap_limit of config.optimization
          Opening,     \* the facilities registered at the start
          MaxEdits,    \* bound on the different edits that are committed
          Answers      \* the sets of available staff that imports lead to

ASSUME ReoptimizationAssumption ==
    /\ Headcount \in [Facilities -> Nat \ {0}]
    /\ CapOf \in [Params -> Nat]
    /\ ServerCap \in Nat
    /\ Opening \subseteq Facilities
    /\ MaxEdits \in Nat
    /\ Answers \subseteq SUBSET Staff

VARIABLES facilities,  \* the facility master
          available,   \* available[e]: staff whose latest declaration for e says yes
          assigned,    \* assigned[e]: the rows of the assignments table
          plan,        \* plan[w]: the problem worker w read and the roster it got
          editor,      \* the handler of each PATCH in flight
          audit,       \* the ASSIGNMENT_CHANGED records of the audit log
          everAvailable, \* history: who ever declared themselves available
          edits        \* history: the edits that were committed

rosterVars == <<facilities, available, assigned, plan, editor, audit, everAvailable, edits>>

vars == <<queueVars, rosterVars>>

RosterProblems == Problems({Headcount}, Nat)

NoProblem ==
    [facilities |-> {}, headcount |-> Headcount, available |-> {}, cap |-> 0, pins |-> {}]

Plans == [problem : RosterProblems, previous : SUBSET Posts, roster : SUBSET Posts]

NoPlan == [problem |-> NoProblem, previous |-> {}, roster |-> {}]

EditorStates == [pc : {"idle", "loaded", "saving", "auditing"}, event : Events \cup {None},
                 post : Posts \cup {None}, current : SUBSET Posts, problem : RosterProblems]

AuditRecords == [event : Events, post : Posts, before : SUBSET Posts]

IdleEditor == [pc |-> "idle", event |-> None, post |-> None, current |-> {},
               problem |-> NoProblem]

RInit ==
    /\ Init
    /\ facilities = Opening
    /\ available = [e \in Events |-> {}]
    /\ assigned = [e \in Events |-> {}]
    /\ plan = [w \in Workers |-> NoPlan]
    /\ editor = [d \in Editors |-> IdleEditor]
    /\ audit = {}
    /\ everAvailable = [e \in Events |-> {}]
    /\ edits = {}

People(A) == {a[1] : a \in A}

-----------------------------------------------------------------------------
(* What both writers read. *)

\* build_problem: INCREMENTAL pins what it is handed as `previous`.
Pins(mode, previous) == IF mode = "INCREMENTAL" THEN previous ELSE {}

ProblemFor(e, cap, mode, previous) ==
    [facilities |-> facilities, headcount |-> Headcount, available |-> available[e],
     cap |-> cap, pins |-> Pins(mode, previous)]

-----------------------------------------------------------------------------
(* Coordinators. *)

\* A declarations CSV for e after whose import S are the available ones.
ImportDeclarations(e, S) ==
    /\ e \in events
    /\ S # available[e]
    /\ available' = [available EXCEPT ![e] = S]
    /\ everAvailable' = [everAvailable EXCEPT ![e] = @ \cup S]
    /\ UNCHANGED <<queueVars, facilities, assigned, plan, editor, audit, edits>>

\* A facilities CSV with one new row; an import never replaces a row.
ImportFacility(f) ==
    /\ f \notin facilities
    /\ facilities' = facilities \cup {f}
    /\ UNCHANGED <<queueVars, available, assigned, plan, editor, audit, everAvailable, edits>>

\* Mutant of RDeleteEvent: declarations without ON DELETE CASCADE.
DeleteKeepsDeclarations(e) ==
    /\ DeleteEvent(e)
    /\ assigned' = [assigned EXCEPT ![e] = {}]
    /\ everAvailable' = [everAvailable EXCEPT ![e] = {}]
    /\ UNCHANGED <<facilities, available, plan, editor, audit, edits>>

\* The cascade takes the declarations and the roster along.
RDeleteEvent(e) ==
    /\ DeleteEvent(e)
    /\ available' = [available EXCEPT ![e] = {}]
    /\ assigned' = [assigned EXCEPT ![e] = {}]
    /\ everAvailable' = [everAvailable EXCEPT ![e] = {}]
    /\ UNCHANGED <<facilities, plan, editor, audit, edits>>

-----------------------------------------------------------------------------
(* worker.step, with the roster. *)

\* step() calls build_problem with job.mode and without `previous`, so the tuple
\* to pin is the default, empty one.
RBuildProblem(w) ==
    LET e == EventOf(worker[w].job)
    IN /\ BuildProblem(w)
       /\ plan' = [plan EXCEPT ![w] =
                     [problem |-> ProblemFor(e, CapOf[worker[w].ask.params],
                                             worker[w].ask.mode, {}),
                      previous |-> assigned[e], roster |-> {}]]
       /\ UNCHANGED <<facilities, available, assigned, editor, audit, everAvailable, edits>>

\* optimize() returns a roster.  C3 may be demoted, see OptimizationService.
RSolved(w, X) ==
    /\ Solve(w, "SUCCEEDED")
    /\ X \in Solutions(plan[w].problem, "soft")
    /\ plan' = [plan EXCEPT ![w].problem = NoProblem, ![w].roster = X]
    /\ UNCHANGED <<facilities, available, assigned, editor, audit, everAvailable, edits>>

\* The worker's local variables are gone; nothing else of the roster changes.
Forget(w) ==
    /\ plan' = [plan EXCEPT ![w] = NoPlan]
    /\ UNCHANGED <<facilities, available, assigned, editor, audit, everAvailable, edits>>

\* optimize() returns a diagnosis or raises.
RUnsolved(w, v) ==
    /\ v # "SUCCEEDED"
    /\ Solve(w, v)
    /\ Forget(w)

\* Mutant of KeysFree: the table has no primary key.
NoKey(w) == TRUE

\* PRIMARY KEY (event_id, staff_id): nobody of the new roster has a row already.
KeysFree(w) ==
    People(plan[w].roster) \cap People(assigned[EventOf(worker[w].job)]) = {}

\* save_assignment_result: one transaction, inserts only.
RSaveResult(w) ==
    LET e == EventOf(worker[w].job)
    IN /\ SaveResult(w)
       /\ KeysFree(w)
       /\ assigned' = [assigned EXCEPT ![e] = @ \cup plan[w].roster]
       /\ plan' = [plan EXCEPT ![w] = NoPlan]
       /\ UNCHANGED <<facilities, available, editor, audit, everAvailable, edits>>

\* save_assignment_result: a key is taken, or the event is gone.
RSaveRefused(w) ==
    /\ SaveRefused(w)
    /\ \/ EventOf(worker[w].job) \notin events
       \/ worker[w].job \in results
       \/ ~KeysFree(w)
    /\ Forget(w)

RCrash(w) == Crash(w) /\ Forget(w)

-----------------------------------------------------------------------------
(* PATCH /events/{event_id}/assignments *)

\* services.load_assignments
LoadRoster(d, e, post) ==
    /\ editor[d].pc = "idle"
    /\ Cardinality(edits) < MaxEdits
    /\ editor' = [editor EXCEPT ![d] = [pc |-> "loaded", event |-> e, post |-> post,
                                        current |-> assigned[e], problem |-> NoProblem]]
    /\ UNCHANGED <<queueVars, facilities, available, assigned, plan, audit, everAvailable, edits>>

\* The roster with the person's row, if any, replaced by the requested post.
Edited(current, post) == (current \ PostsOf(current, post[1])) \cup {post}

EditOf(d) == Edited(editor[d].current, editor[d].post)

\* build_problem with the server's parameters, then validate_assignments.  A
\* missing event or a violation ends the request with an error.
JudgeEdit(d) ==
    LET problem == ProblemFor(editor[d].event, ServerCap, "FULL", {})
        valid   == /\ editor[d].event \in events
                   /\ ValidateAssignments(problem, EditOf(d)) = {}
    IN
    /\ editor[d].pc = "loaded"
    /\ editor' = [editor EXCEPT
                    ![d] = IF valid THEN [@ EXCEPT !.pc = "saving", !.problem = problem]
                                    ELSE IdleEditor]
    /\ UNCHANGED <<queueVars, facilities, available, assigned, plan, audit, everAvailable, edits>>

\* The record of an edit: `before` is what the handler had read.
AuditRecord(d) == [event |-> editor[d].event, post |-> editor[d].post,
                   before |-> PostsOf(editor[d].current, editor[d].post[1])]

\* services.save_assignments: delete the event's rows and insert the edited ones.
\* The key has nothing to object to, since Edited names nobody twice (OneFacilityEach).
SaveEdit(d) ==
    /\ editor[d].pc = "saving"
    /\ editor[d].event \in events
    /\ assigned' = [assigned EXCEPT ![editor[d].event] = EditOf(d)]
    /\ edits' = edits \cup {AuditRecord(d)}
    /\ editor' = [editor EXCEPT ![d].pc = "auditing", ![d].problem = NoProblem]
    /\ UNCHANGED <<queueVars, facilities, available, plan, audit, everAvailable>>

\* The event is gone: the foreign key refuses the insert, the delete rolls back.
SaveEditRefused(d) ==
    /\ editor[d].pc = "saving"
    /\ editor[d].event \notin events
    /\ editor' = [editor EXCEPT ![d] = IdleEditor]
    /\ UNCHANGED <<queueVars, facilities, available, assigned, plan, audit, everAvailable, edits>>

\* Mutant of AuditEdit: the record is written before the commit.
AuditFirst(d) ==
    /\ editor[d].pc = "saving"
    /\ audit' = audit \cup {AuditRecord(d)}
    /\ editor' = [editor EXCEPT ![d] = IdleEditor]
    /\ UNCHANGED <<queueVars, facilities, available, assigned, plan, everAvailable, edits>>

\* services.audit_assignment_change, after the commit.
AuditEdit(d) ==
    /\ editor[d].pc = "auditing"
    /\ audit' = audit \cup {AuditRecord(d)}
    /\ editor' = [editor EXCEPT ![d] = IdleEditor]
    /\ UNCHANGED <<queueVars, facilities, available, assigned, plan, everAvailable, edits>>

\* The API process dies with every handler in it.
RApiCrash ==
    /\ ApiCrash
    /\ editor' = [d \in Editors |-> IdleEditor]
    /\ UNCHANGED <<facilities, available, assigned, plan, audit, everAvailable, edits>>

-----------------------------------------------------------------------------

\* The steps of JobQueue that do not concern the roster.
QueueOnly ==
    /\ \/ Tick
       \/ \E c \in Clients, e \in Events, a \in Asks : BeginEnqueue(c, e, a)
       \/ \E c \in Clients : InsertJob(c) \/ InsertRefused(c)
       \/ \E w \in Workers :
             \/ SelectCandidate(w) \/ ClaimCandidate(w) \/ LoseCandidate(w)
             \/ BuildFails(w) \/ MarkJob(w) \/ Restart(w)
    /\ UNCHANGED rosterVars

RNext ==
    \/ QueueOnly
    \/ \E e \in Events, S \in Answers : ImportDeclarations(e, S)
    \/ \E f \in Facilities : ImportFacility(f)
    \/ \E e \in Events : RDeleteEvent(e)
    \/ \E w \in Workers :
          \/ RBuildProblem(w) \/ RSaveResult(w) \/ RSaveRefused(w) \/ RCrash(w)
          \/ \E X \in SUBSET Posts : RSolved(w, X)
          \/ \E v \in TERMINAL_STATES : RUnsolved(w, v)
    \/ \E d \in Editors, e \in Events, post \in Posts : LoadRoster(d, e, post)
    \/ \E d \in Editors : JudgeEdit(d) \/ SaveEdit(d) \/ SaveEditRefused(d) \/ AuditEdit(d)
    \/ RApiCrash

RSpec == RInit /\ [][RNext]_vars

-----------------------------------------------------------------------------
(* Properties. *)

\* Each roster variable keeps the shape of the table, log or local it stands for.
RTypeOK ==
    /\ TypeOK
    /\ facilities \subseteq Facilities
    /\ available \in [Events -> SUBSET Staff]
    /\ assigned \in [Events -> SUBSET Posts]
    /\ plan \in [Workers -> Plans]
    /\ editor \in [Editors -> EditorStates]
    /\ audit \cup edits \subseteq AuditRecords
    /\ everAvailable \in [Events -> SUBSET Staff]

\* INV-01: nobody has two posts at one event, whatever workers append and editors
\* write back.
OnePostEach(A) == \A a, b \in A : a[1] = b[1] => a = b

OneFacilityEach == \A e \in Events : OnePostEach(assigned[e])

\* FR-04.1 over time: everybody on a roster declared themselves available at some
\* point, even if declarations changed while a job was solved or an edit was judged.
AssignedWereAvailable ==
    \A e \in Events : People(assigned[e]) \subseteq everAvailable[e]

\* No facility is ever left half-staffed: its rows are a whole number of its
\* headcount (0, one roster, or several appended), although a PATCH writes back a
\* roster that it read before others changed the table.
NeverHalfStaffed ==
    \A e \in Events, f \in Facilities : Cardinality(At(assigned[e], f)) % Headcount[f] = 0

Complete(problem, A) ==
    \A f \in problem.facilities : Cardinality(At(A, f)) = Headcount[f]

\* validate_assignments demands the exact headcount of every facility of the edited
\* roster, so an edit of a roster that is complete passes only if it changes
\* nothing: PATCH can fill a gap, but it can move nobody.
CompleteRosterIsFrozen ==
    \A d \in Editors :
        editor[d].pc = "saving" /\ Complete(editor[d].problem, editor[d].current)
            => EditOf(d) = editor[d].current

\* An audit record tells of an edit that was committed, and a committed edit that is
\* not on record yet is about to be, unless a process died.
AuditFollowsEdits ==
    /\ audit \subseteq edits
    /\ crashes = 0 => \A r \in edits \ audit :
                         \E d \in Editors : editor[d].pc = "auditing" /\ AuditRecord(d) = r

\* Why these hold: what each process knows about the roster it is about to write.

\* Every job carries a request.
JobsCarryRequests ==
    /\ \A c \in Clients : client[c].pc = "inserting" => client[c].ask \in Asks
    /\ \A j \in JobIds : HasRow(j) => jobs[j].ask \in Asks

\* The history of imports includes the latest.
ImportsAreRemembered == \A e \in Events : available[e] \subseteq everAvailable[e]

\* A roster that fills some facilities exactly and no other at all.
WholeFacilities(A) ==
    \A f \in Facilities : Cardinality(At(A, f)) \in {0, Headcount[f]}

\* Everybody in S declared themselves available for e, unless e is gone.
Willing(S, e) == e \in events => S \subseteq everAvailable[e]

\* The problem a worker solves names willing people; the roster it got from it is one
\* that could stand on its own.
PlanIsSound(w) ==
    /\ worker[w].pc = "solving" =>
          Willing(plan[w].problem.available, EventOf(worker[w].job))
    /\ worker[w].pc = "saving" =>
          /\ OnePostEach(plan[w].roster)
          /\ WholeFacilities(plan[w].roster)
          /\ Willing(People(plan[w].roster), EventOf(worker[w].job))

\* So can the roster an editor read and, once it is judged, the one it will write.
EditIsSound(d) ==
    /\ editor[d].pc # "idle" =>
          /\ editor[d].event \in Events /\ editor[d].post \in Posts
          /\ OnePostEach(editor[d].current)
    /\ editor[d].pc = "saving" =>
          /\ WholeFacilities(EditOf(d))
          /\ Willing(People(EditOf(d)), editor[d].event)
    /\ editor[d].pc = "auditing" => AuditRecord(d) \in edits

\* The conjunction, inductive next to QueueInv.
RosterInv ==
    /\ RTypeOK
    /\ JobsCarryRequests
    /\ ImportsAreRemembered
    /\ \A w \in Workers : PlanIsSound(w)
    /\ \A d \in Editors : EditIsSound(d)
    /\ OneFacilityEach
    /\ AssignedWereAvailable
    /\ NeverHalfStaffed
    /\ CompleteRosterIsFrozen
    /\ AuditFollowsEdits

-----------------------------------------------------------------------------
(* What the documents say and the code does not do. *)

\* business-logic-model.md 7.1: an exception in the worker makes the job FAILED.  So
\* while no process is killed, a RUNNING job has a worker.
ExceptionsBecomeFailed ==
    crashes = 0 => \A j \in JobIds :
                      jobs[j].status = "RUNNING" => \E w \in Workers : Holds(w, j)

\* ReoptimizationMode: "INCREMENTAL pins the previous assignment and only places
\* newly-available staff: nobody is moved".
IncrementalMovesNobody ==
    \A w \in Workers :
        worker[w].pc = "saving" /\ worker[w].ask.mode = "INCREMENTAL" =>
            \A a \in plan[w].previous, b \in plan[w].roster : a[1] = b[1] => a = b

\* ReoptimizationMode: "FULL discards the previous assignment".
FullDiscardsPrevious ==
    [][\A w \in Workers :
          worker[w].pc = "saving" /\ worker'[w].pc = "marking" /\ worker[w].ask.mode = "FULL" =>
              assigned'[EventOf(worker[w].job)] = plan[w].roster]_vars
=============================================================================
