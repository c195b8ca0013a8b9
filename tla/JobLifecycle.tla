---------------------------- MODULE JobLifecycle ----------------------------
(***************************************************************************)
(* What the job queue promises its users, with no worker, no clock and no  *)
(* table in sight: a job is submitted once, started once, settled once in  *)
(* one of three terminal states, and it is SUCCEEDED exactly when a result *)
(* was stored for it beforehand.  A job may be discarded at any time, with *)
(* its event.  JobQueue is shown to implement this.                        *)
(***************************************************************************)


CONSTANT Jobs          \* every job that could ever be submitted

VARIABLES phase,       \* phase[j]: where job j is in its life
          stored       \* the jobs whose result has been stored

lifecycleVars == <<phase, stored>>

\* jobs.py, TERMINAL_STATES: "States a job can never leave."
TERMINAL_STATES == {"SUCCEEDED", "INFEASIBLE", "FAILED"}

JobState == {"QUEUED", "RUNNING"} \cup TERMINAL_STATES

Phases == {"NEW", "DELETED"} \cup JobState

Init == /\ phase = [j \in Jobs |-> "NEW"]
        /\ stored = {}

Submit(j) == /\ phase[j] = "NEW"
             /\ phase' = [phase EXCEPT ![j] = "QUEUED"]
             /\ UNCHANGED stored

Start(j) == /\ phase[j] = "QUEUED"
            /\ phase' = [phase EXCEPT ![j] = "RUNNING"]
            /\ UNCHANGED stored

Store(j) == /\ phase[j] = "RUNNING"
            /\ j \notin stored
            /\ stored' = stored \cup {j}
            /\ UNCHANGED phase

Settle(j, s) == /\ phase[j] = "RUNNING"
                /\ (s = "SUCCEEDED") <=> (j \in stored)
                /\ phase' = [phase EXCEPT ![j] = s]
                /\ UNCHANGED stored

Discard(S) == /\ phase' = [j \in Jobs |-> IF j \in S THEN "DELETED" ELSE phase[j]]
              /\ stored' = stored \ S

Next == \/ \E j \in Jobs : Submit(j) \/ Start(j) \/ Store(j)
        \/ \E j \in Jobs, s \in TERMINAL_STATES : Settle(j, s)
        \/ \E S \in SUBSET Jobs : Discard(S)

Spec == Init /\ [][Next]_lifecycleVars
=============================================================================
