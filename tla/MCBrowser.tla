------------------------------ MODULE MCBrowser ------------------------------
(* Browser for TLC: one event and two jobs for it. *)
EXTENDS Browser

CONSTANT storm

MCEventOf == [j \in {1, 2} |-> storm]
=============================================================================
