-------------------------- MODULE MCReoptimization --------------------------
(* Reoptimization for TLC: one event, three people of two departments, a hall
   that needs two of them and an annex, registered later, that needs one. *)
EXTENDS Reoptimization, TLC

CONSTANTS ann, bob, cho, hall, annex, welfare, roads, nurse, p1

MCStaff == {ann, bob, cho}
MCFacilities == {hall, annex}
MCDeptOf == [s \in MCStaff |-> IF s = cho THEN roads ELSE welfare]
MCHeadcount == [f \in MCFacilities |-> IF f = hall THEN 2 ELSE 1]
MCSkillsOf == [s \in MCStaff |-> IF s = cho THEN {} ELSE {nurse}]
MCRequirement == [f \in MCFacilities |-> [k \in {nurse} |-> IF f = hall THEN 1 ELSE 0]]
MCAnswers == {{ann, bob}, MCStaff}

\* ann and bob are alike.
MCSymmetry == Permutations({ann, bob})
\* First one person is available, then another.
MCTakingTurns == {{ann}, {bob}}
MCCapOf == [p \in {p1} |-> 2]
=============================================================================
