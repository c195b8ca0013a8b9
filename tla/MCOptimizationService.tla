----------------------- MODULE MCOptimizationService ------------------------
(* The calls of optimize for TLC: four people, two nurses of one department and two
   managers of the other, and two facilities that need a nurse each and three people;
   one of them needs a manager, too.  That one lies a kilometre or two from where the
   nurses live, and next to the managers. *)
EXTENDS Comparison

CONSTANTS ann, bob, cho, dan, north, south, welfare, roads, nurse, chief, hill, mill, port

MCStaff == {ann, bob, cho, dan}
MCFacilities == {north, south}
MCDeptOf == [s \in MCStaff |-> IF s \in {ann, bob} THEN welfare ELSE roads]
MCHeadcounts == {[f \in MCFacilities |-> IF f = north THEN 2 ELSE 1]}
MCSkillsOf == [s \in MCStaff |-> IF s \in {ann, bob} THEN {nurse} ELSE {chief}]
MCRequirement ==
    [f \in MCFacilities |-> [k \in {nurse, chief} |-> IF k = nurse \/ f = north THEN 1 ELSE 0]]

MCResidenceOf ==
    [s \in MCStaff |-> IF s = ann THEN hill ELSE IF s = bob THEN port ELSE mill]
MCDistrictOf == [f \in MCFacilities |-> IF f = north THEN mill ELSE port]
MCGreatCircle ==
    [p \in {hill, mill, port} \X {hill, mill, port} |->
        IF p[1] = p[2] THEN 0 ELSE IF port \in {p[1], p[2]} THEN 2 ELSE 1]

\* Walking costs nothing and a train 1 yen.  A quick bus keeps TLC's integers small.
MCTravelParams ==
    [detour |-> 10, speed |-> 1800, sameDistrict |-> 1,
     bands |-> <<[upper |-> 15, rule |-> "FLAT", amount |-> 0],
                 [upper |-> Unbounded, rule |-> "FLAT", amount |-> 1]>>]

\* One amount that no band may have, and some that make the cost rise and fall.
MCBandAmounts == {-1, 0, 1, 2}

\* 0.1, 0.1 and 0.5
MCWeights == [time |-> 100000, cost |-> 100000, inequity |-> 500000]

\* Past rosters: of two people, of whom a file may name one twice, and of three.
MCPairs == [1 .. 2 -> MCStaff \X MCFacilities]
MCFiles == MCPairs \cup {<<<<s, north>>, <<t, north>>, <<u, south>>>> : s, t, u \in MCStaff}
MCManualBaselines == {<<>>, <<<<ann, north>>, <<ann, north>>>>}

\* Some of them declared, and one of them took it back.
MCDeclarations ==
    {S \X {TRUE} : S \in SUBSET MCStaff} \cup {(MCStaff \X {TRUE}) \cup {<<ann, FALSE>>}}

\* Somebody has left since, or a facility was given up.
MCMasters == [staff : {MCStaff, MCStaff \ {dan}}, facilities : {MCFacilities, {north}}]
=============================================================================
