---- MODULE MCMasterData ----
\* Constants for MasterData, and files of each kind for Records.
EXTENDS MasterData, Records

CONSTANTS east, west, ann, bob, school, nurse, storm

MCHomeOf == ann :> east @@ bob :> west

MCSkillsOf == ann :> {nurse} @@ bob :> {}

MCSiteOf == school :> east

MCNeedsOf == school :> {nurse}

MCKinds == {"district", "staff", "facility", "declaration"}

MCDangerous == {"=1+1"}

MCKnownDistricts == {Text("east")}

MCKnownDepartments == {Text("crisis")}

MCKnownStaff == {Text("ann"), Text("bob")}

Ids == {Text("a"), Text("b"), Text("=1+1")}

Names == {Text("a"), Text("=1+1"), Blank}

DistrictRows == [id : Ids, name : Names,
                 latitude : {Number(n) : n \in {-91, -90, 0, 35, 91}} \cup {Text("a")},
                 longitude : {Number(n) : n \in {-180, 100, 181}} \cup {Blank}]

QualificationCells == {
    Blank, ToJapanese("EMERGENCY_LIFESAVING_TECHNICIAN"), ToJapanese("MANAGER"),
    List(<<ToJapanese("EMERGENCY_LIFESAVING_TECHNICIAN"), Blank,
           ToJapanese("DISASTER_PREVENTION_SPECIALIST")>>),
    List(<<ToJapanese("EMERGENCY_LIFESAVING_TECHNICIAN"),
           ToJapanese("EMERGENCY_LIFESAVING_TECHNICIAN")>>)}

StaffRows == [id : Ids, name : Names, department : {Text("crisis"), Blank},
              job : {ToJapanese("CLERICAL"), ToJapanese("MANAGER")},
              position : {ToJapanese("MANAGER"), Text("a")},
              district : {Text("east"), Text("west")},
              qualifications : QualificationCells]

Requirement(member, count) == <<"pair", ToJapanese(member), Number(count)>>

RequirementCells == {
    Blank, ToJapanese("MANAGER"), Requirement("MANAGER", 1), Requirement("LEAVE", 1),
    <<"pair", ToJapanese("GENERAL"), Text("a")>>,
    List(<<Requirement("MANAGER", 1), Requirement("MANAGER", 1)>>),
    List(<<Requirement("MANAGER", 1), Requirement("EMERGENCY_LIFESAVING_TECHNICIAN", 1)>>),
    List(<<Requirement("MANAGER", 3), Requirement("GENERAL", -1)>>)}

FacilityRows == [id : Ids, name : Names, district : {Text("east"), Text("west")},
                 headcount : {Number(0), Number(1), Number(2), Blank},
                 requirements : RequirementCells]

\* Nine o'clock in Japan is midnight in Greenwich.
Times == {<<"time", 9, NoZone>>, <<"time", 9, 9>>, <<"time", 0, 0>>, <<"time", 9, 0>>,
          Text("a")}

DeclarationRows == [staff : {Text("ann"), Text("bob"), Text("eve")}, declaredAt : Times,
                    available : {Text("yes"), Text("no"), Blank},
                    reason : {Blank, ToJapanese("LEAVE"), ToJapanese("OTHER"), Text("a")},
                    note : {Blank, Text("a")}]

RowsOf(kind) ==
    CASE kind = "district"    -> DistrictRows
      [] kind = "staff"       -> StaffRows
      [] kind = "facility"    -> FacilityRows
      [] kind = "declaration" -> DeclarationRows

\* The rows that are combined to files of two.
PairedRows(kind) ==
    CASE kind = "district" ->
            {r \in DistrictRows : /\ r.name = Text("a") /\ r.longitude = Number(100)
                                  /\ r.latitude \in {Number(-90), Number(35), Number(91)}}
      [] kind = "staff" ->
            {r \in StaffRows : /\ r.name # Text("=1+1") /\ r.department = Text("crisis")
                               /\ r.district = Text("east") /\ r.job = ToJapanese("CLERICAL")
                               /\ r.position = ToJapanese("MANAGER") /\ r.qualifications[1] # "label"}
      [] kind = "facility" ->
            {r \in FacilityRows : /\ r.name = Text("a") /\ r.district = Text("east")
                                  /\ r.headcount = Number(2) /\ r.requirements[1] # "pair"}
      [] kind = "declaration" ->
            {r \in DeclarationRows : /\ r.available # Blank
                                     /\ r.reason # ToJapanese("LEAVE") /\ r.reason # Text("a")}

MCFiles == [kind \in MCKinds |->
    {<<r>> : r \in RowsOf(kind)} \cup {<<r, s>> : r, s \in PairedRows(kind)}]

-----------------------------------------------------------------------------
\* Side by side: either the tables change and are read, or a file is on its way.  The
\* two share no state, so their states are added and not multiplied.  No file is on its
\* way where an empty one waits.

NoFile == Sent("district", <<>>)

MCInit == Init /\ (file = NoFile \/ FileInit)

MCNext ==
    \/ file = NoFile /\ Next /\ UNCHANGED file
    \/ file # NoFile /\ FileNext /\ UNCHANGED vars

MCSpec == MCInit /\ [][MCNext]_<<vars, file>>

====
