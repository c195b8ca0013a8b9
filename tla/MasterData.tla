----------------------------- MODULE MasterData -----------------------------
(***************************************************************************)
(* The master tables, the declarations and who reads them: CSV imports,    *)
(* build_problem, called by the worker process and by PATCH, and           *)
(* sufficiency_status.  A read is several SELECTs outside a transaction,   *)
(* so an import may commit between any two of them.  Imports run one after *)
(* another on the API's event loop (async handlers that never await after  *)
(* the body is read), check known ids, and commit whole files: each is one *)
(* action.  Master rows are never changed or deleted.  Events are deleted  *)
(* as the service offers it, though no route does.                         *)
(***************************************************************************)
EXTENDS Integers, FiniteSetsExt

CONSTANTS Districts, Staff, Facilities, Skills, Events,
          HomeOf,     \* [Staff -> Districts]: residence_district_id
          SkillsOf,   \* [Staff -> SUBSET Skills]: qualifications
          SiteOf,     \* [Facilities -> Districts]: district_id
          NeedsOf,    \* [Facilities -> SUBSET Skills]: qualification_requirements
          Moments,    \* the instants declarations carry, as numbers
          MaxRows,    \* bound on the rows of a declarations file
          Readers,    \* calls of build_problem or sufficiency_status in flight
          None

ASSUME MasterDataAssumption ==
    /\ IsFiniteSet(Staff)
    /\ HomeOf \in [Staff -> Districts]
    /\ SkillsOf \in [Staff -> SUBSET Skills]
    /\ SiteOf \in [Facilities -> Districts]
    /\ NeedsOf \in [Facilities -> SUBSET Skills]
    /\ Moments \subseteq Nat
    /\ MaxRows \in Nat
    /\ None \notin Events

VARIABLES events, districts, staff, facilities,  \* the ids in these tables
          staffSkills,   \* rows of staff_qualifications
          needs,         \* rows of facility_qualification_requirements
          declarations,  \* rows of availability_declarations
          cache,         \* the pairs in distance_cache, as sets of one or two ids
          reader         \* the locals of each call

tables == <<events, districts, staff, facilities, staffSkills, needs, declarations, cache>>

vars == <<tables, reader>>

Declarations == [staff : Staff, event : Events, at : Moments, available : BOOLEAN]

DeclarationFiles == UNION {kSubset(n, Declarations) : n \in 1 .. MaxRows}

\* Mutant of BuildOrder: the districts are read first.
DistrictsFirst ==
    [start |-> "districts", districts |-> "needs", needs |-> "facilities", facilities |-> "skills",
     skills |-> "staff", staff |-> "declarations", declarations |-> "built"]

\* The SELECTs of build_problem.  find_all_facilities reads the requirements
\* first, find_all_staff the qualifications.
BuildOrder ==
    [start |-> "needs", needs |-> "facilities", facilities |-> "skills", skills |-> "staff",
     staff |-> "districts", districts |-> "declarations", declarations |-> "built"]

\* Mutant of CountOrder: the staff are counted before the declarations are read.
TotalFirst ==
    [start |-> "total", total |-> "effective", effective |-> "required", required |-> "counted"]

\* The SELECTs of sufficiency_status.
CountOrder ==
    [start |-> "effective", effective |-> "total", total |-> "required", required |-> "counted"]

Building == {"needs", "facilities", "skills", "staff", "districts", "declarations"}

Counting == {"effective", "total", "required"}

Returning == {"built", "counted"}

ReaderStates ==
    [pc : {"idle"} \cup Building \cup Counting \cup Returning, event : Events \cup {None},
     needs : SUBSET (Facilities \X Skills), facilities : SUBSET Facilities,
     skills : SUBSET (Staff \X Skills), staff : SUBSET Staff, districts : SUBSET Districts,
     declared : SUBSET Declarations, total : Nat,
     required : SUBSET Facilities,  \* those whose headcounts the sum is of
     \* history: what was there when the call began, and who declared while it read
     oldFacilities : SUBSET Facilities, oldStaff : SUBSET Staff,
     oldWilling : SUBSET Staff, changed : SUBSET Staff]

IdleReader ==
    [pc |-> "idle", event |-> None, needs |-> {}, facilities |-> {}, skills |-> {},
     staff |-> {}, districts |-> {}, declared |-> {}, total |-> 0, required |-> {},
     oldFacilities |-> {}, oldStaff |-> {}, oldWilling |-> {}, changed |-> {}]

Init ==
    /\ events = {}
    /\ districts = {}
    /\ staff = {}
    /\ facilities = {}
    /\ staffSkills = {}
    /\ needs = {}
    /\ declarations = {}
    /\ cache = {}
    /\ reader = [r \in Readers |-> IdleReader]

-----------------------------------------------------------------------------
(* Writers. *)

\* POST /events
CreateEvent(e) ==
    /\ e \notin events
    /\ events' = events \cup {e}
    /\ UNCHANGED <<districts, staff, facilities, staffSkills, needs, declarations, cache, reader>>

\* A file with a registered id is refused by the primary key, as a whole.
\* The distances are recomputed, for all districts, in the same transaction.
ImportDistricts(D) ==
    /\ D \cap districts = {}
    /\ districts' = districts \cup D
    /\ cache' = {{a, b} : a \in districts', b \in districts'}
    /\ UNCHANGED <<events, staff, facilities, staffSkills, needs, declarations, reader>>

\* Mutant of ImportStaff: known ids are not checked.
AnyDistrict(S) ==
    /\ S \cap staff = {}
    /\ staff' = staff \cup S
    /\ staffSkills' = staffSkills \cup {x \in S \X Skills : x[2] \in SkillsOf[x[1]]}
    /\ UNCHANGED <<events, districts, facilities, needs, declarations, cache, reader>>

\* Rows of an unknown district fail the file before anything is written.
ImportStaff(S) ==
    /\ \A s \in S : HomeOf[s] \in districts
    /\ S \cap staff = {}
    /\ staff' = staff \cup S
    /\ staffSkills' = staffSkills \cup {x \in S \X Skills : x[2] \in SkillsOf[x[1]]}
    /\ UNCHANGED <<events, districts, facilities, needs, declarations, cache, reader>>

ImportFacilities(F) ==
    /\ \A f \in F : SiteOf[f] \in districts
    /\ F \cap facilities = {}
    /\ facilities' = facilities \cup F
    /\ needs' = needs \cup {x \in F \X Skills : x[2] \in NeedsOf[x[1]]}
    /\ UNCHANGED <<events, districts, staff, staffSkills, declarations, cache, reader>>

\* History: declarations of S for e changed while a call had yet to read them.
Touched(e, S) ==
    [r \in Readers |->
        IF reader[r].event = e /\ reader[r].pc \in Building \cup Counting
        THEN [reader[r] EXCEPT !.changed = @ \cup S]
        ELSE reader[r]]

SameKey(x, y) == x.staff = y.staff /\ x.event = y.event /\ x.at = y.at

\* Mutant of KeysAreNew: neither the file nor the table is searched for duplicates.
AnyKeys(R) == TRUE

\* Duplicates within the file are found by `seen`, others by uq_declaration_instant.
KeysAreNew(R) ==
    /\ \A x \in R, y \in declarations : ~SameKey(x, y)
    /\ \A x, y \in R : SameKey(x, y) => x = y

\* Append only: rows may be older than those of an earlier file.
ImportDeclarations(e, R) ==
    /\ e \in events
    /\ \A x \in R : x.event = e /\ x.staff \in staff
    /\ KeysAreNew(R)
    /\ declarations' = declarations \cup R
    /\ reader' = Touched(e, {x.staff : x \in R})
    /\ UNCHANGED <<events, districts, staff, facilities, staffSkills, needs, cache>>

\* EventService.delete_event, in any status; the declarations cascade.
DeleteEvent(e) ==
    /\ e \in events
    /\ events' = events \ {e}
    /\ declarations' = {d \in declarations : d.event # e}
    /\ reader' = Touched(e, Staff)
    /\ UNCHANGED <<districts, staff, facilities, staffSkills, needs, cache>>

-----------------------------------------------------------------------------
(* Reads. *)

\* Mutant of EffectiveDeclarations: any declaration counts.
AllDeclarations(e) == {d \in declarations : d.event = e}

\* The correlated MAX(declared_at) query.
EffectiveDeclarations(e) ==
    {d \in declarations :
        /\ d.event = e
        /\ \A x \in declarations : x.staff = d.staff /\ x.event = e => x.at <= d.at}

\* shared_kernel's effective_declaration_for: the candidates at the latest
\* instant of a person's history; more than one raises AmbiguousDeclarationError.
LatestCandidates(s, e) ==
    LET matching == {d \in declarations : d.staff = s /\ d.event = e}
    IN  {d \in matching : \A x \in matching : x.at <= d.at}

\* History: the people whose declaration in force says that they are available.
WillingFor(e) == {s \in Staff : \E d \in LatestCandidates(s, e) : d.available}

Begin(r, e, pc) ==
    /\ reader[r].pc = "idle"
    /\ reader' = [reader EXCEPT ![r] =
                    [IdleReader EXCEPT !.pc = pc, !.event = e, !.oldFacilities = facilities,
                                       !.oldStaff = staff, !.oldWilling = WillingFor(e)]]
    /\ UNCHANGED tables

\* build_problem finds the event, or raises and reads nothing else.
BeginBuild(r, e) == e \in events /\ Begin(r, e, BuildOrder.start)

\* sufficiency_status does not look for the event.
BeginCount(r, e) == Begin(r, e, CountOrder.start)

\* One SELECT of build_problem: the locals become `new`, at the next statement.
BuildRead(r, pc, new) ==
    /\ reader[r].pc = pc
    /\ reader' = [reader EXCEPT ![r] = [new EXCEPT !.pc = BuildOrder[pc]]]
    /\ UNCHANGED tables

ReadNeeds(r) == BuildRead(r, "needs", [reader[r] EXCEPT !.needs = needs])

ReadFacilities(r) == BuildRead(r, "facilities", [reader[r] EXCEPT !.facilities = facilities])

ReadSkills(r) == BuildRead(r, "skills", [reader[r] EXCEPT !.skills = staffSkills])

ReadStaff(r) == BuildRead(r, "staff", [reader[r] EXCEPT !.staff = staff])

ReadDistricts(r) == BuildRead(r, "districts", [reader[r] EXCEPT !.districts = districts])

ReadDeclarations(r) ==
    BuildRead(r, "declarations",
              [reader[r] EXCEPT !.declared = EffectiveDeclarations(reader[r].event)])

\* One SELECT of sufficiency_status.
CountRead(r, pc, new) ==
    /\ reader[r].pc = pc
    /\ reader' = [reader EXCEPT ![r] = [new EXCEPT !.pc = CountOrder[pc]]]
    /\ UNCHANGED tables

ReadEffective(r) ==
    CountRead(r, "effective",
              [reader[r] EXCEPT !.declared = EffectiveDeclarations(reader[r].event)])

\* Mutant of ReadTotal: the declarations are taken off as rows, not as people.
CountUndeclared(r) ==
    CountRead(r, "total",
              [reader[r] EXCEPT !.total = Cardinality(staff)
                  - Cardinality({d \in declarations : d.event = reader[r].event})])

ReadTotal(r) == CountRead(r, "total", [reader[r] EXCEPT !.total = Cardinality(staff)])

ReadRequired(r) == CountRead(r, "required", [reader[r] EXCEPT !.required = facilities])

\* The caller goes on with what it got.
Return(r) ==
    /\ reader[r].pc \in Returning
    /\ reader' = [reader EXCEPT ![r] = IdleReader]
    /\ UNCHANGED tables

Next ==
    \/ \E e \in Events : CreateEvent(e) \/ DeleteEvent(e)
    \/ \E D \in SUBSET Districts \ {{}} : ImportDistricts(D)
    \/ \E S \in SUBSET Staff \ {{}} : ImportStaff(S)
    \/ \E F \in SUBSET Facilities \ {{}} : ImportFacilities(F)
    \/ \E e \in Events, R \in DeclarationFiles : ImportDeclarations(e, R)
    \/ \E r \in Readers, e \in Events : BeginBuild(r, e) \/ BeginCount(r, e)
    \/ \E r \in Readers :
          \/ ReadNeeds(r) \/ ReadFacilities(r) \/ ReadSkills(r) \/ ReadStaff(r)
          \/ ReadDistricts(r) \/ ReadDeclarations(r)
          \/ ReadEffective(r) \/ ReadTotal(r) \/ ReadRequired(r)
          \/ Return(r)

Spec == Init /\ [][Next]_vars

-----------------------------------------------------------------------------
(* Properties. *)

\* Every table and every call keeps its shape.
TypeOK ==
    /\ events \subseteq Events
    /\ districts \subseteq Districts
    /\ staff \subseteq Staff
    /\ facilities \subseteq Facilities
    /\ staffSkills \subseteq Staff \X Skills
    /\ needs \subseteq Facilities \X Skills
    /\ declarations \subseteq Declarations
    /\ cache \subseteq SUBSET Districts
    /\ reader \in [Readers -> ReaderStates]

\* The SQL query of U-03 answers what shared_kernel's function answers, which
\* never finds an ambiguity, in whatever order declarations are imported
\* (BR-DM05, BR-DM06, U01-H11).
EffectiveIsUnambiguous ==
    \A e \in Events, s \in Staff :
        /\ {d \in EffectiveDeclarations(e) : d.staff = s} = LatestCandidates(s, e)
        /\ \A x, y \in LatestCandidates(s, e) : x = y

SaidYes(r) == {d.staff : d \in {x \in reader[r].declared : x.available}}

SaidNo(r) == {d.staff : d \in {x \in reader[r].declared : ~x.available}}

\* problem_builder.py:56: people declared available whom the staff SELECT saw.
AvailableStaff(r) == SaidYes(r) \cap reader[r].staff

\* build_problem looks up the district of everybody available and of every
\* facility in the districts it read (problem_builder.py:64): no KeyError,
\* whatever is imported during its SELECTs.
TravelIsComputable ==
    \A r \in Readers :
        reader[r].pc = "built" =>
            /\ \A s \in AvailableStaff(r) : HomeOf[s] \in reader[r].districts
            /\ \A f \in reader[r].facilities : SiteOf[f] \in reader[r].districts

\* The problem shows nothing older than the call of build_problem: what was
\* registered by then is there with all its requirements and skills, and the
\* available people are those who were willing then, up to those who declared
\* meanwhile.  Only a facility or person registered meanwhile may be understated.
ReadIsRegular ==
    \A r \in Readers :
        LET call == reader[r]
        IN  call.pc = "built" =>
                /\ call.oldFacilities \subseteq call.facilities
                /\ \A f \in call.oldFacilities : {f} \X NeedsOf[f] \subseteq call.needs
                /\ \A s \in call.oldStaff : {s} \X SkillsOf[s] \subseteq call.skills
                /\ call.oldWilling \ call.changed \subseteq AvailableStaff(r)
                /\ AvailableStaff(r) \subseteq call.oldWilling \cup call.changed

\* The three buckets of sufficiency_status are disjoint and the third is not
\* negative, although the declarations and the number of staff are read apart.
BucketsAreSane ==
    \A r \in Readers :
        reader[r].pc = "counted" =>
            /\ SaidYes(r) \cap SaidNo(r) = {}
            /\ Cardinality(SaidYes(r)) + Cardinality(SaidNo(r)) <= reader[r].total

\* sufficiency_status fits together, and it tells nothing older than its call: the
\* available are those who were willing then, up to those who declared meanwhile, and the
\* shortage counts every facility registered by then and none not yet registered.
CountIsRegular ==
    /\ BucketsAreSane
    /\ \A r \in Readers :
           LET call == reader[r]
           IN  call.pc = "counted" =>
                   /\ call.oldWilling \ call.changed \subseteq SaidYes(r)
                   /\ SaidYes(r) \subseteq call.oldWilling \cup call.changed
                   /\ call.oldFacilities \subseteq call.required
                   /\ call.required \subseteq facilities

-----------------------------------------------------------------------------
(* The inductive invariant. *)

\* The foreign keys, every master row with its dependent rows, and a distance for
\* every pair of districts (DP-04).
TablesAgree ==
    /\ \A s \in staff : HomeOf[s] \in districts /\ {s} \X SkillsOf[s] \subseteq staffSkills
    /\ \A f \in facilities : SiteOf[f] \in districts /\ {f} \X NeedsOf[f] \subseteq needs
    /\ \A d \in declarations : d.staff \in staff /\ d.event \in events
    /\ \A x, y \in declarations : SameKey(x, y) => x = y
    /\ cache = {{a, b} : a \in districts, b \in districts}

\* What a call remembers of its beginning is still there.
OldIsThere(call) ==
    /\ call.oldFacilities \subseteq facilities
    /\ call.oldStaff \subseteq staff
    /\ call.oldWilling \subseteq call.oldStaff
    /\ call.pc # "idle" => call.event \in Events

\* What a call has read of the masters so far.
MastersRead(call) ==
    /\ call.facilities \subseteq facilities
    /\ call.staff \subseteq staff
    /\ call.required \subseteq facilities
    /\ call.pc = "counted" => call.oldFacilities \subseteq call.required
    /\ call.pc \in {"facilities", "skills", "staff", "districts", "declarations", "built"} =>
           \A f \in call.oldFacilities : {f} \X NeedsOf[f] \subseteq call.needs
    /\ call.pc \in {"skills", "staff", "districts", "declarations", "built"} =>
           call.oldFacilities \subseteq call.facilities
    /\ call.pc \in {"staff", "districts", "declarations", "built"} =>
           \A s \in call.oldStaff : {s} \X SkillsOf[s] \subseteq call.skills
    /\ call.pc \in {"districts", "declarations", "built"} => call.oldStaff \subseteq call.staff
    /\ call.pc \in {"declarations", "built"} =>
           /\ \A s \in call.staff : HomeOf[s] \in call.districts
           /\ \A f \in call.facilities : SiteOf[f] \in call.districts

\* W is the willing at the beginning, up to those who declared meanwhile.
SameWilling(W, call) ==
    /\ call.oldWilling \ call.changed \subseteq W
    /\ W \subseteq call.oldWilling \cup call.changed

\* What a call knows of the declarations before and after it read them.
DeclarationsRead(r) ==
    LET call == reader[r]
    IN  /\ call.pc \in Building \cup {"effective"} => SameWilling(WillingFor(call.event), call)
        /\ call.pc \in Returning \cup {"total", "required"} => SameWilling(SaidYes(r), call)
        /\ \A x, y \in call.declared : x.staff = y.staff => x = y
        /\ \A x \in call.declared : x.staff \in staff
        /\ call.pc \in {"required", "counted"} =>
               Cardinality(SaidYes(r)) + Cardinality(SaidNo(r)) <= call.total

\* The inductive invariant of the tables and their readers: rows refer to
\* registered rows, and each call knows of the tables what its SELECTs, in their
\* order, can have seen.
MasterInv ==
    /\ TypeOK
    /\ TablesAgree
    /\ \A r \in Readers :
          OldIsThere(reader[r]) /\ MastersRead(reader[r]) /\ DeclarationsRead(r)
=============================================================================
