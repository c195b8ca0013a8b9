-------------------------- MODULE MasterDataProofs --------------------------
(***************************************************************************)
(* Proofs about MasterData, for every master, every number of readers and  *)
(* every file: what a call read, in several SELECTs, fits together.  Then  *)
(* about Records, for every row a file can have: what an upload saves is   *)
(* what is read back, and what a download brings back.                     *)
(***************************************************************************)
EXTENDS MasterData, Records, SumProofs

\* The tables only grow, except for the rows of a deleted event.
MastersGrow ==
    /\ districts \subseteq districts'
    /\ staff \subseteq staff'
    /\ facilities \subseteq facilities'

\* No call has read anything.
LEMMA InitMaster == ASSUME Init PROVE MasterInv
<1> USE MasterDataAssumption
<1>1. reader \in [Readers -> ReaderStates]
  BY DEF Init, IdleReader, ReaderStates
<1>2. TypeOK /\ TablesAgree
  BY <1>1 DEF Init, TypeOK, TablesAgree
<1>3. ASSUME NEW r \in Readers
      PROVE  OldIsThere(reader[r]) /\ MastersRead(reader[r]) /\ DeclarationsRead(r)
  <2>1. reader[r] = IdleReader
    BY DEF Init
  <2>2. IdleReader.declared = {}
    BY DEF IdleReader
  <2>q. QED
    BY <2>1, <2>2 DEF IdleReader, OldIsThere, MastersRead, DeclarationsRead, Building, Returning
<1>q. QED
  BY <1>2, <1>3 DEF MasterInv

-----------------------------------------------------------------------------
(* The declarations. *)

\* Of the people whom a change of the declarations leaves alone, the same are willing.
LEMMA UntouchedAreTheSame ==
    ASSUME NEW e \in Events, NEW S,
           \A d \in declarations \cup declarations' :
               d.event = e /\ d.staff \notin S => d \in declarations /\ d \in declarations'
    PROVE  \A s : s \notin S => (s \in WillingFor(e) <=> s \in WillingFor(e)')
<1> SUFFICES ASSUME NEW s, s \notin S PROVE s \in WillingFor(e) <=> s \in WillingFor(e)'
  OBVIOUS
<1>1. LatestCandidates(s, e) = LatestCandidates(s, e)'
  BY DEF LatestCandidates
<1>q. QED
  BY <1>1 DEF WillingFor

\* The answer of the query: one row for each person, of registered people.
LEMMA EffectiveFacts ==
    ASSUME TypeOK, TablesAgree, NEW e
    PROVE  /\ EffectiveDeclarations(e) \subseteq declarations
           /\ \A x, y \in EffectiveDeclarations(e) : x.staff = y.staff => x = y
           /\ \A x \in EffectiveDeclarations(e) : x.staff \in staff
<1>1. EffectiveDeclarations(e) \subseteq declarations
  BY DEF EffectiveDeclarations
<1>2. ASSUME NEW x \in EffectiveDeclarations(e), NEW y \in EffectiveDeclarations(e),
             x.staff = y.staff
      PROVE  x = y
  <2>1. x.event = e /\ y.event = e /\ x.at <= y.at /\ y.at <= x.at
    BY <1>2 DEF EffectiveDeclarations
  <2>2. x.at \in Nat /\ y.at \in Nat
    BY <1>1, MasterDataAssumption DEF TypeOK, Declarations
  <2>3. SameKey(x, y)
    BY <1>2, <2>1, <2>2 DEF SameKey
  <2>q. QED
    BY <1>1, <2>3 DEF TablesAgree
<1>q. QED
  BY <1>1, <1>2 DEF TablesAgree

\* The query finds the people whose declaration in force says yes.
LEMMA QueryFindsTheWilling ==
    ASSUME TypeOK, NEW e
    PROVE  {d.staff : d \in {x \in EffectiveDeclarations(e) : x.available}} = WillingFor(e)
<1>1. ASSUME NEW s
      PROVE  {d \in EffectiveDeclarations(e) : d.staff = s} = LatestCandidates(s, e)
  BY DEF EffectiveDeclarations, LatestCandidates
<1>2. \A d \in EffectiveDeclarations(e) : d.staff \in Staff
  BY DEF EffectiveDeclarations, TypeOK, Declarations
<1>q. QED
  BY <1>1, <1>2 DEF WillingFor

\* Without ambiguity nobody is in two buckets, and the buckets fit the staff.
LEMMA BucketFacts ==
    ASSUME NEW r \in Readers, staff \in SUBSET Staff,
           \A x, y \in reader[r].declared : x.staff = y.staff => x = y,
           \A x \in reader[r].declared : x.staff \in staff
    PROVE  /\ SaidYes(r) \cap SaidNo(r) = {}
           /\ Cardinality(SaidYes(r)) + Cardinality(SaidNo(r)) <= Cardinality(staff)
           /\ Cardinality(staff) \in Nat
<1>1. SaidYes(r) \cap SaidNo(r) = {}
  BY DEF SaidYes, SaidNo
<1>2. SaidYes(r) \subseteq staff /\ SaidNo(r) \subseteq staff
  BY DEF SaidYes, SaidNo
<1>3. IsFiniteSet(staff)
  BY FS_Subset, MasterDataAssumption
<1>4. IsFiniteSet(SaidYes(r)) /\ IsFiniteSet(SaidNo(r))
  BY <1>2, <1>3, FS_Subset
<1>5. Cardinality(SaidYes(r) \cup SaidNo(r))
        = Cardinality(SaidYes(r)) + Cardinality(SaidNo(r)) - Cardinality({})
  BY <1>1, <1>4, FS_Union
<1>6. Cardinality(SaidYes(r) \cup SaidNo(r)) <= Cardinality(staff)
  BY <1>2, <1>3, FS_Subset
<1>7. /\ Cardinality({}) = 0
      /\ Cardinality(SaidYes(r)) \in Nat
      /\ Cardinality(SaidNo(r)) \in Nat
      /\ Cardinality(staff) \in Nat
  BY <1>3, <1>4, FS_CardinalityType, FS_EmptySet
<1>q. QED
  BY <1>1, <1>5, <1>6, <1>7

-----------------------------------------------------------------------------
(* Writers. *)

CallInv(r) == OldIsThere(reader[r]) /\ MastersRead(reader[r]) /\ DeclarationsRead(r)

\* Calls do not notice that masters grow.
LEMMA CallsSurviveGrowth ==
    ASSUME MasterInv, MastersGrow, UNCHANGED <<declarations, reader>>, NEW r \in Readers
    PROVE  CallInv(r)'
<1>1. \A e : WillingFor(e)' = WillingFor(e)
  BY DEF WillingFor, LatestCandidates
<1>2. SaidYes(r)' = SaidYes(r) /\ SaidNo(r)' = SaidNo(r)
  BY DEF SaidYes, SaidNo
<1>3. OldIsThere(reader[r])'
  BY DEF MasterInv, OldIsThere, MastersGrow
<1>4. MastersRead(reader[r])'
  BY DEF MasterInv, MastersRead, MastersGrow
<1>5. DeclarationsRead(r)'
  BY <1>1, <1>2 DEF MasterInv, DeclarationsRead, SameWilling, MastersGrow
<1>q. QED
  BY <1>3, <1>4, <1>5 DEF CallInv

\* A change of S's declarations for e is remembered by the calls it concerns.
LEMMA CallsRememberChanges ==
    ASSUME MasterInv, NEW e \in Events, NEW S \in SUBSET Staff,
           reader' = Touched(e, S), UNCHANGED <<staff, facilities>>,
           \A d \in declarations \cup declarations' :
               d.event # e \/ d.staff \notin S => d \in declarations /\ d \in declarations',
           NEW r \in Readers
    PROVE  CallInv(r)'
<1> DEFINE call == reader[r]
           pending == call.event = e /\ call.pc \in Building \cup Counting
<1>0. call \in ReaderStates
  BY DEF MasterInv, TypeOK
<1>1. reader'[r] = IF pending THEN [call EXCEPT !.changed = @ \cup S] ELSE call
  BY DEF Touched
<1>2. /\ reader'[r].pc = call.pc
      /\ reader'[r].event = call.event
      /\ reader'[r].needs = call.needs
      /\ reader'[r].facilities = call.facilities
      /\ reader'[r].skills = call.skills
      /\ reader'[r].staff = call.staff
      /\ reader'[r].districts = call.districts
      /\ reader'[r].declared = call.declared
      /\ reader'[r].total = call.total
      /\ reader'[r].required = call.required
      /\ reader'[r].oldFacilities = call.oldFacilities
      /\ reader'[r].oldStaff = call.oldStaff
      /\ reader'[r].oldWilling = call.oldWilling
      /\ reader'[r].changed = IF pending THEN call.changed \cup S ELSE call.changed
  BY <1>0, <1>1 DEF ReaderStates
<1>3. OldIsThere(reader[r])'
  BY <1>2 DEF MasterInv, OldIsThere
<1>4. MastersRead(reader[r])'
  BY <1>2 DEF MasterInv, MastersRead
<1>5. SaidYes(r)' = SaidYes(r) /\ SaidNo(r)' = SaidNo(r)
  BY <1>2 DEF SaidYes, SaidNo
<1>6. ASSUME call.pc \in Building \cup {"effective"}
      PROVE  SameWilling(WillingFor(call.event)', reader'[r])
  <2>1. SameWilling(WillingFor(call.event), call)
    BY <1>6 DEF MasterInv, DeclarationsRead
  <2>2. call.event \in Events /\ call.pc \in Building \cup Counting
    BY <1>6 DEF MasterInv, OldIsThere, Building, Counting
  <2>3. CASE call.event = e
    <3>1. \A s : s \notin S => (s \in WillingFor(e) <=> s \in WillingFor(e)')
      BY UntouchedAreTheSame
    <3>q. QED
      BY <1>2, <2>1, <2>2, <2>3, <3>1 DEF SameWilling
  <2>4. CASE call.event # e
    <3>1. PICK g \in Events : g = call.event
      BY <2>2
    <3>2. \A d \in declarations \cup declarations' :
             d.event = g /\ d.staff \notin {} => d \in declarations /\ d \in declarations'
      BY <2>4, <3>1
    <3>3. \A s : s \notin {} => (s \in WillingFor(g) <=> s \in WillingFor(g)')
      BY <3>2, UntouchedAreTheSame
    <3>q. QED
      BY <1>2, <2>1, <2>4, <3>1, <3>3 DEF SameWilling
  <2>q. QED
    BY <2>3, <2>4
<1>7. call.pc \in Returning \cup {"total", "required"} => SameWilling(SaidYes(r), reader'[r])
  BY <1>2 DEF MasterInv, DeclarationsRead, SameWilling
<1>8. DeclarationsRead(r)'
  BY <1>2, <1>5, <1>6, <1>7 DEF MasterInv, DeclarationsRead
<1>q. QED
  BY <1>3, <1>4, <1>8 DEF CallInv

\* A new event is referred to by no row yet.
LEMMA CreateEventStep == ASSUME MasterInv, NEW e \in Events, CreateEvent(e) PROVE MasterInv'
<1>1. MastersGrow /\ UNCHANGED <<declarations, reader>>
  BY DEF CreateEvent, MastersGrow
<1>2. \A r \in Readers : CallInv(r)'
  BY <1>1, CallsSurviveGrowth
<1>3. TypeOK' /\ TablesAgree'
  BY DEF MasterInv, CreateEvent, TypeOK, TablesAgree
<1>q. QED
  BY <1>2, <1>3 DEF MasterInv, CallInv

\* Districts are added, with the pairs of the cache.
LEMMA ImportDistrictsStep ==
    ASSUME MasterInv, NEW D \in SUBSET Districts, ImportDistricts(D) PROVE MasterInv'
<1>1. MastersGrow /\ UNCHANGED <<declarations, reader>>
  BY DEF ImportDistricts, MastersGrow
<1>2. \A r \in Readers : CallInv(r)'
  BY <1>1, CallsSurviveGrowth
<1>3. districts' \subseteq Districts
  BY DEF MasterInv, ImportDistricts, TypeOK
<1>4. cache' \subseteq SUBSET Districts
  BY <1>3 DEF ImportDistricts
<1>5. TypeOK' /\ TablesAgree'
  BY <1>3, <1>4 DEF MasterInv, ImportDistricts, TypeOK, TablesAgree
<1>q. QED
  BY <1>2, <1>5 DEF MasterInv, CallInv

\* People are added whose district is there.
LEMMA ImportStaffStep ==
    ASSUME MasterInv, NEW S \in SUBSET Staff, ImportStaff(S) PROVE MasterInv'
<1>1. MastersGrow /\ UNCHANGED <<declarations, reader>>
  BY DEF ImportStaff, MastersGrow
<1>2. \A r \in Readers : CallInv(r)'
  BY <1>1, CallsSurviveGrowth
<1>3. \A s \in S : {s} \X SkillsOf[s] \subseteq staffSkills'
  BY MasterDataAssumption DEF ImportStaff
<1>4. staffSkills \subseteq staffSkills' /\ staffSkills' \subseteq Staff \X Skills
  BY DEF MasterInv, ImportStaff, TypeOK
<1>5. TypeOK'
  BY <1>4 DEF MasterInv, ImportStaff, TypeOK
<1>6. TablesAgree'
  BY <1>3, <1>4 DEF MasterInv, ImportStaff, TablesAgree
<1>q. QED
  BY <1>2, <1>5, <1>6 DEF MasterInv, CallInv

\* Facilities are added whose district is there.
LEMMA ImportFacilitiesStep ==
    ASSUME MasterInv, NEW F \in SUBSET Facilities, ImportFacilities(F) PROVE MasterInv'
<1>1. MastersGrow /\ UNCHANGED <<declarations, reader>>
  BY DEF ImportFacilities, MastersGrow
<1>2. \A r \in Readers : CallInv(r)'
  BY <1>1, CallsSurviveGrowth
<1>3. \A f \in F : {f} \X NeedsOf[f] \subseteq needs'
  BY MasterDataAssumption DEF ImportFacilities
<1>4. needs \subseteq needs' /\ needs' \subseteq Facilities \X Skills
  BY DEF MasterInv, ImportFacilities, TypeOK
<1>5. TypeOK'
  BY <1>4 DEF MasterInv, ImportFacilities, TypeOK
<1>6. TablesAgree'
  BY <1>3, <1>4 DEF MasterInv, ImportFacilities, TablesAgree
<1>q. QED
  BY <1>2, <1>5, <1>6 DEF MasterInv, CallInv

\* What is remembered of a change keeps the shape of the calls.
LEMMA TouchedType ==
    ASSUME TypeOK, NEW e, NEW S \in SUBSET Staff
    PROVE  Touched(e, S) \in [Readers -> ReaderStates]
<1>1. ASSUME NEW r \in Readers
      PROVE  [reader[r] EXCEPT !.changed = @ \cup S] \in ReaderStates
  BY DEF TypeOK, ReaderStates
<1>q. QED
  BY <1>1 DEF TypeOK, Touched

\* A file of declarations changes who is willing only among the people it names.
LEMMA ImportDeclarationsStep ==
    ASSUME MasterInv, NEW e \in Events, NEW R \in SUBSET Declarations, ImportDeclarations(e, R)
    PROVE  MasterInv'
<1> DEFINE S == {x.staff : x \in R}
<1>1. S \in SUBSET Staff
  BY DEF Declarations
<1>2. \A d \in declarations \cup declarations' :
         d.event # e \/ d.staff \notin S => d \in declarations /\ d \in declarations'
  BY DEF ImportDeclarations
<1>3. reader' = Touched(e, S) /\ UNCHANGED <<staff, facilities>>
  BY DEF ImportDeclarations
<1>4. \A r \in Readers : CallInv(r)'
  BY <1>1, <1>2, <1>3, CallsRememberChanges
<1>5. TypeOK'
  BY <1>1, <1>3, TouchedType DEF MasterInv, ImportDeclarations, TypeOK
<1>6. ASSUME NEW x \in declarations', NEW y \in declarations', SameKey(x, y) PROVE x = y
  BY <1>6 DEF MasterInv, TablesAgree, ImportDeclarations, KeysAreNew, SameKey
<1>7. TablesAgree'
  BY <1>6 DEF MasterInv, TablesAgree, ImportDeclarations, SameKey
<1>q. QED
  BY <1>4, <1>5, <1>7 DEF MasterInv, CallInv

\* A deletion takes the declarations along; a call under way has seen everybody change.
LEMMA DeleteEventStep == ASSUME MasterInv, NEW e \in Events, DeleteEvent(e) PROVE MasterInv'
<1>1. \A d \in declarations \cup declarations' :
         d.event # e \/ d.staff \notin Staff => d \in declarations /\ d \in declarations'
  <2>1. \A d \in declarations : d.staff \in Staff
    BY DEF MasterInv, TypeOK, Declarations
  <2>q. QED
    BY <2>1 DEF DeleteEvent
<1>2. reader' = Touched(e, Staff) /\ UNCHANGED <<staff, facilities>>
  BY DEF DeleteEvent
<1>3. \A r \in Readers : CallInv(r)'
  BY <1>1, <1>2, CallsRememberChanges
<1>4. TypeOK'
  BY <1>2, TouchedType DEF MasterInv, DeleteEvent, TypeOK
<1>5. TablesAgree'
  BY DEF MasterInv, TablesAgree, DeleteEvent
<1>q. QED
  BY <1>3, <1>4, <1>5 DEF MasterInv, CallInv

-----------------------------------------------------------------------------
(* Reads. *)

\* A step of one call leaves the others as they are.
LEMMA OneCall ==
    ASSUME MasterInv, NEW r \in Readers, UNCHANGED tables, NEW new,
           reader' = [reader EXCEPT ![r] = new], new \in ReaderStates, CallInv(r)'
    PROVE  MasterInv'
<1>1. TypeOK'
  BY DEF MasterInv, TypeOK, tables
<1>2. TablesAgree'
  BY DEF MasterInv, TablesAgree, tables
<1>3. ASSUME NEW q \in Readers, q # r PROVE CallInv(q)'
  <2>1. reader'[q] = reader[q]
    BY <1>3 DEF MasterInv, TypeOK
  <2>2. \A e : WillingFor(e)' = WillingFor(e)
    BY DEF WillingFor, LatestCandidates, tables
  <2>3. SaidYes(q)' = SaidYes(q) /\ SaidNo(q)' = SaidNo(q)
    BY <2>1 DEF SaidYes, SaidNo
  <2>4. OldIsThere(reader[q])' /\ MastersRead(reader[q])'
    BY <2>1 DEF MasterInv, OldIsThere, MastersRead, tables
  <2>5. DeclarationsRead(q)'
    BY <2>1, <2>2, <2>3 DEF MasterInv, DeclarationsRead, SameWilling, tables
  <2>q. QED
    BY <2>4, <2>5 DEF CallInv
<1>q. QED
  BY <1>1, <1>2, <1>3 DEF MasterInv, CallInv

\* A call remembers what is there when it begins.
LEMMA BeginStep ==
    ASSUME MasterInv, NEW r \in Readers, NEW e \in Events, Begin(r, e, "needs") \/ Begin(r, e, "effective")
    PROVE  MasterInv'
<1>1. PICK pc \in {"needs", "effective"} : Begin(r, e, pc)
  OBVIOUS
<1> DEFINE new == [IdleReader EXCEPT !.pc = pc, !.event = e, !.oldFacilities = facilities,
                                     !.oldStaff = staff, !.oldWilling = WillingFor(e)]
<1>2. UNCHANGED tables /\ reader' = [reader EXCEPT ![r] = new]
  BY <1>1 DEF Begin
<1>3. WillingFor(e) \subseteq staff
  BY DEF MasterInv, TablesAgree, WillingFor, LatestCandidates
<1>4. new \in ReaderStates
  BY <1>3 DEF IdleReader, ReaderStates, Building, Counting, MasterInv, TypeOK
<1>5. reader'[r] = new
  BY <1>2 DEF MasterInv, TypeOK
<1>6. /\ new.pc = pc /\ new.event = e
      /\ new.facilities = {} /\ new.staff = {} /\ new.required = {}
      /\ new.declared = {} /\ new.changed = {}
      /\ new.oldFacilities = facilities /\ new.oldStaff = staff
      /\ new.oldWilling = WillingFor(e)
  BY DEF IdleReader
<1> HIDE DEF new
<1>7. WillingFor(e)' = WillingFor(e)
  BY <1>2 DEF WillingFor, LatestCandidates, tables
<1>8. OldIsThere(reader[r])'
  BY <1>2, <1>3, <1>5, <1>6 DEF OldIsThere, tables
<1>9. MastersRead(reader[r])'
  BY <1>2, <1>5, <1>6 DEF MastersRead, tables
<1>10. DeclarationsRead(r)'
  BY <1>5, <1>6, <1>7 DEF DeclarationsRead, SameWilling, Returning
<1>q. QED
  BY <1>2, <1>4, <1>8, <1>9, <1>10, OneCall DEF CallInv

\* Until the declarations are read, a call's knowledge of them stays what it is.
LEMMA DeclarationsUnread ==
    ASSUME MasterInv, NEW r \in Readers, UNCHANGED tables,
           reader[r].pc \in Building, reader'[r].pc \in Building,
           reader'[r].event = reader[r].event, reader'[r].declared = reader[r].declared,
           reader'[r].oldWilling = reader[r].oldWilling, reader'[r].changed = reader[r].changed
    PROVE  DeclarationsRead(r)'
<1>1. WillingFor(reader[r].event)' = WillingFor(reader[r].event)
  BY DEF WillingFor, LatestCandidates, tables
<1>q. QED
  BY <1>1 DEF MasterInv, DeclarationsRead, SameWilling, Building, Returning, tables

\* The SELECT of the requirements.
LEMMA ReadNeedsStep == ASSUME MasterInv, NEW r \in Readers, ReadNeeds(r) PROVE MasterInv'
<1> DEFINE new == [[reader[r] EXCEPT !.needs = needs] EXCEPT !.pc = "facilities"]
<1>1. UNCHANGED tables /\ reader' = [reader EXCEPT ![r] = new] /\ reader[r].pc = "needs"
  BY DEF ReadNeeds, BuildRead, BuildOrder
<1>2. reader[r] \in ReaderStates
  BY DEF MasterInv, TypeOK
<1>4. new \in ReaderStates
  BY <1>2 DEF ReaderStates, Building, Counting, Returning, MasterInv, TypeOK
<1>5. /\ new.pc = "facilities" /\ new.needs = needs
      /\ new.event = reader[r].event /\ new.facilities = reader[r].facilities
      /\ new.skills = reader[r].skills /\ new.staff = reader[r].staff
      /\ new.districts = reader[r].districts /\ new.declared = reader[r].declared
      /\ new.total = reader[r].total /\ new.required = reader[r].required
      /\ new.oldFacilities = reader[r].oldFacilities /\ new.oldStaff = reader[r].oldStaff
      /\ new.oldWilling = reader[r].oldWilling /\ new.changed = reader[r].changed
  BY <1>2 DEF ReaderStates
<1>6. reader'[r] = new
  BY <1>1 DEF MasterInv, TypeOK
<1> HIDE DEF new
<1>7. OldIsThere(reader[r])'
  BY <1>1, <1>5, <1>6 DEF MasterInv, OldIsThere, tables
<1>8. MastersRead(reader[r])'
  BY <1>1, <1>5, <1>6 DEF MasterInv, MastersRead, OldIsThere, TablesAgree, tables
<1>9. DeclarationsRead(r)'
  BY <1>1, <1>5, <1>6, DeclarationsUnread DEF Building
<1>q. QED
  BY <1>1, <1>4, <1>7, <1>8, <1>9, OneCall DEF CallInv

\* The SELECT of the facilities.
LEMMA ReadFacilitiesStep == ASSUME MasterInv, NEW r \in Readers, ReadFacilities(r) PROVE MasterInv'
<1> DEFINE new == [[reader[r] EXCEPT !.facilities = facilities] EXCEPT !.pc = "skills"]
<1>1. UNCHANGED tables /\ reader' = [reader EXCEPT ![r] = new] /\ reader[r].pc = "facilities"
  BY DEF ReadFacilities, BuildRead, BuildOrder
<1>2. reader[r] \in ReaderStates
  BY DEF MasterInv, TypeOK
<1>4. new \in ReaderStates
  BY <1>2 DEF ReaderStates, Building, Counting, Returning, MasterInv, TypeOK
<1>5. /\ new.pc = "skills" /\ new.facilities = facilities
      /\ new.event = reader[r].event /\ new.needs = reader[r].needs
      /\ new.skills = reader[r].skills /\ new.staff = reader[r].staff
      /\ new.districts = reader[r].districts /\ new.declared = reader[r].declared
      /\ new.total = reader[r].total /\ new.required = reader[r].required
      /\ new.oldFacilities = reader[r].oldFacilities /\ new.oldStaff = reader[r].oldStaff
      /\ new.oldWilling = reader[r].oldWilling /\ new.changed = reader[r].changed
  BY <1>2 DEF ReaderStates
<1>6. reader'[r] = new
  BY <1>1 DEF MasterInv, TypeOK
<1> HIDE DEF new
<1>7. OldIsThere(reader[r])'
  BY <1>1, <1>5, <1>6 DEF MasterInv, OldIsThere, tables
<1>8. MastersRead(reader[r])'
  BY <1>1, <1>5, <1>6 DEF MasterInv, MastersRead, OldIsThere, TablesAgree, tables
<1>9. DeclarationsRead(r)'
  BY <1>1, <1>5, <1>6, DeclarationsUnread DEF Building
<1>q. QED
  BY <1>1, <1>4, <1>7, <1>8, <1>9, OneCall DEF CallInv

\* The SELECT of the qualifications.
LEMMA ReadSkillsStep == ASSUME MasterInv, NEW r \in Readers, ReadSkills(r) PROVE MasterInv'
<1> DEFINE new == [[reader[r] EXCEPT !.skills = staffSkills] EXCEPT !.pc = "staff"]
<1>1. UNCHANGED tables /\ reader' = [reader EXCEPT ![r] = new] /\ reader[r].pc = "skills"
  BY DEF ReadSkills, BuildRead, BuildOrder
<1>2. reader[r] \in ReaderStates
  BY DEF MasterInv, TypeOK
<1>4. new \in ReaderStates
  BY <1>2 DEF ReaderStates, Building, Counting, Returning, MasterInv, TypeOK
<1>5. /\ new.pc = "staff" /\ new.skills = staffSkills
      /\ new.event = reader[r].event /\ new.needs = reader[r].needs
      /\ new.facilities = reader[r].facilities /\ new.staff = reader[r].staff
      /\ new.districts = reader[r].districts /\ new.declared = reader[r].declared
      /\ new.total = reader[r].total /\ new.required = reader[r].required
      /\ new.oldFacilities = reader[r].oldFacilities /\ new.oldStaff = reader[r].oldStaff
      /\ new.oldWilling = reader[r].oldWilling /\ new.changed = reader[r].changed
  BY <1>2 DEF ReaderStates
<1>6. reader'[r] = new
  BY <1>1 DEF MasterInv, TypeOK
<1> HIDE DEF new
<1>7. OldIsThere(reader[r])'
  BY <1>1, <1>5, <1>6 DEF MasterInv, OldIsThere, tables
<1>8. MastersRead(reader[r])'
  BY <1>1, <1>5, <1>6 DEF MasterInv, MastersRead, OldIsThere, TablesAgree, tables
<1>9. DeclarationsRead(r)'
  BY <1>1, <1>5, <1>6, DeclarationsUnread DEF Building
<1>q. QED
  BY <1>1, <1>4, <1>7, <1>8, <1>9, OneCall DEF CallInv

\* The SELECT of the staff.
LEMMA ReadStaffStep == ASSUME MasterInv, NEW r \in Readers, ReadStaff(r) PROVE MasterInv'
<1> DEFINE new == [[reader[r] EXCEPT !.staff = staff] EXCEPT !.pc = "districts"]
<1>1. UNCHANGED tables /\ reader' = [reader EXCEPT ![r] = new] /\ reader[r].pc = "staff"
  BY DEF ReadStaff, BuildRead, BuildOrder
<1>2. reader[r] \in ReaderStates
  BY DEF MasterInv, TypeOK
<1>4. new \in ReaderStates
  BY <1>2 DEF ReaderStates, Building, Counting, Returning, MasterInv, TypeOK
<1>5. /\ new.pc = "districts" /\ new.staff = staff
      /\ new.event = reader[r].event /\ new.needs = reader[r].needs
      /\ new.facilities = reader[r].facilities /\ new.skills = reader[r].skills
      /\ new.districts = reader[r].districts /\ new.declared = reader[r].declared
      /\ new.total = reader[r].total /\ new.required = reader[r].required
      /\ new.oldFacilities = reader[r].oldFacilities /\ new.oldStaff = reader[r].oldStaff
      /\ new.oldWilling = reader[r].oldWilling /\ new.changed = reader[r].changed
  BY <1>2 DEF ReaderStates
<1>6. reader'[r] = new
  BY <1>1 DEF MasterInv, TypeOK
<1> HIDE DEF new
<1>7. OldIsThere(reader[r])'
  BY <1>1, <1>5, <1>6 DEF MasterInv, OldIsThere, tables
<1>8. MastersRead(reader[r])'
  BY <1>1, <1>5, <1>6 DEF MasterInv, MastersRead, OldIsThere, TablesAgree, tables
<1>9. DeclarationsRead(r)'
  BY <1>1, <1>5, <1>6, DeclarationsUnread DEF Building
<1>q. QED
  BY <1>1, <1>4, <1>7, <1>8, <1>9, OneCall DEF CallInv

\* The SELECT of the districts.
LEMMA ReadDistrictsStep == ASSUME MasterInv, NEW r \in Readers, ReadDistricts(r) PROVE MasterInv'
<1> DEFINE new == [[reader[r] EXCEPT !.districts = districts] EXCEPT !.pc = "declarations"]
<1>1. UNCHANGED tables /\ reader' = [reader EXCEPT ![r] = new] /\ reader[r].pc = "districts"
  BY DEF ReadDistricts, BuildRead, BuildOrder
<1>2. reader[r] \in ReaderStates
  BY DEF MasterInv, TypeOK
<1>4. new \in ReaderStates
  BY <1>2 DEF ReaderStates, Building, Counting, Returning, MasterInv, TypeOK
<1>5. /\ new.pc = "declarations" /\ new.districts = districts
      /\ new.event = reader[r].event /\ new.needs = reader[r].needs
      /\ new.facilities = reader[r].facilities /\ new.skills = reader[r].skills
      /\ new.staff = reader[r].staff /\ new.declared = reader[r].declared
      /\ new.total = reader[r].total /\ new.required = reader[r].required
      /\ new.oldFacilities = reader[r].oldFacilities /\ new.oldStaff = reader[r].oldStaff
      /\ new.oldWilling = reader[r].oldWilling /\ new.changed = reader[r].changed
  BY <1>2 DEF ReaderStates
<1>6. reader'[r] = new
  BY <1>1 DEF MasterInv, TypeOK
<1> HIDE DEF new
<1>7. OldIsThere(reader[r])'
  BY <1>1, <1>5, <1>6 DEF MasterInv, OldIsThere, tables
<1>8. MastersRead(reader[r])'
  BY <1>1, <1>5, <1>6 DEF MasterInv, MastersRead, OldIsThere, TablesAgree, tables
<1>9. DeclarationsRead(r)'
  BY <1>1, <1>5, <1>6, DeclarationsUnread DEF Building
<1>q. QED
  BY <1>1, <1>4, <1>7, <1>8, <1>9, OneCall DEF CallInv

\* The SELECT of the declarations.
LEMMA ReadDeclarationsStep == ASSUME MasterInv, NEW r \in Readers, ReadDeclarations(r) PROVE MasterInv'
<1> DEFINE new == [[reader[r] EXCEPT !.declared = EffectiveDeclarations(reader[r].event)] EXCEPT !.pc = "built"]
<1>1. UNCHANGED tables /\ reader' = [reader EXCEPT ![r] = new] /\ reader[r].pc = "declarations"
  BY DEF ReadDeclarations, BuildRead, BuildOrder
<1>2. reader[r] \in ReaderStates
  BY DEF MasterInv, TypeOK
<1>3. EffectiveDeclarations(reader[r].event) \subseteq Declarations
  BY EffectiveFacts DEF MasterInv, TypeOK
<1>4. new \in ReaderStates
  BY <1>2, <1>3 DEF ReaderStates, Building, Counting, Returning
<1>5. /\ new.pc = "built" /\ new.declared = EffectiveDeclarations(reader[r].event)
      /\ new.event = reader[r].event /\ new.needs = reader[r].needs
      /\ new.facilities = reader[r].facilities /\ new.skills = reader[r].skills
      /\ new.staff = reader[r].staff /\ new.districts = reader[r].districts
      /\ new.total = reader[r].total /\ new.required = reader[r].required
      /\ new.oldFacilities = reader[r].oldFacilities /\ new.oldStaff = reader[r].oldStaff
      /\ new.oldWilling = reader[r].oldWilling /\ new.changed = reader[r].changed
  BY <1>2 DEF ReaderStates
<1>6. reader'[r] = new
  BY <1>1 DEF MasterInv, TypeOK
<1> HIDE DEF new
<1>7. OldIsThere(reader[r])'
  BY <1>1, <1>5, <1>6 DEF MasterInv, OldIsThere, tables
<1>8. MastersRead(reader[r])'
  BY <1>1, <1>5, <1>6 DEF MasterInv, MastersRead, OldIsThere, TablesAgree, tables
<1>9. DeclarationsRead(r)'
  <2>1. SaidYes(r)' = WillingFor(reader[r].event)
    BY <1>5, <1>6, QueryFindsTheWilling DEF MasterInv, SaidYes
  <2>2. SameWilling(WillingFor(reader[r].event), reader[r])
    BY <1>1 DEF MasterInv, DeclarationsRead, Building
  <2>3. /\ \A x, y \in reader'[r].declared : x.staff = y.staff => x = y
        /\ \A x \in reader'[r].declared : x.staff \in staff
    BY <1>5, <1>6, EffectiveFacts DEF MasterInv
  <2>q. QED
    BY <1>1, <1>5, <1>6, <2>1, <2>2, <2>3
       DEF DeclarationsRead, SameWilling, Building, Returning, tables
<1>q. QED
  BY <1>1, <1>4, <1>7, <1>8, <1>9, OneCall DEF CallInv

\* The SELECT of the declarations in force.
LEMMA ReadEffectiveStep == ASSUME MasterInv, NEW r \in Readers, ReadEffective(r) PROVE MasterInv'
<1> DEFINE new == [[reader[r] EXCEPT !.declared = EffectiveDeclarations(reader[r].event)] EXCEPT !.pc = "total"]
<1>1. UNCHANGED tables /\ reader' = [reader EXCEPT ![r] = new] /\ reader[r].pc = "effective"
  BY DEF ReadEffective, CountRead, CountOrder
<1>2. reader[r] \in ReaderStates
  BY DEF MasterInv, TypeOK
<1>3. EffectiveDeclarations(reader[r].event) \subseteq Declarations
  BY EffectiveFacts DEF MasterInv, TypeOK
<1>4. new \in ReaderStates
  BY <1>2, <1>3 DEF ReaderStates, Building, Counting, Returning
<1>5. /\ new.pc = "total" /\ new.declared = EffectiveDeclarations(reader[r].event)
      /\ new.event = reader[r].event /\ new.needs = reader[r].needs
      /\ new.facilities = reader[r].facilities /\ new.skills = reader[r].skills
      /\ new.staff = reader[r].staff /\ new.districts = reader[r].districts
      /\ new.total = reader[r].total /\ new.required = reader[r].required
      /\ new.oldFacilities = reader[r].oldFacilities /\ new.oldStaff = reader[r].oldStaff
      /\ new.oldWilling = reader[r].oldWilling /\ new.changed = reader[r].changed
  BY <1>2 DEF ReaderStates
<1>6. reader'[r] = new
  BY <1>1 DEF MasterInv, TypeOK
<1> HIDE DEF new
<1>7. OldIsThere(reader[r])'
  BY <1>1, <1>5, <1>6 DEF MasterInv, OldIsThere, tables
<1>8. MastersRead(reader[r])'
  BY <1>1, <1>5, <1>6 DEF MasterInv, MastersRead, OldIsThere, TablesAgree, tables
<1>9. DeclarationsRead(r)'
  <2>1. SaidYes(r)' = WillingFor(reader[r].event)
    BY <1>5, <1>6, QueryFindsTheWilling DEF MasterInv, SaidYes
  <2>2. SameWilling(WillingFor(reader[r].event), reader[r])
    BY <1>1 DEF MasterInv, DeclarationsRead, Building
  <2>3. /\ \A x, y \in reader'[r].declared : x.staff = y.staff => x = y
        /\ \A x \in reader'[r].declared : x.staff \in staff
    BY <1>5, <1>6, EffectiveFacts DEF MasterInv
  <2>q. QED
    BY <1>1, <1>5, <1>6, <2>1, <2>2, <2>3
       DEF DeclarationsRead, SameWilling, Building, Returning, tables
<1>q. QED
  BY <1>1, <1>4, <1>7, <1>8, <1>9, OneCall DEF CallInv

\* The SELECT of the number of staff.
LEMMA ReadTotalStep == ASSUME MasterInv, NEW r \in Readers, ReadTotal(r) PROVE MasterInv'
<1> DEFINE new == [[reader[r] EXCEPT !.total = Cardinality(staff)] EXCEPT !.pc = "required"]
<1>1. UNCHANGED tables /\ reader' = [reader EXCEPT ![r] = new] /\ reader[r].pc = "total"
  BY DEF ReadTotal, CountRead, CountOrder
<1>2. reader[r] \in ReaderStates
  BY DEF MasterInv, TypeOK
<1>3. DeclarationsRead(r)
  BY DEF MasterInv
<1>4. new \in ReaderStates
  <2>1. Cardinality(staff) \in Nat
    BY <1>3, BucketFacts DEF MasterInv, TypeOK, DeclarationsRead
  <2>q. QED
    BY <1>2, <2>1 DEF ReaderStates, Building, Counting, Returning
<1>5. /\ new.pc = "required" /\ new.total = Cardinality(staff)
      /\ new.event = reader[r].event /\ new.needs = reader[r].needs
      /\ new.facilities = reader[r].facilities /\ new.skills = reader[r].skills
      /\ new.staff = reader[r].staff /\ new.districts = reader[r].districts
      /\ new.declared = reader[r].declared /\ new.required = reader[r].required
      /\ new.oldFacilities = reader[r].oldFacilities /\ new.oldStaff = reader[r].oldStaff
      /\ new.oldWilling = reader[r].oldWilling /\ new.changed = reader[r].changed
  BY <1>2 DEF ReaderStates
<1>6. reader'[r] = new
  BY <1>1 DEF MasterInv, TypeOK
<1> HIDE DEF new
<1>7. OldIsThere(reader[r])'
  BY <1>1, <1>5, <1>6 DEF MasterInv, OldIsThere, tables
<1>8. MastersRead(reader[r])'
  BY <1>1, <1>5, <1>6 DEF MasterInv, MastersRead, OldIsThere, TablesAgree, tables
<1>9. DeclarationsRead(r)'
  <2>1. SaidYes(r)' = SaidYes(r) /\ SaidNo(r)' = SaidNo(r)
    BY <1>5, <1>6 DEF SaidYes, SaidNo
  <2>2. Cardinality(SaidYes(r)) + Cardinality(SaidNo(r)) <= Cardinality(staff)
    BY <1>3, BucketFacts DEF MasterInv, TypeOK, DeclarationsRead
  <2>q. QED
    BY <1>1, <1>5, <1>6, <2>1, <2>2
       DEF MasterInv, DeclarationsRead, SameWilling, Building, Returning, tables
<1>q. QED
  BY <1>1, <1>4, <1>7, <1>8, <1>9, OneCall DEF CallInv

\* The SELECT of the headcounts.
LEMMA ReadRequiredStep == ASSUME MasterInv, NEW r \in Readers, ReadRequired(r) PROVE MasterInv'
<1> DEFINE new == [[reader[r] EXCEPT !.required = facilities] EXCEPT !.pc = "counted"]
<1>1. UNCHANGED tables /\ reader' = [reader EXCEPT ![r] = new] /\ reader[r].pc = "required"
  BY DEF ReadRequired, CountRead, CountOrder
<1>2. reader[r] \in ReaderStates
  BY DEF MasterInv, TypeOK
<1>4. new \in ReaderStates
  BY <1>2 DEF ReaderStates, Building, Counting, Returning, MasterInv, TypeOK
<1>5. /\ new.pc = "counted" /\ new.required = facilities
      /\ new.event = reader[r].event /\ new.needs = reader[r].needs
      /\ new.facilities = reader[r].facilities /\ new.skills = reader[r].skills
      /\ new.staff = reader[r].staff /\ new.districts = reader[r].districts
      /\ new.declared = reader[r].declared /\ new.total = reader[r].total
      /\ new.oldFacilities = reader[r].oldFacilities /\ new.oldStaff = reader[r].oldStaff
      /\ new.oldWilling = reader[r].oldWilling /\ new.changed = reader[r].changed
  BY <1>2 DEF ReaderStates
<1>6. reader'[r] = new
  BY <1>1 DEF MasterInv, TypeOK
<1> HIDE DEF new
<1>7. OldIsThere(reader[r])'
  BY <1>1, <1>5, <1>6 DEF MasterInv, OldIsThere, tables
<1>8. MastersRead(reader[r])'
  BY <1>1, <1>5, <1>6 DEF MasterInv, MastersRead, OldIsThere, TablesAgree, tables
<1>9. DeclarationsRead(r)'
  <2>1. SaidYes(r)' = SaidYes(r) /\ SaidNo(r)' = SaidNo(r)
    BY <1>5, <1>6 DEF SaidYes, SaidNo
  <2>q. QED
    BY <1>1, <1>5, <1>6, <2>1
       DEF MasterInv, DeclarationsRead, SameWilling, Building, Returning, tables
<1>q. QED
  BY <1>1, <1>4, <1>7, <1>8, <1>9, OneCall DEF CallInv

\* A call that is over holds nothing.
LEMMA ReturnStep == ASSUME MasterInv, NEW r \in Readers, Return(r) PROVE MasterInv'
<1>1. UNCHANGED tables /\ reader' = [reader EXCEPT ![r] = IdleReader]
  BY DEF Return
<1>2. IdleReader \in ReaderStates
  BY DEF IdleReader, ReaderStates
<1>3. reader'[r] = IdleReader
  BY <1>1 DEF MasterInv, TypeOK
<1>4. CallInv(r)'
  BY <1>3 DEF IdleReader, CallInv, OldIsThere, MastersRead, DeclarationsRead, Building, Returning
<1>q. QED
  BY <1>1, <1>2, <1>4, OneCall

-----------------------------------------------------------------------------
(* Theorems. *)

\* One lemma for each action.
LEMMA MasterStep == ASSUME MasterInv, [Next]_vars PROVE MasterInv'
<1>1. ASSUME NEW e \in Events, CreateEvent(e) PROVE MasterInv'
  BY <1>1, CreateEventStep
<1>2. ASSUME NEW e \in Events, DeleteEvent(e) PROVE MasterInv'
  BY <1>2, DeleteEventStep
<1>3. ASSUME NEW D \in SUBSET Districts, ImportDistricts(D) PROVE MasterInv'
  BY <1>3, ImportDistrictsStep
<1>4. ASSUME NEW S \in SUBSET Staff, ImportStaff(S) PROVE MasterInv'
  BY <1>4, ImportStaffStep
<1>5. ASSUME NEW F \in SUBSET Facilities, ImportFacilities(F) PROVE MasterInv'
  BY <1>5, ImportFacilitiesStep
<1>6. ASSUME NEW e \in Events, NEW R \in DeclarationFiles,
             ImportDeclarations(e, R)
      PROVE  MasterInv'
  <2>1. R \in SUBSET Declarations
    BY DEF DeclarationFiles, kSubset
  <2>q. QED
    BY <1>6, <2>1, ImportDeclarationsStep
<1>7. ASSUME NEW r \in Readers, NEW e \in Events, BeginBuild(r, e) \/ BeginCount(r, e)
      PROVE  MasterInv'
  BY <1>7, BeginStep DEF BeginBuild, BeginCount, BuildOrder, CountOrder
<1>8. ASSUME NEW r \in Readers, ReadNeeds(r) PROVE MasterInv'
  BY <1>8, ReadNeedsStep
<1>9. ASSUME NEW r \in Readers, ReadFacilities(r) PROVE MasterInv'
  BY <1>9, ReadFacilitiesStep
<1>10. ASSUME NEW r \in Readers, ReadSkills(r) PROVE MasterInv'
  BY <1>10, ReadSkillsStep
<1>11. ASSUME NEW r \in Readers, ReadStaff(r) PROVE MasterInv'
  BY <1>11, ReadStaffStep
<1>12. ASSUME NEW r \in Readers, ReadDistricts(r) PROVE MasterInv'
  BY <1>12, ReadDistrictsStep
<1>13. ASSUME NEW r \in Readers, ReadDeclarations(r) PROVE MasterInv'
  BY <1>13, ReadDeclarationsStep
<1>14. ASSUME NEW r \in Readers, ReadEffective(r) PROVE MasterInv'
  BY <1>14, ReadEffectiveStep
<1>15. ASSUME NEW r \in Readers, ReadTotal(r) PROVE MasterInv'
  BY <1>15, ReadTotalStep
<1>16. ASSUME NEW r \in Readers, ReadRequired(r) PROVE MasterInv'
  BY <1>16, ReadRequiredStep
<1>17. ASSUME NEW r \in Readers, Return(r) PROVE MasterInv'
  BY <1>17, ReturnStep
<1>18. CASE UNCHANGED vars
  <2>1. MastersGrow /\ UNCHANGED <<declarations, reader>>
    BY <1>18 DEF vars, tables, MastersGrow
  <2>2. \A r \in Readers : CallInv(r)'
    BY <2>1, CallsSurviveGrowth
  <2>3. TypeOK' /\ TablesAgree'
    BY <1>18 DEF MasterInv, TypeOK, TablesAgree, vars, tables
  <2>q. QED
    BY <2>2, <2>3 DEF MasterInv, CallInv
<1>q. QED
  BY <1>1, <1>2, <1>3, <1>4, <1>5, <1>6, <1>7, <1>8, <1>9, <1>10, <1>11, <1>12, <1>13,
     <1>14, <1>15, <1>16, <1>17, <1>18, Zenon DEF Next

\* Rows refer to registered rows, and calls know what their SELECTs can have
\* seen, whatever is imported and deleted between them.
THEOREM MasterInvariant == Spec => []MasterInv
<1>1. Init => MasterInv
  BY InitMaster
<1>2. MasterInv /\ [Next]_vars => MasterInv'
  BY MasterStep
<1>q. QED
  BY <1>1, <1>2, PTL DEF Spec

\* The tables and the calls keep their shapes.
THEOREM MasterTypes == Spec => []TypeOK
<1>1. MasterInv => TypeOK
  BY DEF MasterInv
<1>q. QED
  BY <1>1, MasterInvariant, PTL

\* The SQL query and shared_kernel's function give the same declaration, and
\* never two, whatever the order in which declarations were imported.
THEOREM DeclarationsAreUnambiguous == Spec => []EffectiveIsUnambiguous
<1>1. ASSUME MasterInv, NEW e \in Events, NEW s \in Staff
      PROVE  /\ {d \in EffectiveDeclarations(e) : d.staff = s} = LatestCandidates(s, e)
             /\ \A x, y \in LatestCandidates(s, e) : x = y
  <2>1. {d \in EffectiveDeclarations(e) : d.staff = s} = LatestCandidates(s, e)
    BY DEF EffectiveDeclarations, LatestCandidates
  <2>2. \A x, y \in EffectiveDeclarations(e) : x.staff = y.staff => x = y
    BY <1>1, EffectiveFacts DEF MasterInv
  <2>q. QED
    BY <2>1, <2>2
<1>2. MasterInv => EffectiveIsUnambiguous
  BY <1>1 DEF EffectiveIsUnambiguous
<1>q. QED
  BY <1>2, MasterInvariant, PTL

\* build_problem finds the district of everybody and of every facility.
THEOREM TravelIsAlwaysComputable == Spec => []TravelIsComputable
<1>1. MasterInv => TravelIsComputable
  BY DEF MasterInv, MastersRead, TravelIsComputable, AvailableStaff
<1>q. QED
  BY <1>1, MasterInvariant, PTL

\* What build_problem read, SELECT by SELECT, contains the state in which it
\* began and adds only what was registered or declared since.
THEOREM ProblemsAreRegular == Spec => []ReadIsRegular
<1>1. ASSUME MasterInv, NEW r \in Readers, reader[r].pc = "built"
      PROVE  /\ reader[r].oldWilling \ reader[r].changed \subseteq AvailableStaff(r)
             /\ AvailableStaff(r) \subseteq reader[r].oldWilling \cup reader[r].changed
  <2>1. SameWilling(SaidYes(r), reader[r])
    BY <1>1 DEF MasterInv, DeclarationsRead, Returning
  <2>2. reader[r].oldWilling \subseteq reader[r].staff
    BY <1>1 DEF MasterInv, OldIsThere, MastersRead
  <2>q. QED
    BY <2>1, <2>2 DEF SameWilling, AvailableStaff
<1>2. MasterInv => ReadIsRegular
  BY <1>1 DEF MasterInv, MastersRead, ReadIsRegular
<1>q. QED
  BY <1>2, MasterInvariant, PTL

\* The two counts of declared people are disjoint and within the total.
LEMMA BucketsFit == MasterInv => BucketsAreSane
<1>1. ASSUME MasterInv, NEW r \in Readers, reader[r].pc = "counted"
      PROVE  /\ SaidYes(r) \cap SaidNo(r) = {}
             /\ Cardinality(SaidYes(r)) + Cardinality(SaidNo(r)) <= reader[r].total
  <2>1. DeclarationsRead(r)
    BY <1>1 DEF MasterInv
  <2>2. SaidYes(r) \cap SaidNo(r) = {}
    BY <1>1, <2>1, BucketFacts DEF MasterInv, TypeOK, DeclarationsRead
  <2>q. QED
    BY <1>1, <2>1, <2>2 DEF DeclarationsRead
<1>q. QED
  BY <1>1 DEF BucketsAreSane

\* Nobody is in two buckets of sufficiency_status, and none is negative.
THEOREM BucketsAreAlwaysSane == Spec => []BucketsAreSane
BY BucketsFit, MasterInvariant, PTL

\* sufficiency_status contains the state in which it began and adds only what
\* was registered or declared since.
THEOREM CountsAreRegular == Spec => []CountIsRegular
<1>1. MasterInv => CountIsRegular
  BY BucketsFit DEF MasterInv, MastersRead, DeclarationsRead, SameWilling, Returning, CountIsRegular
<1>q. QED
  BY <1>1, MasterInvariant, PTL

-----------------------------------------------------------------------------
(* Enumerations. *)

\* SetToSeq names every element of a finite set once.
LEMMA SetToSeqEnumerates ==
    ASSUME NEW S, IsFiniteSet(S)
    PROVE  /\ Cardinality(S) \in Nat
           /\ SetToSeq(S) \in [1 .. Cardinality(S) -> S]
           /\ \A i, j \in 1 .. Cardinality(S) : SetToSeq(S)[i] = SetToSeq(S)[j] => i = j
           /\ Range(SetToSeq(S)) = S
<1> DEFINE n == Cardinality(S)
           s == SetToSeq(S)
<1>1. n \in Nat /\ ExistsBijection(1 .. n, S)
  BY FS_CardinalityType
<1>2. \E f \in [1 .. n -> S] : IsInjective(f)
  BY <1>1 DEF ExistsBijection, Bijection, Injection
<1>3. s \in [1 .. n -> S] /\ IsInjective(s)
  BY <1>2 DEF SetToSeq
<1> HIDE DEF n, s
<1>4. IsFiniteSet(1 .. n) /\ Cardinality(1 .. n) = n
  BY <1>1, FS_Interval
<1>5. s \in Injection(1 .. n, S)
  BY <1>3 DEF Injection
<1>6. s \in Surjection(1 .. n, S)
  BY <1>4, <1>5, FS_Injection DEF n
<1>7. Range(s) = S
  BY <1>3, <1>6 DEF Surjection, Range
<1>8. \A i, j \in 1 .. n : s[i] = s[j] => i = j
  BY <1>3 DEF IsInjective
<1>q. QED
  BY <1>1, <1>3, <1>7, <1>8 DEF n, s

-----------------------------------------------------------------------------
(* The requirements of a facility. *)

\* The members of three enums.
LEMMA RequirableIsFinite == IsFiniteSet(Requirable)
<1>1. IsFiniteSet(Qualification)
  <2>1. Qualification = {"DISASTER_PREVENTION_SPECIALIST"} \cup {"EMERGENCY_LIFESAVING_TECHNICIAN"}
    BY DEF Qualification
  <2>q. QED
    BY <2>1, FS_Singleton, FS_Union
<1>2. IsFiniteSet(Position)
  <2>1. Position = {"MANAGER"} \cup {"GENERAL"}
    BY DEF Position
  <2>q. QED
    BY <2>1, FS_Singleton, FS_Union
<1>3. IsFiniteSet(JobType)
  <2>1. JobType = ({"CLERICAL"} \cup {"TECHNICAL"})
                      \cup ({"NURSERY_TEACHER"} \cup {"PUBLIC_HEALTH_NURSE"})
    BY DEF JobType
  <2>2. IsFiniteSet({"CLERICAL"} \cup {"TECHNICAL"})
    BY FS_Singleton, FS_Union
  <2>3. IsFiniteSet({"NURSERY_TEACHER"} \cup {"PUBLIC_HEALTH_NURSE"})
    BY FS_Singleton, FS_Union
  <2>q. QED
    BY <2>1, <2>2, <2>3, FS_Union
<1>4. IsFiniteSet(Qualification \cup Position)
  BY <1>1, <1>2, FS_Union
<1>q. QED
  BY <1>3, <1>4, FS_Union DEF Requirable

\* A facility requires each member once, so its requirements are finitely many.
LEMMA RequirementsAreFew ==
    ASSUME NEW D, NEW r \in [D -> Requirable \X Int], NEW headcount,
           FacilityAccepted(headcount, r)
    PROVE  IsFiniteSet(D) /\ \A i, j \in D : r[i][1] = r[j][1] => i = j
<1>1. \A i, j \in D : r[i][1] = r[j][1] => i = j
  BY DEF FacilityAccepted
<1>2. [i \in D |-> r[i][1]] \in Injection(D, Requirable)
  BY <1>1 DEF Injection, IsInjective
<1>q. QED
  BY <1>1, <1>2, FS_Injection, RequirableIsFinite

\* It does not matter how requirements are numbered.
LEMMA AcceptedAlike ==
    ASSUME NEW D, IsFiniteSet(D), NEW r \in [D -> Requirable \X Int], NEW headcount,
           \A i, j \in D : r[i] = r[j] => i = j
    PROVE  FacilityAccepted(headcount, r)
               <=> FacilityAccepted(headcount, [p \in Range(r) |-> p])
<1> DEFINE R == Range(r)
           h == [i \in D |-> r[i][2]]
           f == [p \in R |-> p[2]]
<1>1. R = {r[i] : i \in D} /\ R \subseteq Requirable \X Int
  BY DEF Range
<1>2. SumFunctionOnSet(h, D) = SumFunctionOnSet(f, {r[i] : i \in D})
  <2>1. \A i \in D : h[i] \in Int /\ h[i] = f[r[i]]
    BY <1>1
  <2> HIDE DEF h, f
  <2>q. QED
    BY <2>1, SumAlong
<1>3. SumFunction([i \in DOMAIN r |-> r[i][2]]) = SumFunctionOnSet(h, D)
  BY DEF SumFunction
<1>4. SumFunction([i \in DOMAIN [p \in R |-> p] |-> [p \in R |-> p][i][2]])
          = SumFunctionOnSet(f, R)
  <2>1. [i \in DOMAIN [p \in R |-> p] |-> [p \in R |-> p][i][2]] = f
    OBVIOUS
  <2>2. DOMAIN f = R
    OBVIOUS
  <2> HIDE DEF f, R
  <2>q. QED
    BY <2>1, <2>2 DEF SumFunction
<1>5. (\A i, j \in DOMAIN r : r[i][1] = r[j][1] => i = j)
          <=> \A p, q \in R : p[1] = q[1] => p = q
  BY <1>1
<1> HIDE DEF R, h, f
<1>q. QED
  BY <1>1, <1>2, <1>3, <1>4, <1>5 DEF FacilityAccepted, R

-----------------------------------------------------------------------------
(* What constructors build. *)

\* An entity has other columns than an error.
LEMMA EntitiesAreNoErrors ==
    ASSUME NEW kind \in DOMAIN Columns, NEW e, IsEntity(kind, e)
    PROVE  e # Error
<1>1. DOMAIN e = Columns[kind]
  BY DEF IsEntity
<1>2. "error" \notin Columns[kind]
  BY DEF Columns
<1>q. QED
  BY <1>1, <1>2 DEF Error

\* A cell that is not a list is one item, or none.
LEMMA ItemsOfARequirement ==
    ASSUME NEW cell, IsCell(cell), NEW i \in DOMAIN SplitList(cell),
           IsRequirement(SplitList(cell)[i])
    PROVE  <<SplitList(cell)[i][2][2], SplitList(cell)[i][3][2]>> \in Requirable \X Int
BY DEF IsCell, IsRequirement, IsLabelOf

\* What is built of a row, if it is not an error, is an entity with the key of the row.
LEMMA DistrictIsBuilt ==
    ASSUME NEW row, IsRow("district", row), BuildDistrict(row) # Error
    PROVE  /\ IsEntity("district", BuildDistrict(row))
           /\ BuildDistrict(row).id = row.id
BY DEF IsRow, Columns, BuildDistrict, IsEntity

\* People are looked up in the masters, and their labels are read.
LEMMA StaffIsBuilt ==
    ASSUME NEW row, IsRow("staff", row), BuildStaff(row) # Error
    PROVE  /\ IsEntity("staff", BuildStaff(row))
           /\ BuildStaff(row).id = row.id
<1> DEFINE labels == SplitList(row.qualifications)
           qualifications == {labels[i][2] : i \in DOMAIN labels}
           e == [row EXCEPT !.job = @[2], !.position = @[2], !.qualifications = qualifications]
<1>1. /\ row.district \in KnownDistricts /\ row.department \in KnownDepartments
      /\ row.name # Blank /\ row.job[2] \in JobType /\ row.position[2] \in Position
      /\ \A i \in DOMAIN labels : labels[i][2] \in Qualification
      /\ BuildStaff(row) = e
  BY DEF BuildStaff, IsLabelOf
<1>2. qualifications \subseteq Qualification
  BY <1>1
<1>3. /\ row = [column \in Columns["staff"] |-> row[column]]
      /\ \A column \in Columns["staff"] : IsCell(row[column])
  BY DEF IsRow
<1> HIDE DEF qualifications
<1>4. /\ e = [column \in Columns["staff"] |-> e[column]]
      /\ e.id = row.id /\ e.name = row.name /\ e.department = row.department
      /\ e.district = row.district /\ e.job = row.job[2] /\ e.position = row.position[2]
      /\ e.qualifications = qualifications
  BY <1>3 DEF Columns
<1> HIDE DEF e
<1>5. \A column \in {"id", "name", "district", "department"} : IsCell(e[column])
  BY <1>3, <1>4 DEF Columns
<1>6. IsEntity("staff", e)
  BY <1>1, <1>2, <1>4, <1>5 DEF IsEntity
<1>q. QED
  BY <1>1, <1>4, <1>6

\* Requirements in a cell become a set of pairs that the headcount covers.
LEMMA FacilityIsBuilt ==
    ASSUME NEW row, IsRow("facility", row), BuildFacility(row) # Error
    PROVE  /\ IsEntity("facility", BuildFacility(row))
           /\ BuildFacility(row).id = row.id
<1> DEFINE items == SplitList(row.requirements)
           r == [i \in DOMAIN items |-> <<items[i][2][2], items[i][3][2]>>]
           e == [row EXCEPT !.headcount = @[2], !.requirements = Range(r)]
<1>1. /\ row.district \in KnownDistricts
      /\ \A i \in DOMAIN items : IsRequirement(items[i])
      /\ IsNumber(row.headcount)
      /\ FacilityAccepted(row.headcount[2], r)
      /\ BuildFacility(row) = e
  BY DEF BuildFacility
<1>2. row = [column \in {"id", "name", "district", "headcount", "requirements"} |-> row[column]]
  BY DEF IsRow, Columns
<1>3. /\ IsCell(row.id) /\ IsCell(row.name) /\ IsCell(row.district)
      /\ IsCell(row.headcount) /\ IsCell(row.requirements)
  BY DEF IsRow, Columns
<1>4. r \in [DOMAIN items -> Requirable \X Int]
  BY <1>1, <1>3, ItemsOfARequirement
<1> HIDE DEF items, r
<1>5. /\ e = [column \in {"id", "name", "district", "headcount", "requirements"} |-> e[column]]
      /\ e.id = row.id /\ e.name = row.name /\ e.district = row.district
      /\ e.headcount = row.headcount[2] /\ e.requirements = Range(r)
  BY <1>2
<1>6. IsFiniteSet(DOMAIN items) /\ \A i, j \in DOMAIN items : r[i][1] = r[j][1] => i = j
  BY <1>1, <1>4, RequirementsAreFew
<1>7. FacilityAccepted(e.headcount, [p \in e.requirements |-> p])
  BY <1>1, <1>4, <1>5, <1>6, AcceptedAlike
<1>8. e.requirements \subseteq Requirable \X Int
  BY <1>4, <1>5 DEF Range
<1>9. e.headcount \in Int
  BY <1>1, <1>3, <1>5 DEF IsCell
<1> HIDE DEF e
<1>10. \A column \in {"id", "name", "district"} : IsCell(e[column])
  BY <1>3, <1>5
<1>q. QED
  BY <1>1, <1>5, <1>7, <1>8, <1>9, <1>10 DEF IsEntity, Columns

\* The key that is remembered of a declaration has the instant in UTC.
LEMMA DeclarationIsBuilt ==
    ASSUME NEW row, IsRow("declaration", row), BuildDeclaration(row) # Error
    PROVE  /\ IsEntity("declaration", BuildDeclaration(row))
           /\ KeysSeen("declaration", row) = {KeyOf("declaration", BuildDeclaration(row))}
<1> DEFINE available == row.available = Text("yes")
           reason == IF row.reason = Blank THEN "None" ELSE row.reason[2]
           e == [row EXCEPT !.available = available, !.reason = reason,
                            !.declaredAt = Aware(InUtc(@))]
<1>1. /\ row.staff \in KnownStaff
      /\ row.declaredAt[1] = "time"
      /\ row.reason = Blank \/ IsLabelOf(ReasonCategory, row.reason)
      /\ DeclarationAccepted(available, reason, row.note)
      /\ BuildDeclaration(row) = e
  BY DEF BuildDeclaration
<1>2. row = [column \in {"staff", "available", "declaredAt", "reason", "note"} |-> row[column]]
  BY DEF IsRow, Columns
<1>3. InUtc(row.declaredAt) \in Int
  <2>1. IsCell(row.declaredAt)
    BY DEF IsRow, Columns
  <2>2. row.declaredAt[2] \in Int /\ row.declaredAt[3] \in Int \cup {NoZone}
    BY <1>1, <2>1 DEF IsCell
  <2>q. QED
    BY <2>2 DEF InUtc
<1>4. reason \in ReasonCategory \cup {"None"}
  BY <1>1 DEF IsLabelOf
<1> HIDE DEF available, reason
<1>5. /\ e = [column \in {"staff", "available", "declaredAt", "reason", "note"} |-> e[column]]
      /\ e.staff = row.staff /\ e.available = available /\ e.reason = reason
      /\ e.note = row.note /\ e.declaredAt = Aware(InUtc(row.declaredAt))
  BY <1>2
<1> HIDE DEF e
<1>6. e.declaredAt[2] = InUtc(row.declaredAt)
  BY <1>5 DEF Aware
<1>q. QED
  BY <1>1, <1>3, <1>4, <1>5, <1>6 DEF IsEntity, Columns, KeysSeen, KeyOf

\* What a constructor builds of a row, its importer recognises by the key of the row.
LEMMA EntitiesAreBuilt ==
    ASSUME NEW kind \in DOMAIN Columns, NEW row, IsRow(kind, row), Build(kind, row) # Error
    PROVE  /\ IsEntity(kind, Build(kind, row))
           /\ KeysSeen(kind, row) = {KeyOf(kind, Build(kind, row))}
<1>1. kind \in {"district", "staff", "facility", "declaration"}
  BY DEF Columns
<1>2. CASE kind = "district"
  <2>1. Build(kind, row) = BuildDistrict(row)
    BY <1>2 DEF Build
  <2>q. QED
    BY <1>2, <2>1, DistrictIsBuilt DEF KeysSeen, KeyOf
<1>3. CASE kind = "staff"
  <2>1. Build(kind, row) = BuildStaff(row)
    BY <1>3 DEF Build
  <2>q. QED
    BY <1>3, <2>1, StaffIsBuilt DEF KeysSeen, KeyOf
<1>4. CASE kind = "facility"
  <2>1. Build(kind, row) = BuildFacility(row)
    BY <1>4 DEF Build
  <2>q. QED
    BY <1>4, <2>1, FacilityIsBuilt DEF KeysSeen, KeyOf
<1>5. CASE kind = "declaration"
  <2>1. Build(kind, row) = BuildDeclaration(row)
    BY <1>5 DEF Build
  <2>q. QED
    BY <1>5, <2>1, DeclarationIsBuilt
<1>q. QED
  BY <1>1, <1>2, <1>3, <1>4, <1>5

\* A file without a faulty line leaves one entity for each, all with keys of their own.
LEMMA AcceptedFilesAreStorable ==
    ASSUME NEW kind \in DOMAIN Columns, NEW n \in Nat, NEW rows, DOMAIN rows = 1 .. n,
           \A i \in DOMAIN rows : IsRow(kind, rows[i]),
           \A i \in DOMAIN rows : ~Faulty(kind, rows, i)
    PROVE  LET built == Import(kind, rows).saved
           IN  /\ Import(kind, rows).lines = {}
               /\ built = {Build(kind, rows[i]) : i \in DOMAIN rows}
               /\ IsStorable(kind, built)
               /\ Cardinality(built) = n
<1> DEFINE built == {Build(kind, rows[i]) : i \in DOMAIN rows}
           b == [i \in 1 .. n |-> Build(kind, rows[i])]
<1>1. Import(kind, rows).lines = {} /\ Import(kind, rows).saved = built
  BY DEF Import
<1>2. \A i \in 1 .. n : /\ IsEntity(kind, b[i])
                        /\ KeysSeen(kind, rows[i]) = {KeyOf(kind, b[i])}
  BY EntitiesAreBuilt DEF Faulty
<1>3. \A i, j \in 1 .. n : KeyOf(kind, b[i]) = KeyOf(kind, b[j]) => i = j
  <2> SUFFICES ASSUME NEW i \in 1 .. n, NEW j \in 1 .. n, j < i,
                      KeyOf(kind, b[i]) = KeyOf(kind, b[j])
               PROVE  FALSE
    OBVIOUS
  <2>1. j \in 1 .. i - 1
    OBVIOUS
  <2>2. KeysSeen(kind, rows[i]) \cap KeysSeen(kind, rows[j]) # {}
    BY <1>2
  <2>q. QED
    BY <2>1, <2>2 DEF Faulty
<1>4. b \in Bijection(1 .. n, built)
  <2>1. b \in [1 .. n -> built] /\ \A e \in built : \E i \in 1 .. n : b[i] = e
    OBVIOUS
  <2> HIDE DEF b, built
  <2>2. IsInjective(b)
    BY <1>3, <2>1 DEF IsInjective
  <2>q. QED
    BY <2>1, <2>2 DEF Bijection, Injection, Surjection
<1>5. IsFiniteSet(built) /\ Cardinality(built) = n
  <2>1. ExistsBijection(1 .. n, built)
    BY <1>4 DEF ExistsBijection
  <2>2. IsFiniteSet(1 .. n) /\ Cardinality(1 .. n) = n
    BY FS_Interval
  <2> HIDE DEF built
  <2>q. QED
    BY <2>1, <2>2, FS_Bijection
<1>6. \A e \in built : \E i \in 1 .. n : e = b[i]
  OBVIOUS
<1> HIDE DEF built, b
<1>7. IsStorable(kind, built)
  BY <1>2, <1>3, <1>5, <1>6 DEF IsStorable
<1>q. QED
  BY <1>1, <1>5, <1>7 DEF built

-----------------------------------------------------------------------------
(* From the database and back. *)

\* A district is one row, and its coordinates are accepted again.
LEMMA DistrictsReadBack ==
    ASSUME NEW E, IsStorable("district", E)
    PROVE  LET stored == Inserted("district", E)
           IN  SchemaAdmits("district", stored) /\ Found("district", stored) = E
<1>1. Inserted("district", E) = [rows |-> E, parts |-> {}]
  BY DEF Inserted
<1>2. \A e \in E : RowToSchoolDistrict(e) = e
  BY DEF IsStorable, IsEntity, RowToSchoolDistrict
<1>3. SchemaAdmits("district", [rows |-> E, parts |-> {}])
  BY DEF SchemaAdmits, IsStorable, KeyOf
<1>4. Found("district", [rows |-> E, parts |-> {}]) = {RowToSchoolDistrict(e) : e \in E}
  BY DEF Found
<1>q. QED
  BY <1>1, <1>2, <1>3, <1>4

\* The qualification rows of a person are those of nobody else.
LEMMA StaffReadBack ==
    ASSUME NEW E, IsStorable("staff", E)
    PROVE  LET stored == Inserted("staff", E)
           IN  SchemaAdmits("staff", stored) /\ Found("staff", stored) = E
<1> DEFINE rows == {StaffToRow(e) : e \in E}
           parts == UNION {StaffQualificationRows(e) : e \in E}
<1>1. Inserted("staff", E) = [rows |-> rows, parts |-> parts]
  BY DEF Inserted
<1>2. \A d, e \in E : d.id = e.id => d = e
  BY DEF IsStorable, KeyOf
<1>3. ASSUME NEW e \in E
      PROVE  /\ StaffToRow(e).id = e.id /\ StaffToRow(e).name = e.name
             /\ StaffToRow(e).job = e.job /\ StaffToRow(e).position = e.position
             /\ With(StaffToRow(e), "qualifications", e.qualifications) = e
  <2>1. e = [column \in Columns["staff"] |-> e[column]]
    BY DEF IsStorable, IsEntity
  <2>2. {"id", "name", "job", "position"} \subseteq Columns["staff"] \ {"qualifications"}
    BY DEF Columns
  <2>3. "qualifications" \in Columns["staff"]
    BY DEF Columns
  <2>4. With(Without(e, "qualifications"), "qualifications", e.qualifications) = e
    <3> HIDE DEF rows, parts
    <3>q. QED
      BY <2>1, <2>3 DEF With, Without
  <2>5. \A d \in Columns["staff"] \ {"qualifications"} : Without(e, "qualifications")[d] = e[d]
    BY <2>1 DEF Without
  <2>q. QED
    BY <2>2, <2>4, <2>5 DEF StaffToRow
<1>4. \A p \in parts : \E e \in E : \E q \in e.qualifications : p = <<e.id, q>>
  BY DEF StaffQualificationRows
<1>5. ASSUME NEW e \in E PROVE QualificationsOf(e.id, parts) = e.qualifications
  <2>1. \A q \in e.qualifications : <<e.id, q>> \in parts
    BY DEF StaffQualificationRows
  <2>2. \A p \in parts : p[1] = e.id => p[2] \in e.qualifications
    <3> SUFFICES ASSUME NEW p \in parts, p[1] = e.id PROVE p[2] \in e.qualifications
      OBVIOUS
    <3>1. PICK d \in E : \E q \in d.qualifications : p = <<d.id, q>>
      BY <1>4
    <3>2. d = e
      BY <1>2, <3>1
    <3>q. QED
      BY <3>1, <3>2
  <2> HIDE DEF parts
  <2>3. \A q \in e.qualifications : \E p \in parts : p[1] = e.id /\ q = p[2]
    BY <2>1
  <2>q. QED
    BY <2>2, <2>3 DEF QualificationsOf
<1> HIDE DEF parts
<1>6. ASSUME NEW e \in E
      PROVE  RowToStaff(StaffToRow(e), QualificationsOf(StaffToRow(e).id, parts)) = e
  <2>1. QualificationsOf(StaffToRow(e).id, parts) = e.qualifications
    BY <1>3, <1>5
  <2>2. /\ e.job \in JobType /\ e.position \in Position /\ e.name # Blank
        /\ e.qualifications \subseteq Qualification
    BY DEF IsStorable, IsEntity
  <2>q. QED
    BY <1>3, <2>1, <2>2 DEF RowToStaff
<1>7. SchemaAdmits("staff", [rows |-> rows, parts |-> parts])
  <2>1. \A r, s \in rows : r.id = s.id => r = s
    BY <1>2, <1>3
  <2>2. \A p, q \in parts : p[1] = q[1] /\ p[2] = q[2] => p = q
    BY <1>4
  <2> HIDE DEF rows
  <2>q. QED
    BY <2>1, <2>2 DEF SchemaAdmits
<1>8. Found("staff", [rows |-> rows, parts |-> parts])
          = {RowToStaff(StaffToRow(e), QualificationsOf(StaffToRow(e).id, parts)) : e \in E}
  <2>1. Found("staff", [rows |-> rows, parts |-> parts])
            = {RowToStaff(row, QualificationsOf(row.id, parts)) : row \in rows}
    BY DEF Found
  <2>q. QED
    BY <2>1
<1>9. Found("staff", [rows |-> rows, parts |-> parts]) = E
  <2> HIDE DEF rows
  <2>q. QED
    BY <1>6, <1>8
<1>q. QED
  BY <1>1, <1>7, <1>9

\* The requirement rows of a facility are its own, and the headcount covers them again.
LEMMA FacilitiesReadBack ==
    ASSUME NEW E, IsStorable("facility", E)
    PROVE  LET stored == Inserted("facility", E)
           IN  SchemaAdmits("facility", stored) /\ Found("facility", stored) = E
<1> DEFINE rows == {FacilityToRow(e) : e \in E}
           parts == UNION {FacilityRequirementRows(e) : e \in E}
<1>1. Inserted("facility", E) = [rows |-> rows, parts |-> parts]
  BY DEF Inserted
<1>2. \A d, e \in E : d.id = e.id => d = e
  BY DEF IsStorable, KeyOf
<1>3. ASSUME NEW e \in E
      PROVE  /\ FacilityToRow(e).id = e.id /\ FacilityToRow(e).headcount = e.headcount
             /\ With(FacilityToRow(e), "requirements", e.requirements) = e
  <2>1. e = [column \in Columns["facility"] |-> e[column]]
    BY DEF IsStorable, IsEntity
  <2>2. {"id", "headcount"} \subseteq Columns["facility"] \ {"requirements"}
    BY DEF Columns
  <2>3. "requirements" \in Columns["facility"]
    BY DEF Columns
  <2>4. With(Without(e, "requirements"), "requirements", e.requirements) = e
    <3> HIDE DEF rows, parts
    <3>q. QED
      BY <2>1, <2>3 DEF With, Without
  <2>5. \A d \in Columns["facility"] \ {"requirements"} : Without(e, "requirements")[d] = e[d]
    BY <2>1 DEF Without
  <2>q. QED
    BY <2>2, <2>4, <2>5 DEF FacilityToRow
<1>4. ASSUME NEW e \in E
      PROVE  /\ e.requirements \subseteq Requirable \X Int
             /\ FacilityAccepted(e.headcount, [r \in e.requirements |-> r])
             /\ \A r, s \in e.requirements : r[1] = s[1] => r = s
             /\ \A r \in e.requirements : r = <<r[1], r[2]>> /\ r[1] \in Requirable
             /\ e.headcount >= 1
  <2>1. /\ e.requirements \subseteq Requirable \X Int
        /\ FacilityAccepted(e.headcount, [r \in e.requirements |-> r])
    BY DEF IsStorable, IsEntity
  <2>2. \A r \in e.requirements : r = <<r[1], r[2]>> /\ r[1] \in Requirable
    BY <2>1
  <2>q. QED
    BY <2>1, <2>2 DEF FacilityAccepted
<1>5. \A p \in parts : \E e \in E : \E r \in e.requirements : p = <<e.id, r[1], r[2]>>
  BY DEF FacilityRequirementRows
<1>6. ASSUME NEW e \in E PROVE RequirementsOf(e.id, parts) = e.requirements
  <2>1. \A r \in e.requirements : <<e.id, r[1], r[2]>> \in parts
    BY DEF FacilityRequirementRows
  <2>2. \A p \in parts : p[1] = e.id => <<p[2], p[3]>> \in e.requirements
    <3> SUFFICES ASSUME NEW p \in parts, p[1] = e.id PROVE <<p[2], p[3]>> \in e.requirements
      OBVIOUS
    <3>0. PICK d \in E : \E r \in d.requirements : p = <<d.id, r[1], r[2]>>
      BY <1>5
    <3>1. PICK r \in d.requirements : p = <<d.id, r[1], r[2]>>
      BY <3>0
    <3>2. d = e
      BY <1>2, <3>1
    <3>3. r = <<r[1], r[2]>>
      BY <1>4, <3>1
    <3>q. QED
      BY <3>1, <3>2, <3>3
  <2> HIDE DEF parts
  <2>3. \A r \in e.requirements : \E p \in parts : p[1] = e.id /\ r = <<p[2], p[3]>>
    BY <1>4, <2>1
  <2>q. QED
    BY <2>2, <2>3 DEF RequirementsOf
<1> HIDE DEF parts
<1>7. ASSUME NEW e \in E
      PROVE  RowToFacility(FacilityToRow(e), RequirementsOf(FacilityToRow(e).id, parts)) = e
  <2>1. RequirementsOf(FacilityToRow(e).id, parts) = e.requirements
    BY <1>3, <1>6
  <2>2. \A r \in e.requirements : r[1] \in Requirable
    BY <1>4
  <2>q. QED
    BY <1>3, <1>4, <2>1, <2>2 DEF RowToFacility
<1>8. SchemaAdmits("facility", [rows |-> rows, parts |-> parts])
  <2>1. \A r, s \in rows : r.id = s.id => r = s
    BY <1>2, <1>3
  <2>2. \A p, q \in parts : p[1] = q[1] /\ p[2] = q[2] => p = q
    <3> SUFFICES ASSUME NEW p \in parts, NEW q \in parts, p[1] = q[1], p[2] = q[2]
                 PROVE  p = q
      OBVIOUS
    <3>1. PICK d \in E : \E r \in d.requirements : p = <<d.id, r[1], r[2]>>
      BY <1>5
    <3>2. PICK e \in E : \E r \in e.requirements : q = <<e.id, r[1], r[2]>>
      BY <1>5
    <3>3. d = e
      BY <1>2, <3>1, <3>2
    <3>4. PICK r \in d.requirements : p = <<d.id, r[1], r[2]>>
      BY <3>1
    <3>5. PICK s \in d.requirements : q = <<d.id, s[1], s[2]>>
      BY <3>2, <3>3
    <3>6. r = s
      BY <1>4, <3>4, <3>5
    <3>q. QED
      BY <3>4, <3>5, <3>6
  <2>3. \A r \in rows : r.headcount >= 1
    BY <1>3, <1>4
  <2> HIDE DEF rows
  <2>q. QED
    BY <2>1, <2>2, <2>3 DEF SchemaAdmits
<1>9. Found("facility", [rows |-> rows, parts |-> parts])
          = {RowToFacility(FacilityToRow(e), RequirementsOf(FacilityToRow(e).id, parts)) : e \in E}
  <2>1. Found("facility", [rows |-> rows, parts |-> parts])
            = {RowToFacility(row, RequirementsOf(row.id, parts)) : row \in rows}
    BY DEF Found
  <2>q. QED
    BY <2>1
<1>10. Found("facility", [rows |-> rows, parts |-> parts]) = E
  <2> HIDE DEF rows
  <2>q. QED
    BY <1>7, <1>9
<1>q. QED
  BY <1>1, <1>8, <1>10

\* The column drops the zone of an instant and the reader puts it back.
LEMMA DeclarationsReadBack ==
    ASSUME NEW E, IsStorable("declaration", E)
    PROVE  LET stored == Inserted("declaration", E)
           IN  SchemaAdmits("declaration", stored) /\ Found("declaration", stored) = E
<1> DEFINE rows == {DeclarationToRow(e) : e \in E}
<1>1. Inserted("declaration", E) = [rows |-> rows, parts |-> {}]
  BY DEF Inserted
<1>2. \A d, e \in E : d.staff = e.staff /\ d.declaredAt[2] = e.declaredAt[2] => d = e
  BY DEF IsStorable, KeyOf
<1>3. ASSUME NEW e \in E
      PROVE  /\ DeclarationToRow(e).staff = e.staff
             /\ DeclarationToRow(e).declaredAt = e.declaredAt[2]
             /\ RowToDeclaration(DeclarationToRow(e)) = e
  <2>1. /\ e = [column \in {"staff", "available", "declaredAt", "reason", "note"} |-> e[column]]
        /\ e.declaredAt[2] \in Int /\ e.declaredAt = Aware(e.declaredAt[2])
        /\ e.reason \in ReasonCategory \cup {"None"}
        /\ DeclarationAccepted(e.available, e.reason, e.note)
    BY DEF IsStorable, IsEntity, Columns
  <2>2. InUtc(e.declaredAt) = e.declaredAt[2]
    <3>1. e.declaredAt[3] = 0
      BY <2>1 DEF Aware
    <3>q. QED
      BY <2>1, <3>1, RecordsAssumption DEF InUtc
  <2> DEFINE r == [e EXCEPT !.declaredAt = e.declaredAt[2]]
  <2>3. DeclarationToRow(e) = r
    BY <2>2 DEF DeclarationToRow
  <2>4. /\ r.staff = e.staff /\ r.available = e.available /\ r.reason = e.reason
        /\ r.note = e.note /\ r.declaredAt = e.declaredAt[2]
        /\ [r EXCEPT !.declaredAt = e.declaredAt] = e
    BY <2>1
  <2> HIDE DEF r
  <2>q. QED
    BY <2>1, <2>3, <2>4 DEF RowToDeclaration
<1>4. SchemaAdmits("declaration", [rows |-> rows, parts |-> {}])
  <2>1. \A r, s \in rows : r.staff = s.staff /\ r.declaredAt = s.declaredAt => r = s
    BY <1>2, <1>3
  <2> HIDE DEF rows
  <2>q. QED
    BY <2>1 DEF SchemaAdmits
<1>5. Found("declaration", [rows |-> rows, parts |-> {}])
          = {RowToDeclaration(DeclarationToRow(e)) : e \in E}
  <2>1. Found("declaration", [rows |-> rows, parts |-> {}])
            = {RowToDeclaration(row) : row \in rows}
    BY DEF Found
  <2>q. QED
    BY <2>1
<1>6. Found("declaration", [rows |-> rows, parts |-> {}]) = E
  <2> HIDE DEF rows
  <2>q. QED
    BY <1>3, <1>5
<1>q. QED
  BY <1>1, <1>4, <1>6

\* Storable entities violate no key and no CHECK and are found again as they were.
LEMMA StorableReadsBack ==
    ASSUME NEW kind \in DOMAIN Columns, NEW E, IsStorable(kind, E)
    PROVE  SchemaAdmits(kind, Inserted(kind, E)) /\ Found(kind, Inserted(kind, E)) = E
<1>1. kind \in {"district", "staff", "facility", "declaration"}
  BY DEF Columns
<1>q. QED
  BY <1>1, DistrictsReadBack, StaffReadBack, FacilitiesReadBack, DeclarationsReadBack

-----------------------------------------------------------------------------
(* From the database to a downloaded file, and back from there. *)

\* Sanitising keeps a cell a cell.
LEMMA CellsStayCells ==
    ASSUME NEW cell, IsCell(cell), NEW sanitized \in BOOLEAN
    PROVE  IsCell(Cell(cell, sanitized))
<1>1. IsCell(<<"escaped", cell>>)
  BY DEF IsCell, SplitList, Restrict, IsNumber, IsRequirement
<1>q. QED
  BY <1>1 DEF Cell, identity_sanitizer, Sanitized

\* What was sanitised once is harmless.
LEMMA SanitizedOnce ==
    ASSUME NEW cell
    PROVE  Sanitized(Sanitized(cell)) = Sanitized(cell)
BY DEF Sanitized

\* Numbers and labels are cells.
LEMMA ExportedCells ==
    /\ \A n \in Int : IsCell(Number(n))
    /\ \A member : IsCell(ToJapanese(member))
BY DEF Number, ToJapanese, IsCell, SplitList, Restrict, IsNumber, IsRequirement

\* A list of items that are not blank is split into them.
LEMMA ListsAreSplit ==
    ASSUME NEW S, IsFiniteSet(S), Blank \notin S
    PROVE  SplitList(List(SetToSeq(S))) = SetToSeq(S)
<1> DEFINE s == SetToSeq(S)
           n == Cardinality(S)
<1>1. s \in [1 .. n -> S]
  BY SetToSeqEnumerates
<1> HIDE DEF s, n
<1>2. List(s)[1] = "list" /\ List(s)[2] = s
  BY DEF List
<1>3. {i \in DOMAIN s : s[i] # Blank} = DOMAIN s
  BY <1>1
<1>4. Restrict(s, DOMAIN s) = s
  BY <1>1 DEF Restrict
<1>q. QED
  BY <1>2, <1>3, <1>4 DEF SplitList, s

\* The line of a district: its texts and numbers, each sanitised.
LEMMA DistrictLines ==
    ASSUME NEW e, IsEntity("district", e), NEW sanitized \in BOOLEAN
    PROVE  LET line == Line("district", e, sanitized)
           IN  /\ IsRow("district", line)
               /\ line.id = Cell(e.id, sanitized) /\ line.name = Cell(e.name, sanitized)
               /\ line.latitude = Cell(Number(e.latitude), sanitized)
               /\ line.longitude = Cell(Number(e.longitude), sanitized)
<1> DEFINE line == Line("district", e, sanitized)
<1>1. DOMAIN e = {"id", "name", "latitude", "longitude"}
  BY DEF IsEntity, Columns
<1>2. /\ Cells("district", e).id = e.id /\ Cells("district", e).name = e.name
      /\ Cells("district", e).latitude = Number(e.latitude)
      /\ Cells("district", e).longitude = Number(e.longitude)
  BY <1>1 DEF Cells
<1>3. /\ line = [column \in {"id", "name", "latitude", "longitude"} |-> line[column]]
      /\ line.id = Cell(e.id, sanitized) /\ line.name = Cell(e.name, sanitized)
      /\ line.latitude = Cell(Number(e.latitude), sanitized)
      /\ line.longitude = Cell(Number(e.longitude), sanitized)
  BY <1>1, <1>2 DEF Line
<1> HIDE DEF line
<1>4. /\ IsCell(e.id) /\ IsCell(e.name) /\ IsCell(Number(e.latitude))
      /\ IsCell(Number(e.longitude))
  BY ExportedCells DEF IsEntity, CoordinatesAccepted
<1>5. /\ IsCell(line.id) /\ IsCell(line.name) /\ IsCell(line.latitude)
      /\ IsCell(line.longitude)
  <2>1. /\ IsCell(Cell(e.id, sanitized)) /\ IsCell(Cell(e.name, sanitized))
        /\ IsCell(Cell(Number(e.latitude), sanitized))
        /\ IsCell(Cell(Number(e.longitude), sanitized))
    BY <1>4, CellsStayCells
  <2>q. QED
    BY <1>3, <2>1
<1>6. IsRow("district", line)
  BY <1>3, <1>5 DEF IsRow, Columns
<1>q. QED
  BY <1>3, <1>6 DEF line

\* The line of a person: labels are never sanitised away, and the list is split again.
LEMMA StaffLines ==
    ASSUME NEW e, IsEntity("staff", e), NEW sanitized \in BOOLEAN
    PROVE  LET line == Line("staff", e, sanitized)
               labels == {ToJapanese(q) : q \in e.qualifications}
           IN  /\ IsRow("staff", line)
               /\ line.id = Cell(e.id, sanitized) /\ line.name = Cell(e.name, sanitized)
               /\ line.department = Cell(e.department, sanitized)
               /\ line.district = Cell(e.district, sanitized)
               /\ line.job = ToJapanese(e.job) /\ line.position = ToJapanese(e.position)
               /\ line.qualifications = List(SetToSeq(labels))
               /\ SplitList(line.qualifications) = SetToSeq(labels)
               /\ SetToSeq(labels) \in [1 .. Cardinality(labels) -> labels]
               /\ Range(SetToSeq(labels)) = labels
<1> DEFINE line == Line("staff", e, sanitized)
           labels == {ToJapanese(q) : q \in e.qualifications}
           columns == {"id", "name", "department", "job", "position", "district",
                       "qualifications"}
<1>1. DOMAIN e = columns
  BY DEF IsEntity, Columns
<1>2. /\ Cells("staff", e).id = e.id /\ Cells("staff", e).name = e.name
      /\ Cells("staff", e).department = e.department
      /\ Cells("staff", e).district = e.district
      /\ Cells("staff", e).job = ToJapanese(e.job)
      /\ Cells("staff", e).position = ToJapanese(e.position)
      /\ Cells("staff", e).qualifications = List(SetToSeq(labels))
  BY <1>1 DEF Cells
<1>3. IsFiniteSet(labels) /\ Blank \notin labels
  <2>1. IsFiniteSet(Qualification)
    BY RequirableIsFinite, FS_Subset DEF Requirable
  <2>2. IsFiniteSet(e.qualifications)
    BY <2>1, FS_Subset DEF IsEntity
  <2>3. [q \in e.qualifications |-> ToJapanese(q)] \in Surjection(e.qualifications, labels)
    BY DEF Surjection
  <2>4. Blank \notin labels
    BY DEF Blank, Text, ToJapanese
  <2> HIDE DEF labels
  <2>q. QED
    BY <2>2, <2>3, <2>4, FS_Surjection
<1>4. /\ SetToSeq(labels) \in [1 .. Cardinality(labels) -> labels]
      /\ Range(SetToSeq(labels)) = labels
      /\ SplitList(List(SetToSeq(labels))) = SetToSeq(labels)
  BY <1>3, SetToSeqEnumerates, ListsAreSplit
<1>5. IsCell(List(SetToSeq(labels)))
  <2>1. \A label \in labels : ~IsRequirement(label)
    BY DEF ToJapanese, IsRequirement
  <2> HIDE DEF labels
  <2>q. QED
    BY <1>4, <2>1 DEF IsCell, IsNumber, List
<1>6. /\ line = [column \in columns |-> line[column]]
      /\ line.id = Cell(e.id, sanitized) /\ line.name = Cell(e.name, sanitized)
      /\ line.department = Cell(e.department, sanitized)
      /\ line.district = Cell(e.district, sanitized)
      /\ line.job = Cell(ToJapanese(e.job), sanitized)
      /\ line.position = Cell(ToJapanese(e.position), sanitized)
      /\ line.qualifications = Cell(List(SetToSeq(labels)), sanitized)
  <2> HIDE DEF labels
  <2>q. QED
    BY <1>1, <1>2 DEF Line
<1> HIDE DEF line, labels
<1>7. /\ line.job = ToJapanese(e.job) /\ line.position = ToJapanese(e.position)
      /\ line.qualifications = List(SetToSeq(labels))
  BY <1>6 DEF Cell, Sanitized, identity_sanitizer, ToJapanese, List
<1>8. /\ IsCell(line.id) /\ IsCell(line.name) /\ IsCell(line.department)
      /\ IsCell(line.district) /\ IsCell(line.job) /\ IsCell(line.position)
      /\ IsCell(line.qualifications)
  <2>1. IsCell(e.id) /\ IsCell(e.name) /\ IsCell(e.department) /\ IsCell(e.district)
    BY DEF IsEntity
  <2>2. /\ IsCell(Cell(e.id, sanitized)) /\ IsCell(Cell(e.name, sanitized))
        /\ IsCell(Cell(e.department, sanitized)) /\ IsCell(Cell(e.district, sanitized))
    BY <2>1, CellsStayCells
  <2>3. IsCell(ToJapanese(e.job)) /\ IsCell(ToJapanese(e.position))
    BY ExportedCells
  <2>q. QED
    BY <1>5, <1>6, <1>7, <2>2, <2>3
<1>9. IsRow("staff", line)
  BY <1>6, <1>8 DEF IsRow, Columns
<1>q. QED
  BY <1>4, <1>6, <1>7, <1>9 DEF line, labels

\* The line of a facility: a headcount of at least 1 is no formula, nor is a list.
LEMMA FacilityLines ==
    ASSUME NEW e, IsEntity("facility", e), NEW sanitized \in BOOLEAN
    PROVE  LET line == Line("facility", e, sanitized)
               pairs == {<<"pair", ToJapanese(r[1]), Number(r[2])>> : r \in e.requirements}
           IN  /\ IsRow("facility", line)
               /\ line.id = Cell(e.id, sanitized) /\ line.name = Cell(e.name, sanitized)
               /\ line.district = Cell(e.district, sanitized)
               /\ line.headcount = Number(e.headcount)
               /\ line.requirements = List(SetToSeq(pairs))
               /\ SplitList(line.requirements) = SetToSeq(pairs)
               /\ IsFiniteSet(pairs)
<1> DEFINE line == Line("facility", e, sanitized)
           pairs == {<<"pair", ToJapanese(r[1]), Number(r[2])>> : r \in e.requirements}
           columns == {"id", "name", "district", "headcount", "requirements"}
<1>1. DOMAIN e = columns
  BY DEF IsEntity, Columns
<1>2. /\ Cells("facility", e).id = e.id /\ Cells("facility", e).name = e.name
      /\ Cells("facility", e).district = e.district
      /\ Cells("facility", e).headcount = Number(e.headcount)
      /\ Cells("facility", e).requirements = List(SetToSeq(pairs))
  BY <1>1 DEF Cells
<1>3. /\ e.requirements \subseteq Requirable \X Int
      /\ FacilityAccepted(e.headcount, [r \in e.requirements |-> r])
      /\ e.headcount \in Int /\ e.headcount >= 1
  BY DEF IsEntity, FacilityAccepted
<1>4. IsFiniteSet(pairs) /\ Blank \notin pairs
  <2>1. [r \in e.requirements |-> r] \in [e.requirements -> Requirable \X Int]
    BY <1>3
  <2>2. IsFiniteSet(e.requirements)
    BY <1>3, <2>1, RequirementsAreFew
  <2>3. [r \in e.requirements |-> <<"pair", ToJapanese(r[1]), Number(r[2])>>]
            \in Surjection(e.requirements, pairs)
    BY DEF Surjection
  <2>4. Blank \notin pairs
    BY DEF Blank, Text
  <2> HIDE DEF pairs
  <2>q. QED
    BY <2>2, <2>3, <2>4, FS_Surjection
<1>5. /\ SetToSeq(pairs) \in [1 .. Cardinality(pairs) -> pairs]
      /\ SplitList(List(SetToSeq(pairs))) = SetToSeq(pairs)
  BY <1>4, SetToSeqEnumerates, ListsAreSplit
<1>6. IsCell(List(SetToSeq(pairs)))
  <2>1. \A pair \in pairs : pair[3][2] \in Int
    BY <1>3 DEF Number
  <2> HIDE DEF pairs
  <2>q. QED
    BY <1>5, <2>1 DEF IsCell, IsNumber, List
<1>7. /\ line = [column \in columns |-> line[column]]
      /\ line.id = Cell(e.id, sanitized) /\ line.name = Cell(e.name, sanitized)
      /\ line.district = Cell(e.district, sanitized)
      /\ line.headcount = Cell(Number(e.headcount), sanitized)
      /\ line.requirements = Cell(List(SetToSeq(pairs)), sanitized)
  <2> HIDE DEF pairs
  <2>q. QED
    BY <1>1, <1>2 DEF Line
<1> HIDE DEF line, pairs
<1>8. line.headcount = Number(e.headcount) /\ line.requirements = List(SetToSeq(pairs))
  BY <1>3, <1>7 DEF Cell, Sanitized, identity_sanitizer, Number, List
<1>9. /\ IsCell(line.id) /\ IsCell(line.name) /\ IsCell(line.district)
      /\ IsCell(line.headcount) /\ IsCell(line.requirements)
  <2>1. IsCell(e.id) /\ IsCell(e.name) /\ IsCell(e.district)
    BY DEF IsEntity
  <2>2. /\ IsCell(Cell(e.id, sanitized)) /\ IsCell(Cell(e.name, sanitized))
        /\ IsCell(Cell(e.district, sanitized))
    BY <2>1, CellsStayCells
  <2>3. IsCell(Number(e.headcount))
    BY <1>3, ExportedCells
  <2>q. QED
    BY <1>6, <1>7, <1>8, <2>2, <2>3
<1>10. IsRow("facility", line)
  BY <1>7, <1>9 DEF IsRow, Columns
<1>q. QED
  BY <1>4, <1>5, <1>7, <1>8, <1>10 DEF line, pairs

\* Records with the same columns are equal if their columns are.
LEMMA SameColumns ==
    ASSUME NEW C, NEW f, NEW g, f = [c \in C |-> f[c]], g = [c \in C |-> g[c]],
           \A c \in C : f[c] = g[c]
    PROVE  f = g
OBVIOUS

\* What a line of a download is built into, sanitised or not, if it is not refused.
LEMMA DistrictsComeBack ==
    ASSUME NEW e, IsEntity("district", e), NEW sanitized \in BOOLEAN
    PROVE  LET line == Line("district", e, sanitized)
               d == BuildDistrict(line)
           IN  /\ ~sanitized => d = e
               /\ sanitized /\ d # Error => Line("district", d, TRUE) = Line("district", d, FALSE)
<1> DEFINE columns == {"id", "name", "latitude", "longitude"}
           line == Line("district", e, sanitized)
           d == BuildDistrict(line)
<1>1. /\ e = [column \in columns |-> e[column]]
      /\ CoordinatesAccepted(e.latitude, e.longitude)
  BY DEF IsEntity, Columns
<1>2. /\ IsRow("district", line)
      /\ line.id = Cell(e.id, sanitized) /\ line.name = Cell(e.name, sanitized)
      /\ line.latitude = Cell(Number(e.latitude), sanitized)
      /\ line.longitude = Cell(Number(e.longitude), sanitized)
  BY DistrictLines
<1>3. line = [column \in columns |-> line[column]]
  BY <1>2 DEF IsRow, Columns
<1>4. CASE ~sanitized
  <2>1. /\ line.id = e.id /\ line.name = e.name
        /\ line.latitude = Number(e.latitude) /\ line.longitude = Number(e.longitude)
    BY <1>2, <1>4 DEF Cell, identity_sanitizer
  <2> HIDE DEF line
  <2>2. d = [line EXCEPT !.latitude = e.latitude, !.longitude = e.longitude]
    BY <1>1, <2>1 DEF BuildDistrict, IsNumber, Number
  <2> HIDE DEF d
  <2>3. /\ d = [column \in columns |-> d[column]]
        /\ \A column \in columns : d[column] = e[column]
    BY <1>3, <2>1, <2>2
  <2>4. d = e
    BY <1>1, <2>3, SameColumns
  <2>q. QED
    BY <1>4, <2>4 DEF d, line
<1>5. CASE sanitized /\ d # Error
  <2> HIDE DEF line
  <2>1. /\ IsNumber(line.latitude) /\ IsNumber(line.longitude)
        /\ d = [line EXCEPT !.latitude = line.latitude[2], !.longitude = line.longitude[2]]
    BY <1>5 DEF BuildDistrict
  <2>2. /\ Sanitized(Number(e.latitude)) = Number(e.latitude)
        /\ Sanitized(Number(e.longitude)) = Number(e.longitude)
        /\ line.latitude = Number(e.latitude) /\ line.longitude = Number(e.longitude)
    BY <1>2, <1>5, <2>1 DEF Cell, Sanitized, IsNumber, Number
  <2>3. /\ d.id = Sanitized(e.id) /\ d.name = Sanitized(e.name)
        /\ d.latitude = e.latitude /\ d.longitude = e.longitude
    <3>1. /\ d.id = line.id /\ d.name = line.name
          /\ d.latitude = line.latitude[2] /\ d.longitude = line.longitude[2]
      <4> HIDE DEF d
      <4>q. QED
        BY <1>3, <2>1
    <3> HIDE DEF d
    <3>q. QED
      BY <1>2, <1>5, <2>2, <3>1 DEF Cell, Number
  <2>4. IsEntity("district", d)
    BY <1>2, <1>5, DistrictIsBuilt
  <2> HIDE DEF d
  <2> DEFINE safe == Line("district", d, TRUE)
             plain == Line("district", d, FALSE)
  <2>5. /\ safe.id = Cell(d.id, TRUE) /\ safe.name = Cell(d.name, TRUE)
        /\ safe.latitude = Cell(Number(d.latitude), TRUE)
        /\ safe.longitude = Cell(Number(d.longitude), TRUE)
        /\ safe = [column \in columns |-> safe[column]]
    BY <2>4, DistrictLines DEF IsRow, Columns
  <2>6. /\ plain.id = Cell(d.id, FALSE) /\ plain.name = Cell(d.name, FALSE)
        /\ plain.latitude = Cell(Number(d.latitude), FALSE)
        /\ plain.longitude = Cell(Number(d.longitude), FALSE)
        /\ plain = [column \in columns |-> plain[column]]
    BY <2>4, DistrictLines DEF IsRow, Columns
  <2> HIDE DEF safe, plain
  <2>7. \A column \in columns : safe[column] = plain[column]
    BY <2>2, <2>3, <2>5, <2>6, SanitizedOnce DEF Cell, identity_sanitizer
  <2>8. safe = plain
    BY <2>5, <2>6, <2>7, SameColumns
  <2>q. QED
    BY <1>5, <2>8 DEF safe, plain, d, line
<1>q. QED
  BY <1>4, <1>5

\* The same of a person.
LEMMA StaffComeBack ==
    ASSUME NEW e, IsEntity("staff", e), NEW sanitized \in BOOLEAN
    PROVE  LET line == Line("staff", e, sanitized)
               d == BuildStaff(line)
           IN  /\ ~sanitized => d = e
               /\ sanitized /\ d # Error => Line("staff", d, TRUE) = Line("staff", d, FALSE)
<1> DEFINE columns == {"id", "name", "department", "job", "position", "district",
                       "qualifications"}
           line == Line("staff", e, sanitized)
           labels == {ToJapanese(q) : q \in e.qualifications}
           items == SetToSeq(labels)
           d == BuildStaff(line)
<1>1. /\ e = [column \in columns |-> e[column]]
      /\ e.district \in KnownDistricts /\ e.department \in KnownDepartments
      /\ e.name # Blank /\ e.job \in JobType /\ e.position \in Position
      /\ e.qualifications \subseteq Qualification
  BY DEF IsEntity, Columns
<1>2. /\ IsRow("staff", line)
      /\ line.id = Cell(e.id, sanitized) /\ line.name = Cell(e.name, sanitized)
      /\ line.department = Cell(e.department, sanitized)
      /\ line.district = Cell(e.district, sanitized)
      /\ line.job = ToJapanese(e.job) /\ line.position = ToJapanese(e.position)
      /\ SplitList(line.qualifications) = items
      /\ items \in [1 .. Cardinality(labels) -> labels] /\ Range(items) = labels
  BY StaffLines
<1>3. line = [column \in columns |-> line[column]]
  BY <1>2 DEF IsRow, Columns
<1>4. /\ \A i \in DOMAIN items : IsLabelOf(Qualification, items[i])
      /\ {items[i][2] : i \in DOMAIN items} = e.qualifications
  <2>1. \A label \in labels : \E q \in e.qualifications : label[1] = "label" /\ label[2] = q
    BY DEF ToJapanese
  <2>2. \A q \in e.qualifications : ToJapanese(q) \in labels /\ ToJapanese(q)[2] = q
    BY DEF ToJapanese
  <2> HIDE DEF labels, items
  <2>3. \A i \in DOMAIN items : items[i] \in labels
    BY <1>2
  <2>4. \A label \in labels : \E i \in DOMAIN items : items[i] = label
    BY <1>2 DEF Range
  <2>q. QED
    BY <1>1, <2>1, <2>2, <2>3, <2>4 DEF IsLabelOf
<1> HIDE DEF line, items
<1>5. ASSUME d # Error
      PROVE  d = [line EXCEPT !.job = e.job, !.position = e.position,
                              !.qualifications = e.qualifications]
  <2>1. d = [line EXCEPT !.job = line.job[2], !.position = line.position[2],
                         !.qualifications = {items[i][2] : i \in DOMAIN items}]
    BY <1>2, <1>5 DEF BuildStaff
  <2>2. /\ line.job[2] = e.job /\ line.position[2] = e.position
        /\ {items[i][2] : i \in DOMAIN items} = e.qualifications
    BY <1>2, <1>4 DEF ToJapanese
  <2> HIDE DEF d
  <2>q. QED
    BY <2>1, <2>2
<1>6. CASE ~sanitized
  <2>1. /\ line.id = e.id /\ line.name = e.name
        /\ line.department = e.department /\ line.district = e.district
    BY <1>2, <1>6 DEF Cell, identity_sanitizer
  <2>2. d # Error
    <3>1. IsLabelOf(JobType, line.job) /\ IsLabelOf(Position, line.position)
      BY <1>1, <1>2 DEF IsLabelOf, ToJapanese
    <3>2. d = [line EXCEPT !.job = line.job[2], !.position = line.position[2],
                           !.qualifications = {items[i][2] : i \in DOMAIN items}]
      BY <1>1, <1>2, <1>4, <2>1, <3>1 DEF BuildStaff
    <3>3. "id" \in DOMAIN d
      BY <1>3, <3>2
    <3>q. QED
      BY <3>3 DEF Error
  <2> HIDE DEF d
  <2>3. /\ d = [column \in columns |-> d[column]]
        /\ \A column \in columns : d[column] = e[column]
    BY <1>3, <1>5, <2>1, <2>2
  <2>4. d = e
    BY <1>1, <2>3, SameColumns
  <2>q. QED
    BY <1>6, <2>4 DEF d, line
<1>7. CASE sanitized /\ d # Error
  <2>1. /\ d.id = Sanitized(e.id) /\ d.name = Sanitized(e.name)
        /\ d.department = Sanitized(e.department) /\ d.district = Sanitized(e.district)
        /\ d.job = e.job /\ d.position = e.position /\ d.qualifications = e.qualifications
    BY <1>2, <1>3, <1>5, <1>7 DEF Cell
  <2>2. IsEntity("staff", d)
    BY <1>2, <1>7, StaffIsBuilt
  <2> HIDE DEF d
  <2> DEFINE safe == Line("staff", d, TRUE)
             plain == Line("staff", d, FALSE)
  <2>3. /\ safe.id = Cell(d.id, TRUE) /\ safe.name = Cell(d.name, TRUE)
        /\ safe.department = Cell(d.department, TRUE)
        /\ safe.district = Cell(d.district, TRUE)
        /\ safe.job = ToJapanese(d.job) /\ safe.position = ToJapanese(d.position)
        /\ safe.qualifications = List(SetToSeq({ToJapanese(q) : q \in d.qualifications}))
        /\ safe = [column \in columns |-> safe[column]]
    BY <2>2, StaffLines DEF IsRow, Columns
  <2>4. /\ plain.id = Cell(d.id, FALSE) /\ plain.name = Cell(d.name, FALSE)
        /\ plain.department = Cell(d.department, FALSE)
        /\ plain.district = Cell(d.district, FALSE)
        /\ plain.job = ToJapanese(d.job) /\ plain.position = ToJapanese(d.position)
        /\ plain.qualifications = List(SetToSeq({ToJapanese(q) : q \in d.qualifications}))
        /\ plain = [column \in columns |-> plain[column]]
    BY <2>2, StaffLines DEF IsRow, Columns
  <2> HIDE DEF safe, plain
  <2>5. \A column \in columns : safe[column] = plain[column]
    BY <2>1, <2>3, <2>4, SanitizedOnce DEF Cell, identity_sanitizer
  <2>6. safe = plain
    BY <2>3, <2>4, <2>5, SameColumns
  <2>q. QED
    BY <1>7, <2>6 DEF safe, plain, d, line
<1>q. QED
  BY <1>6, <1>7 DEF line

\* The same of a facility, whose requirements come back in some order.
LEMMA FacilitiesComeBack ==
    ASSUME NEW e, IsEntity("facility", e), NEW sanitized \in BOOLEAN
    PROVE  LET line == Line("facility", e, sanitized)
               d == BuildFacility(line)
           IN  /\ ~sanitized => d = e
               /\ sanitized /\ d # Error => Line("facility", d, TRUE) = Line("facility", d, FALSE)
<1> DEFINE columns == {"id", "name", "district", "headcount", "requirements"}
           line == Line("facility", e, sanitized)
           pairs == {<<"pair", ToJapanese(r[1]), Number(r[2])>> : r \in e.requirements}
           items == SetToSeq(pairs)
           R == [i \in DOMAIN items |-> <<items[i][2][2], items[i][3][2]>>]
           d == BuildFacility(line)
<1>1. /\ e = [column \in columns |-> e[column]]
      /\ e.district \in KnownDistricts /\ e.headcount \in Int
      /\ e.requirements \subseteq Requirable \X Int
      /\ FacilityAccepted(e.headcount, [r \in e.requirements |-> r])
  BY DEF IsEntity, Columns
<1>2. /\ IsRow("facility", line)
      /\ line.id = Cell(e.id, sanitized) /\ line.name = Cell(e.name, sanitized)
      /\ line.district = Cell(e.district, sanitized)
      /\ line.headcount = Number(e.headcount)
      /\ SplitList(line.requirements) = items
      /\ IsFiniteSet(pairs)
  BY FacilityLines
<1>3. line = [column \in columns |-> line[column]]
  BY <1>2 DEF IsRow, Columns
<1>4. /\ Cardinality(pairs) \in Nat /\ items \in [1 .. Cardinality(pairs) -> pairs]
      /\ \A i, j \in 1 .. Cardinality(pairs) : items[i] = items[j] => i = j
      /\ Range(items) = pairs
  <2> HIDE DEF pairs
  <2>q. QED
    BY <1>2, SetToSeqEnumerates
<1>5. \A pair \in pairs : /\ IsRequirement(pair)
                          /\ <<pair[2][2], pair[3][2]>> \in e.requirements
                          /\ pair = <<"pair", ToJapanese(pair[2][2]), Number(pair[3][2])>>
  <2> SUFFICES ASSUME NEW r \in e.requirements
               PROVE  LET pair == <<"pair", ToJapanese(r[1]), Number(r[2])>>
                      IN  /\ IsRequirement(pair)
                          /\ <<pair[2][2], pair[3][2]>> \in e.requirements
                          /\ pair = <<"pair", ToJapanese(pair[2][2]), Number(pair[3][2])>>
    OBVIOUS
  <2>1. r = <<r[1], r[2]>> /\ r[1] \in Requirable
    BY <1>1
  <2>q. QED
    BY <2>1 DEF IsRequirement, IsLabelOf, IsNumber, ToJapanese, Number
<1>6. \A r \in e.requirements :
          \E pair \in pairs : r = <<pair[2][2], pair[3][2]>>
  <2> SUFFICES ASSUME NEW r \in e.requirements
               PROVE  \E pair \in pairs : r = <<pair[2][2], pair[3][2]>>
    OBVIOUS
  <2> DEFINE pair == <<"pair", ToJapanese(r[1]), Number(r[2])>>
  <2>1. pair \in pairs
    OBVIOUS
  <2>2. r = <<r[1], r[2]>>
    BY <1>1
  <2>3. pair[2][2] = r[1] /\ pair[3][2] = r[2]
    BY DEF ToJapanese, Number
  <2> HIDE DEF pair, pairs
  <2>q. QED
    BY <2>1, <2>2, <2>3
<1> HIDE DEF line, pairs, items
<1>7. /\ Range(R) = e.requirements
      /\ R \in [DOMAIN items -> Requirable \X Int]
      /\ \A i, j \in DOMAIN items : R[i] = R[j] => i = j
  <2>1. \A i \in DOMAIN items : items[i] \in pairs /\ R[i] \in e.requirements
    BY <1>4, <1>5
  <2>2. \A r \in e.requirements : \E i \in DOMAIN items : R[i] = r
    BY <1>4, <1>6 DEF Range
  <2>3. \A i, j \in DOMAIN items : R[i] = R[j] => i = j
    <3> SUFFICES ASSUME NEW i \in DOMAIN items, NEW j \in DOMAIN items, R[i] = R[j]
                 PROVE  items[i] = items[j]
      BY <1>4
    <3>1. items[i][2][2] = items[j][2][2] /\ items[i][3][2] = items[j][3][2]
      OBVIOUS
    <3>q. QED
      BY <1>5, <2>1, <3>1
  <2>4. DOMAIN R = DOMAIN items
    OBVIOUS
  <2>5. R \in [DOMAIN items -> e.requirements]
    BY <2>1
  <2> HIDE DEF R
  <2>q. QED
    BY <1>1, <2>1, <2>2, <2>3, <2>4, <2>5 DEF Range
<1>8. FacilityAccepted(e.headcount, R)
  <2>1. IsFiniteSet(DOMAIN items)
    BY <1>4, FS_Interval
  <2> HIDE DEF R
  <2>q. QED
    BY <1>1, <1>7, <2>1, AcceptedAlike
<1>9. \A i \in DOMAIN items : IsRequirement(items[i])
  BY <1>4, <1>5
<1>10. /\ IsNumber(line.headcount) /\ line.headcount[2] = e.headcount
  BY <1>2 DEF IsNumber, Number
<1>11. ASSUME d # Error
       PROVE  d = [line EXCEPT !.headcount = e.headcount, !.requirements = e.requirements]
  <2>1. d = [line EXCEPT !.headcount = line.headcount[2], !.requirements = Range(R)]
    BY <1>2, <1>11 DEF BuildFacility
  <2> HIDE DEF d, R
  <2>q. QED
    BY <1>7, <1>10, <2>1
<1>12. CASE ~sanitized
  <2>1. line.id = e.id /\ line.name = e.name /\ line.district = e.district
    BY <1>2, <1>12 DEF Cell, identity_sanitizer
  <2>2. d # Error
    <3>1. d = [line EXCEPT !.headcount = line.headcount[2], !.requirements = Range(R)]
      BY <1>1, <1>2, <1>8, <1>9, <1>10, <2>1 DEF BuildFacility
    <3> HIDE DEF d, R
    <3>2. "id" \in DOMAIN d
      BY <1>3, <3>1
    <3>q. QED
      BY <3>2 DEF Error
  <2> HIDE DEF d
  <2>3. /\ d = [column \in columns |-> d[column]]
        /\ \A column \in columns : d[column] = e[column]
    BY <1>2, <1>3, <1>10, <1>11, <2>1, <2>2
  <2>4. d = e
    BY <1>1, <2>3, SameColumns
  <2>q. QED
    BY <1>12, <2>4 DEF d, line
<1>13. CASE sanitized /\ d # Error
  <2>1. /\ d.id = Sanitized(e.id) /\ d.name = Sanitized(e.name)
        /\ d.district = Sanitized(e.district)
        /\ d.headcount = e.headcount /\ d.requirements = e.requirements
    <3> HIDE DEF d
    <3>q. QED
      BY <1>2, <1>3, <1>11, <1>13 DEF Cell
  <2>2. IsEntity("facility", d)
    BY <1>2, <1>13, FacilityIsBuilt
  <2> HIDE DEF d
  <2> DEFINE safe == Line("facility", d, TRUE)
             plain == Line("facility", d, FALSE)
             back == {<<"pair", ToJapanese(r[1]), Number(r[2])>> : r \in d.requirements}
  <2>3. /\ safe.id = Cell(d.id, TRUE) /\ safe.name = Cell(d.name, TRUE)
        /\ safe.district = Cell(d.district, TRUE)
        /\ safe.headcount = Number(d.headcount)
        /\ safe.requirements = List(SetToSeq(back))
        /\ safe = [column \in columns |-> safe[column]]
    BY <2>2, FacilityLines DEF IsRow, Columns
  <2>4. /\ plain.id = Cell(d.id, FALSE) /\ plain.name = Cell(d.name, FALSE)
        /\ plain.district = Cell(d.district, FALSE)
        /\ plain.headcount = Number(d.headcount)
        /\ plain.requirements = List(SetToSeq(back))
        /\ plain = [column \in columns |-> plain[column]]
    BY <2>2, FacilityLines DEF IsRow, Columns
  <2> HIDE DEF safe, plain, back
  <2>5. \A column \in columns : safe[column] = plain[column]
    BY <2>1, <2>3, <2>4, SanitizedOnce DEF Cell, identity_sanitizer
  <2>6. safe = plain
    BY <2>3, <2>4, <2>5, SameColumns
  <2>q. QED
    BY <1>13, <2>6 DEF safe, plain, d, line
<1>q. QED
  BY <1>12, <1>13 DEF line

\* The three kinds together.
LEMMA LinesComeBack ==
    ASSUME NEW kind \in DOMAIN Columns, kind # "declaration",
           NEW e, IsEntity(kind, e), NEW sanitized \in BOOLEAN
    PROVE  LET line == Line(kind, e, sanitized)
               d == Build(kind, line)
           IN  /\ IsRow(kind, line)
               /\ ~sanitized => d = e
               /\ sanitized /\ d # Error => Line(kind, d, TRUE) = Line(kind, d, FALSE)
<1>1. kind \in {"district", "staff", "facility"}
  BY DEF Columns
<1>2. CASE kind = "district"
  <2>1. Build(kind, Line(kind, e, sanitized)) = BuildDistrict(Line("district", e, sanitized))
    BY <1>2 DEF Build
  <2>q. QED
    BY <1>2, <2>1, DistrictLines, DistrictsComeBack
<1>3. CASE kind = "staff"
  <2>1. Build(kind, Line(kind, e, sanitized)) = BuildStaff(Line("staff", e, sanitized))
    BY <1>3 DEF Build
  <2>2. IsRow("staff", Line("staff", e, sanitized))
    BY <1>3, StaffLines
  <2>q. QED
    BY <1>3, <2>1, <2>2, StaffComeBack
<1>4. CASE kind = "facility"
  <2>1. Build(kind, Line(kind, e, sanitized)) = BuildFacility(Line("facility", e, sanitized))
    BY <1>4 DEF Build
  <2>2. IsRow("facility", Line("facility", e, sanitized))
    BY <1>4, FacilityLines
  <2>q. QED
    BY <1>4, <2>1, <2>2, FacilitiesComeBack
<1>q. QED
  BY <1>1, <1>2, <1>3, <1>4

\* Without a sanitizer a line has the cells of its entity.
LEMMA PlainLinesAreCells ==
    ASSUME NEW kind, NEW e
    PROVE  Line(kind, e, FALSE) = Cells(kind, e)
BY DEF Line, Cell, identity_sanitizer, Cells

\* A download has a line for each entity, or one for several that sanitising made alike.
LEMMA DownloadsHaveLines ==
    ASSUME NEW kind \in DOMAIN Columns, kind # "declaration",
           NEW E, IsStorable(kind, E), NEW sanitized \in BOOLEAN
    PROVE  LET rows == Exported(kind, E, sanitized)
           IN  /\ Len(rows) \in Nat /\ DOMAIN rows = 1 .. Len(rows)
               /\ Range(rows) = {Line(kind, e, sanitized) : e \in E}
               /\ \A i, j \in DOMAIN rows : rows[i] = rows[j] => i = j
               /\ \A i \in DOMAIN rows : IsRow(kind, rows[i])
<1> DEFINE lines == {Line(kind, e, sanitized) : e \in E}
           rows == SetToSeq(lines)
           n == Cardinality(lines)
<1>1. IsFiniteSet(lines)
  <2>1. [e \in E |-> Line(kind, e, sanitized)] \in Surjection(E, lines)
    BY DEF Surjection
  <2> HIDE DEF lines
  <2>q. QED
    BY <2>1, FS_Surjection DEF IsStorable
<1>2. \A line \in lines : IsRow(kind, line)
  BY LinesComeBack DEF IsStorable
<1> HIDE DEF lines
<1>3. /\ n \in Nat /\ rows \in [1 .. n -> lines] /\ Range(rows) = lines
      /\ \A i, j \in 1 .. n : rows[i] = rows[j] => i = j
  BY <1>1, SetToSeqEnumerates
<1> HIDE DEF rows, n
<1>4. Len(rows) = n /\ DOMAIN rows = 1 .. n
  <2>1. rows \in Seq(lines)
    BY <1>3
  <2>q. QED
    BY <1>3, <2>1
<1>5. Exported(kind, E, sanitized) = rows
  BY DEF Exported, rows, lines
<1>6. \A i \in DOMAIN rows : IsRow(kind, rows[i])
  BY <1>2, <1>3
<1>q. QED
  BY <1>3, <1>4, <1>5, <1>6 DEF lines

\* A download whose cells are those of the entities is accepted, as the same entities.
LEMMA HarmlessDownloadsComeBack ==
    ASSUME NEW kind \in DOMAIN Columns, kind # "declaration",
           NEW E, IsStorable(kind, E), NEW sanitized \in BOOLEAN,
           ~sanitized \/ Harmless(kind, E)
    PROVE  LET rows == Exported(kind, E, sanitized)
           IN  /\ \A i \in DOMAIN rows : ~Faulty(kind, rows, i)
               /\ {Build(kind, rows[i]) : i \in DOMAIN rows} = E
<1> DEFINE rows == Exported(kind, E, sanitized)
<1>1. /\ Len(rows) \in Nat /\ DOMAIN rows = 1 .. Len(rows)
      /\ Range(rows) = {Line(kind, e, sanitized) : e \in E}
      /\ \A i, j \in DOMAIN rows : rows[i] = rows[j] => i = j
      /\ \A i \in DOMAIN rows : IsRow(kind, rows[i])
  BY DownloadsHaveLines
<1>2. Range(rows) = {Line(kind, e, FALSE) : e \in E}
  <2>1. CASE ~sanitized
    BY <1>1, <2>1
  <2>2. CASE sanitized
    <3>1. {Cells(kind, e) : e \in E} = Range(rows)
      BY <2>2 DEF Harmless, ToSet, Range
    <3>2. {Cells(kind, e) : e \in E} = {Line(kind, e, FALSE) : e \in E}
      BY PlainLinesAreCells
    <3>q. QED
      BY <3>1, <3>2
  <2>q. QED
    BY <2>1, <2>2
<1> HIDE DEF rows
<1>3. \A e \in E : /\ IsEntity(kind, e) /\ e # Error
                   /\ Build(kind, Line(kind, e, FALSE)) = e
  BY LinesComeBack, EntitiesAreNoErrors DEF IsStorable
<1>4. \A i \in DOMAIN rows : \E e \in E : rows[i] = Line(kind, e, FALSE)
  BY <1>2 DEF Range
<1>5. \A i \in DOMAIN rows : /\ Build(kind, rows[i]) \in E
                             /\ Build(kind, rows[i]) # Error
                             /\ rows[i] = Line(kind, Build(kind, rows[i]), FALSE)
  BY <1>3, <1>4
<1>6. \A e \in E : \E i \in DOMAIN rows : Build(kind, rows[i]) = e
  BY <1>2, <1>3 DEF Range
<1>7. ASSUME NEW i \in DOMAIN rows, Faulty(kind, rows, i) PROVE FALSE
  <2>1. PICK j \in 1 .. i - 1 : KeysSeen(kind, rows[i]) \cap KeysSeen(kind, rows[j]) # {}
    BY <1>5, <1>7 DEF Faulty
  <2>2. j \in DOMAIN rows /\ j # i
    BY <1>1
  <2>3. /\ KeysSeen(kind, rows[i]) = {KeyOf(kind, Build(kind, rows[i]))}
        /\ KeysSeen(kind, rows[j]) = {KeyOf(kind, Build(kind, rows[j]))}
    BY <1>1, <1>5, <2>2, EntitiesAreBuilt
  <2>4. Build(kind, rows[i]) = Build(kind, rows[j])
    BY <1>5, <2>1, <2>2, <2>3 DEF IsStorable
  <2>q. QED
    BY <1>1, <1>5, <2>2, <2>4
<1>q. QED
  BY <1>5, <1>6, <1>7 DEF rows

\* Sanitising changes no cell of what is built of sanitised lines.
LEMMA WhatComesBackIsHarmless ==
    ASSUME NEW kind \in DOMAIN Columns, kind # "declaration",
           NEW E, IsStorable(kind, E),
           LET rows == Exported(kind, E, TRUE)
           IN  /\ \A i \in DOMAIN rows : ~Faulty(kind, rows, i)
               /\ {Build(kind, rows[i]) : i \in DOMAIN rows} = E
    PROVE  Harmless(kind, E)
<1> DEFINE rows == Exported(kind, E, TRUE)
<1>1. Range(rows) = {Line(kind, e, TRUE) : e \in E}
  BY DownloadsHaveLines
<1> HIDE DEF rows
<1>2. ASSUME NEW e \in E PROVE Line(kind, e, TRUE) = Cells(kind, e)
  <2>1. PICK i \in DOMAIN rows : e = Build(kind, rows[i]) /\ e # Error
    BY DEF Faulty, rows
  <2>2. PICK d \in E : rows[i] = Line(kind, d, TRUE)
    BY <1>1 DEF Range
  <2>3. IsEntity(kind, d)
    BY DEF IsStorable
  <2>4. Line(kind, e, TRUE) = Line(kind, e, FALSE)
    BY <2>1, <2>2, <2>3, LinesComeBack
  <2>q. QED
    BY <2>4, PlainLinesAreCells
<1>3. {Cells(kind, e) : e \in E} = Range(rows)
  BY <1>1, <1>2
<1>q. QED
  BY <1>3 DEF Harmless, ToSet, Range, rows

-----------------------------------------------------------------------------
(* The file on its way. *)

\* A file that has just been sent owes nothing but its rows.
LEMMA FileInitIsFaithful == ASSUME FileInit PROVE ImportsAreFaithful
<1>1. PICK kind \in Kinds : \E rows \in Files[kind] : file = Sent(kind, rows)
  BY DEF FileInit
<1>2. PICK rows \in Files[kind] : file = Sent(kind, rows)
  BY <1>1
<1>3. /\ file.kind = kind /\ file.rows = rows /\ file.stage = "sent" /\ file.leg = "first"
  BY <1>2 DEF Sent
<1>4. FileIsAccounted
  BY <1>2, <1>3, RecordsAssumption DEF FileIsAccounted, IsFile
<1>q. QED
  BY <1>3, <1>4 DEF ImportsAreFaithful, BadLinesAreAllReported, StoredReadsBack, DownloadsComeBack

\* The lines reported are those in error.
LEMMA ReportedLines ==
    ASSUME NEW kind, NEW n \in Nat, NEW rows, DOMAIN rows = 1 .. n
    PROVE  LET lines == Import(kind, rows).lines
           IN  \A i \in DOMAIN rows : i + 1 \in lines <=> Faulty(kind, rows, i)
<1> DEFINE faulty == {i \in DOMAIN rows : Faulty(kind, rows, i)}
<1>1. Import(kind, rows).lines = {i + 1 : i \in faulty}
  BY DEF Import
<1>2. \A i \in 1 .. n : i \in faulty <=> Faulty(kind, rows, i)
  OBVIOUS
<1> HIDE DEF faulty
<1>3. faulty \subseteq 1 .. n
  BY DEF faulty
<1>4. \A i \in 1 .. n : i + 1 \in {j + 1 : j \in faulty} <=> i \in faulty
  BY <1>3
<1>q. QED
  BY <1>1, <1>2, <1>4

\* A refused file has a line in error.
LEMMA RefusedFiles ==
    ASSUME NEW kind, NEW n \in Nat, NEW rows, DOMAIN rows = 1 .. n,
           Import(kind, rows).lines # {}
    PROVE  \E i \in DOMAIN rows : Faulty(kind, rows, i)
BY DEF Import

\* An importer saves a file whole or refuses it; the database accepts what it saves.
LEMMA UploadIsFaithful == ASSUME ImportsAreFaithful, Upload PROVE ImportsAreFaithful'
<1> DEFINE kind == file.kind
           rows == file.rows
           got == Import(kind, rows)
<1>1. /\ kind \in Kinds /\ kind \in DOMAIN Columns
      /\ Len(rows) \in Nat /\ DOMAIN rows = 1 .. Len(rows)
      /\ \A i \in DOMAIN rows : IsRow(kind, rows[i])
  BY RecordsAssumption DEF ImportsAreFaithful, FileIsAccounted, IsFile
<1>2. file.stage = "sent" /\ file.leg \in {"first", "corrected", "download"}
  BY DEF Upload, ImportsAreFaithful, FileIsAccounted
<1>3. DOMAIN file = {"kind", "rows", "stage", "lines", "tables", "leg", "built", "original",
                     "sanitized"}
  BY DEF ImportsAreFaithful, FileIsAccounted, Sent
<1>4. file.leg = "corrected" => \A i \in DOMAIN rows : ~Faulty(kind, rows, i)
  BY DEF ImportsAreFaithful, FileIsAccounted
<1>5. file.leg = "download" =>
         /\ kind # "declaration" /\ file.sanitized \in BOOLEAN
         /\ IsStorable(kind, file.original)
         /\ rows = Exported(kind, file.original, file.sanitized)
  BY DEF ImportsAreFaithful, FileIsAccounted
<1> DEFINE same == ~file.sanitized \/ Harmless(kind, file.original)
<1>6. file.leg = "download" /\ same =>
         /\ \A i \in DOMAIN rows : ~Faulty(kind, rows, i)
         /\ {Build(kind, rows[i]) : i \in DOMAIN rows} = file.original
  BY <1>1, <1>5, HarmlessDownloadsComeBack
<1>7. CASE got.lines # {}
  <2>1. file' = [file EXCEPT !.stage = "refused", !.lines = got.lines]
    BY <1>7 DEF Upload
  <2>2. /\ file'.kind = kind /\ file'.rows = rows /\ file'.stage = "refused"
        /\ file'.lines = got.lines /\ file'.leg = file.leg /\ file'.sanitized = file.sanitized
        /\ file'.original = file.original /\ DOMAIN file' = DOMAIN file
    BY <1>3, <2>1
  <2>3. ~\A i \in DOMAIN rows : ~Faulty(kind, rows, i)
    BY <1>1, <1>7, RefusedFiles
  <2> HIDE DEF got
  <2>4. FileIsAccounted'
    <3>1. DOMAIN file' = DOMAIN Sent(file'.kind, file'.rows)
      BY <1>3, <2>2 DEF Sent
    <3>2. file'.lines = Import(file'.kind, file'.rows).lines
      BY <2>2 DEF got
    <3>q. QED
      BY <1>1, <1>2, <1>4, <1>5, <2>2, <3>1, <3>2 DEF FileIsAccounted, IsFile
  <2>5. DownloadsComeBack'
    BY <1>6, <2>2, <2>3 DEF DownloadsComeBack
  <2>6. file.leg # "corrected"
    BY <1>4, <2>3
  <2>q. QED
    BY <2>2, <2>4, <2>5, <2>6 DEF ImportsAreFaithful, BadLinesAreAllReported, StoredReadsBack
<1>8. CASE got.lines = {}
  <2>1. \A i \in DOMAIN rows : ~Faulty(kind, rows, i)
    BY <1>1, <1>8, ReportedLines
  <2>2. /\ got.saved = {Build(kind, rows[i]) : i \in DOMAIN rows}
        /\ IsStorable(kind, got.saved) /\ Cardinality(got.saved) = Len(rows)
    BY <1>1, <2>1, AcceptedFilesAreStorable
  <2>3. /\ SchemaAdmits(kind, Inserted(kind, got.saved))
        /\ Found(kind, Inserted(kind, got.saved)) = got.saved
    <3> HIDE DEF got
    <3>q. QED
      BY <1>1, <2>2, StorableReadsBack
  <2>4. file' = [file EXCEPT !.stage = "stored", !.tables = Inserted(kind, got.saved),
                             !.built = got.saved]
    BY <1>8, <2>3 DEF Upload
  <2>5. /\ file'.kind = kind /\ file'.rows = rows /\ file'.stage = "stored"
        /\ file'.leg = file.leg /\ file'.sanitized = file.sanitized
        /\ file'.original = file.original /\ DOMAIN file' = DOMAIN file
        /\ file'.built = got.saved /\ file'.tables = Inserted(kind, got.saved)
    BY <1>3, <2>4
  <2> HIDE DEF got
  <2>6. FileIsAccounted'
    <3>1. DOMAIN file' = DOMAIN Sent(file'.kind, file'.rows)
      BY <1>3, <2>5 DEF Sent
    <3>2. file'.built = Import(file'.kind, file'.rows).saved
      BY <2>5 DEF got
    <3>q. QED
      BY <1>1, <1>2, <1>5, <2>1, <2>5, <3>1, <3>2 DEF FileIsAccounted, IsFile
  <2>7. file.leg = "download" => (got.saved = file.original <=> same)
    <3>1. file.leg = "download" /\ got.saved = file.original /\ file.sanitized
              => Harmless(kind, file.original)
      <4> SUFFICES ASSUME file.leg = "download", got.saved = file.original, file.sanitized
                   PROVE  Harmless(kind, file.original)
        OBVIOUS
      <4> DEFINE lines == Exported(kind, file.original, TRUE)
      <4>1. kind # "declaration" /\ IsStorable(kind, file.original) /\ rows = lines
        BY <1>5
      <4> HIDE DEF lines, rows, kind
      <4>2. /\ \A i \in DOMAIN lines : ~Faulty(kind, lines, i)
            /\ {Build(kind, lines[i]) : i \in DOMAIN lines} = file.original
        BY <2>1, <2>2, <4>1
      <4>q. QED
        BY <1>1, <4>1, <4>2, WhatComesBackIsHarmless DEF lines
    <3>q. QED
      BY <1>6, <2>2, <3>1
  <2>8. DownloadsComeBack'
    BY <2>5, <2>7 DEF DownloadsComeBack
  <2>q. QED
    BY <2>2, <2>3, <2>5, <2>6, <2>8 DEF ImportsAreFaithful, BadLinesAreAllReported, StoredReadsBack
<1>q. QED
  BY <1>7, <1>8

\* Without the lines that were reported a file has no line in error.
LEMMA CorrectIsFaithful == ASSUME ImportsAreFaithful, Correct PROVE ImportsAreFaithful'
<1> DEFINE kind == file.kind
           rows == file.rows
           m == Len(rows)
           good == {i \in DOMAIN rows : i + 1 \notin file.lines}
           n == Cardinality(good)
<1>1. /\ kind \in Kinds /\ m \in Nat /\ DOMAIN rows = 1 .. m
      /\ \A i \in DOMAIN rows : IsRow(kind, rows[i])
  BY DEF ImportsAreFaithful, FileIsAccounted, IsFile
<1>2. DOMAIN file = {"kind", "rows", "stage", "lines", "tables", "leg", "built", "original",
                     "sanitized"}
  BY DEF ImportsAreFaithful, FileIsAccounted, Sent
<1>3. file.lines = Import(kind, rows).lines
  BY DEF Correct, ImportsAreFaithful, FileIsAccounted
<1>4. good = {i \in 1 .. m : ~Faulty(kind, rows, i)}
  BY <1>1, <1>3, ReportedLines
<1>5. n \in Nat
  <2>1. good \subseteq 1 .. m /\ IsFiniteSet(1 .. m)
    BY <1>1, FS_Interval
  <2> HIDE DEF good
  <2>q. QED
    BY <2>1, FS_Subset, FS_CardinalityType
<1>6. PICK kept \in [1 .. n -> good] :
          /\ \A i, j \in DOMAIN kept : i < j => kept[i] < kept[j]
          /\ file' = [file EXCEPT !.stage = "sent", !.lines = {}, !.leg = "corrected",
                                  !.rows = [i \in DOMAIN kept |-> rows[kept[i]]]]
  BY DEF Correct
<1> HIDE DEF good, n, rows, kind, m
<1> DEFINE corrected == [i \in 1 .. n |-> rows[kept[i]]]
<1>7. /\ file'.kind = kind /\ file'.rows = corrected /\ file'.stage = "sent"
      /\ file'.leg = "corrected" /\ DOMAIN file' = DOMAIN file
  BY <1>2, <1>6 DEF kind
<1>8. Len(corrected) = n /\ DOMAIN corrected = 1 .. n
  BY <1>5
<1>9. \A i \in DOMAIN corrected : IsRow(kind, corrected[i])
  BY <1>1, <1>4, <1>6
<1>10. \A i \in DOMAIN corrected : ~Faulty(kind, corrected, i)
  <2>1. kept \in [1 .. n -> 1 .. m]
    BY <1>4, <1>6
  <2>2. \A i \in 1 .. n : ~Faulty(kind, rows, kept[i])
    BY <1>4, <1>6
  <2>3. \A i, j \in 1 .. n : i < j => kept[i] < kept[j]
    BY <1>6
  <2>4. \A i \in 1 .. n : corrected[i] = rows[kept[i]]
    OBVIOUS
  <2> HIDE DEF corrected
  <2>5. ASSUME NEW k \in 1 .. n PROVE ~Faulty(kind, corrected, k)
    <3>1. kept[k] \in 1 .. m /\ ~Faulty(kind, rows, kept[k]) /\ corrected[k] = rows[kept[k]]
      BY <2>1, <2>2, <2>4
    <3>2. ASSUME NEW j \in 1 .. k - 1
          PROVE  corrected[j] = rows[kept[j]] /\ kept[j] \in 1 .. kept[k] - 1
      <4>1. j \in 1 .. n /\ j < k
        BY <1>5
      <4>2. kept[j] \in 1 .. m /\ kept[j] < kept[k]
        BY <2>1, <2>3, <4>1
      <4>q. QED
        BY <1>1, <2>4, <3>1, <4>1, <4>2
    <3>q. QED
      BY <3>1, <3>2 DEF Faulty
  <2>q. QED
    BY <1>8, <2>5
<1> HIDE DEF corrected
<1>11. FileIsAccounted'
  <2>1. DOMAIN file' = DOMAIN Sent(file'.kind, file'.rows)
    BY <1>2, <1>7 DEF Sent
  <2>q. QED
    BY <1>1, <1>5, <1>7, <1>8, <1>9, <1>10, <2>1 DEF FileIsAccounted, IsFile
<1>q. QED
  BY <1>7, <1>11 DEF ImportsAreFaithful, BadLinesAreAllReported, StoredReadsBack, DownloadsComeBack

\* What is downloaded is what was built of the stored file.
LEMMA DownloadIsFaithful ==
    ASSUME ImportsAreFaithful, NEW sanitized \in BOOLEAN, Download(sanitized)
    PROVE  ImportsAreFaithful'
<1> DEFINE kind == file.kind
           found == Found(kind, file.tables)
           rows == Exported(kind, found, sanitized)
<1>1. kind \in Kinds /\ kind \in DOMAIN Columns /\ kind # "declaration"
  BY RecordsAssumption DEF Download, ImportsAreFaithful, FileIsAccounted, IsFile
<1>2. IsStorable(kind, found)
  <2>1. /\ Len(file.rows) \in Nat /\ DOMAIN file.rows = 1 .. Len(file.rows)
        /\ \A i \in DOMAIN file.rows : IsRow(kind, file.rows[i])
        /\ \A i \in DOMAIN file.rows : ~Faulty(kind, file.rows, i)
        /\ file.built = Import(kind, file.rows).saved
        /\ found = file.built
    BY DEF Download, ImportsAreFaithful, FileIsAccounted, IsFile, StoredReadsBack
  <2>2. IsStorable(kind, Import(kind, file.rows).saved)
    BY <1>1, <2>1, AcceptedFilesAreStorable
  <2>q. QED
    BY <2>1, <2>2
<1>3. file' = [Sent(kind, rows) EXCEPT !.leg = "download", !.original = found,
                                       !.sanitized = sanitized]
  BY DEF Download
<1> HIDE DEF found
<1>4. /\ Len(rows) \in Nat /\ DOMAIN rows = 1 .. Len(rows)
      /\ \A i \in DOMAIN rows : IsRow(kind, rows[i])
  BY <1>1, <1>2, DownloadsHaveLines
<1>5. /\ file'.kind = kind /\ file'.rows = rows /\ file'.stage = "sent"
      /\ file'.leg = "download" /\ file'.original = found /\ file'.sanitized = sanitized
      /\ DOMAIN file' = DOMAIN Sent(kind, rows)
  BY <1>3 DEF Sent
<1>6. FileIsAccounted'
  BY <1>1, <1>2, <1>4, <1>5 DEF FileIsAccounted, IsFile
<1>q. QED
  BY <1>5, <1>6 DEF ImportsAreFaithful, BadLinesAreAllReported, StoredReadsBack, DownloadsComeBack

\* Files of any length and with any rows are imported and exported faithfully: saved whole
\* or refused with all their bad lines, found again as they were built, and coming back
\* from a download as the same records exactly if sanitising alters none of their cells.
THEOREM FilesAreFaithful == FileSpec => []ImportsAreFaithful
<1>1. FileInit => ImportsAreFaithful
  BY FileInitIsFaithful
<1>2. ImportsAreFaithful /\ [FileNext]_file => ImportsAreFaithful'
  <2> SUFFICES ASSUME ImportsAreFaithful, [FileNext]_file PROVE ImportsAreFaithful'
    OBVIOUS
  <2>1. CASE Upload
    BY <2>1, UploadIsFaithful
  <2>2. CASE Correct
    BY <2>2, CorrectIsFaithful
  <2>3. ASSUME NEW sanitized \in BOOLEAN, Download(sanitized) PROVE ImportsAreFaithful'
    BY <2>3, DownloadIsFaithful
  <2>4. CASE UNCHANGED file
    BY <2>4 DEF ImportsAreFaithful, FileIsAccounted, BadLinesAreAllReported, StoredReadsBack,
                DownloadsComeBack
  <2>q. QED
    BY <2>1, <2>2, <2>3, <2>4 DEF FileNext
<1>q. QED
  BY <1>1, <1>2, PTL DEF FileSpec
=============================================================================
