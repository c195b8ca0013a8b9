------------------------------- MODULE Records -------------------------------
(***************************************************************************)
(* The forms a master record takes on its way from an uploaded file into   *)
(* the database and back into a downloaded one: cells, entities, rows.     *)
(* The importers of services.py, the constructors of entities.py, the      *)
(* mappers, the CHECKs and keys of schema.py, and the exporters.           *)
(*                                                                         *)
(* A cell is <<kind, content>>: a text, a number, a Japanese label, a time *)
(* or a list of items.  Quoting and encoding are left to the csv module.   *)
(***************************************************************************)
EXTENDS Integers, SequencesExt

CONSTANTS NoZone,           \* of a time that does not state its offset
          Dangerous,        \* texts that begin like a formula
          KnownDistricts, KnownDepartments, KnownStaff   \* cells: ids in the masters

Qualification == {"DISASTER_PREVENTION_SPECIALIST", "EMERGENCY_LIFESAVING_TECHNICIAN"}
Position == {"MANAGER", "GENERAL"}
JobType == {"CLERICAL", "TECHNICAL", "NURSERY_TEACHER", "PUBLIC_HEALTH_NURSE"}
ReasonCategory == {"LEAVE", "CHILD_OR_ELDER_CARE", "HEALTH_CONSIDERATION", "OTHER"}

Text(s) == <<"text", s>>
Number(n) == <<"number", n>>
List(items) == <<"list", items>>
Blank == Text("")

\* to_japanese; no two members of an enum have the same label.
ToJapanese(member) == <<"label", member>>

\* from_japanese knows the cell.
IsLabelOf(class, cell) == cell[1] = "label" /\ cell[2] \in class

\* int() and float()
IsNumber(cell) == cell[1] = "number"

\* _split_list: the items that are not blank, by their positions.
SplitList(cell) ==
    LET items == IF cell[1] = "list" THEN cell[2] ELSE <<cell>>
    IN  Restrict(items, {i \in DOMAIN items : items[i] # Blank})

identity_sanitizer(cell) == cell

\* sanitize_csv_cell, which composition.py injects into every export.
Sanitized(cell) ==
    IF \/ cell[1] = "text" /\ cell[2] \in Dangerous
       \/ cell[1] = "number" /\ cell[2] < 0
    THEN <<"escaped", cell>> ELSE cell

\* The sanitizer a caller injects, or none.
Cell(cell, sanitized) == IF sanitized THEN Sanitized(cell) ELSE identity_sanitizer(cell)

-----------------------------------------------------------------------------
(* Constructors. *)

CoordinatesAccepted(latitude, longitude) ==
    latitude \in -90 .. 90 /\ longitude \in -180 .. 180

\* BR-03.  Requirements are pairs of a member and a count, by position or by themselves.
FacilityAccepted(headcount, requirements) ==
    /\ headcount >= 1
    /\ \A i, j \in DOMAIN requirements : requirements[i][1] = requirements[j][1] => i = j
    /\ SumFunction([i \in DOMAIN requirements |-> requirements[i][2]]) <= headcount

\* BR-05
DeclarationAccepted(available, reason, note) ==
    /\ available <=> reason = "None"
    /\ reason = "OTHER" <=> note # Blank

-----------------------------------------------------------------------------
(* Parsing: a row of a file, by column, becomes an entity, or an error of its line. *)

Columns ==
    [district    |-> {"id", "name", "latitude", "longitude"},
     staff       |-> {"id", "name", "department", "job", "position", "district",
                      "qualifications"},
     facility    |-> {"id", "name", "district", "headcount", "requirements"},
     declaration |-> {"staff", "available", "declaredAt", "reason", "note"}]

Error == [error |-> TRUE]

BuildDistrict(row) ==
    IF /\ IsNumber(row.latitude) /\ IsNumber(row.longitude)
       /\ CoordinatesAccepted(row.latitude[2], row.longitude[2])
    THEN [row EXCEPT !.latitude = @[2], !.longitude = @[2]]
    ELSE Error

BuildStaff(row) ==
    LET labels == SplitList(row.qualifications)
    IN  IF /\ row.district \in KnownDistricts /\ row.department \in KnownDepartments
           /\ row.name # Blank
           /\ IsLabelOf(JobType, row.job) /\ IsLabelOf(Position, row.position)
           /\ \A i \in DOMAIN labels : IsLabelOf(Qualification, labels[i])
        THEN [row EXCEPT !.job = @[2], !.position = @[2],
                         !.qualifications = {labels[i][2] : i \in DOMAIN labels}]
        ELSE Error

\* The three enums that a facility may require share no member and no label.
Requirable == Qualification \cup Position \cup JobType

\* _parse_requirements: each item is label:count.
IsRequirement(item) ==
    item[1] = "pair" /\ IsLabelOf(Requirable, item[2]) /\ IsNumber(item[3])

BuildFacility(row) ==
    LET items == SplitList(row.requirements)
        requirements == [i \in DOMAIN items |-> <<items[i][2][2], items[i][3][2]>>]
    IN  IF /\ row.district \in KnownDistricts
           /\ \A i \in DOMAIN items : IsRequirement(items[i])
           /\ IsNumber(row.headcount)
           /\ FacilityAccepted(row.headcount[2], requirements)
        THEN [row EXCEPT !.headcount = @[2], !.requirements = Range(requirements)]
        ELSE Error

\* _parse_jst_to_utc: hours, and the zone's offset; a time without a zone is Japanese.
InUtc(time) == time[2] - (IF time[3] = NoZone THEN 9 ELSE time[3])

\* A datetime that states its zone, which is UTC.
Aware(hours) == <<"time", hours, 0>>

\* _build_declaration
BuildDeclaration(row) ==
    LET available == row.available = Text("yes")
        reason == IF row.reason = Blank THEN "None" ELSE row.reason[2]
    IN  IF /\ row.staff \in KnownStaff
           /\ row.declaredAt[1] = "time"
           /\ row.available \in {Text("yes"), Text("no")}
           /\ row.reason = Blank \/ IsLabelOf(ReasonCategory, row.reason)
           /\ DeclarationAccepted(available, reason, row.note)
        THEN [row EXCEPT !.available = available, !.reason = reason,
                         !.declaredAt = Aware(InUtc(@))]
        ELSE Error

Build(kind, row) ==
    CASE kind = "district"    -> BuildDistrict(row)
      [] kind = "staff"       -> BuildStaff(row)
      [] kind = "facility"    -> BuildFacility(row)
      [] kind = "declaration" -> BuildDeclaration(row)

\* What an importer adds to `seen` when it meets a row; declarations only once the
\* person is known and the time is read.
KeysSeen(kind, row) ==
    IF kind # "declaration" THEN {row.id}
    ELSE IF row.staff \in KnownStaff /\ row.declaredAt[1] = "time"
         THEN {<<row.staff, InUtc(row.declaredAt)>>} ELSE {}

\* Mutant of Faulty: rows are judged one by one.
FaultyAlone(kind, rows, i) == Build(kind, rows[i]) = Error

\* A row that is in error, or has the key of an earlier one.
Faulty(kind, rows, i) ==
    \/ Build(kind, rows[i]) = Error
    \/ \E j \in 1 .. i - 1 : KeysSeen(kind, rows[i]) \cap KeysSeen(kind, rows[j]) # {}

\* The lines reported, below the header, and what is saved if there are none.
Import(kind, rows) ==
    LET faulty == {i \in DOMAIN rows : Faulty(kind, rows, i)}
    IN  [lines |-> {i + 1 : i \in faulty},
         saved |-> IF faulty = {} THEN {Build(kind, rows[i]) : i \in DOMAIN rows} ELSE {}]

-----------------------------------------------------------------------------
(* Rows of tables.  An entity is one row and, for what it has many of, rows of a second
   table that name it; enum members are stored by name.  A reader looks names up and
   constructs, so that what no constructor accepts is a DataIntegrityError. *)

With(record, column, value) ==
    [c \in DOMAIN record \cup {column} |-> IF c = column THEN value ELSE record[c]]

Without(record, column) == [c \in DOMAIN record \ {column} |-> record[c]]

StaffToRow(member) == Without(member, "qualifications")

StaffQualificationRows(member) == {<<member.id, q>> : q \in member.qualifications}

FacilityToRow(facility) == Without(facility, "requirements")

FacilityRequirementRows(facility) ==
    {<<facility.id, r[1], r[2]>> : r \in facility.requirements}

\* The column is UTC without saying so.
DeclarationToRow(declaration) == [declaration EXCEPT !.declaredAt = InUtc(@)]

\* insert_school_districts, insert_staff, insert_facilities, insert_declarations: the
\* rows of the two tables.
Inserted(kind, entities) ==
    CASE kind = "staff" ->
            [rows |-> {StaffToRow(m) : m \in entities},
             parts |-> UNION {StaffQualificationRows(m) : m \in entities}]
      [] kind = "facility" ->
            [rows |-> {FacilityToRow(f) : f \in entities},
             parts |-> UNION {FacilityRequirementRows(f) : f \in entities}]
      [] kind = "declaration" -> [rows |-> {DeclarationToRow(d) : d \in entities}, parts |-> {}]
      [] kind = "district" -> [rows |-> entities, parts |-> {}]

\* The primary and unique keys, and ck_facilities_headcount.
SchemaAdmits(kind, tables) ==
    /\ \A r, s \in tables.rows :
          IF kind = "declaration"
          THEN r.staff = s.staff /\ r.declaredAt = s.declaredAt => r = s
          ELSE r.id = s.id => r = s
    /\ kind = "facility" => \A r \in tables.rows : r.headcount >= 1
    /\ \A p, q \in tables.parts : p[1] = q[1] /\ p[2] = q[2] => p = q

RowToSchoolDistrict(row) ==
    IF CoordinatesAccepted(row.latitude, row.longitude) THEN row ELSE Error

RowToStaff(row, qualifications) ==
    IF /\ row.job \in JobType /\ row.position \in Position /\ row.name # Blank
       /\ qualifications \subseteq Qualification
    THEN With(row, "qualifications", qualifications) ELSE Error

RowToFacility(row, requirements) ==
    IF /\ \A r \in requirements : r[1] \in Requirable
       /\ FacilityAccepted(row.headcount, [r \in requirements |-> r])
    THEN With(row, "requirements", requirements) ELSE Error

RowToDeclaration(row) ==
    IF /\ row.reason \in ReasonCategory \cup {"None"}
       /\ DeclarationAccepted(row.available, row.reason, row.note)
    THEN [row EXCEPT !.declaredAt = Aware(@)] ELSE Error

\* _qualifications_by_staff
QualificationsOf(person, parts) ==
    {p[2] : p \in {q \in parts : q[1] = person}}

\* The requirements of find_all_facilities.
RequirementsOf(facility, parts) ==
    {<<p[2], p[3]>> : p \in {q \in parts : q[1] = facility}}

\* find_all_school_districts, find_all_staff, find_all_facilities, declaration_history
Found(kind, tables) ==
    {CASE kind = "district"    -> RowToSchoolDistrict(row)
       [] kind = "staff"       -> RowToStaff(row, QualificationsOf(row.id, tables.parts))
       [] kind = "facility"    -> RowToFacility(row, RequirementsOf(row.id, tables.parts))
       [] kind = "declaration" -> RowToDeclaration(row) : row \in tables.rows}

-----------------------------------------------------------------------------
(* Exporting: the cells of an entity.  Declarations are not exported. *)

Cells(kind, entity) ==
    [column \in DOMAIN entity |->
        CASE column \in {"latitude", "longitude", "headcount"} -> Number(entity[column])
          [] column \in {"job", "position"} -> ToJapanese(entity[column])
          [] column = "qualifications" ->
                List(SetToSeq({ToJapanese(q) : q \in entity[column]}))
          [] column = "requirements" ->
                List(SetToSeq({<<"pair", ToJapanese(r[1]), Number(r[2])>> : r \in entity[column]}))
          [] OTHER -> entity[column]]

\* serialize_csv passes every cell through the sanitizer.
Line(kind, entity, sanitized) ==
    [column \in DOMAIN entity |-> Cell(Cells(kind, entity)[column], sanitized)]

Exported(kind, entities, sanitized) ==
    SetToSeq({Line(kind, e, sanitized) : e \in entities})

-----------------------------------------------------------------------------
(* A file on its way: it is uploaded and stored, or refused, corrected and uploaded
   again; what was stored is downloaded, and uploaded to an empty database. *)

CONSTANTS Kinds,
          Files   \* the files of a kind, as sequences of rows

\* Numbers are integers here, and times whole hours.
IsCell(cell) ==
    LET items == SplitList(cell)
    IN  /\ IsNumber(cell) => cell[2] \in Int
        /\ cell[1] = "time" => cell[2] \in Int /\ cell[3] \in Int \cup {NoZone}
        /\ \A i \in DOMAIN items : IsRequirement(items[i]) => items[i][3][2] \in Int

\* A row has the columns of its kind.
IsRow(kind, row) ==
    /\ row = [column \in Columns[kind] |-> row[column]]
    /\ \A column \in Columns[kind] : IsCell(row[column])

IsFile(kind, rows) ==
    /\ DOMAIN rows = 1 .. Len(rows) /\ Len(rows) \in Nat
    /\ \A i \in DOMAIN rows : IsRow(kind, rows[i])

ASSUME RecordsAssumption ==
    /\ NoZone \notin Int
    /\ Kinds \subseteq DOMAIN Columns
    /\ \A kind \in Kinds : \A rows \in Files[kind] : IsFile(kind, rows)

VARIABLE file   \* its kind, rows and stage, the tables it left; and as history on which
                \* leg it is, what was built from it, and what it is a download of

Empty == [rows |-> {}, parts |-> {}]

Sent(kind, rows) ==
    [kind |-> kind, rows |-> rows, stage |-> "sent", lines |-> {}, tables |-> Empty,
     leg |-> "first", built |-> {}, original |-> {}, sanitized |-> FALSE]

FileInit == \E kind \in Kinds : \E rows \in Files[kind] : file = Sent(kind, rows)

\* An importer and its insert: the lines in error, or all rows in one transaction.
Upload ==
    LET got == Import(file.kind, file.rows)
        tables == Inserted(file.kind, got.saved)
    IN  /\ file.stage = "sent"
        /\ file' = IF got.lines # {} THEN [file EXCEPT !.stage = "refused", !.lines = got.lines]
                   ELSE IF ~SchemaAdmits(file.kind, tables)
                   THEN [file EXCEPT !.stage = "IntegrityError"]
                   ELSE [file EXCEPT !.stage = "stored", !.tables = tables, !.built = got.saved]

\* The lines that were reported are taken out, and the others keep their order.
Correct ==
    LET good == {i \in DOMAIN file.rows : i + 1 \notin file.lines}
    IN  /\ file.stage = "refused" /\ file.leg = "first"
        /\ \E kept \in [1 .. Cardinality(good) -> good] :
              /\ \A i, j \in DOMAIN kept : i < j => kept[i] < kept[j]
              /\ file' = [file EXCEPT !.stage = "sent", !.lines = {}, !.leg = "corrected",
                                      !.rows = [i \in DOMAIN kept |-> file.rows[kept[i]]]]

\* export_school_districts, export_staff, export_facilities, with the sanitizer of
\* composition.py or without one.
Download(sanitized) ==
    /\ file.stage = "stored" /\ file.leg # "download" /\ file.kind # "declaration"
    /\ LET found == Found(file.kind, file.tables)
       IN  file' = [Sent(file.kind, Exported(file.kind, found, sanitized)) EXCEPT
                        !.leg = "download", !.original = found, !.sanitized = sanitized]

FileNext == Upload \/ Correct \/ \E sanitized \in BOOLEAN : Download(sanitized)

FileSpec == FileInit /\ [][FileNext]_file

-----------------------------------------------------------------------------
(* Properties. *)

\* What the constructors build of a row, and a column keeps as the file has it.
IsEntity(kind, e) ==
    /\ e = [column \in Columns[kind] |-> e[column]]
    /\ CASE kind = "district" ->
               /\ CoordinatesAccepted(e.latitude, e.longitude)
               /\ IsCell(e.id) /\ IsCell(e.name)
         [] kind = "staff" ->
               /\ e.district \in KnownDistricts /\ e.department \in KnownDepartments
               /\ e.name # Blank /\ e.job \in JobType /\ e.position \in Position
               /\ e.qualifications \subseteq Qualification
               /\ \A column \in {"id", "name", "district", "department"} : IsCell(e[column])
         [] kind = "facility" ->
               /\ e.district \in KnownDistricts /\ e.headcount \in Int
               /\ e.requirements \subseteq Requirable \X Int
               /\ FacilityAccepted(e.headcount, [r \in e.requirements |-> r])
               /\ \A column \in {"id", "name", "district"} : IsCell(e[column])
         [] kind = "declaration" ->
               /\ e.declaredAt[2] \in Int /\ e.declaredAt = Aware(e.declaredAt[2])
               /\ e.reason \in ReasonCategory \cup {"None"}
               /\ DeclarationAccepted(e.available, e.reason, e.note)

\* The identity of an entity among those of its kind.
KeyOf(kind, e) == IF kind = "declaration" THEN <<e.staff, e.declaredAt[2]>> ELSE e.id

\* What a file can leave in the database.
IsStorable(kind, entities) ==
    /\ IsFiniteSet(entities)
    /\ \A e \in entities : IsEntity(kind, e)
    /\ \A d, e \in entities : KeyOf(kind, d) = KeyOf(kind, e) => d = e

\* The rows of a file are rows of its kind; what a stored file has left is what was built
\* of it; a download has the cells of the entities it was made of.
FileIsAccounted ==
    /\ DOMAIN file = DOMAIN Sent(file.kind, file.rows)
    /\ file.kind \in Kinds
    /\ file.stage \in {"sent", "refused", "stored", "IntegrityError"}
    /\ file.leg \in {"first", "corrected", "download"}
    /\ IsFile(file.kind, file.rows)
    /\ file.stage = "refused" => file.lines = Import(file.kind, file.rows).lines
    /\ file.stage = "stored" =>
          /\ \A i \in DOMAIN file.rows : ~Faulty(file.kind, file.rows, i)
          /\ file.built = Import(file.kind, file.rows).saved
          /\ file.tables = Inserted(file.kind, file.built)
    /\ file.leg = "corrected" => \A i \in DOMAIN file.rows : ~Faulty(file.kind, file.rows, i)
    /\ file.leg = "download" =>
          /\ file.kind # "declaration"
          /\ file.sanitized \in BOOLEAN
          /\ IsStorable(file.kind, file.original)
          /\ file.rows = Exported(file.kind, file.original, file.sanitized)

\* No cell of the entities is one that sanitising an export alters.
Harmless(kind, entities) ==
    {Cells(kind, e) : e \in entities} = ToSet(Exported(kind, entities, TRUE))

\* A file is stored whole or not at all, and then every bad line of it was reported at
\* once, also those that are bad because of another line: without them it is accepted.
BadLinesAreAllReported ==
    /\ file.stage = "stored" => Cardinality(file.built) = Len(file.rows)
    /\ file.leg = "corrected" => file.stage # "refused"

\* A file that an importer accepts violates no key and no CHECK among its own rows, so
\* that nobody is told of an IntegrityError; and its rows read back as they were built.
StoredReadsBack ==
    /\ file.stage # "IntegrityError"
    /\ file.stage = "stored" => Found(file.kind, file.tables) = file.built

\* A plain download imports as the same records, and the sanitised one, which is what
\* users get, does exactly if no cell looks like a formula.
DownloadsComeBack ==
    LET same == ~file.sanitized \/ Harmless(file.kind, file.original)
    IN  file.leg = "download" =>
            /\ file.stage = "stored" => (file.built = file.original <=> same)
            /\ file.stage = "refused" => ~same

\* BR-DM01, BR-DM02, INV-10: an upload is saved whole, as records that survive the way to
\* the database, back, and through a downloaded file, or every bad line of it is told of
\* (services.py:232).
ImportsAreFaithful ==
    FileIsAccounted /\ BadLinesAreAllReported /\ StoredReadsBack /\ DownloadsComeBack
=============================================================================
