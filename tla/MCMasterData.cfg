SPECIFICATION MCSpec
CONSTANTS
    east = east
    west = west
    ann = ann
    bob = bob
    school = school
    nurse = nurse
    storm = storm
    None = None
    Districts = {east, west}
    Staff = {ann, bob}
    Facilities = {school}
    Skills = {nurse}
    Events = {storm}
    HomeOf <- MCHomeOf
    SkillsOf <- MCSkillsOf
    SiteOf <- MCSiteOf
    NeedsOf <- MCNeedsOf
    Moments = {1, 2}
    MaxRows = 1
    Readers = {r1}
    NoZone = NoZone
    Dangerous <- MCDangerous
    KnownDistricts <- MCKnownDistricts
    KnownDepartments <- MCKnownDepartments
    KnownStaff <- MCKnownStaff
    Kinds <- MCKinds
    Files <- MCFiles
INVARIANTS
    EffectiveIsUnambiguous
    TravelIsComputable
    ReadIsRegular
    CountIsRegular
    MasterInv
    ImportsAreFaithful
CHECK_DEADLOCK FALSE
