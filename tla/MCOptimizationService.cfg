CONSTANTS
    ann = ann  bob = bob  cho = cho  dan = dan
    north = north  south = south
    welfare = welfare  roads = roads
    nurse = nurse  chief = chief
    hill = hill  mill = mill  port = port
    Staff <- MCStaff
    Facilities <- MCFacilities
    Departments = {welfare, roads}
    DeptOf <- MCDeptOf
    Headcounts <- MCHeadcounts
    Skills = {nurse, chief}
    SkillsOf <- MCSkillsOf
    Requirement <- MCRequirement
    Districts = {hill, mill, port}
    GreatCircle <- MCGreatCircle
    Tolerance = 1
    BandBounds = {0, 15, 20}
    BandAmounts <- MCBandAmounts
    MaxBands = 3
    Unbounded = Unbounded
    ResidenceOf <- MCResidenceOf
    DistrictOf <- MCDistrictOf
    TravelParams <- MCTravelParams
    Weights <- MCWeights
    Caps = {1, 2}
    TimeLimits = TRUE
    Files <- MCFiles
    ManualBaselines <- MCManualBaselines
    Declarations <- MCDeclarations
    Masters <- MCMasters
    None = None
SPECIFICATION CSpec
INVARIANTS ResultsPassTheChecker PinsAreKept CompleteSearchIsTruthful ShortageIsReal OptimalMeansBest CallInv TravelCostNeverFalls ComparisonIsFair
CHECK_DEADLOCK FALSE
