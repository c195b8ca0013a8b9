CONSTANTS
    ann = ann  bob = bob  cho = cho
    hall = hall  annex = annex
    welfare = welfare  roads = roads
    nurse = nurse
    p1 = p1
    Staff <- MCStaff
    Facilities <- MCFacilities
    Departments = {welfare, roads}
    DeptOf <- MCDeptOf
    Headcount <- MCHeadcount
    Skills = {nurse}
    SkillsOf <- MCSkillsOf
    Requirement <- MCRequirement
    Events = {e1}
    Params = {p1}
    CapOf <- MCCapOf
    ServerCap = 2
    Opening = {annex}
    MaxEdits = 0
    Answers <- MCTakingTurns
    Workers = {w1}
    Clients = {c1}
    Editors = {d1}
    MaxTime = 1
    TicksPerSecond = 1
    MaxCrashes = 0
    None = None
SPECIFICATION RSpec
PROPERTIES FullDiscardsPrevious
CHECK_DEADLOCK FALSE
