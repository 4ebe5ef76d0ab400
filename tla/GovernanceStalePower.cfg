SPECIFICATION Spec
CONSTANTS
    voter = voter
    other = other
    Address <- People
    Admin = other
    NoOne = NoOne
    InitialConfig <- Linear
    Configs <- OnlyQuadratic
    Powers = {1, 3}
    MaxPower = 6
    Candidates <- OnlyOther
    Types = {"ParameterChange", "EmergencyPause"}
    MaxProposals = 0
    MaxNow = 3
INVARIANTS
    DelegatedPowerCounts
CHECK_DEADLOCK FALSE
