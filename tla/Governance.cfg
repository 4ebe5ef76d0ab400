SPECIFICATION Spec
CONSTANTS
    voter = voter
    other = other
    Address <- People
    Admin = other
    NoOne = NoOne
    InitialConfig <- Linear
    Configs <- OnlyQuadratic
    Powers = {3}
    MaxPower = 6
    Candidates <- OnlyOther
    Types = {"ParameterChange", "EmergencyPause"}
    MaxProposals = 1
    MaxNow = 3
INVARIANTS
    PowerAccounted
    BallotsCounted
PROPERTIES
    ExecutionJustified
    VoteClosed
CHECK_DEADLOCK FALSE
