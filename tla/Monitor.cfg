SPECIFICATION PSpec
CONSTANTS
    alice = alice
    bob = bob
    op1 = op1
    op2 = op2
    Address <- Everyone
    FirstAdmin = alice
    Successors <- OnlyBob
    NoGrant = NoGrant
    Grantees <- OnlyBob
    Roles = {"SuperAdmin"}
    Permissions = {"ManagePermissions", "EmergencyPause"}
    Expiries = {0, 2}
    MaxEntries = 2
    MaxNow = 3
    Operators <- Crew
    DefaultTiming <- OneSecond
    Timings <- NoneOrTwo
INVARIANTS
    TypesOK
    SomeoneOperates
    RecordsTrue
    SignaturesTrue
PROPERTIES
    RotationWhole
    NothingGainedQuietly
    StepsJustified
CHECK_DEADLOCK FALSE
