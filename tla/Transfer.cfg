SPECIFICATION FairSpec
CONSTANTS
    admin = admin
    initiator = initiator
    bridge = bridge
    Address <- People
    Admin = admin
    Initiators = {initiator}
    Contracts = {bridge}
    MaxTransfers = 1
    MaxHistory = 7
    SeededTimeouts <- OneSecond
    Retimed = {"EscrowLocked"}
    TimeoutChoices = {2}
    DefaultTimeout = 2
    U64Max = 3
INVARIANTS
    AuditTrail
    ReleaseCleared
PROPERTIES
    FinalForever
    NeverStranded
CHECK_DEADLOCK FALSE
