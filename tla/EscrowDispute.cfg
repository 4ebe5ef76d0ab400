SPECIFICATION Spec
CONSTANTS
    admin = admin
    depositor = depositor
    recipient = recipient
    verifier = verifier
    p1 = p1
    p2 = p2
    p3 = p3
    Address <- PanelAddresses
    Admin = admin
    Route = {usdc}
    Parties <- OneDeal
    MaxEscrows = 1
    Amounts = {10}
    Payments = {4}
    Collections = {1}
    BpsChoices = {0, 2000}
    Collectors <- OneCollector
    ApproverLists <- Panels
    Guardians <- OneGuardian
    LockChoices = {2}
    DefaultLockSecs = 1
    MaxBatch = 2
    U64Max = 2
    I128Max = 20000
INVARIANTS
    DisputeQuorum
    FundsConserved
PROPERTIES
    DecisionStable
CHECK_DEADLOCK FALSE
