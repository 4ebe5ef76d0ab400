SPECIFICATION Spec
CONSTANTS
    admin = admin
    depositor = depositor
    recipient = recipient
    verifier = verifier
    p1 = p1
    p2 = p2
    p3 = p3
    Address <- FewAddresses
    Admin = admin
    Route = {usdc}
    Parties <- OneDeal
    MaxEscrows = 2
    Amounts = {5}
    Payments = {2}
    Collections = {1, 2}
    BpsChoices = {2000}
    Collectors <- OneCollector
    ApproverLists <- OneApprover
    Guardians = {}
    LockChoices = {1}
    DefaultLockSecs = 1
    MaxBatch = 2
    U64Max = 2
    I128Max = 10000
INVARIANTS
    ExactSettlement
    RefundJustified
PROPERTIES
    SettlementGated
    BatchIsSequence
    KeepsPromise
CHECK_DEADLOCK FALSE
