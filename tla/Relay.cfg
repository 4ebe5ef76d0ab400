SPECIFICATION FairSpec
CONSTANTS
    stellar = stellar
    ethereum = ethereum
    key = key
    Chain = {ethereum}
    Sender = {alice}
    Operator = {op1}
    Key = {key}
    PublicKey <- SameKey
    MaxNonce = 3
    Priorities = {0, 3}
    Ttls = {0, 2}
    DefaultTtl = 1
    PayloadSizes = {1}
    FeesPaid = {1, 2}
    InitialChains <- OnlyEthereum
    ChainConfigs <- TurnOff
    CleanupSizes = {0, 1, 3}
    U64Max = 3
INVARIANTS
    QueueFaithful
    QueueOrdered
    RelayBooks
PROPERTIES
    QueueDrains
CHECK_DEADLOCK FALSE
