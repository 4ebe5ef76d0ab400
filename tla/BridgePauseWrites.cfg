SPECIFICATION Spec
CONSTANTS
    alice = alice
    bob = bob
    carol = carol
    h1 = h1
    h2 = h2
    Address <- People
    FirstAdmin = alice
    OtherRole = {}
    Appointees <- Others
    Nominees <- OnlyBob
    Hash = {h1, h2}
    NoHash = NoHash
    UnpauseTimelock = 2
    TransferTimeout = 2
    UpgradeTimelock = 2
    MaxProposals = 3
    MaxNow = 3
PROPERTIES
    PauseHaltsWrites
CHECK_DEADLOCK FALSE
