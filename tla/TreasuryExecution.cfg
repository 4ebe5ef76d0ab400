SPECIFICATION CSpec
CONSTANTS
    leaf1 = leaf1
    leaf2 = leaf2
INVARIANTS
    SignedCanExecute
CHECK_DEADLOCK FALSE
