SPECIFICATION CSpec
CONSTANTS
    leaf1 = leaf1
    leaf2 = leaf2
INVARIANTS
    TypesOK
    BooksBalance
    RecordsAgree
    DecisionsCounted
PROPERTIES
    SharesFair
    ApprovalsRequired
    DeprecatedFinal
CHECK_DEADLOCK FALSE
