SPECIFICATION FairSpec
CONSTANTS
    NKeys = 6
    Items <- MCItems
    ItemOf <- MCItemOf
    KindOf <- MCKindOf
    MaxVersion = 1
    MaxErrors = 1
INVARIANTS SecretConsistent StaleIsPending
PROPERTIES Converges
CHECK_DEADLOCK FALSE
