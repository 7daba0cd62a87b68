\* One note withdrawn by verified_withdraw and again by unified_withdraw.
CONSTANTS
    DEPTH = 2
    Commitments = {1, 2, 3}
    Denomination = 1000
    FeeBps = 10
    RentMin = 5
    K = 2
    RelayerFees = {0}
    HonestIndexer = TRUE
    Authorities = {admin}
    MaxOps = 4
SPECIFICATION SpecCrossPath
CONSTRAINT OpsBound
INVARIANT NoNoteSpentTwice
