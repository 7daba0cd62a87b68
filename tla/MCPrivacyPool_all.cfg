\* Every pool instruction interleaved.
CONSTANTS
    DEPTH = 2
    Commitments = {1, 2}
    Denomination = 1000
    FeeBps = 10
    RentMin = 5
    K = 2
    RelayerFees = {0, 100}
    HonestIndexer = FALSE
    Authorities = {admin}
    MaxOps = 4
SPECIFICATION Spec
CONSTRAINT OpsBound
INVARIANT TypeOK
INVARIANT RootHistoryWindow
INVARIANT LedgerMatchesLamports
