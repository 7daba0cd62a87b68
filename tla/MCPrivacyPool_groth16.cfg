\* private_deposit and verified_withdraw: the on-chain Groth16 path, across
\* close_pool and initialize_pool, beside the denomination registry.
CONSTANTS
    DEPTH = 2
    Commitments = {1, 2, 3, 4}
    Denomination = 1000
    FeeBps = 10
    RentMin = 5
    K = 2
    RelayerFees = {0, 100}
    HonestIndexer = TRUE
    Authorities = {admin}
    MaxOps = 6
    DefaultDenominations <- MCDefaultDenominations
    DefaultMinDenomination = 1
    DefaultMaxDenomination = 10000
    MaxDenominations = 3
    Signers = {admin, eve}
    DenomArgs = {1, 5, 10, 20}
    MinDenomArgs = {5}
    MaxDenomArgs = {10000}
    NoArg = NoArg
SPECIFICATION SpecPoolRegistry
CONSTRAINT OpsBound
INVARIANT MerkleRootMatchesLeaves
INVARIANT NoNoteSpentTwice
INVARIANT WithdrawOnlyFundedNotes
INVARIANT DRTypeOK
PROPERTY RemoveDisablesDenomination
