\* Withdrawals of notes no deposit created, through the unverified paths.
CONSTANTS
    DEPTH = 2
    Commitments = {1, 2, 3}
    Denomination = 1000
    FeeBps = 10
    RentMin = 5
    K = 2
    HonestIndexer = TRUE
    Authorities = {admin}
    Owners = {o1}
    SecondsPerHour = 2
    IntentIds = {}
    WindowHours = {1}
    DelayHours = {0, 1, 2}
    MaxOps = 3
    MaxCommits = 2
    RelayerFees = {0}
SPECIFICATION SpecUnverified
CONSTRAINT CRBound
INVARIANT WithdrawOnlyFundedNotes
