\* unified_withdraw and the unified commit-reveal on one pool, with cancel,
\* close, re-commit and the clock.
CONSTANTS
    DEPTH = 2
    Commitments = {1, 2}
    Denomination = 1000
    FeeBps = 10
    RentMin = 5
    K = 2
    RelayerFees = {0, 100}
    HonestIndexer = TRUE
    Authorities = {admin}
    Owners = {o1}
    SecondsPerHour = 2
    DelayHours = {0, 1, 2}
    IntentIds = {i1}
    WindowHours = {1}
    MaxOps = 4
    MaxCommits = 3
SPECIFICATION SpecUnifiedCR
CONSTRAINT CRBound
INVARIANT CRTypeOK
INVARIANT RevealWindowMeetsExpiry
INVARIANT ExecutedNeverCancelled
INVARIANT NoNoteSpentTwice
PROPERTY CommitmentReclaimable
PROPERTY IntentReclaimable
PROPERTY LifecycleRefined
