\* commit_withdrawal then reveal_and_withdraw, and a keeper intent then its
\* execution, inside the window on a funded pool.
CONSTANTS
    DEPTH = 2
    Commitments = {1, 2, 3}
    Denomination = 1000
    FeeBps = 10
    RentMin = 5
    K = 2
    HonestIndexer = TRUE
    Authorities = {admin}
    Owners = {o1}
    SecondsPerHour = 2
    IntentIds = {i1}
    WindowHours = {1}
    DelayHours = {0, 1, 2}
    MaxOps = 3
    MaxCommits = 2
    RelayerFees = {0}
SPECIFICATION SpecRevealAndWithdraw
CONSTRAINT CRBound
INVARIANT PayoutProceedsInWindow
