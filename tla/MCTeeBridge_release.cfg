\* release_settled_funds against the commitments the user actually settled.
CONSTANTS
    Users = {u1, u2}
    CommitmentVals = {c1, c2, c3}
    BatchIds = {0}
    LamportsPerSol = 2
    StagingRent = 1
    AmountArgs = {1, 2}
    DenomArgs = {2}
    MaxDeposited = 6
SPECIFICATION BSpec
CONSTRAINT DepositBound
INVARIANT ReleaseBackedBySettledCommitments
