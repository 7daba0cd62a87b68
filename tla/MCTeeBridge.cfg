\* Two users, two batches, four commitments: every bridge instruction interleaved.
CONSTANTS
    Users = {u1, u2}
    CommitmentVals = {c1, c2, c3, c4}
    BatchIds = {0, 1}
    LamportsPerSol = 2
    StagingRent = 1
    AmountArgs = {1, 2}
    DenomArgs = {2}
    MaxDeposited = 6
SPECIFICATION BSpec
CONSTRAINT DepositBound
SYMMETRY Symmetry
INVARIANT BTypeOK
INVARIANT BatchesMatchCommitments
