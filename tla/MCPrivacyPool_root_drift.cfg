\* The three deposit paths, simple_deposit with the true root, on one tree.
CONSTANTS
    DEPTH = 2
    Commitments = {1, 2, 3}
    Denomination = 1000
    FeeBps = 10
    RentMin = 5
    K = 2
    RelayerFees = {0}
    HonestIndexer = TRUE
    Authorities = {admin}
    MaxOps = 3
SPECIFICATION SpecRootDrift
CONSTRAINT OpsBound
INVARIANT MerkleRootMatchesLeaves
