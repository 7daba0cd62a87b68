\* Registry initialisation, registration, updates, relays and stake
\* withdrawal of two relayers, interleaved with the clock.
CONSTANTS
    Relayers = {r1, r2}
    Users = {u1}
    TxHashes = {t1, t2}
    LamportsPerSol = 10000
    FeeBpsArgs = {50, 600}
    MinFeeArgs = {0}
    MaxFeeArgs = {0}
    MaskArgs = {1, 3}
    StakeArgs = {10000}
    DenomArgs = {1, 10}
    UnstakeTicks = 1
    ExpiryTicks = 1
    None = None
SPECIFICATION RSpec
INVARIANT RTypeOK
INVARIANT StakeAccountMatchesAmount
INVARIANT RelayStatsConsistent
PROPERTY StakeWithdrawable
