\* Two signers, two nullifiers, three request ids: every relayer instruction.
CONSTANTS
    Signers = {op, eve}
    Nullifiers = {n1, n2}
    TeeKeys = {k1}
    ZeroKey = ZeroKey
    FeeBpsArgs = {1000, 20000}
    DenomArgs = {10}
    AmountArgs = {2, 10}
    StateRent = 1
    MaxRequests = 3
    MaxLamports = 21
    None = None
SPECIFICATION TRSpec
CONSTRAINT LamportsBound
SYMMETRY Symmetry
INVARIANT TRTypeOK
INVARIANT PaidOnce
PROPERTY RelayQueueRefined
