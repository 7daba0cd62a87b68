\* Registration, view keys, sends, blended transfers and one announcement
\* log, for two wallets and two stealth addresses.
CONSTANTS
    Wallets = {w1, w2}
    Points = {p1}
    BadPoint = BadPoint
    ZeroKey = ZeroKey
    DefaultPubkey = DefaultPubkey
    Addresses = {a1, a2}
    AmountArgs = {0, 1, 100}
    LogIds = {0}
    MaxEntries = 2
    MaxEvents = 3
SPECIFICATION SPSpec
CONSTRAINT EventBound
SYMMETRY Symmetry
INVARIANT SPTypeOK
INVARIANT PaymentsAnnounced
INVARIANT LogFitsAccount
INVARIANT ViewAccessGrantedByOwner
