\* Two keys, three slots and four wallets: the list fills up, an addition is
\* refused, and removals leave holes that later additions fill.
SPECIFICATION AuditSpec
CONSTANTS
    Keys = {k1, k2}
    NoAccount = NoAccount
    Wallets = {w1, w2, w3, w4}
    Default = Default
    MaxBlocked = 3
INVARIANTS
    TypeOK
    NoDuplicates
    CountIsOccupancy
    RefusesExactlyTheBlocked
PROPERTY
    ImplementsBlockSet
