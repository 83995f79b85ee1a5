\* The daily cap of one sender over nearly three days of three slots each:
\* enough for a cap raised and lowered within a window, two rolls, a day that
\* straddles a roll, and a cap equal to the largest u64.
SPECIFICATION AuditSpec
CONSTANTS
    Keys = {k1}
    NoAccount = NoAccount
    SlotsPerDay = 3
    MaxU64 = 3
    Limits = {0, 1, 3}
    Amounts = {0, 1, 2}
    SlotSteps = {1, 2}
    MaxSlot = 8
INVARIANTS
    TypeOK
    SpentIsWindowTotal
    AtMostTwiceTheCapInADay
PROPERTIES
    NoEarlyReset
    NoSpendAboveCap
    WithinCapIsAdmissible
