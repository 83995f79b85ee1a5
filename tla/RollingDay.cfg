\* The cap read as a limit over a rolling day, as sdk/README.md words it.
SPECIFICATION AuditSpec
CONSTANTS
    Keys = {k1}
    NoAccount = NoAccount
    SlotsPerDay = 3
    MaxU64 = 3
    Limits = {0, 1, 3}
    Amounts = {0, 1, 2}
    SlotSteps = {1, 2}
    MaxSlot = 8
INVARIANT RollingDayWithinCap
