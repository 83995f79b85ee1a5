SPECIFICATION AuditSpec
CONSTANTS
    a = a
    b = b
    d = d
    f = f
    Wallets = {a, b, d, f}
    NoAccount = NoAccount
    Default = Default
    Delegates <- MCDelegates
    Endowment <- MCEndowment
    Transactions <- MCTransactions
    Amounts = {1, 2}
    SlotsPerDay = 2
    MaxU64 = 3
    MaxBlocked = 1
    MaxDuration = 2
    MaxDelay = 1
    HoursPerDay = 2
    SecondsPerHour = 1
    Limits = {2}
    CooloffThresholds = {2}
    Durations = {2}
    Delays = {1}
    Hours = {0, 1}
    GateThresholds = {2}
    SlotSteps = {1}
    ClockSteps = {1}
    Epoch = 2
    RuleUsers = {a}
    Payees = {b}
    Friends = {a, f}
    MaxSlot = 3
    MaxTime = 5
INVARIANTS
    TypeOK
    SettledWithinSpent
    OpensTogether
