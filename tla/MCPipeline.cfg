SPECIFICATION PipeSpec
CONSTANTS
    a = a
    b = b
    f = f
    Wallets = {a, b, f}
    NoAccount = NoAccount
    Default = Default
    Delegates <- MCDelegates
    Endowment <- MCEndowment
    Transactions <- MCTransactions
    Amounts = {1, 2}
    SlotsPerDay = 1
    MaxU64 = 3
    None = None
    MaxBlocked = 1
    MaxDuration = 1
    MaxDelay = 1
    HoursPerDay = 2
    SecondsPerHour = 1
    Limits = {2}
    CooloffThresholds = {2}
    Durations = {1}
    Delays = {1}
    Hours = {0, 1}
    GateThresholds = {2}
    SlotSteps = {1}
    ClockSteps = {1}
    Epoch = 2
    RuleUsers = {a}
    Payees = {b}
    Friends = {a, b, f}
    MaxSlot = 1
    MaxTime = 3
INVARIANTS
    PipeTypeOK
PROPERTIES
    ImplementsHook
