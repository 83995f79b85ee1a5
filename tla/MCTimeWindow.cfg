\* One sender, a day of five hours of two seconds, every window of them and
\* one hour out of range, two and a half days from an odd second.  No other
\* rule is set and nothing is paid.
SPECIFICATION FairSpec
CONSTANTS
    a = a
    Wallets = {a}
    NoAccount = NoAccount
    Default = Default
    Delegates <- MCDelegates
    Endowment <- MCEndowment
    Transactions = {}
    Amounts = {1}
    SlotsPerDay = 1
    MaxU64 = 1
    MaxBlocked = 1
    MaxDuration = 1
    MaxDelay = 1
    HoursPerDay = 5
    SecondsPerHour = 2
    Limits = {}
    CooloffThresholds = {}
    Durations = {}
    Delays = {}
    Hours = {0, 1, 2, 3, 4, 5}
    GateThresholds = {}
    SlotSteps = {1}
    ClockSteps = {1, 2}
    Epoch = 7
    RuleUsers = {a}
    Payees = {}
    Friends = {}
    MaxSlot = 25
    MaxTime = 32
INVARIANTS
    RefusedExactlyWithin
PROPERTIES
    OpensEveryDay
