SPECIFICATION ClientSpec
CONSTANTS
    Keys = {k1}
    Sender = k1
    Recipients = {r1, r2}
    NoAccount = NoAccount
    MaxDelay = 2
    Delays = {0, 1, 2, 3}
    ClockSteps = {1, 2}
    Epoch = 10
    MaxTime = 13
    Payer = p
    Friends = {f, g}
    Default = Default
    Amounts = {2}
    GateThresholds = {0, 2, 3}
    Obstacles = {"funds", "overflow", "daily_limit", "night_mode"}
    None = None
INVARIANTS
    CreatesTheAccountFirst
