\* One sender, two thresholds and two durations with both out-of-range
\* neighbours; seven seconds, so that a wait of either length begins and ends
\* more than once; up to three recorded transfers.
SPECIFICATION AuditSpec
CONSTANTS
    Keys = {k1}
    NoAccount = NoAccount
    MaxDuration = 3
    Thresholds = {0, 1, 2}
    Durations = {0, 1, 3, 4}
    Amounts = {0, 1, 2}
    ClockSteps = {0, 1, 2}
    Epoch = 3
    MaxTime = 9
    MaxApprovals = 3
INVARIANTS
    TypeOK
    LargeTransfersSpaced
PROPERTIES
    CooloffEnds
