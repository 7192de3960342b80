\* Three addresses that hand the roles to one another, and the upgrade
\* timelock in the hands of whoever is admin.
CONSTANTS
    Operator = {op1, op2, op3}
    NewAdmin = {op1, op2, op3}
    NewKeeper = {op2}
    NewGuardian = {op3}
    NoAddress = None
    Recipient = {r1}
    FeeBpsChoices = {3, 4}
    BufferBpsChoices = {2, 3}
    CapChoices = {0, 5}
    MaxAgeChoices = {0, 2}
    MaxPerformanceFeeBps = 3
    MaxIdleBufferBps = 2
    DefaultBridgedMaxAge = 1
    Wasm = {w1, w2}
    InitialWasm = w1
    NoUpgrade = None
    UpgradeChoices = {w2}
    DelayChoices = {0, 2, 13}
    DefaultUpgradeDelay = 2
    MinUpgradeDelay = 1
    MaxU64 = 15
    MaxTime = 3
    AnnouncesExecuteAfter = TRUE
SPECIFICATION AdminSpec
INVARIANTS AdminInv
PROPERTIES HandoverIsTwoStep MinimumNotice
