\* The delay is changed while an upgrade waits.
CONSTANTS
    Wasm = {w1, w2, w3}
    InitialWasm = w1
    NoUpgrade = None
    UpgradeChoices = {w2, w3}
    DelayChoices = {0, 1, 2, 3, 15}
    DefaultUpgradeDelay = 3
    MinUpgradeDelay = 2
    MaxU64 = 15
    MaxTime = 8
    AnnouncesExecuteAfter = TRUE
SPECIFICATION TimelockSpec
PROPERTIES NoticeKept
