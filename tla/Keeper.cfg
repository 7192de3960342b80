\* One strategy, one holder, a buffer of 40%; what disturbs may be anything a
\* user, an admin, the pool, the RPC node, the network or a signal does.
CONSTANTS
    Bot = op
    Target = s1
    MirroredBufferBps = 4
    MinAllocate = 2
    MaxFailures = 2
    MaxPolls = 2
    MaxDisturbances = 6
    Holder = {h1}
    Recipient = {h1}
    InitialWallet = 6
    NoCall = NoCall
    MaxStrategies = 1
    DepositChoices = {3}
    TransferChoices = {}
    DonationChoices = {}
    MoveChoices = {}
    ReportChoices = {}
    BridgeChoices = {}
    Drainers = {}
    MaxTracked = 10
    MaxSupply = 10
    VirtualSharesOffset = 1
    NavPrecision = 1
    MaxBps = 10
    Strategy = {s1}
    RateScalar = 1
    InitialReserve <- MCReserve
    DebtChoices = {0, 6}
    OthersChoices = {}
    RateChoices = {1}
    CreditChoices = {}
    OutageChoices = {TRUE, FALSE}
    Vault = Vault
    OtherVault = OtherVault
    NoVault = None
    Uninitialized = {}
    StrategyOperator = {op}
    NoStrategyAdmin = None
    InitialStrategyAdmin = op
    RoundingMargin = 1
    DefaultMaxUtilization = 8
    DefaultMinBackstop = 0
    DefaultApprovalBuffer = 1
    MaxApprovalBuffer = 2
    ApprovalChoices = {}
    EmissionChoices = {}
    MaxClaimed = 0
    UtilizationChoices = {}
    BackstopChoices = {}
    StrategyPauseChoices = {TRUE, FALSE}
    NewStrategyAdmin = {}
    NewVault = {}
    Operator = {op}
    NewAdmin = {}
    NewKeeper = {}
    NewGuardian = {}
    NoAddress = None
    FeeBpsChoices = {0}
    BufferBpsChoices = {4}
    CapChoices = {}
    MaxAgeChoices = {}
    MaxPerformanceFeeBps = 3
    MaxIdleBufferBps = 4
    DefaultBridgedMaxAge = 1
    Wasm = {w1}
    InitialWasm = w1
    NoUpgrade = None
    UpgradeChoices = {}
    DelayChoices = {}
    DefaultUpgradeDelay = 2
    MinUpgradeDelay = 1
    MaxU64 = 10
    MaxTime = 0
    AnnouncesExecuteAfter = TRUE
SPECIFICATION FairKeeperSpec
INVARIANTS KeeperInv OneCanTakeEffect
PROPERTIES LateAllocationsKeepBuffer TicksRunOut ExcessIsAllocated UnhealthyIsNoFailure ShutdownEnds
