\* Two strategies over pools that lend out nearly all and fail to answer; one
\* holder exits, in parts or at once.
CONSTANTS
    Holder = {h1}
    Recipient = {h1}
    InitialWallet = 4
    NoCall = NoCall
    MaxStrategies = 2
    DepositChoices = {4}
    TransferChoices = {}
    DonationChoices = {}
    MoveChoices = {1, 2}
    ReportChoices = {}
    BridgeChoices = {}
    Drainers = {op}
    MaxTracked = 3
    MaxSupply = 8
    VirtualSharesOffset = 2
    NavPrecision = 1
    MaxBps = 10
    Strategy = {s1, s2}
    RateScalar = 1
    InitialReserve <- MCReserve
    DebtChoices = {0, 7, 8}
    OthersChoices = {}
    RateChoices = {1}
    CreditChoices = {}
    OutageChoices = {TRUE, FALSE}
    Vault = Vault
    OtherVault = OtherVault
    NoVault = None
    Uninitialized = {}
    StrategyOperator = {op}
    NoStrategyAdmin = None
    InitialStrategyAdmin = op
    RoundingMargin = 1
    DefaultMaxUtilization = 10
    DefaultMinBackstop = 0
    DefaultApprovalBuffer = 1
    MaxApprovalBuffer = 2
    ApprovalChoices = {}
    EmissionChoices = {}
    MaxClaimed = 0
    UtilizationChoices = {}
    BackstopChoices = {}
    StrategyPauseChoices = {}
    NewStrategyAdmin = {}
    NewVault = {}
    Operator = {op}
    NewAdmin = {}
    NewKeeper = {}
    NewGuardian = {}
    NoAddress = None
    FeeBpsChoices = {0}
    BufferBpsChoices = {0}
    CapChoices = {}
    MaxAgeChoices = {}
    MaxPerformanceFeeBps = 3
    MaxIdleBufferBps = 2
    DefaultBridgedMaxAge = 1
    Wasm = {w1}
    InitialWasm = w1
    NoUpgrade = None
    UpgradeChoices = {}
    DelayChoices = {}
    DefaultUpgradeDelay = 2
    MinUpgradeDelay = 1
    MaxU64 = 10
    MaxTime = 0
    AnnouncesExecuteAfter = TRUE
SPECIFICATION Spec
INVARIANTS VaultInv CallIsConsistent
PROPERTIES ShortfallIsReal ImplementsShareVault
SYMMETRY StrategySymmetry
