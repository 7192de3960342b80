\* One holder and a fee recipient: a gain, a fee, and then redemptions but no
\* further gain.
CONSTANTS
    Holder = {h1, h2}
    Recipient = {h2}
    InitialWallet = 30
    NoCall = NoCall
    MaxStrategies = 2
    DepositChoices = {10}
    TransferChoices = {}
    DonationChoices = {20}
    MoveChoices = {}
    ReportChoices = {}
    BridgeChoices = {}
    Drainers = {}
    MaxTracked = 4
    MaxSupply = 30
    MaxRoundings = 0
    VirtualSharesOffset = 10
    NavPrecision = 10
    MaxBps = 10
    Strategy = {s1}
    RateScalar = 1
    InitialReserve <- MCReserve
    DebtChoices = {}
    OthersChoices = {}
    RateChoices = {1}
    CreditChoices = {}
    OutageChoices = {}
    Vault = Vault
    OtherVault = OtherVault
    NoVault = None
    Uninitialized = {}
    StrategyOperator = {op}
    NoStrategyAdmin = None
    InitialStrategyAdmin = op
    RoundingMargin = 1
    DefaultMaxUtilization = 10
    DefaultMinBackstop = 0
    DefaultApprovalBuffer = 1
    MaxApprovalBuffer = 2
    ApprovalChoices = {}
    EmissionChoices = {}
    MaxClaimed = 0
    UtilizationChoices = {}
    BackstopChoices = {}
    StrategyPauseChoices = {}
    NewStrategyAdmin = {}
    NewVault = {}
    Operator = {op}
    NewAdmin = {}
    NewKeeper = {}
    NewGuardian = {}
    NoAddress = None
    FeeBpsChoices = {3}
    BufferBpsChoices = {0}
    CapChoices = {}
    MaxAgeChoices = {}
    MaxPerformanceFeeBps = 3
    MaxIdleBufferBps = 2
    DefaultBridgedMaxAge = 1
    Wasm = {w1}
    InitialWasm = w1
    NoUpgrade = None
    UpgradeChoices = {}
    DelayChoices = {}
    DefaultUpgradeDelay = 2
    MinUpgradeDelay = 1
    MaxU64 = 10
    MaxTime = 0
    AnnouncesExecuteAfter = TRUE
SPECIFICATION HistorySpec
PROPERTIES FeesNeedYield
