\* One strategy list, one holder, a buffer to keep: the keeper moves funds and
\* reports balances, the list changes, both admins drain, attestations expire.
CONSTANTS
    Holder = {h1}
    Recipient = {h1}
    InitialWallet = 4
    NoCall = NoCall
    MaxStrategies = 2
    DepositChoices = {4}
    TransferChoices = {}
    DonationChoices = {}
    MoveChoices = {2, 3}
    ReportChoices = {1}
    BridgeChoices = {4}
    Drainers = {op}
    MaxTracked = 4
    MaxSupply = 8
    MaxRoundings = 2
    VirtualSharesOffset = 2
    NavPrecision = 1
    MaxBps = 10
    Strategy = {s1}
    RateScalar = 1
    InitialReserve <- MCInterest
    DebtChoices = {0, 7}
    OthersChoices = {}
    RateChoices = {3}
    CreditChoices = {}
    OutageChoices = {}
    Vault = Vault
    OtherVault = OtherVault
    NoVault = None
    Uninitialized = {}
    StrategyOperator = {op}
    NoStrategyAdmin = None
    InitialStrategyAdmin = op
    RoundingMargin = 1
    DefaultMaxUtilization = 10
    DefaultMinBackstop = 0
    DefaultApprovalBuffer = 1
    MaxApprovalBuffer = 2
    ApprovalChoices = {}
    EmissionChoices = {}
    MaxClaimed = 0
    UtilizationChoices = {}
    BackstopChoices = {}
    StrategyPauseChoices = {}
    NewStrategyAdmin = {}
    NewVault = {}
    Operator = {op}
    NewAdmin = {}
    NewKeeper = {}
    NewGuardian = {}
    NoAddress = None
    FeeBpsChoices = {0}
    BufferBpsChoices = {2}
    CapChoices = {}
    MaxAgeChoices = {}
    MaxPerformanceFeeBps = 3
    MaxIdleBufferBps = 2
    DefaultBridgedMaxAge = 0
    Wasm = {w1}
    InitialWasm = w1
    NoUpgrade = None
    UpgradeChoices = {}
    DelayChoices = {}
    DefaultUpgradeDelay = 2
    MinUpgradeDelay = 1
    MaxU64 = 10
    MaxTime = 1
    AnnouncesExecuteAfter = TRUE
SPECIFICATION HistorySpec
INVARIANTS VaultInv BooksAgree AssetsAreBacked SharesAreBacked
PROPERTIES MovesKeepPrice BufferIsKept BooksOnlyApproach
