\* Two holders and a fee recipient among them; yield and loss by donation and
\* report; the keeper is not moving funds.
CONSTANTS
    Holder = {h1, h2}
    Recipient = {h2}
    InitialWallet = 4
    NoCall = NoCall
    MaxStrategies = 2
    DepositChoices = {1, 3}
    TransferChoices = {1}
    DonationChoices = {1, 2}
    MoveChoices = {}
    ReportChoices = {0, 5}
    BridgeChoices = {}
    Drainers = {}
    MaxTracked = 4
    MaxSupply = 7
    VirtualSharesOffset = 2
    NavPrecision = 10
    MaxBps = 10
    Strategy = {s1}
    RateScalar = 1
    InitialReserve <- MCReserve
    DebtChoices = {}
    OthersChoices = {}
    RateChoices = {1}
    CreditChoices = {}
    OutageChoices = {}
    Vault = Vault
    OtherVault = OtherVault
    NoVault = None
    Uninitialized = {}
    StrategyOperator = {op}
    NoStrategyAdmin = None
    InitialStrategyAdmin = op
    RoundingMargin = 1
    DefaultMaxUtilization = 10
    DefaultMinBackstop = 0
    DefaultApprovalBuffer = 1
    MaxApprovalBuffer = 2
    ApprovalChoices = {}
    EmissionChoices = {}
    MaxClaimed = 0
    UtilizationChoices = {}
    BackstopChoices = {}
    StrategyPauseChoices = {}
    NewStrategyAdmin = {}
    NewVault = {}
    Operator = {op}
    NewAdmin = {}
    NewKeeper = {}
    NewGuardian = {}
    NoAddress = None
    FeeBpsChoices = {0, 3}
    BufferBpsChoices = {0}
    CapChoices = {0, 5}
    MaxAgeChoices = {}
    MaxPerformanceFeeBps = 3
    MaxIdleBufferBps = 2
    DefaultBridgedMaxAge = 1
    Wasm = {w1}
    InitialWasm = w1
    NoUpgrade = None
    UpgradeChoices = {}
    DelayChoices = {}
    DefaultUpgradeDelay = 2
    MinUpgradeDelay = 1
    MaxU64 = 10
    MaxTime = 0
    AnnouncesExecuteAfter = TRUE
SPECIFICATION FeeHistorySpec
INVARIANTS SharesAddUp ClaimsAreCovered NoYieldFromExits
PROPERTIES UsersNeverDilute FeeIsBounded MarkNeverFalls DepositsAreFair ImplementsShareVault
