\* Repeated supplies into a pool whose b_tokens are worth 1.1; no bad debt.
CONSTANTS
    Strategy = {s1}
    RateScalar = 10
    InitialReserve <- MCLowInterest
    DebtChoices = {6}
    OthersChoices = {12}
    RateChoices = {11}
    CreditChoices <- MCCredits
    OutageChoices = {}
    Vault = Vault
    OtherVault = OtherVault
    NoVault = None
    Uninitialized = {}
    StrategyOperator = {op1}
    NoStrategyAdmin = None
    InitialStrategyAdmin = op1
    RoundingMargin = 2
    DefaultMaxUtilization = 9
    DefaultMinBackstop = 1
    DefaultApprovalBuffer = 1
    MaxApprovalBuffer = 2
    ApprovalChoices = {}
    EmissionChoices = {}
    MaxClaimed = 0
    UtilizationChoices = {9}
    BackstopChoices = {1}
    StrategyPauseChoices = {}
    NewStrategyAdmin = {}
    NewVault = {}
    VirtualSharesOffset = 1
    NavPrecision = 1
    MaxBps = 10
    CallAmounts = {1, 3, 5, 8}
    MaxTracked = 18
    MaxCollateral = 20
SPECIFICATION AdapterSpec
INVARIANTS MarginEliminatesRace
