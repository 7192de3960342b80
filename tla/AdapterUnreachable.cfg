\* A pool that does not answer, and what is quoted for it.
CONSTANTS
    Strategy = {s1}
    RateScalar = 10
    InitialReserve <- MCReserve
    DebtChoices = {0, 6, 12, 18}
    OthersChoices = {12}
    RateChoices = {8, 10, 13, 17}
    CreditChoices <- MCCredits
    OutageChoices = {TRUE, FALSE}
    Vault = Vault
    OtherVault = OtherVault
    NoVault = None
    Uninitialized = {}
    StrategyOperator = {op1}
    NoStrategyAdmin = None
    InitialStrategyAdmin = op1
    RoundingMargin = 2
    DefaultMaxUtilization = 9
    DefaultMinBackstop = 1
    DefaultApprovalBuffer = 1
    MaxApprovalBuffer = 2
    ApprovalChoices = {}
    EmissionChoices = {}
    MaxClaimed = 0
    UtilizationChoices = {9}
    BackstopChoices = {1}
    StrategyPauseChoices = {}
    NewStrategyAdmin = {}
    NewVault = {}
    VirtualSharesOffset = 1
    NavPrecision = 1
    MaxBps = 10
    CallAmounts = {1, 3, 5, 8}
    MaxTracked = 9
    MaxCollateral = 12
SPECIFICATION AdapterSpec
INVARIANTS NoPromiseOfUnreachable
