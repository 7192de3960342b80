\* Interest has made a d_token worth more than a b_token.
CONSTANTS
    Strategy = {s1}
    RateScalar = 10
    InitialReserve <- MCAccrued
    DebtChoices = {6, 9}
    OthersChoices = {12}
    RateChoices = {17, 20}
    CreditChoices <- MCCredits
    OutageChoices = {TRUE, FALSE}
    Vault = Vault
    OtherVault = OtherVault
    NoVault = None
    Uninitialized = {}
    StrategyOperator = {op1}
    NoStrategyAdmin = None
    InitialStrategyAdmin = op1
    RoundingMargin = 2
    DefaultMaxUtilization = 8
    DefaultMinBackstop = 1
    DefaultApprovalBuffer = 1
    MaxApprovalBuffer = 2
    ApprovalChoices = {}
    EmissionChoices = {}
    MaxClaimed = 0
    UtilizationChoices = {9}
    BackstopChoices = {1}
    StrategyPauseChoices = {}
    NewStrategyAdmin = {}
    NewVault = {}
    VirtualSharesOffset = 1
    NavPrecision = 1
    MaxBps = 10
    CallAmounts = {1, 3, 5, 8}
    MaxTracked = 9
    MaxCollateral = 12
SPECIFICATION AdapterSpec
INVARIANTS HealthyMeansBelowCeiling
