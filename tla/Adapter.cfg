\* One strategy; interest, bad debt, outages, every setting.
CONSTANTS
    Strategy = {s1}
    RateScalar = 10
    InitialReserve <- MCReserve
    DebtChoices = {0, 18}
    OthersChoices = {12}
    RateChoices = {8, 17}
    CreditChoices <- MCCredits
    OutageChoices = {TRUE, FALSE}
    Vault = Vault
    OtherVault = OtherVault
    NoVault = None
    Uninitialized = {s1}
    StrategyOperator = {op1, op2}
    NoStrategyAdmin = None
    InitialStrategyAdmin = op1
    RoundingMargin = 2
    DefaultMaxUtilization = 9
    DefaultMinBackstop = 1
    DefaultApprovalBuffer = 1
    MaxApprovalBuffer = 2
    ApprovalChoices = {3}
    EmissionChoices = {1}
    MaxClaimed = 1
    UtilizationChoices = {9, 11}
    BackstopChoices = {1, 11}
    StrategyPauseChoices = {TRUE, FALSE}
    NewStrategyAdmin = {op2}
    NewVault = {Vault, OtherVault}
    VirtualSharesOffset = 1
    NavPrecision = 1
    MaxBps = 10
    CallAmounts = {1, 5, 8}
    MaxTracked = 9
    MaxCollateral = 12
    MaxRoundings = 3
SPECIFICATION AdapterHistorySpec
INVARIANTS StrategyInv QuoteIsDeliverable TrackedIsCovered FewRoundingsAreDeliverable
PROPERTIES DrainLeavesNothing
