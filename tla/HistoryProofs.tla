----------------------------- MODULE HistoryProofs -----------------------------
(***************************************************************************)
(* The two books of a strategy's balance agree, for any number of          *)
(* strategies: the vault's tracked balance and the strategy's own move     *)
(* together through every allocation, deallocation and waterfall, and      *)
(* through a waterfall that is undone.  And what they say is in the pool,  *)
(* up to its roundings.                                                    *)
(***************************************************************************)
EXTENDS VaultHistory, VaultPriceProofs

(* What makes BooksAgree inductive: the funds a redemption would put back  *)
(* agree too, and a strategy that is not initialised has no balance for    *)
(* initialize to forget.  And what a redemption has pulled so far brought  *)
(* no strategy's books further apart than it found them.                   *)
SavedAgree ==
    call # NoCall => \A s \in Strategy \ remarked : call.saved.tracked[s] = call.saved.stTracked[s]

UnbornIsEmpty ==
    \A s \in Strategy : stVault[s] = NoVault =>
        /\ stTracked[s] = 0
        /\ call # NoCall => call.saved.stTracked[s] = 0

PulledCloser ==
    call # NoCall => \A s \in Strategy :
        Apart(tracked[s], stTracked[s]) <= Apart(call.saved.tracked[s], call.saved.stTracked[s])

HistoryInv == IInv /\ BooksAgree /\ SavedAgree /\ UnbornIsEmpty /\ PulledCloser

(* A step of the history is a step of the vault.                           *)
LEMMA HistoryStepIsStep ==
    ASSUME [HistoryNext]_historyVars
    PROVE  [Next]_vars
BY DEF HistoryNext, historyVars

(* The records are maps from strategies, before and after a step.          *)
LEMMA BookTypes ==
    ASSUME IInv
    PROVE  /\ tracked \in [Strategy -> Nat] /\ stTracked \in [Strategy -> Nat]
           /\ stVault \in [Strategy -> {Vault, OtherVault, NoVault}]
           /\ call # NoCall => /\ call.saved.tracked \in [Strategy -> Nat]
                               /\ call.saved.stTracked \in [Strategy -> Nat]
BY DEF IInv, VaultInv, VaultTypeOK, StrategyInv, StrategyTypeOK, Call, Funds

(* And after it.                                                           *)
LEMMA BookTypesNext ==
    ASSUME IInv'
    PROVE  /\ tracked' \in [Strategy -> Nat] /\ stTracked' \in [Strategy -> Nat]
           /\ call' # NoCall => /\ call'.saved.tracked \in [Strategy -> Nat]
                                /\ call'.saved.stTracked \in [Strategy -> Nat]
BY DEF IInv, VaultInv, VaultTypeOK, StrategyInv, StrategyTypeOK, Call, Funds

-----------------------------------------------------------------------------
(* What each kind of step does to the two books.                           *)

(* Both books of every strategy, and its vault, stay what they are.        *)
BooksKept == tracked' = tracked /\ stTracked' = stTracked /\ stVault' = stVault

(* The step brings the books of a strategy no further apart.               *)
Nearer(s) == Apart(tracked'[s], stTracked'[s]) <= Apart(tracked[s], stTracked[s])

(* How far balances are apart is a natural number.                         *)
LEMMA ApartIsNatural ==
    ASSUME NEW a \in Nat, NEW b \in Nat
    PROVE  Apart(a, b) \in Nat
BY DEF Apart, Monus

(* Balances are apart by nothing exactly if they are equal; taking from    *)
(* both what the second has, but not below zero, brings them no further    *)
(* apart.                                                                  *)
LEMMA ApartFacts ==
    ASSUME NEW a \in Nat, NEW b \in Nat
    PROVE  /\ Apart(a, b) <= 0 <=> a = b
           /\ \A w \in 0..b : Apart(Monus(a, w), b - w) <= Apart(a, b)
BY DEF Apart, Monus

(* Adding to both leaves them as far apart.                                *)
LEMMA ApartShifts ==
    ASSUME NEW a \in Nat, NEW b \in Nat, NEW n \in Nat
    PROVE  Apart(a + n, b + n) = Apart(a, b)
BY DEF Apart, Monus

(* Books that a step leaves alone are no further apart.                    *)
LEMMA KeptIsNearer ==
    ASSUME IInv, NEW s \in Strategy, tracked'[s] = tracked[s], stTracked'[s] = stTracked[s]
    PROVE  Nearer(s)
<1>1. tracked[s] \in Nat /\ stTracked[s] \in Nat
  BY BookTypes
<1>2. Apart(tracked[s], stTracked[s]) \in Nat
  BY <1>1, ApartIsNatural
<1> QED BY <1>2 DEF Nearer

(* And books that agreed still do.                                         *)
LEMMA NearerAgree ==
    ASSUME IInv, IInv', NEW s \in Strategy, Nearer(s), tracked[s] = stTracked[s]
    PROVE  tracked'[s] = stTracked'[s]
<1>1. /\ tracked[s] \in Nat /\ stTracked[s] \in Nat
      /\ tracked'[s] \in Nat /\ stTracked'[s] \in Nat
  BY BookTypes, BookTypesNext
<1>2. Apart(tracked[s], stTracked[s]) <= 0 /\ Apart(tracked[s], stTracked[s]) \in Nat
  BY <1>1, ApartFacts, ApartIsNatural
<1>3. Apart(tracked'[s], stTracked'[s]) \in Nat
  BY <1>1, ApartIsNatural
<1>4. Apart(tracked'[s], stTracked'[s]) <= 0
  BY <1>2, <1>3 DEF Nearer
<1> QED BY <1>1, <1>4, ApartFacts

(* A withdrawal by the vault takes as much off one book as off the other,  *)
(* or all there is: it brings them no further apart.                       *)
LEMMA PullKeepsBooks ==
    ASSUME IInv, NEW s \in Strategy, NEW amount \in Nat,
           StrategyWithdraw(s, Vault, amount),
           tracked' = [tracked EXCEPT ![s] = Monus(@, Withdrawn(s, amount))]
    PROVE  /\ \A r \in Strategy : Nearer(r)
           /\ \A r \in Strategy : stVault[r] = NoVault => stTracked'[r] = stTracked[r]
           /\ stVault' = stVault
<1>1. tracked \in [Strategy -> Nat] /\ stTracked \in [Strategy -> Nat]
  BY BookTypes
<1>2. /\ stTracked' = [stTracked EXCEPT ![s] = @ - Withdrawn(s, amount)]
      /\ stVault' = stVault /\ stVault[s] = Vault
  BY DEF StrategyWithdraw, CanPull, stConfigVars, stRoleVars
<1>3. Withdrawn(s, amount) \in Nat /\ Withdrawn(s, amount) <= stTracked[s]
  BY <1>1 DEF Withdrawn, Least
<1>4. ASSUME NEW r \in Strategy PROVE Nearer(r)
  <2>1. CASE r = s
    <3>1. /\ tracked'[s] = Monus(tracked[s], Withdrawn(s, amount))
          /\ stTracked'[s] = stTracked[s] - Withdrawn(s, amount)
      BY <1>1, <1>2
    <3>2. tracked[s] \in Nat /\ stTracked[s] \in Nat /\ Withdrawn(s, amount) \in 0..stTracked[s]
      BY <1>1, <1>3
    <3>3. Apart(Monus(tracked[s], Withdrawn(s, amount)), stTracked[s] - Withdrawn(s, amount))
            <= Apart(tracked[s], stTracked[s])
      BY <3>2, ApartFacts
    <3> QED BY <2>1, <3>1, <3>3 DEF Nearer
  <2>2. CASE r # s
    BY <1>1, <1>2, <2>2, KeptIsNearer
  <2> QED BY <2>1, <2>2
<1>5. ASSUME NEW r \in Strategy, stVault[r] = NoVault PROVE stTracked'[r] = stTracked[r]
  BY <1>1, <1>2, <1>5, StrategyAssumption
<1> QED BY <1>2, <1>4, <1>5

(* What a waterfall asks of a strategy.                                    *)
LEMMA AskIsNatural ==
    ASSUME IInv, NEW s \in Strategy, PullFromStrategy(s)
    PROVE  Ask(s) \in Nat
<1>1. call.remaining \in Nat
  BY DEF PullFromStrategy, AtStrategy, IInv, VaultInv, VaultTypeOK, Call
<1>2. CanPull(s, Vault, Ask(s))
  BY DEF PullFromStrategy, StrategyWithdraw
<1>3. AvailableLiquidity(s) \in Int
  <2>1. /\ stTracked[s] \in Nat /\ reserve[s] \in Reserve
    BY DEF IInv, VaultInv, StrategyInv, StrategyTypeOK, PoolTypeOK
  <2>2. Supplied(reserve[s]) - Borrowed(reserve[s]) \in Int
    BY <2>1, PoolAssumption DEF Supplied, Borrowed, Reserve
  <2> QED BY <2>1, <2>2, StrategyAssumption DEF AvailableLiquidity, Quote, Monus, Least
<1> QED BY <1>1, <1>2, <1>3 DEF Ask, Least, CanPull

(* So the strategy a fund-moving transaction leaves with different books   *)
(* is one that its own admin drained, or one drained on both.              *)
LEMMA FundStepBooks ==
    ASSUME IInv, UnbornIsEmpty, Alone, FundStep
    PROVE  /\ \A r \in Strategy \ RemarkedNow : Nearer(r)
           /\ \A r \in Strategy : stVault[r] = NoVault => stTracked'[r] = 0
           /\ stVault' = stVault
<1> PICK s \in Strategy :
        \/ \E caller \in Operator :
             \/ \E n \in MoveChoices : Allocate(caller, s, n) \/ Deallocate(caller, s, n)
             \/ EmergencyWithdrawStrategy(caller, s)
        \/ \E caller \in Drainers : StrategyAdminDrains(caller, s)
  BY DEF FundStep
<1>1. /\ tracked \in [Strategy -> Nat] /\ stTracked \in [Strategy -> Nat]
      /\ \A r \in Strategy : stVault[r] = NoVault => stTracked[r] = 0
  BY BookTypes DEF UnbornIsEmpty
<1>2. MoveChoices \subseteq Int
  BY VaultAssumption
<1> DEFINE Goal == /\ \A r \in Strategy \ RemarkedNow : Nearer(r)
                   /\ \A r \in Strategy : stVault[r] = NoVault => stTracked'[r] = 0
                   /\ stVault' = stVault
<1>3. ASSUME NEW caller \in Operator, NEW n \in MoveChoices, Allocate(caller, s, n)
      PROVE  Goal
  <2>1. /\ tracked' = [tracked EXCEPT ![s] = @ + n] /\ stTracked' = [stTracked EXCEPT ![s] = @ + n]
        /\ stVault' = stVault /\ stVault[s] = Vault
    BY <1>3 DEF Allocate, StrategyDeposit, CanDeposit, stConfigVars, stRoleVars
  <2>2. stVault[s] # NoVault
    BY <2>1, StrategyAssumption
  <2>3. ASSUME NEW r \in Strategy PROVE Nearer(r)
    <3>1. CASE r = s
      <4>1. tracked'[s] = tracked[s] + n /\ stTracked'[s] = stTracked[s] + n
        BY <1>1, <2>1
      <4>2. n \in Nat /\ tracked[s] \in Nat /\ stTracked[s] \in Nat
        BY <1>1, <1>2, <1>3 DEF Allocate, CanAllocate
      <4>3. Apart(tracked[s], stTracked[s]) \in Nat
        BY <4>2, ApartIsNatural
      <4>4. Apart(tracked[s] + n, stTracked[s] + n) = Apart(tracked[s], stTracked[s])
        BY <4>2, ApartShifts
      <4> QED BY <3>1, <4>1, <4>3, <4>4 DEF Nearer
    <3>2. CASE r # s
      BY <1>1, <2>1, <3>2, KeptIsNearer
    <3> QED BY <3>1, <3>2
  <2> QED BY <1>1, <2>1, <2>2, <2>3
<1>4. ASSUME NEW caller \in Operator, NEW n \in MoveChoices, Deallocate(caller, s, n)
      PROVE  Goal
  <2>1. /\ StrategyWithdraw(s, Vault, n)
        /\ tracked' = [tracked EXCEPT ![s] = Monus(@, Withdrawn(s, n))]
        /\ n \in Nat
    BY <1>2, <1>4 DEF Deallocate
  <2> QED BY <1>1, <2>1, PullKeepsBooks
<1>5. ASSUME NEW caller \in Operator, EmergencyWithdrawStrategy(caller, s)
      PROVE  Goal
  <2>1. /\ tracked' = [tracked EXCEPT ![s] = 0] /\ stTracked' = [stTracked EXCEPT ![s] = 0]
        /\ stVault' = stVault
    BY <1>5 DEF EmergencyWithdrawStrategy, StrategyDrain, stConfigVars, stRoleVars
  <2>2. ASSUME NEW r \in Strategy PROVE Nearer(r)
    <3>1. CASE r = s
      <4>1. tracked'[s] = 0 /\ stTracked'[s] = 0 /\ Apart(tracked[s], stTracked[s]) \in Nat
        BY <1>1, <2>1, ApartIsNatural
      <4>2. Apart(0, 0) <= 0 /\ Apart(0, 0) \in Nat
        BY ApartFacts, ApartIsNatural
      <4> QED BY <3>1, <4>1, <4>2 DEF Nearer
    <3>2. CASE r # s
      BY <1>1, <2>1, <3>2, KeptIsNearer
    <3> QED BY <3>1, <3>2
  <2> QED BY <1>1, <2>1, <2>2
<1>6. ASSUME NEW caller \in Drainers, StrategyAdminDrains(caller, s)
      PROVE  Goal
  <2>1. /\ tracked' = tracked /\ stTracked' = [stTracked EXCEPT ![s] = 0] /\ stVault' = stVault
    BY <1>6 DEF StrategyAdminDrains, StrategyDrain, stConfigVars, stRoleVars
  <2>2. s \in RemarkedNow \/ (tracked'[s] = tracked[s] /\ stTracked'[s] = stTracked[s])
    BY <1>6 DEF RemarkedNow
  <2>3. \A r \in Strategy \ RemarkedNow : tracked'[r] = tracked[r] /\ stTracked'[r] = stTracked[r]
    BY <1>1, <2>1, <2>2
  <2> QED BY <1>1, <2>1, <2>3, KeptIsNearer
<1> QED BY <1>3, <1>4, <1>5, <1>6

(* The list changes only with strategies that have no balance.             *)
LEMMA ListStepBooks ==
    ASSUME IInv, ListStep
    PROVE  BooksKept
<1> PICK caller \in Operator, s \in Strategy : AddStrategy(caller, s) \/ RemoveStrategy(caller, s)
  BY DEF ListStep
<1>1. tracked \in [Strategy -> Nat]
  BY BookTypes
<1>2. tracked[s] = 0 /\ tracked' = [tracked EXCEPT ![s] = 0] /\ UNCHANGED strategyVars
  BY DEF AddStrategy, RemoveStrategy, IInv, VaultInv, ListIsConsistent
<1> QED BY <1>1, <1>2 DEF BooksKept, strategyVars, stConfigVars, stRoleVars

(* A report is the vault's book, of a strategy that is then re-marked.     *)
LEMMA ReportStepBooks ==
    ASSUME IInv, Alone, ReportStep
    PROVE  /\ \A r \in Strategy \ RemarkedNow : tracked'[r] = tracked[r]
           /\ stTracked' = stTracked /\ stVault' = stVault
<1>1. ASSUME NEW caller \in Operator, NEW n \in BridgeChoices, AttestBridgedBalance(caller, n)
      PROVE  BooksKept
  BY <1>1 DEF AttestBridgedBalance, BooksKept, fundVars, strategyVars, stConfigVars, stRoleVars
<1>2. ASSUME NEW caller \in Operator, NEW s \in Strategy, NEW n \in ReportChoices,
             UpdateTrackedBalance(caller, s, n)
      PROVE  /\ \A r \in Strategy \ RemarkedNow : tracked'[r] = tracked[r]
             /\ stTracked' = stTracked /\ stVault' = stVault
  <2>1. s \in RemarkedNow \/ tracked'[s] = tracked[s]
    BY <1>2 DEF RemarkedNow
  <2>2. tracked' = [tracked EXCEPT ![s] = n] /\ UNCHANGED strategyVars
    BY <1>2 DEF UpdateTrackedBalance
  <2> QED BY <2>1, <2>2, BookTypes DEF strategyVars, stConfigVars, stRoleVars
<1> QED BY <1>1, <1>2 DEF ReportStep, BooksKept

(* Of the strategy's settings only initialize touches its book, which is   *)
(* empty; none takes its vault away.                                       *)
LEMMA OutsideStepBooks ==
    ASSUME IInv, UnbornIsEmpty, OutsideStep
    PROVE  /\ tracked' = tracked /\ stTracked' = stTracked
           /\ \A r \in Strategy : stVault'[r] = NoVault => stVault[r] = NoVault
<1>1. tracked' = tracked
  BY DEF OutsideStep, vaultVars, fundVars
<1>2. CASE UNCHANGED strategyVars \/ UNCHANGED <<stTracked, stConfigVars>>
  BY <1>1, <1>2 DEF strategyVars, stConfigVars, stRoleVars
<1>3. CASE StrategySettings
  <2> PICK s \in Strategy, caller \in StrategyOperator :
          \/ \E vault \in {Vault, OtherVault} : StrategyInitialize(s, caller, vault)
          \/ Harvest(s, caller)
          \/ \E p \in StrategyPauseChoices : StrategySetPaused(s, caller, p)
          \/ \E new \in NewStrategyAdmin : StrategyProposeAdmin(s, caller, new)
          \/ StrategyAcceptAdmin(s, caller)
          \/ \E new \in NewVault : StrategySetVault(s, caller, new)
          \/ \E bps \in UtilizationChoices : SetMaxUtilization(s, caller, bps)
          \/ \E bps \in BackstopChoices : SetMinBackstopCoverage(s, caller, bps)
          \/ \E buffer \in ApprovalChoices : SetApprovalBuffer(s, caller, buffer)
    BY <1>3 DEF StrategySettings
  <2>1. stTracked \in [Strategy -> Nat] /\ stVault \in [Strategy -> {Vault, OtherVault, NoVault}]
    BY BookTypes
  <2>2. ASSUME NEW vault \in {Vault, OtherVault}, StrategyInitialize(s, caller, vault)
        PROVE  /\ stTracked' = stTracked
               /\ \A r \in Strategy : stVault'[r] = NoVault => stVault[r] = NoVault
    BY <2>1, <2>2, StrategyAssumption DEF StrategyInitialize, UnbornIsEmpty
  <2>3. ASSUME NEW new \in NewVault, StrategySetVault(s, caller, new)
        PROVE  /\ stTracked' = stTracked
               /\ \A r \in Strategy : stVault'[r] = NoVault => stVault[r] = NoVault
    BY <2>1, <2>3, StrategyAssumption DEF StrategySetVault
  <2>4. CASE \/ Harvest(s, caller)
             \/ \E p \in StrategyPauseChoices : StrategySetPaused(s, caller, p)
             \/ \E new \in NewStrategyAdmin : StrategyProposeAdmin(s, caller, new)
             \/ StrategyAcceptAdmin(s, caller)
             \/ \E bps \in UtilizationChoices : SetMaxUtilization(s, caller, bps)
             \/ \E bps \in BackstopChoices : SetMinBackstopCoverage(s, caller, bps)
             \/ \E buffer \in ApprovalChoices : SetApprovalBuffer(s, caller, buffer)
    <3>1. stTracked' = stTracked /\ stVault' = stVault
      BY <2>4 DEF Harvest, StrategySetPaused, StrategyProposeAdmin, StrategyAcceptAdmin,
                  SetMaxUtilization, SetMinBackstopCoverage, SetApprovalBuffer, stRoleVars
    <3> QED BY <1>1, <3>1
  <2> QED BY <1>1, <2>2, <2>3, <2>4
<1> QED BY <1>2, <1>3 DEF OutsideStep

(* The operations of the holders, and fees, move no strategy's balance.    *)
LEMMA UserStepBooks ==
    ASSUME UserStep \/ CollectFees
    PROVE  BooksKept
<1>1. ASSUME NEW h \in Holder, NEW to \in Holder, NEW n, Transfer(h, to, n) PROVE BooksKept
  BY <1>1 DEF Transfer, BooksKept, fundVars, strategyVars, stConfigVars, stRoleVars
<1>2. ASSUME NEW h \in Holder, NEW n, Deposit(h, n) PROVE BooksKept
  BY <1>2 DEF Deposit, BooksKept, strategyVars, stConfigVars, stRoleVars
<1>3. ASSUME NEW h \in Holder, NEW n, Donate(h, n) PROVE BooksKept
  BY <1>3 DEF Donate, BooksKept, strategyVars, stConfigVars, stRoleVars
<1>4. ASSUME NEW h \in Holder, NEW n, RedeemFromIdle(h, n) PROVE BooksKept
  BY <1>4 DEF RedeemFromIdle, BooksKept, strategyVars, stConfigVars, stRoleVars
<1>5. ASSUME CollectFees PROVE BooksKept
  BY <1>5 DEF CollectFees, BooksKept, fundVars, strategyVars, stConfigVars, stRoleVars
<1> QED BY <1>1, <1>2, <1>3, <1>4, <1>5 DEF UserStep

-----------------------------------------------------------------------------
(* The invariant.                                                          *)

(* A strategy settled in this step has nothing on either book.             *)
LEMMA SettledIsEmpty ==
    ASSUME IInv, NEW s \in SettledNow
    PROVE  s \in Strategy /\ call = NoCall /\ tracked'[s] = 0 /\ stTracked'[s] = 0
<1> PICK caller \in Operator : EmergencyWithdrawStrategy(caller, s)
  BY DEF SettledNow
<1>1. s \in Strategy /\ call = NoCall
  BY DEF SettledNow, Alone
<1>2. tracked' = [tracked EXCEPT ![s] = 0] /\ stTracked' = [stTracked EXCEPT ![s] = 0]
  BY DEF EmergencyWithdrawStrategy, StrategyDrain
<1> QED BY <1>1, <1>2, BookTypes

(* A transaction of one step.                                              *)
LEMMA FreeStepHistory ==
    ASSUME HistoryInv, IInv', Alone,
           UserStep \/ ListStep \/ FundStep \/ ReportStep \/ CollectFees \/ OutsideStep,
           remarked' = (remarked \cup RemarkedNow) \ SettledNow
    PROVE  /\ BooksAgree' /\ SavedAgree' /\ UnbornIsEmpty' /\ PulledCloser'
           /\ \A r \in Strategy \ RemarkedNow : Nearer(r)
<1>1. IInv /\ UnbornIsEmpty /\ \A r \in Strategy \ remarked : tracked[r] = stTracked[r]
  BY DEF HistoryInv, BooksAgree
<1> DEFINE Goal == /\ \A r \in Strategy \ RemarkedNow : Nearer(r)
                   /\ \A r \in Strategy : stVault'[r] = NoVault => stTracked'[r] = 0
<1>2. BooksKept => Goal
  BY <1>1, KeptIsNearer DEF BooksKept, UnbornIsEmpty
<1>3. Goal
  <2>1. CASE UserStep \/ CollectFees
    BY <2>1, <1>2, UserStepBooks
  <2>2. CASE ListStep
    BY <2>2, <1>1, <1>2, ListStepBooks
  <2>3. CASE FundStep
    BY <2>3, <1>1, FundStepBooks
  <2>4. CASE ReportStep
    BY <2>4, <1>1, ReportStepBooks, KeptIsNearer DEF UnbornIsEmpty
  <2>5. CASE OutsideStep
    BY <2>5, <1>1, OutsideStepBooks, KeptIsNearer DEF UnbornIsEmpty
  <2> QED BY <2>1, <2>2, <2>3, <2>4, <2>5
<1>4. ASSUME NEW r \in Strategy \ remarked' PROVE tracked'[r] = stTracked'[r]
  <2>1. CASE r \in SettledNow
    BY <2>1, <1>1, SettledIsEmpty
  <2>2. CASE r \notin SettledNow
    <3>1. r \in Strategy \ remarked /\ r \in Strategy \ RemarkedNow
      BY <2>2, <1>4
    <3> QED BY <3>1, <1>1, <1>3, NearerAgree
  <2> QED BY <2>1, <2>2
<1>5. BooksAgree'
  BY <1>4 DEF BooksAgree
<1> QED BY <1>3, <1>5 DEF SavedAgree, UnbornIsEmpty, PulledCloser, Alone

(* The start of a waterfall saves two books that agree.                    *)
LEMMA StartHistory ==
    ASSUME HistoryInv, NEW h \in Holder, NEW n, call = NoCall, StartWaterfall(h, n),
           remarked' = (remarked \cup RemarkedNow) \ SettledNow
    PROVE  BooksAgree' /\ SavedAgree' /\ UnbornIsEmpty' /\ PulledCloser'
<1>1. IInv /\ UnbornIsEmpty /\ \A r \in Strategy \ remarked : tracked[r] = stTracked[r]
  BY DEF HistoryInv, BooksAgree
<1>2. /\ tracked' = tracked /\ stTracked' = stTracked /\ stVault' = stVault
      /\ call'.saved.tracked = tracked /\ call'.saved.stTracked = stTracked
  BY DEF StartWaterfall, CurrentFunds, vaultVars, fundVars, strategyVars, stConfigVars, stRoleVars
<1>3. ASSUME NEW r \in Strategy \ remarked' PROVE tracked'[r] = stTracked'[r]
  <2>1. CASE r \in SettledNow
    BY <2>1, <1>1, SettledIsEmpty
  <2>2. CASE r \notin SettledNow
    BY <2>2, <1>1, <1>2, <1>3
  <2> QED BY <2>1, <2>2
<1>4. BooksAgree'
  BY <1>3 DEF BooksAgree
<1>5. SavedAgree'
  BY <1>2, <1>3 DEF SavedAgree
<1>6. UnbornIsEmpty'
  BY <1>1, <1>2 DEF UnbornIsEmpty
<1>7. PulledCloser'
  BY <1>1, <1>2, KeptIsNearer DEF PulledCloser, Nearer
<1> QED BY <1>4, <1>5, <1>6, <1>7

(* A waterfall's steps, its end and its failure.                           *)
LEMMA WaterfallHistory ==
    ASSUME HistoryInv, IInv', WaterfallStep, remarked' = (remarked \cup RemarkedNow) \ SettledNow
    PROVE  BooksAgree' /\ SavedAgree' /\ UnbornIsEmpty' /\ PulledCloser'
<1>1. /\ IInv /\ UnbornIsEmpty /\ SavedAgree /\ PulledCloser
      /\ \A r \in Strategy \ remarked : tracked[r] = stTracked[r]
  BY DEF HistoryInv, BooksAgree
<1>2. call # NoCall /\ call \in Call /\ stVault \in [Strategy -> {Vault, OtherVault, NoVault}]
  BY <1>1, BookTypes DEF WaterfallStep, AtStrategy, FinishRedeem, FallShort, WaterfallOver,
                         SkipStrategy, PullFromStrategy, TrapInStrategy, IInv, VaultInv, VaultTypeOK
<1>3. remarked \subseteq remarked'
  BY <1>2 DEF SettledNow, Alone
<1> DEFINE Goal == /\ \A r \in Strategy : Nearer(r)
                   /\ \A r \in Strategy : stVault[r] = NoVault => stTracked'[r] = 0
                   /\ stVault' = stVault
                   /\ call' # NoCall => call'.saved = call.saved
<1>4. Goal => BooksAgree' /\ SavedAgree' /\ UnbornIsEmpty' /\ PulledCloser'
  <2> SUFFICES ASSUME Goal PROVE BooksAgree' /\ SavedAgree' /\ UnbornIsEmpty' /\ PulledCloser'
    OBVIOUS
  <2>1. BooksAgree'
    BY <1>1, <1>3, NearerAgree DEF BooksAgree
  <2>2. SavedAgree'
    BY <1>1, <1>2, <1>3 DEF SavedAgree
  <2>3. UnbornIsEmpty'
    BY <1>1, <1>2 DEF UnbornIsEmpty
  <2>4. PulledCloser'
    <3> SUFFICES ASSUME call' # NoCall, NEW r \in Strategy
                 PROVE  Apart(tracked'[r], stTracked'[r])
                          <= Apart(call'.saved.tracked[r], call'.saved.stTracked[r])
      BY DEF PulledCloser
    <3>1. /\ Apart(tracked[r], stTracked[r]) \in Nat /\ Apart(tracked'[r], stTracked'[r]) \in Nat
          /\ Apart(call.saved.tracked[r], call.saved.stTracked[r]) \in Nat
      <4>1. /\ tracked[r] \in Nat /\ stTracked[r] \in Nat
            /\ tracked'[r] \in Nat /\ stTracked'[r] \in Nat
        BY <1>1, BookTypes, BookTypesNext
      <4>2. call.saved.tracked[r] \in Nat /\ call.saved.stTracked[r] \in Nat
        BY <1>1, <1>2, BookTypes
      <4> QED BY <4>1, <4>2, ApartIsNatural
    <3>2. Apart(tracked[r], stTracked[r]) <= Apart(call.saved.tracked[r], call.saved.stTracked[r])
      BY <1>1, <1>2 DEF PulledCloser
    <3>3. Apart(tracked'[r], stTracked'[r]) <= Apart(tracked[r], stTracked[r])
      BY DEF Nearer
    <3>4. call'.saved = call.saved
      OBVIOUS
    <3> HIDE DEF Goal
    <3> QED BY <3>1, <3>2, <3>3, <3>4
  <2> QED BY <2>1, <2>2, <2>3, <2>4
<1>5. ASSUME NEW s \in Strategy, SkipStrategy(s) PROVE Goal
  <2>1. tracked' = tracked /\ stTracked' = stTracked /\ stVault' = stVault
    BY <1>5 DEF SkipStrategy, vaultVars, fundVars, strategyVars, stConfigVars, stRoleVars
  <2>2. call'.saved = call.saved
    BY <1>2, <1>5 DEF SkipStrategy, Call
  <2> QED BY <1>1, <2>1, <2>2, KeptIsNearer DEF UnbornIsEmpty
<1>6. ASSUME NEW s \in Strategy, PullFromStrategy(s) PROVE Goal
  <2>1. Ask(s) \in Nat
    BY <1>1, <1>6, AskIsNatural
  <2>2. /\ StrategyWithdraw(s, Vault, Ask(s))
        /\ tracked' = [tracked EXCEPT ![s] = Monus(@, Withdrawn(s, Ask(s)))]
    BY <1>6 DEF PullFromStrategy
  <2>3. call'.saved = call.saved
    BY <1>2, <1>6 DEF PullFromStrategy, Call
  <2> QED BY <1>1, <2>1, <2>2, <2>3, PullKeepsBooks DEF UnbornIsEmpty
<1>7. ASSUME Rollback PROVE BooksAgree' /\ SavedAgree' /\ UnbornIsEmpty' /\ PulledCloser'
  <2>1. /\ tracked' = call.saved.tracked /\ stTracked' = call.saved.stTracked
        /\ call' = NoCall /\ stVault' = stVault
    BY <1>7 DEF Rollback, stConfigVars, stRoleVars
  <2>2. BooksAgree'
    BY <1>1, <1>2, <1>3, <2>1 DEF BooksAgree, SavedAgree
  <2>3. UnbornIsEmpty'
    BY <1>1, <1>2, <2>1 DEF UnbornIsEmpty
  <2>4. SavedAgree' /\ PulledCloser'
    BY <2>1 DEF SavedAgree, PulledCloser
  <2> QED BY <2>2, <2>3, <2>4
<1>8. ASSUME FinishRedeem PROVE Goal
  <2>1. tracked' = tracked /\ UNCHANGED strategyVars /\ call' = NoCall
    BY <1>8 DEF FinishRedeem
  <2>2. tracked' = tracked /\ stTracked' = stTracked /\ stVault' = stVault
    BY <2>1 DEF strategyVars, stConfigVars, stRoleVars
  <2> QED BY <1>1, <2>1, <2>2, KeptIsNearer DEF UnbornIsEmpty
<1> HIDE DEF Goal
<1> QED BY <1>4, <1>5, <1>6, <1>7, <1>8 DEF WaterfallStep, TrapInStrategy, FallShort

(* Every step keeps the invariant.                                         *)
LEMMA HistoryStepInv ==
    ASSUME HistoryInv, [HistoryNext]_historyVars
    PROVE  HistoryInv'
<1>1. IInv'
  BY HistoryStepIsStep, VaultStepInv DEF HistoryInv
<1>2. CASE UNCHANGED historyVars
  BY <1>1, <1>2 DEF HistoryInv, BooksAgree, SavedAgree, UnbornIsEmpty, PulledCloser, historyVars, vars, vaultVars,
                    fundVars, strategyVars, stConfigVars, stRoleVars
<1>3. CASE HistoryNext
  <2>1. Next /\ remarked' = (remarked \cup RemarkedNow) \ SettledNow
    BY <1>3 DEF HistoryNext
  <2>2. CASE /\ call = NoCall
             /\ call' = NoCall
             /\ UserStep \/ ListStep \/ FundStep \/ ReportStep \/ CollectFees \/ OutsideStep
    BY <1>1, <2>1, <2>2, FreeStepHistory DEF HistoryInv, Alone
  <2>3. CASE call = NoCall /\ \E h \in Holder : \E n \in 1..shares[h] : StartWaterfall(h, n)
    BY <1>1, <2>1, <2>3, StartHistory DEF HistoryInv
  <2>4. CASE WaterfallStep
    BY <1>1, <2>1, <2>4, WaterfallHistory DEF HistoryInv
  <2> QED BY <2>1, <2>2, <2>3, <2>4 DEF Next
<1> QED BY <1>2, <1>3

-----------------------------------------------------------------------------
(* What the roundings cost.                                                *)

(* What makes AssetsAreBacked inductive: the strategy's own book is        *)
(* covered, on the list or off it, and so is the one a rollback brings     *)
(* back, by the roundings there had been when the redemption began.        *)
SavedIsCovered ==
    call # NoCall => \A s \in Strategy :
        CoverOf(call.saved.stTracked[s], call.saved.collateral[s], call.saved.reserve[s].b_rate,
                before.roundings[s], before.impaired[s])

BackingInv ==
    /\ RoundingTypeOK
    /\ TrackedIsCovered
    /\ before \in [roundings : [Strategy -> Nat], impaired : [Strategy -> BOOLEAN]]
    /\ SavedIsCovered

(* A step of the vault that is no rollback moves every strategy in one of  *)
(* the ways that keep the cover.                                           *)
LEMMA VaultMoves ==
    ASSUME IInv, Next, ~Undone, NEW s \in Strategy
    PROVE  Moves(s)
<1>1. StrategyInv
  BY DEF IInv, VaultInv
<1>2. UNCHANGED strategyVars => Moves(s)
  BY DEF strategyVars, poolVars, Moves
<1>3. CASE UserStep \/ CollectFees \/ ListStep \/ ReportStep
  <2>1. UserStep => UNCHANGED strategyVars
    BY DEF UserStep, Transfer, Deposit, Donate, RedeemFromIdle
  <2>2. ListStep => UNCHANGED strategyVars
    BY DEF ListStep, AddStrategy, RemoveStrategy
  <2>3. ReportStep => UNCHANGED strategyVars
    BY DEF ReportStep, AttestBridgedBalance, UpdateTrackedBalance
  <2>4. CollectFees => UNCHANGED strategyVars
    BY DEF CollectFees
  <2> QED BY <1>2, <1>3, <2>1, <2>2, <2>3, <2>4
<1>4. CASE FundStep
  <2> PICK z \in Strategy :
          \/ \E caller \in Operator :
               \/ \E n \in MoveChoices : Allocate(caller, z, n) \/ Deallocate(caller, z, n)
               \/ EmergencyWithdrawStrategy(caller, z)
          \/ \E caller \in Drainers : StrategyAdminDrains(caller, z)
    BY <1>4 DEF FundStep
  <2>1. ASSUME NEW caller, NEW n \in MoveChoices, Allocate(caller, z, n) \/ Deallocate(caller, z, n)
        PROVE  Moves(s)
    <3>1. n \in Int
      BY VaultAssumption
    <3>2. StrategyDeposit(z, Vault, n) \/ StrategyWithdraw(z, Vault, n)
      BY <2>1 DEF Allocate, Deallocate
    <3> QED BY <1>1, <3>1, <3>2, DepositMoves, WithdrawMoves
  <2>2. ASSUME NEW caller, EmergencyWithdrawStrategy(caller, z) PROVE Moves(s)
    BY <1>1, <2>2, DrainMoves DEF EmergencyWithdrawStrategy
  <2>3. ASSUME NEW caller, StrategyAdminDrains(caller, z) PROVE Moves(s)
    BY <1>1, <2>3, DrainMoves DEF StrategyAdminDrains
  <2> QED BY <2>1, <2>2, <2>3
<1>5. CASE OutsideStep
  BY <1>1, <1>2, <1>5, SettingsMove, EnvironmentMoves DEF OutsideStep
<1>6. ASSUME NEW h \in Holder, NEW n, StartWaterfall(h, n) PROVE Moves(s)
  BY <1>2, <1>6 DEF StartWaterfall
<1>7. CASE WaterfallStep
  <2>1. ASSUME NEW z \in Strategy, PullFromStrategy(z) PROVE Moves(s)
    <3>1. StrategyWithdraw(z, Vault, Ask(z))
      BY <2>1 DEF PullFromStrategy
    <3>2. Ask(z) \in Nat
      BY <2>1, AskIsNatural
    <3>3. Ask(z) \in Int
      BY <3>2
    <3> QED BY <1>1, <3>1, <3>3, WithdrawMoves
  <2>2. ASSUME NEW z \in Strategy, SkipStrategy(z) PROVE Moves(s)
    BY <1>2, <2>2 DEF SkipStrategy
  <2>3. FinishRedeem => Moves(s)
    BY <1>2 DEF FinishRedeem
  <2> QED BY <1>7, <2>1, <2>2, <2>3 DEF WaterfallStep, Undone
<1> QED BY <1>3, <1>4, <1>5, <1>6, <1>7 DEF Next

(* What a redemption saved, and what it saves when it begins.              *)
LEMMA SavedStays ==
    ASSUME IInv, Next, call' # NoCall
    PROVE  IF call = NoCall
           THEN /\ call'.saved = CurrentFunds
                /\ stTracked' = stTracked /\ collateral' = collateral /\ reserve' = reserve
           ELSE call'.saved = call.saved
<1>1. CASE call = NoCall
  <2>1. ~WaterfallStep
    BY <1>1 DEF WaterfallStep, AtStrategy, FinishRedeem, FallShort, WaterfallOver, SkipStrategy,
                PullFromStrategy, TrapInStrategy
  <2>2. PICK h \in Holder : \E n \in 1..shares[h] : StartWaterfall(h, n)
    BY <2>1 DEF Next
  <2> QED BY <1>1, <2>2 DEF StartWaterfall, strategyVars, poolVars
<1>2. CASE call # NoCall
  <2>1. call \in Call
    BY <1>2 DEF IInv, VaultInv, VaultTypeOK
  <2>2. PICK s \in Strategy : SkipStrategy(s) \/ PullFromStrategy(s)
    BY <1>2 DEF Next, WaterfallStep, FinishRedeem, FallShort, TrapInStrategy, Rollback
  <2> QED BY <1>2, <2>1, <2>2 DEF SkipStrategy, PullFromStrategy, Call
<1> QED BY <1>1, <1>2

(* A step that records what it did.                                        *)
LEMMA RecordKeepsBacking ==
    ASSUME IInv, IInv', BackingInv, Next, ~Undone, Record,
           before' = IF call = NoCall \/ call' = NoCall THEN Roundings' ELSE before
    PROVE  BackingInv'
<1>1. roundings' \in [Strategy -> Nat] /\ impaired' \in [Strategy -> BOOLEAN]
  BY DEF BackingInv, RoundingTypeOK, Record
<1>2. ASSUME NEW s \in Strategy
      PROVE  CoverOf(stTracked'[s], collateral'[s], reserve'[s].b_rate, roundings'[s], impaired'[s])
  <2>1. StrategyInv /\ StrategyInv'
    BY DEF IInv, VaultInv
  <2>2. Moves(s)
    BY VaultMoves
  <2>3. /\ roundings[s] \in Nat /\ impaired[s] \in BOOLEAN
        /\ CoverOf(stTracked[s], collateral[s], reserve[s].b_rate, roundings[s], impaired[s])
    BY DEF BackingInv, RoundingTypeOK, TrackedIsCovered, CoverOf
  <2>4. /\ roundings'[s] = IF stTracked'[s] = 0 THEN 0
                           ELSE roundings[s] + (IF collateral'[s] # collateral[s] THEN 1 ELSE 0)
        /\ impaired'[s] = (/\ stTracked'[s] # 0
                           /\ impaired[s] \/ reserve'[s].b_rate < reserve[s].b_rate)
    BY Zenon DEF Record
  <2> QED BY <2>1, <2>2, <2>3, <2>4, CoverStep
<1>3. RoundingTypeOK' /\ TrackedIsCovered'
  BY <1>1, <1>2 DEF RoundingTypeOK, TrackedIsCovered, CoverOf
<1>4. before' \in [roundings : [Strategy -> Nat], impaired : [Strategy -> BOOLEAN]]
  BY <1>1 DEF BackingInv, Roundings
<1>5. SavedIsCovered'
  <2> SUFFICES ASSUME call' # NoCall, NEW s \in Strategy
               PROVE  CoverOf(call'.saved.stTracked[s], call'.saved.collateral[s],
                              call'.saved.reserve[s].b_rate, before'.roundings[s], before'.impaired[s])
    BY DEF SavedIsCovered
  <2>1. CASE call = NoCall
    <3>1. /\ call'.saved = CurrentFunds
          /\ stTracked' = stTracked /\ collateral' = collateral /\ reserve' = reserve
      BY <2>1, SavedStays
    <3>2. before'.roundings = roundings' /\ before'.impaired = impaired'
      BY <2>1 DEF Roundings
    <3> QED BY <1>2, <3>1, <3>2 DEF CurrentFunds
  <2>2. CASE call # NoCall
    BY <2>2, SavedStays DEF BackingInv, SavedIsCovered
  <2> QED BY <2>1, <2>2
<1> QED BY <1>3, <1>4, <1>5 DEF BackingInv

(* A rollback brings the roundings back with the funds.                    *)
LEMMA RollbackKeepsBacking ==
    ASSUME BackingInv, Undone, roundings' = before.roundings, impaired' = before.impaired,
           before' = IF call = NoCall \/ call' = NoCall THEN Roundings' ELSE before
    PROVE  BackingInv'
<1>1. /\ call # NoCall /\ call' = NoCall
      /\ stTracked' = call.saved.stTracked /\ collateral' = call.saved.collateral
      /\ reserve' = call.saved.reserve
  BY DEF Undone, FallShort, TrapInStrategy, AtStrategy, WaterfallOver, Rollback
<1>2. roundings' \in [Strategy -> Nat] /\ impaired' \in [Strategy -> BOOLEAN]
  BY DEF BackingInv
<1>3. ASSUME NEW s \in Strategy
      PROVE  CoverOf(stTracked'[s], collateral'[s], reserve'[s].b_rate, roundings'[s], impaired'[s])
  BY <1>1 DEF BackingInv, SavedIsCovered
<1>4. RoundingTypeOK' /\ TrackedIsCovered'
  BY <1>2, <1>3 DEF RoundingTypeOK, TrackedIsCovered, CoverOf
<1>5. before' \in [roundings : [Strategy -> Nat], impaired : [Strategy -> BOOLEAN]]
  BY <1>1, <1>2 DEF Roundings
<1> QED BY <1>1, <1>4, <1>5 DEF BackingInv, SavedIsCovered

(* Every step keeps the strategies covered.                                *)
LEMMA BackingStepInv ==
    ASSUME IInv, IInv', BackingInv, [HistoryNext]_historyVars
    PROVE  BackingInv'
<1>1. CASE HistoryNext
  BY <1>1, RecordKeepsBacking, RollbackKeepsBacking DEF HistoryNext, RecordRoundings
<1>2. CASE UNCHANGED historyVars
  BY <1>2 DEF BackingInv, RoundingTypeOK, TrackedIsCovered, SavedIsCovered, historyVars,
              roundingVars, vars, strategyVars, poolVars
<1> QED BY <1>1, <1>2

(* The inductive invariant: books that agree, and strategies covered.      *)
THEOREM HistorySafe == HistorySpec => [](HistoryInv /\ BackingInv)
<1>1. HistoryInit => HistoryInv /\ BackingInv
  <2> SUFFICES ASSUME HistoryInit PROVE HistoryInv /\ BackingInv
    OBVIOUS
  <2>1. IInv
    BY VaultInitInv DEF HistoryInit
  <2>2. /\ tracked = [s \in Strategy |-> 0] /\ stTracked = [s \in Strategy |-> 0] /\ call = NoCall
    BY DEF HistoryInit, Init, VaultInit, StrategyInit
  <2>3. HistoryInv
    BY <2>1, <2>2 DEF HistoryInv, BooksAgree, SavedAgree, UnbornIsEmpty, PulledCloser
  <2>4. roundings \in [Strategy -> Nat] /\ impaired \in [Strategy -> BOOLEAN] /\ before = Roundings
    BY DEF HistoryInit, RoundingInit
  <2>5. TrackedIsCovered
    BY PoolAssumption
       DEF HistoryInit, Init, RoundingInit, TrackedIsCovered, StrategyInit, PoolInit, Reserve
  <2>6. BackingInv
    BY <2>2, <2>4, <2>5 DEF BackingInv, RoundingTypeOK, SavedIsCovered, Roundings
  <2> QED BY <2>3, <2>6
<1>2. HistoryInv /\ BackingInv /\ [HistoryNext]_historyVars => HistoryInv' /\ BackingInv'
  <2> SUFFICES ASSUME HistoryInv, BackingInv, [HistoryNext]_historyVars
               PROVE  HistoryInv' /\ BackingInv'
    OBVIOUS
  <2>1. HistoryInv'
    BY HistoryStepInv
  <2> QED BY <2>1, BackingStepInv DEF HistoryInv
<1> QED BY <1>1, <1>2, PTL DEF HistorySpec

(* The vault's and a strategy's books of its balance agree, unless the     *)
(* keeper reported a balance or the strategy's own admin drained it since  *)
(* the vault last drained it: allocate, deallocate, redeem's waterfall and *)
(* its rollback, remove_strategy and add_strategy never part them.         *)
THEOREM TheBooksAgree == HistorySpec => []BooksAgree
<1>1. HistoryInv => BooksAgree
  BY DEF HistoryInv
<1> QED BY <1>1, HistorySafe, PTL

(* Every step of the history brings books no further apart, but a report's *)
(* and a drain's: between the start of a redemption and its end others see *)
(* the books it found, its end shows those it brought closer.              *)
LEMMA StepApproaches ==
    ASSUME HistoryInv, HistoryNext, NEW s \in Strategy, s \notin RemarkedNow
    PROVE  Gap(s)' <= Gap(s)
<1>1. IInv /\ IInv' /\ Next /\ remarked' = (remarked \cup RemarkedNow) \ SettledNow
  BY HistoryStepIsStep, VaultStepInv DEF HistoryInv, HistoryNext
<1>2. /\ call = NoCall => Gap(s) = Apart(tracked[s], stTracked[s])
      /\ call # NoCall => Gap(s) = Apart(call.saved.tracked[s], call.saved.stTracked[s])
      /\ call' = NoCall => Gap(s)' = Apart(tracked'[s], stTracked'[s])
      /\ call' # NoCall => Gap(s)' = Apart(call'.saved.tracked[s], call'.saved.stTracked[s])
  BY DEF Gap, Books, CommittedTracked
<1>3. Gap(s) \in Nat
  <2>1. CASE call = NoCall
    BY <1>1, <1>2, <2>1, BookTypes, ApartIsNatural
  <2>2. CASE call # NoCall
    <3>1. call.saved.tracked[s] \in Nat /\ call.saved.stTracked[s] \in Nat
      BY <1>1, <2>2, BookTypes
    <3>2. Apart(call.saved.tracked[s], call.saved.stTracked[s]) \in Nat
      BY <3>1, ApartIsNatural
    <3> QED BY <1>2, <2>2, <3>2
  <2> QED BY <2>1, <2>2
<1>4. CASE /\ call = NoCall
           /\ call' = NoCall
           /\ UserStep \/ ListStep \/ FundStep \/ ReportStep \/ CollectFees \/ OutsideStep
  BY <1>1, <1>2, <1>4, FreeStepHistory DEF Alone, Nearer
<1>5. CASE call' # NoCall
  <2>1. CASE call = NoCall
    <3>1. call'.saved = CurrentFunds
      BY <1>1, <1>5, <2>1, SavedStays
    <3> QED BY <1>2, <1>3, <1>5, <2>1, <3>1 DEF CurrentFunds
  <2>2. CASE call # NoCall
    BY <1>1, <1>2, <1>3, <1>5, <2>2, SavedStays
  <2> QED BY <2>1, <2>2
<1>6. CASE WaterfallStep /\ call' = NoCall
  <2>1. call # NoCall
    BY <1>6 DEF WaterfallStep, AtStrategy, FinishRedeem, FallShort, WaterfallOver,
                SkipStrategy, PullFromStrategy, TrapInStrategy
  <2>2. CASE Rollback
    <3>1. tracked' = call.saved.tracked /\ stTracked' = call.saved.stTracked
      BY <2>2 DEF Rollback
    <3> QED BY <1>2, <1>3, <1>6, <2>1, <3>1
  <2>3. CASE FinishRedeem
    <3>1. tracked' = tracked /\ stTracked' = stTracked
      BY <2>3 DEF FinishRedeem, strategyVars, stConfigVars
    <3>2. Apart(tracked[s], stTracked[s]) <= Apart(call.saved.tracked[s], call.saved.stTracked[s])
      BY <2>1 DEF HistoryInv, PulledCloser
    <3> QED BY <1>2, <1>6, <2>1, <3>1, <3>2
  <2>4. ASSUME NEW z \in Strategy, SkipStrategy(z) \/ PullFromStrategy(z) PROVE FALSE
    <3>1. call \in Call
      BY <1>1, <2>1 DEF IInv, VaultInv, VaultTypeOK
    <3>2. CASE SkipStrategy(z)
      BY <1>6, <3>1, <3>2, VaultAssumption DEF SkipStrategy, Call
    <3>3. CASE PullFromStrategy(z)
      BY <1>1, <1>6, <3>3, PullGoesOn, VaultAssumption
    <3> QED BY <2>4, <3>2, <3>3
  <2> QED BY <1>6, <2>2, <2>3, <2>4 DEF WaterfallStep, TrapInStrategy, FallShort
<1>7. CASE call = NoCall /\ \E h \in Holder : \E n \in 1..shares[h] : StartWaterfall(h, n)
  <2>1. PICK h \in Holder : \E n \in 1..shares[h] : StartWaterfall(h, n)
    BY <1>7
  <2>2. tracked' = tracked /\ stTracked' = stTracked /\ call'.saved = CurrentFunds
    BY <2>1 DEF StartWaterfall, vaultVars, fundVars, strategyVars
  <2> QED BY <1>2, <1>3, <1>7, <2>2 DEF CurrentFunds
<1> QED BY <1>1, <1>4, <1>5, <1>6, <1>7 DEF Next

(* What a report or a drain parted, no other call parts further: allocate, *)
(* deallocate, redeem's waterfall, finished or undone, remove_strategy,    *)
(* add_strategy, the strategy's initialize and every setting bring the two *)
(* books closer or leave them.  So the difference the keeper has to mend   *)
(* is never larger than it was when the last report or drain was made.     *)
THEOREM TheBooksOnlyApproach == HistorySpec => BooksOnlyApproach
<1>1. HistoryInv /\ [HistoryNext]_historyVars =>
        [\A s \in Strategy : Gap(s)' > Gap(s) => s \in RemarkedNow]_historyVars
  <2> SUFFICES ASSUME HistoryInv, HistoryNext, NEW s \in Strategy, Gap(s)' > Gap(s)
               PROVE  s \in RemarkedNow
    OBVIOUS
  <2>1. Gap(s) \in Nat /\ Gap(s)' \in Nat
    <3>1. IInv /\ IInv'
      BY HistoryStepIsStep, VaultStepInv DEF HistoryInv
    <3>2. Books[1][s] \in Nat /\ Books[2][s] \in Nat
      BY <3>1, BookTypes DEF CommittedTracked, Books
    <3>3. (Books[1][s])' \in Nat /\ (Books[2][s])' \in Nat
      BY <3>1, BookTypesNext DEF CommittedTracked, Books
    <3>4. Apart(Books[1][s], Books[2][s]) \in Nat
      BY <3>2, ApartIsNatural
    <3>5. Apart((Books[1][s])', (Books[2][s])') \in Nat
      BY <3>3, ApartIsNatural
    <3> QED BY <3>4, <3>5 DEF Gap
  <2> QED BY <2>1, StepApproaches
<1> QED BY <1>1, HistorySafe, PTL DEF HistorySpec, BooksOnlyApproach

(* The price of a share is backed: what total_assets() counts as deployed  *)
(* the strategies' b_tokens are worth, up to one b_token for every time a  *)
(* pool rounded, with no bound on the number of strategies, calls,         *)
(* redemptions that fail halfway, or accruals of interest.                 *)
THEOREM DeployedAssetsAreBacked == HistorySpec => []AssetsAreBacked
<1>1. HistoryInv /\ BackingInv => AssetsAreBacked
  BY DEF HistoryInv, BackingInv, BooksAgree, TrackedIsCovered, AssetsAreBacked
<1> QED BY <1>1, HistorySafe, PTL

(* Strategies that are covered one by one are covered together.            *)
LEMMA PoolsCoverDeployed ==
    ASSUME VaultTypeOK, ListIsConsistent, NEW worth \in [Strategy -> Nat],
           \A s \in Listed : tracked[s] * RateScalar <= worth[s]
    PROVE  Deployed(tracked) * RateScalar <= Deployed(worth)
<1>1. tracked \in [Strategy -> Nat] /\ RateScalar \in Nat \ {0}
  BY PoolAssumption DEF VaultTypeOK
<1>2. /\ IsFiniteSet(Listed) /\ Listed \subseteq Strategy
      /\ Deployed(tracked) = SumOver(tracked, Listed)
      /\ Deployed(worth) = SumOver(worth, Listed)
  BY <1>1, DeployedIsSum
<1>3. \A s \in Listed : tracked[s] \in Nat /\ worth[s] \in Nat
                         /\ tracked[s] * RateScalar <= worth[s] * 1
  BY <1>1, <1>2
<1>4. SumOver(tracked, Listed) * RateScalar <= SumOver(worth, Listed) * 1
  BY <1>1, <1>2, <1>3, SumsCompare
<1>5. SumOver(worth, Listed) \in Nat
  BY <1>2, <1>3, SumIsNatural
<1> QED BY <1>2, <1>4, <1>5

(* Every share is backed: the claims are within what the vault counts,     *)
(* what it counts is within what is there, and a redemption under way has  *)
(* lost nothing of it.                                                     *)
THEOREM EveryShareIsBacked == HistorySpec => []SharesAreBacked
<1>1. HistoryInv /\ BackingInv => SharesAreBacked
  <2> SUFFICES ASSUME HistoryInv, BackingInv,
                      \A s \in Listed : s \notin remarked /\ ~impaired[s]
               PROVE  LET pools == Deployed([s \in Strategy |->
                                         (collateral[s] + roundings[s]) * reserve[s].b_rate])
                          held  == (idle + EffectiveBridged) * RateScalar + pools
                      IN  /\ Claims * RateScalar < held + VirtualSharesOffset * RateScalar
                          /\ totalSupply <= CommittedAssets => Claims * RateScalar <= held
    BY DEF SharesAreBacked
  <2> DEFINE worth == [s \in Strategy |-> (collateral[s] + roundings[s]) * reserve[s].b_rate]
             pools == Deployed(worth)
             u     == RateScalar
             free  == idle + EffectiveBridged
             dep   == Deployed(tracked)
             v     == VirtualSharesOffset
  <2>1. IInv /\ VaultInv /\ BooksInv /\ VaultTypeOK /\ ListIsConsistent /\ StrategyInv
    BY VaultInvParts DEF HistoryInv, IInv, BooksInv
  <2>2. worth \in [Strategy -> Nat]
    <3>1. /\ collateral \in [Strategy -> Nat] /\ reserve \in [Strategy -> Reserve]
          /\ roundings \in [Strategy -> Nat]
      BY <2>1, StrategyInvParts DEF PoolInv, PoolTypeOK, BackingInv, RoundingTypeOK
    <3>2. ASSUME NEW s \in Strategy
          PROVE  (collateral[s] + roundings[s]) * reserve[s].b_rate \in Nat
      <4>1. collateral[s] + roundings[s] \in Nat /\ reserve[s].b_rate \in Nat
        BY <3>1 DEF Reserve
      <4> QED BY <4>1, Products
    <3> QED BY <3>2
  <2>3. dep * u <= pools
    <3>1. \A s \in Listed : s \in Strategy
      BY <2>1, DeployedIsSum, <2>2
    <3>2. \A s \in Listed : tracked[s] * RateScalar <= worth[s]
      BY <3>1 DEF HistoryInv, BackingInv, BooksAgree, TrackedIsCovered
    <3> HIDE DEF worth
    <3> QED BY <2>1, <2>2, <3>2, PoolsCoverDeployed
  <2>4. /\ pools \in Nat /\ dep \in Nat /\ free \in Nat /\ u \in Nat /\ v \in Nat
        /\ TotalAssets = free + dep
    <3>1. strategies \in Seq(Strategy) /\ tracked \in [Strategy -> Nat] /\ idle \in Nat
      BY <2>1 DEF VaultTypeOK
    <3>2. pools \in Nat /\ dep \in Nat
      <4> HIDE DEF worth
      <4> QED BY <2>2, <3>1, DeployedIsNatural
    <3>3. EffectiveBridged \in Nat
      BY <2>1, TotalIsNatural
    <3> QED BY <3>1, <3>2, <3>3, PoolAssumption, MathAssumption DEF TotalAssets
  <2>5. CommittedAssets <= TotalAssets
    BY <2>1, <2>4, CommittedIsAll, ClaimsWithinAssets DEF IInv, CallIsConsistent
  <2>6. /\ Claims \in Nat /\ CommittedAssets \in Nat
        /\ Claims < CommittedAssets + v
        /\ totalSupply <= CommittedAssets => Claims <= CommittedAssets
    BY <2>1, ClaimsWithinAssets DEF ClaimsAreCovered
  <2> HIDE DEF worth, pools, u, free, dep, v
  <2>7. (free + dep) * u <= free * u + pools
    BY <2>3, <2>4, Products
  <2>8. Claims * u < free * u + pools + v * u
    <3>1. Claims + 1 <= (free + dep) + v
      BY <2>4, <2>5, <2>6
    <3>2. u > 0
      BY PoolAssumption DEF u
    <3>3. /\ (Claims + 1) * u <= ((free + dep) + v) * u
          /\ (Claims + 1) * u = Claims * u + 1 * u
          /\ ((free + dep) + v) * u = (free + dep) * u + v * u
      BY <2>4, <2>6, <3>1, Products
    <3> QED BY <2>4, <2>6, <2>7, <3>2, <3>3, Products
  <2>9. ASSUME totalSupply <= CommittedAssets PROVE Claims * u <= free * u + pools
    <3>1. Claims * u <= (free + dep) * u
      BY <2>4, <2>5, <2>6, <2>9, Products
    <3> QED BY <2>4, <2>6, <2>7, <3>1, Products
  <2> QED BY <2>8, <2>9 DEF worth, pools, u, free, v
<1> QED BY <1>1, HistorySafe, PTL
=============================================================================
