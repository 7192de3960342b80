--------------------------- MODULE VaultPriceProofs ---------------------------
(***************************************************************************)
(* The vault implements ShareVault, and what follows for the price of a    *)
(* share: it falls only where the vault's books are revalued.  A redemption*)
(* that fails for want of assets could not have been served.               *)
(***************************************************************************)
EXTENDS VaultProofs, FeeHistory

(* ShareVault's arithmetic is the vault's.                                 *)
LEMMA SameArithmetic ==
    /\ \A a, s, t : Abstract!ToShares(a, s, t) = ToShares(a, s, t)
    /\ \A n, s, t : Abstract!ToAssets(n, s, t) = ToAssets(n, s, t)
BY DEF Abstract!ToShares, ToShares, Abstract!ToAssets, ToAssets

-----------------------------------------------------------------------------
(* The vault's assets, in every step.                                      *)

(* Outside a redemption all assets are committed, ...                      *)
LEMMA CommittedIsAll ==
    /\ call = NoCall => CommittedAssets = TotalAssets
    /\ call' = NoCall => CommittedAssets' = TotalAssets'
BY DEF CommittedAssets, CommittedIdle, CommittedTracked, TotalAssets

(* ... and they move with the idle balance.                                *)
LEMMA TotalFollowsIdle ==
    ASSUME IInv, NEW d \in Int, idle' = idle + d,
           UNCHANGED <<strategies, tracked, bridgeVars, adminVars>>
    PROVE  TotalAssets' = TotalAssets + d
<1>1. EffectiveBridged' = EffectiveBridged /\ EffectiveBridged \in Nat
  BY BridgedKept, TotalIsNatural, VaultInvParts DEF IInv
<1>2. Deployed(tracked)' = Deployed(tracked)
  BY DEF Deployed
<1>3. Deployed(tracked) \in Nat /\ idle \in Nat
  BY DeployedIsNatural DEF IInv, VaultInv, VaultTypeOK
<1> QED BY <1>1, <1>2, <1>3 DEF TotalAssets

(* They are the same if what is deployed is.                               *)
LEMMA TotalFromDeployed ==
    ASSUME Deployed(tracked)' = Deployed(tracked), idle' = idle,
           UNCHANGED <<bridgeVars, adminVars>>
    PROVE  TotalAssets' = TotalAssets
BY BridgedKept DEF TotalAssets

(* A strategy without a balance adds nothing.                              *)
LEMMA SumWithoutZero ==
    ASSUME NEW S, IsFiniteSet(S), S \subseteq Strategy, NEW bal \in [Strategy -> Nat],
           NEW s \in S, bal[s] = 0
    PROVE  SumOver(bal, S) = SumOver(bal, S \ {s})
<1>1. SumOver(bal, S) = SumOver(bal, S \ {s}) + bal[s]
  BY SumSplit
<1>2. SumOver(bal, S \ {s}) \in Nat
  BY SumIsNatural, FS_RemoveElement
<1> QED BY <1>1, <1>2

(* A strategy is added to the list, or taken off it, without a balance.    *)
LEMMA ListStepKeepsTotal ==
    ASSUME IInv, IInv', NEW caller, NEW s \in Strategy,
           AddStrategy(caller, s) \/ RemoveStrategy(caller, s)
    PROVE  TotalAssets' = TotalAssets
<1> DEFINE list == strategies'
           after == tracked'
           elements == {list[i] : i \in DOMAIN list}
<1>1. /\ strategies \in Seq(Strategy) /\ tracked \in [Strategy -> Nat]
      /\ VaultTypeOK /\ ListIsConsistent
      /\ IsFiniteSet(Listed) /\ Listed \subseteq Strategy
      /\ Deployed(tracked) = SumOver(tracked, Listed)
  BY DeployedIsSum DEF IInv, VaultInv, VaultTypeOK
<1>2. tracked[s] = 0
  BY <1>1 DEF AddStrategy, RemoveStrategy, ListIsConsistent
<1>3. after = tracked
  BY <1>1, <1>2 DEF AddStrategy, RemoveStrategy
<1>4. /\ list \in Seq(Strategy)
      /\ \A i, j \in DOMAIN list : list[i] = list[j] => i = j
  BY DEF IInv, VaultInv, VaultTypeOK, ListIsConsistent
<1>5. Deployed(tracked)' = SumOfList(tracked, list)
  BY <1>3 DEF Deployed, SumOfList
<1> HIDE DEF list, after
<1>6. IsFiniteSet(elements) /\ SumOfList(tracked, list) = SumOver(tracked, elements)
  BY <1>1, <1>4, SumOfListIsSum
<1>7. CASE AddStrategy(caller, s)
  <2>1. list = Append(strategies, s) /\ s \notin Listed
    BY <1>7 DEF AddStrategy, list
  <2>2. /\ DOMAIN list = 1..(Len(strategies) + 1) /\ list[Len(strategies) + 1] = s
        /\ \A i \in DOMAIN strategies : i \in DOMAIN list /\ list[i] = strategies[i]
        /\ DOMAIN strategies = 1..Len(strategies) /\ Len(strategies) \in Nat
    BY <1>1, <2>1
  <2>3. \A i \in DOMAIN list : i \in DOMAIN strategies \/ i = Len(strategies) + 1
    BY <2>2
  <2>4. elements = Listed \cup {s}
    BY <2>2, <2>3 DEF Listed
  <2>5. elements \ {s} = Listed /\ s \in elements
    BY <2>1, <2>4
  <2>6. elements \subseteq Strategy
    BY <1>1, <2>4
  <2>7. SumOver(tracked, elements) = SumOver(tracked, Listed)
    BY <1>1, <1>2, <1>6, <2>5, <2>6, SumWithoutZero
  <2> QED BY <1>1, <1>5, <1>6, <1>7, <2>7, TotalFromDeployed DEF AddStrategy
<1>8. CASE RemoveStrategy(caller, s)
  <2>1. NoTwice(strategies)
    BY <1>1, <1>8, RemovedPlace
  <2>2. PICK i \in DOMAIN strategies : strategies[i] = s /\ IsWithout(list, strategies, i)
    BY <1>1, <1>8, RemovedPlace DEF list
  <2>3. /\ \A k \in 1..Len(strategies) : k # i => \E j \in 1..Len(list) : list[j] = strategies[k]
        /\ \A j \in 1..Len(list) : \E k \in 1..Len(strategies) : k # i /\ list[j] = strategies[k]
    BY <2>2, ListWithout
  <2>4. DOMAIN strategies = 1..Len(strategies) /\ DOMAIN list = 1..Len(list)
    BY <1>1, <1>4
  <2>5. elements = Listed \ {s}
    <3>1. ASSUME NEW e \in elements PROVE e \in Listed /\ e # s
      <4>1. PICK j \in 1..Len(list) : e = list[j]
        BY <2>4
      <4>2. PICK k \in 1..Len(strategies) : k # i /\ list[j] = strategies[k]
        BY <2>3
      <4>3. strategies[k] # strategies[i]
        BY <2>1, <2>4, <4>2 DEF NoTwice
      <4> QED BY <2>2, <2>4, <4>1, <4>2, <4>3 DEF Listed
    <3>2. ASSUME NEW e \in Listed, e # s PROVE e \in elements
      <4>1. PICK k \in 1..Len(strategies) : e = strategies[k]
        BY <2>4 DEF Listed
      <4>2. k # i
        BY <2>2, <3>2, <4>1
      <4>3. PICK j \in 1..Len(list) : list[j] = strategies[k]
        BY <2>3, <4>2
      <4> QED BY <2>4, <4>1, <4>3
    <3> QED BY <3>1, <3>2
  <2>6. s \in Listed
    BY <2>2 DEF Listed
  <2>7. SumOver(tracked, Listed) = SumOver(tracked, elements)
    BY <1>1, <1>2, <2>5, <2>6, SumWithoutZero
  <2> QED BY <1>1, <1>5, <1>6, <1>8, <2>7, TotalFromDeployed DEF RemoveStrategy
<1> QED BY <1>7, <1>8

-----------------------------------------------------------------------------
(* Every operation is the abstract one of its name, or none.               *)

(* deposit: the price is that before the assets arrive.                    *)
LEMMA DepositImplements ==
    ASSUME IInv, call = NoCall, call' = NoCall,
           NEW h \in Holder, NEW n \in Int, Deposit(h, n)
    PROVE  Abstract!Deposit(h)
<1> DEFINE minted == ToShares(n, totalSupply, TotalAssets)
<1>1. /\ minted > 0 /\ n > 0 /\ wallet[h] >= n
      /\ idle' = idle + n /\ totalSupply' = totalSupply + minted
      /\ shares' = [shares EXCEPT ![h] = @ + minted]
      /\ wallet' = [wallet EXCEPT ![h] = @ - n]
      /\ UNCHANGED <<strategies, tracked, bridgeVars, adminVars>>
  BY DEF Deposit
<1>2. wallet[h] \in Nat
  BY DEF IInv, VaultInv, VaultTypeOK
<1>3. CommittedAssets = TotalAssets /\ CommittedAssets' = CommittedAssets + n
  BY <1>1, CommittedIsAll, TotalFollowsIdle
<1>4. n \in 1..wallet[h]
  BY <1>1, <1>2
<1>5. Abstract!ToShares(n, totalSupply, CommittedAssets) = minted
  BY <1>3, SameArithmetic
<1> HIDE DEF minted
<1> QED BY <1>1, <1>3, <1>4, <1>5 DEF Abstract!Deposit

(* A donation.                                                             *)
LEMMA DonateImplements ==
    ASSUME IInv, call = NoCall, call' = NoCall,
           NEW h \in Holder, NEW n \in Int, Donate(h, n)
    PROVE  Abstract!Donate(h)
<1>1. /\ n > 0 /\ wallet[h] >= n /\ idle' = idle + n
      /\ wallet' = [wallet EXCEPT ![h] = @ - n]
      /\ UNCHANGED <<strategies, tracked, bridgeVars, adminVars>>
      /\ UNCHANGED <<totalSupply, shares>>
  BY DEF Donate, shareVars
<1>2. wallet[h] \in Nat
  BY DEF IInv, VaultInv, VaultTypeOK
<1>3. CommittedAssets' = CommittedAssets + n
  BY <1>1, CommittedIsAll, TotalFollowsIdle
<1>4. n \in 1..wallet[h]
  BY <1>1, <1>2
<1> QED BY <1>1, <1>3, <1>4 DEF Abstract!Donate

(* transfer.                                                               *)
LEMMA TransferImplements ==
    ASSUME IInv, NEW from \in Holder, NEW to \in Holder, NEW n \in Int, Transfer(from, to, n),
           call = NoCall, call' = NoCall
    PROVE  Abstract!Transfer(from, to)
<1>1. /\ n > 0 /\ shares[from] >= n
      /\ shares' = [[shares EXCEPT ![from] = @ - n] EXCEPT ![to] = @ + n]
      /\ UNCHANGED <<strategies, idle, tracked, bridgeVars, adminVars>>
      /\ UNCHANGED <<totalSupply, wallet>>
  BY DEF Transfer, fundVars
<1>2. shares[from] \in Nat
  BY DEF IInv, VaultInv, VaultTypeOK
<1>3. CommittedAssets' = CommittedAssets
  BY <1>1, CommittedIsAll, TotalKept
<1>4. n \in 1..shares[from]
  BY <1>1, <1>2
<1> QED BY <1>1, <1>3, <1>4 DEF Abstract!Transfer

(* redeem from the idle balance.                                           *)
LEMMA RedeemImplements ==
    ASSUME IInv, call = NoCall, call' = NoCall,
           NEW h \in Holder, NEW n \in Int, RedeemFromIdle(h, n)
    PROVE  Abstract!Redeem(h)
<1> DEFINE paid == ToAssets(n, totalSupply, TotalAssets)
<1>1. /\ n > 0 /\ shares[h] >= n /\ paid > 0
      /\ idle' = idle - paid /\ totalSupply' = totalSupply - n
      /\ shares' = [shares EXCEPT ![h] = @ - n]
      /\ wallet' = [wallet EXCEPT ![h] = @ + paid]
      /\ UNCHANGED <<strategies, tracked, bridgeVars, adminVars>>
  BY DEF RedeemFromIdle, CanRedeem, Pay
<1>2. shares[h] \in Nat /\ totalSupply \in Nat /\ idle \in Nat
  BY DEF IInv, VaultInv, VaultTypeOK
<1>3. TotalAssets \in Nat
  BY TotalIsNatural, VaultInvParts DEF IInv
<1>4. n \in 1..shares[h]
  BY <1>1, <1>2
<1>5. paid \in Nat
  <2>1. n \in Nat
    BY <1>4, <1>2
  <2> QED BY <1>2, <1>3, <2>1, PaidWorth
<1>6. Abstract!ToAssets(n, totalSupply, CommittedAssets) = paid
  BY CommittedIsAll, SameArithmetic
<1> HIDE DEF paid
<1> DEFINE d == 0 - paid
<1>7. d \in Int /\ idle' = idle + d
  BY <1>1, <1>2, <1>5
<1> HIDE DEF d
<1>8. TotalAssets' = TotalAssets + d
  BY <1>1, <1>7, TotalFollowsIdle
<1>9. CommittedAssets' >= CommittedAssets - paid
  BY <1>3, <1>5, <1>8, CommittedIsAll DEF d
<1> QED BY <1>1, <1>4, <1>6, <1>9 DEF Abstract!Redeem

(* redeem at the end of a waterfall: the price is that at its start.       *)
LEMMA FinishImplements ==
    ASSUME IInv, FinishRedeem
    PROVE  Abstract!Redeem(call.from)
<1>1. /\ call # NoCall /\ call \in Call
      /\ totalSupply \in Nat /\ idle \in Nat /\ shares \in [Holder -> Nat]
  BY DEF FinishRedeem, WaterfallOver, IInv, VaultInv, VaultTypeOK
<1>2. /\ call.from \in Holder /\ call.shares \in Nat /\ call.assets \in Nat
  BY <1>1 DEF Call
<1>3. /\ call.shares > 0 /\ call.shares <= shares[call.from]
      /\ call.assets = ToAssets(call.shares, totalSupply, CommittedAssets)
      /\ TotalAssets >= CommittedAssets
      /\ call.assets > 0
  BY <1>1 DEF IInv, CallIsConsistent
<1>4. /\ call' = NoCall
      /\ idle' = idle - call.assets /\ totalSupply' = totalSupply - call.shares
      /\ shares' = [shares EXCEPT ![call.from] = @ - call.shares]
      /\ wallet' = [wallet EXCEPT ![call.from] = @ + call.assets]
      /\ UNCHANGED <<strategies, tracked, bridgeVars, adminVars>>
  BY DEF FinishRedeem, Pay
<1> DEFINE d == 0 - call.assets
<1>5. d \in Int /\ idle' = idle + d
  BY <1>1, <1>2, <1>4
<1> HIDE DEF d
<1>6. TotalAssets' = TotalAssets + d
  BY <1>4, <1>5, TotalFollowsIdle
<1>7. TotalAssets \in Nat /\ CommittedAssets \in Nat
  BY TotalIsNatural, CommittedIsNatural, VaultInvParts DEF IInv
<1>8. CommittedAssets' >= CommittedAssets - call.assets
  BY <1>2, <1>3, <1>4, <1>6, <1>7, CommittedIsAll DEF d
<1>9. call.shares \in 1..shares[call.from]
  BY <1>1, <1>2, <1>3
<1>10. Abstract!ToAssets(call.shares, totalSupply, CommittedAssets) = call.assets
  BY <1>3, SameArithmetic
<1> QED BY <1>3, <1>4, <1>8, <1>9, <1>10 DEF Abstract!Redeem

(* collect_fees.                                                           *)
LEMMA FeeImplements ==
    ASSUME IInv, call = NoCall, call' = NoCall, CollectFees
    PROVE  feeRecipient \in Holder /\ Abstract!Fee(feeRecipient)
<1> DEFINE minted == FeeShares(totalSupply, TotalAssets, highWaterMark, performanceFeeBps)
           fee    == FeeAssets(totalSupply, TotalAssets, highWaterMark, performanceFeeBps)
           taken  == ToAssets(minted, totalSupply + minted, TotalAssets)
<1>1. /\ totalSupply \in Nat \ {0} /\ TotalAssets \in Nat /\ highWaterMark \in Nat
      /\ performanceFeeBps \in Nat /\ Nav(totalSupply, TotalAssets) > highWaterMark
      /\ minted \in Nat
  BY FeesAreNatural
<1>2. /\ initialized /\ minted > 0
      /\ shares' = [shares EXCEPT ![feeRecipient] = @ + minted]
      /\ totalSupply' = totalSupply + minted
      /\ UNCHANGED <<wallet, fundVars, strategies, bridgeVars, adminVars>>
  BY DEF CollectFees
<1>3. feeRecipient \in Holder
  BY <1>2 DEF IInv, VaultInv
<1>4. performanceFeeBps <= MaxPerformanceFeeBps /\ MaxPerformanceFeeBps \in Nat
  BY AdminAssumption DEF IInv, VaultInv, AdminInv, AdminTypeOK
<1>5. fee \in Nat /\ fee * MaxBps <= TotalAssets * performanceFeeBps /\ taken <= fee
  BY <1>1, FeeIsNatural, FeeSharesWorthTheFee
<1> HIDE DEF minted
<1>6. taken \in Nat
  <2>1. totalSupply + minted \in Nat
    BY <1>1
  <2> QED BY <1>1, <2>1, PaidWorth
<1> HIDE DEF fee, taken
<1>7. taken * MaxBps <= TotalAssets * MaxPerformanceFeeBps
  <2>1. /\ MaxBps \in Nat
        /\ taken * MaxBps \in Nat /\ fee * MaxBps \in Nat /\ taken * MaxBps <= fee * MaxBps
    BY <1>5, <1>6, MathAssumption, Products
  <2>2. /\ TotalAssets * performanceFeeBps \in Nat /\ TotalAssets * MaxPerformanceFeeBps \in Nat
        /\ performanceFeeBps * TotalAssets <= MaxPerformanceFeeBps * TotalAssets
    BY <1>1, <1>4, Products
  <2>3. /\ performanceFeeBps * TotalAssets = TotalAssets * performanceFeeBps
        /\ MaxPerformanceFeeBps * TotalAssets = TotalAssets * MaxPerformanceFeeBps
    BY <1>1, <1>4
  <2> QED BY <1>5, <2>1, <2>2, <2>3
<1>8. CommittedAssets = TotalAssets /\ CommittedAssets' = CommittedAssets
  BY <1>2, CommittedIsAll, TotalKept DEF fundVars
<1>9. totalSupply' - totalSupply = minted /\ totalSupply' > totalSupply
  BY <1>1, <1>2
<1>10. Abstract!ToAssets(minted, totalSupply', CommittedAssets) = taken
  BY <1>2, <1>8, SameArithmetic DEF taken
<1> QED BY <1>2, <1>3, <1>7, <1>8, <1>9, <1>10 DEF Abstract!Fee

(* A step of the keeper, the admin or the world changes the books at most. *)
LEMMA RevalueImplements ==
    ASSUME IInv', call' = NoCall, FundStep \/ ReportStep \/ OutsideStep
    PROVE  Abstract!Revalue
<1>1. CommittedAssets' \in Nat
  BY CommittedIsAll, TotalIsNaturalNext, VaultInvPartsNext DEF IInv
<1>2. UNCHANGED <<totalSupply, shares, wallet>>
  <2>1. CASE FundStep
    BY <2>1 DEF FundStep, Allocate, Deallocate, EmergencyWithdrawStrategy, StrategyAdminDrains, shareVars
  <2>2. CASE ReportStep
    BY <2>2 DEF ReportStep, AttestBridgedBalance, UpdateTrackedBalance, shareVars
  <2>3. CASE OutsideStep
    BY <2>3 DEF OutsideStep, vaultVars, shareVars
  <2> QED BY <2>1, <2>2, <2>3
<1> QED BY <1>1, <1>2 DEF Abstract!Revalue

-----------------------------------------------------------------------------
(* What holders do not see.                                                *)

(* A change of the strategy list.                                          *)
LEMMA ListStepIsHidden ==
    ASSUME IInv, IInv', call = NoCall, call' = NoCall, ListStep
    PROVE  UNCHANGED Abstract!svars
<1>1. CommittedAssets' = CommittedAssets
  BY CommittedIsAll, ListStepKeepsTotal DEF ListStep
<1>2. UNCHANGED <<totalSupply, shares, wallet>>
  BY DEF ListStep, AddStrategy, RemoveStrategy, shareVars
<1> QED BY <1>1, <1>2 DEF Abstract!svars

(* A waterfall's start.                                                    *)
LEMMA StartIsHidden ==
    ASSUME call = NoCall, NEW from, NEW n, StartWaterfall(from, n)
    PROVE  UNCHANGED Abstract!svars
<1>1. /\ UNCHANGED <<wallet, shares, totalSupply, idle, tracked, strategies, bridgeVars>>
      /\ UNCHANGED adminVars
  BY DEF StartWaterfall, vaultVars, shareVars, fundVars
<1>2. call'.saved.idle = idle /\ call'.saved.tracked = tracked
  BY DEF StartWaterfall, CurrentFunds
<1>3. CommittedIdle' = CommittedIdle /\ CommittedTracked' = CommittedTracked
  BY <1>1, <1>2 DEF CommittedIdle, CommittedTracked
<1>4. CommittedAssets' = CommittedAssets
  BY <1>1, <1>3, CommittedKept
<1> QED BY <1>1, <1>4 DEF Abstract!svars

(* A strategy passed by, or pulled from.                                   *)
LEMMA PullIsHidden ==
    ASSUME IInv, NEW s \in Strategy, SkipStrategy(s) \/ PullFromStrategy(s)
    PROVE  UNCHANGED Abstract!svars
<1>1. UNCHANGED <<wallet, shareVars, strategies, bridgeVars, adminVars>>
  BY DEF SkipStrategy, PullFromStrategy, vaultVars
<1>2. call # NoCall /\ call \in Call
  BY DEF SkipStrategy, PullFromStrategy, AtStrategy, IInv, VaultInv, VaultTypeOK
<1>3. call' \in Call /\ call'.saved = call.saved
  <2>1. CASE SkipStrategy(s)
    BY <1>2, <2>1 DEF SkipStrategy, Call
  <2>2. CASE PullFromStrategy(s)
    BY <2>2, PullGoesOn
  <2> QED BY <2>1, <2>2
<1>4. CommittedIdle' = CommittedIdle /\ CommittedTracked' = CommittedTracked
  BY <1>2, <1>3, VaultAssumption DEF CommittedIdle, CommittedTracked
<1>5. CommittedAssets' = CommittedAssets
  BY <1>1, <1>4, CommittedKept
<1> QED BY <1>1, <1>5 DEF Abstract!svars, shareVars

(* A redemption that fails.                                                *)
LEMMA RollbackIsHidden ==
    ASSUME call # NoCall, Rollback
    PROVE  UNCHANGED Abstract!svars
<1>1. /\ UNCHANGED <<wallet, shareVars, strategies, bridgeVars, adminVars>>
      /\ call' = NoCall /\ idle' = call.saved.idle /\ tracked' = call.saved.tracked
  BY DEF Rollback
<1>2. CommittedIdle' = CommittedIdle /\ CommittedTracked' = CommittedTracked
  BY <1>1 DEF CommittedIdle, CommittedTracked
<1>3. CommittedAssets' = CommittedAssets
  BY <1>1, <1>2, CommittedKept
<1> QED BY <1>1, <1>3 DEF Abstract!svars, shareVars

-----------------------------------------------------------------------------
(* Every step, at once: what holders do, what they do not see, and what    *)
(* revalues their shares.                                                  *)
UserOperation ==
    \/ \E h \in Holder : Abstract!Deposit(h) \/ Abstract!Redeem(h) \/ Abstract!Donate(h)
    \/ \E from, to \in Holder : Abstract!Transfer(from, to)

(* A user's transaction.                                                   *)
LEMMA UserStepImplements ==
    ASSUME IInv, call = NoCall, call' = NoCall, UserStep
    PROVE  UserOperation
<1> PICK h \in Holder :
        \/ \E to \in Holder, n \in TransferChoices : Transfer(h, to, n)
        \/ \E n \in DepositChoices : Deposit(h, n)
        \/ \E n \in DonationChoices : Donate(h, n)
        \/ \E n \in 1..shares[h] : RedeemFromIdle(h, n)
  BY DEF UserStep
<1>1. TransferChoices \subseteq Int /\ DepositChoices \subseteq Int /\ DonationChoices \subseteq Int
  BY VaultAssumption
<1>2. ASSUME NEW to \in Holder, NEW n \in TransferChoices, Transfer(h, to, n)
      PROVE  Abstract!Transfer(h, to)
  BY <1>1, <1>2, TransferImplements
<1>3. ASSUME NEW n \in DepositChoices, Deposit(h, n) PROVE Abstract!Deposit(h)
  BY <1>1, <1>3, DepositImplements
<1>4. ASSUME NEW n \in DonationChoices, Donate(h, n) PROVE Abstract!Donate(h)
  BY <1>1, <1>4, DonateImplements
<1>5. ASSUME NEW n \in 1..shares[h], RedeemFromIdle(h, n) PROVE Abstract!Redeem(h)
  <2>1. n \in Int
    OBVIOUS
  <2> QED BY <2>1, <1>5, RedeemImplements
<1> QED BY <1>2, <1>3, <1>4, <1>5 DEF UserOperation

(* A step of a waterfall is hidden, or the redemption.                     *)
LEMMA WaterfallImplements ==
    ASSUME IInv, WaterfallStep
    PROVE  UserOperation \/ UNCHANGED Abstract!svars
<1>1. ASSUME NEW s \in Strategy, SkipStrategy(s) \/ PullFromStrategy(s)
      PROVE  UNCHANGED Abstract!svars
  BY <1>1, PullIsHidden
<1>2. ASSUME NEW s \in Strategy, TrapInStrategy(s) PROVE UNCHANGED Abstract!svars
  BY <1>2, RollbackIsHidden DEF TrapInStrategy, AtStrategy
<1>3. CASE FinishRedeem
  <2>1. call.from \in Holder
    BY <1>3 DEF FinishRedeem, WaterfallOver, IInv, VaultInv, VaultTypeOK, Call
  <2> QED BY <1>3, <2>1, FinishImplements DEF UserOperation
<1>4. CASE FallShort
  BY <1>4, RollbackIsHidden DEF FallShort, WaterfallOver
<1> QED BY <1>1, <1>2, <1>3, <1>4 DEF WaterfallStep

(* Every step of the vault.                                                *)
LEMMA VaultStepImplements ==
    ASSUME IInv, [Next]_vars
    PROVE  \/ UserOperation
           \/ UNCHANGED Abstract!svars
           \/ /\ call = NoCall /\ call' = NoCall
              /\ CollectFees \/ FundStep \/ ReportStep \/ OutsideStep
<1>1. CASE UNCHANGED vars
  <2>1. /\ UNCHANGED <<wallet, shareVars, strategies, bridgeVars, adminVars>>
        /\ idle' = idle /\ tracked' = tracked /\ call' = call
    BY <1>1 DEF vars, vaultVars, fundVars
  <2>2. CommittedIdle' = CommittedIdle /\ CommittedTracked' = CommittedTracked
    BY <2>1 DEF CommittedIdle, CommittedTracked
  <2>3. CommittedAssets' = CommittedAssets
    BY <2>1, <2>2, CommittedKept
  <2> QED BY <2>1, <2>3 DEF Abstract!svars, shareVars
<1>2. CASE /\ call = NoCall /\ call' = NoCall
           /\ UserStep \/ ListStep \/ FundStep \/ ReportStep \/ CollectFees \/ OutsideStep
  BY <1>2, UserStepImplements, ListStepIsHidden, VaultStepInv
<1>3. CASE /\ call = NoCall
           /\ \E h \in Holder : \E n \in 1..shares[h] : StartWaterfall(h, n)
  BY <1>3, StartIsHidden
<1>4. CASE WaterfallStep
  BY <1>4, WaterfallImplements
<1> QED BY <1>1, <1>2, <1>3, <1>4 DEF Next

(* Where it starts, ...                                                    *)
LEMMA AbstractInit ==
    ASSUME Init
    PROVE  Abstract!Init
<1>1. /\ idle = 0 /\ strategies = <<>> /\ tracked = [s \in Strategy |-> 0]
      /\ bridged = 0 /\ call = NoCall
      /\ totalSupply = 0 /\ shares = [h \in Holder |-> 0]
      /\ wallet = [h \in Holder |-> InitialWallet]
  BY DEF Init, VaultInit
<1>2. Deployed(tracked) = 0
  <2>1. \A i \in DOMAIN strategies : FALSE
    BY <1>1
  <2> QED BY <2>1, SumZero DEF Deployed
<1>3. EffectiveBridged = 0
  BY <1>1 DEF EffectiveBridged
<1>4. CommittedAssets = 0
  BY <1>1, <1>2, <1>3, CommittedIsAll DEF TotalAssets
<1> QED BY <1>1, <1>4 DEF Abstract!Init

(* ... and where each step leads.                                          *)
LEMMA AbstractStep ==
    ASSUME IInv, [Next]_vars
    PROVE  [Abstract!Next]_(Abstract!svars)
<1>1. CASE UserOperation
  BY <1>1 DEF UserOperation, Abstract!Next
<1>2. CASE /\ call = NoCall /\ call' = NoCall
           /\ CollectFees \/ FundStep \/ ReportStep \/ OutsideStep
  BY <1>2, FeeImplements, RevalueImplements, VaultStepInv DEF Abstract!Next
<1> QED BY <1>1, <1>2, VaultStepImplements

(* TezoroVault implements ShareVault: whatever the strategies, the keeper  *)
(* and the waterfall do, holders see deposits, redemptions, transfers,     *)
(* donations and fees that take effect in one step, at the price of the    *)
(* moment, and between them their shares and wallets do not move.          *)
THEOREM VaultImplementsShareVault == Spec => ImplementsShareVault
<1>1. Init => Abstract!Init
  BY AbstractInit
<1>2. IInv /\ [Next]_vars => [Abstract!Next]_(Abstract!svars)
  BY AbstractStep
<1> QED BY <1>1, <1>2, VaultInvariant, PTL DEF Spec, ImplementsShareVault, Abstract!Spec

-----------------------------------------------------------------------------
(* The price of a share.                                                   *)

(* More assets for as many shares.                                         *)
LEMMA MoreAssets ==
    ASSUME NEW supply \in Nat, NEW total1 \in Nat, NEW total2 \in Nat, total2 >= total1
    PROVE  PriceNotLower(supply, total1, supply, total2)
<1> DEFINE s == supply + VirtualSharesOffset
           t == total1 + VirtualSharesOffset
           u == total2 + VirtualSharesOffset
<1>1. s \in Nat /\ t \in Nat /\ u \in Nat /\ t <= u
  BY MathAssumption
<1> HIDE DEF s, t, u
<1>2. t * s <= u * s /\ t * s \in Nat /\ u * s \in Nat
  BY <1>1, Products
<1>3. u * s >= t * s
  BY <1>2
<1> QED BY <1>3 DEF PriceNotLower, s, t, u

(* What a holder does lowers it for nobody.                                *)
LEMMA UserOperationNeverDilutes ==
    ASSUME IInv, IInv', UserOperation
    PROVE  PriceNotLower(totalSupply, CommittedAssets, totalSupply', CommittedAssets')
<1>1. /\ CommittedAssets \in Nat /\ CommittedAssets' \in Nat
      /\ totalSupply \in Nat /\ wallet \in [Holder -> Nat] /\ shares \in [Holder -> Nat]
  BY CommittedIsNatural, CommittedIsNaturalNext, VaultInvParts, VaultInvPartsNext
     DEF IInv, VaultInv, VaultTypeOK
<1>2. ASSUME NEW h \in Holder, Abstract!Deposit(h)
      PROVE  PriceNotLower(totalSupply, CommittedAssets, totalSupply', CommittedAssets')
  <2>1. PICK a \in 1..wallet[h] :
          /\ CommittedAssets' = CommittedAssets + a
          /\ totalSupply' = totalSupply + ToShares(a, totalSupply, CommittedAssets)
    BY <1>2, SameArithmetic DEF Abstract!Deposit
  <2>2. a \in Nat
    BY <1>1
  <2> QED BY <1>1, <2>1, <2>2, DepositNeverDilutes
<1>3. ASSUME NEW h \in Holder, Abstract!Redeem(h)
      PROVE  PriceNotLower(totalSupply, CommittedAssets, totalSupply', CommittedAssets')
  <2>1. PICK n \in 1..shares[h] :
          /\ CommittedAssets' >= CommittedAssets - ToAssets(n, totalSupply, CommittedAssets)
          /\ totalSupply' = totalSupply - n
    BY <1>3, SameArithmetic DEF Abstract!Redeem
  <2>2. n \in Nat /\ n \in 0..totalSupply
    BY <1>1, SharesWithinSupply
  <2>3. ToAssets(n, totalSupply, CommittedAssets) \in Nat
    BY <1>1, <2>2, PaidWorth
  <2>4. CommittedAssets' + ToAssets(n, totalSupply, CommittedAssets) >= CommittedAssets
    BY <1>1, <2>1, <2>3
  <2> QED BY <1>1, <2>1, <2>2, <2>4, RedeemNeverDilutes
<1>4. ASSUME NEW h \in Holder, Abstract!Donate(h)
      PROVE  PriceNotLower(totalSupply, CommittedAssets, totalSupply', CommittedAssets')
  <2>1. totalSupply' = totalSupply /\ CommittedAssets' >= CommittedAssets
    BY <1>1, <1>4 DEF Abstract!Donate
  <2> QED BY <1>1, <2>1, MoreAssets
<1>5. ASSUME NEW from \in Holder, NEW to \in Holder, Abstract!Transfer(from, to)
      PROVE  PriceNotLower(totalSupply, CommittedAssets, totalSupply', CommittedAssets')
  <2>1. totalSupply' = totalSupply /\ CommittedAssets' = CommittedAssets
    BY <1>5 DEF Abstract!Transfer
  <2> QED BY <1>1, <2>1, MoreAssets
<1> QED BY <1>2, <1>3, <1>4, <1>5 DEF UserOperation

(* No deposit, redemption (a waterfall included), transfer or donation     *)
(* makes the others' shares worth less.                                    *)
THEOREM UsersDiluteNobody == Spec => UsersNeverDilute
<1>1. IInv /\ [Next]_vars =>
        [PriceMayFall \/ PriceNotLower(totalSupply, CommittedAssets,
                                       totalSupply', CommittedAssets')]_vars
  <2> SUFFICES ASSUME IInv, [Next]_vars, ~PriceMayFall
               PROVE  PriceNotLower(totalSupply, CommittedAssets, totalSupply', CommittedAssets')
    OBVIOUS
  <2>1. IInv'
    BY VaultStepInv
  <2>2. CASE UserOperation
    BY <2>1, <2>2, UserOperationNeverDilutes
  <2>3. CASE UNCHANGED Abstract!svars
    <3>1. totalSupply' = totalSupply /\ CommittedAssets' = CommittedAssets
      BY <2>3 DEF Abstract!svars
    <3>2. totalSupply \in Nat /\ CommittedAssets \in Nat
      BY CommittedIsNatural, VaultInvParts DEF IInv, VaultInv, VaultTypeOK
    <3> QED BY <3>1, <3>2, MoreAssets
  <2> QED BY <2>2, <2>3, VaultStepImplements DEF PriceMayFall
<1> QED BY <1>1, VaultInvariant, PTL DEF Spec, UsersNeverDilute

-----------------------------------------------------------------------------
(* The movement of funds.                                                  *)

(* What leaves the idle balance is on the strategy's, and nothing is lost. *)
LEMMA AllocateKeepsTotal ==
    ASSUME IInv, NEW caller, NEW s \in Strategy, NEW amount \in Int, Allocate(caller, s, amount)
    PROVE  TotalAssets' = TotalAssets
<1>1. /\ amount > 0 /\ s \in Listed
      /\ idle' = idle - amount /\ tracked' = [tracked EXCEPT ![s] = @ + amount]
      /\ UNCHANGED <<strategies, bridgeVars, adminVars>>
  BY DEF Allocate, CanAllocate
<1>2. idle \in Nat /\ tracked \in [Strategy -> Nat]
  BY DEF IInv, VaultInv, VaultTypeOK
<1> DEFINE v == tracked[s] + amount
<1>3. v \in Nat /\ tracked' = [tracked EXCEPT ![s] = v]
  BY <1>1, <1>2
<1>4. /\ Deployed(tracked)' = Deployed(tracked) - tracked[s] + v
      /\ Deployed(tracked) \in Nat /\ tracked[s] \in Nat
  <2> HIDE DEF v
  <2> QED BY <1>1, <1>3, DeployedAfter DEF IInv, VaultInv
<1>5. EffectiveBridged' = EffectiveBridged /\ EffectiveBridged \in Nat
  BY <1>1, BridgedKept, TotalIsNatural, VaultInvParts DEF IInv
<1> QED BY <1>1, <1>2, <1>4, <1>5 DEF TotalAssets

(* What comes back is added; the strategy's balance loses no more.         *)
LEMMA DeallocateKeepsTotal ==
    ASSUME IInv, NEW caller, NEW s \in Strategy, NEW amount \in Int, Deallocate(caller, s, amount)
    PROVE  TotalAssets' >= TotalAssets
<1> DEFINE back == Withdrawn(s, amount)
           v    == Monus(tracked[s], back)
<1>1. /\ amount > 0 /\ s \in Listed
      /\ idle' = idle + back /\ tracked' = [tracked EXCEPT ![s] = v]
      /\ UNCHANGED <<strategies, bridgeVars, adminVars>>
  BY DEF Deallocate
<1>2. idle \in Nat /\ tracked \in [Strategy -> Nat]
  BY DEF IInv, VaultInv, VaultTypeOK
<1>3. back \in Nat
  BY <1>1, WithdrawnIsTracked, VaultInvParts DEF IInv
<1> HIDE DEF back
<1>4. v \in Nat /\ v >= tracked[s] - back
  BY <1>2, <1>3 DEF Monus
<1> HIDE DEF v
<1>5. /\ Deployed(tracked)' = Deployed(tracked) - tracked[s] + v
      /\ Deployed(tracked) \in Nat /\ tracked[s] \in Nat
  BY <1>1, <1>4, DeployedAfter DEF IInv, VaultInv
<1>6. EffectiveBridged' = EffectiveBridged /\ EffectiveBridged \in Nat
  BY <1>1, BridgedKept, TotalIsNatural, VaultInvParts DEF IInv
<1> QED BY <1>1, <1>2, <1>3, <1>4, <1>5, <1>6 DEF TotalAssets

(* Neither allocate nor deallocate makes shares worth less, even when a    *)
(* strategy gives up less, or more, than it was asked for.                 *)
THEOREM MovesLoseNothing == Spec => MovesKeepPrice
<1>1. IInv /\ [Next]_vars =>
        [\A s \in Strategy, caller \in Operator, n \in MoveChoices :
           Allocate(caller, s, n) \/ Deallocate(caller, s, n)
              => TotalAssets' >= TotalAssets]_vars
  <2> SUFFICES ASSUME IInv, NEW s \in Strategy, NEW caller \in Operator, NEW n \in MoveChoices,
                      Allocate(caller, s, n) \/ Deallocate(caller, s, n)
               PROVE  TotalAssets' >= TotalAssets
    OBVIOUS
  <2>1. n \in Int
    BY VaultAssumption
  <2>2. TotalAssets \in Nat
    BY TotalIsNatural, VaultInvParts DEF IInv
  <2> QED BY <2>1, <2>2, AllocateKeepsTotal, DeallocateKeepsTotal
<1> QED BY <1>1, VaultInvariant, PTL DEF Spec, MovesKeepPrice

(* allocate's check of the buffer, made before the move, holds after it.   *)
THEOREM AllocationsKeepTheBuffer == Spec => BufferIsKept
<1>1. IInv /\ [Next]_vars =>
        [\A s \in Strategy, caller \in Operator, n \in MoveChoices :
           Allocate(caller, s, n) => idle' >= MinIdle']_vars
  <2> SUFFICES ASSUME IInv, NEW s \in Strategy, NEW caller \in Operator, NEW n \in MoveChoices,
                      Allocate(caller, s, n)
               PROVE  idle' >= MinIdle'
    OBVIOUS
  <2>1. n \in Int
    BY VaultAssumption
  <2>2. TotalAssets' = TotalAssets
    BY <2>1, AllocateKeepsTotal
  <2>3. MinIdle' = MinIdle
    BY <2>2 DEF MinIdle, Allocate, adminVars, configVars, settingVars
  <2> QED BY <2>3 DEF Allocate, CanAllocate
<1> QED BY <1>1, VaultInvariant, PTL DEF Spec, BufferIsKept

(* The claims are a sum of natural numbers, within what is committed.      *)
LEMMA ClaimsWithinAssets ==
    ASSUME IInv
    PROVE  Claims \in Nat /\ CommittedAssets \in Nat /\ ClaimsAreCovered
<1>1. CommittedAssets \in Nat
  BY CommittedIsNatural, VaultInvParts DEF IInv
<1>2. shares \in [Holder -> Nat] /\ SumOver(shares, Holder) = totalSupply
  BY DEF IInv, VaultInv, VaultTypeOK, SharesAddUp
<1>3. IsFiniteSet(Holder)
  BY VaultAssumption
<1>4. LET c == SumOver([h \in Holder |->
                          ToAssets(shares[h], SumOver(shares, Holder), CommittedAssets)], Holder)
      IN  /\ c \in Nat
          /\ c < CommittedAssets + VirtualSharesOffset
          /\ SumOver(shares, Holder) <= CommittedAssets => c <= CommittedAssets
  BY <1>1, <1>2, <1>3, ClaimsAddUp
<1> QED BY <1>1, <1>2, <1>4 DEF ClaimsAreCovered, Claims

(* All holders' claims together are covered by the vault's assets, and     *)
(* after a net loss by the assets and the virtual offset: no rounding, fee *)
(* or interleaving of redemptions promises more.                           *)
THEOREM EveryClaimIsCovered == Spec => []ClaimsAreCovered
<1>1. IInv => ClaimsAreCovered
  BY ClaimsWithinAssets
<1> QED BY <1>1, VaultInvariant, PTL

(* No deposit can be turned into more by redeeming its shares, nor loses   *)
(* more than a unit and the worth of a share, whatever the vault's state.  *)
THEOREM NoRoundTripGains == Spec => DepositsAreFair
<1> DEFINE Back == ToAssets(totalSupply' - totalSupply, totalSupply', TotalAssets')
           Fair(n) == /\ Back <= n
                      /\ (n - Back - 1) * (totalSupply' + VirtualSharesOffset)
                           < TotalAssets + VirtualSharesOffset
<1>1. IInv /\ [Next]_vars =>
        [\A h \in Holder, n \in DepositChoices : Deposit(h, n) => Fair(n)]_vars
  <2> SUFFICES ASSUME IInv, NEW h \in Holder, NEW n \in DepositChoices, Deposit(h, n)
               PROVE  Fair(n)
    BY Zenon
  <2> DEFINE minted == ToShares(n, totalSupply, TotalAssets)
  <2>1. TotalAssets \in Nat /\ totalSupply \in Nat /\ n \in Nat
    BY TotalIsNatural, VaultInvParts, VaultAssumption
       DEF IInv, VaultInv, VaultTypeOK, Deposit
  <2>2. totalSupply' = totalSupply + minted
    BY DEF Deposit
  <2>3. TotalAssets' = TotalAssets + n
    <3>1. /\ idle' = idle + n
          /\ UNCHANGED <<strategies, tracked, bridgeVars, adminVars>>
      BY DEF Deposit
    <3> QED BY <2>1, <3>1, TotalFollowsIdle
  <2>4. LET back == ToAssets(minted, totalSupply + minted, TotalAssets + n)
        IN  /\ minted \in Nat /\ back \in 0..n
            /\ (n - back - 1) * (totalSupply + minted + VirtualSharesOffset)
                 < TotalAssets + VirtualSharesOffset
    BY <2>1, RoundTripIsFair
  <2> HIDE DEF minted
  <2>5. totalSupply' - totalSupply = minted
    BY <2>1, <2>2, <2>4
  <2>6. Back = ToAssets(minted, totalSupply + minted, TotalAssets + n)
    BY <2>2, <2>3, <2>5
  <2> HIDE DEF Back
  <2>7. Back \in 0..n
    BY <2>4, <2>6
  <2> QED BY <2>1, <2>2, <2>4, <2>6, <2>7
<1> QED BY <1>1, VaultInvariant, PTL DEF Spec, DepositsAreFair

-----------------------------------------------------------------------------
(* A redemption is refused only for want of assets.                        *)

(* What the i-th strategy of the list quoted when the redemption began.    *)
QuotedAtStart ==
    [i \in DOMAIN strategies |->
        Quote(call.saved.stTracked[strategies[i]],
              call.saved.reserve[strategies[i]], reachable[strategies[i]])]

(* The waterfall leaves alone the strategies it has not come to, and while *)
(* something is missing it has had all that those before them quoted.      *)
QuotesAreTaken ==
    call # NoCall =>
        /\ \A i \in DOMAIN strategies : i >= call.next =>
             /\ stTracked[strategies[i]] = call.saved.stTracked[strategies[i]]
             /\ reserve[strategies[i]] = call.saved.reserve[strategies[i]]
        /\ call.remaining > 0 =>
             call.saved.idle + SumOver(QuotedAtStart, 1..(call.next - 1)) <= idle

(* A quote is natural and at most what is tracked.                         *)
LEMMA QuoteWithinTracked ==
    ASSUME NEW t \in Nat, NEW r \in Reserve, NEW up \in BOOLEAN
    PROVE  Quote(t, r, up) \in Nat /\ Quote(t, r, up) <= t
<1>1. Supplied(r) - Borrowed(r) \in Int
  BY PoolAssumption DEF Supplied, Borrowed, Reserve
<1> QED BY <1>1, StrategyAssumption DEF Quote, Monus, Least

(* What a redemption under way is.                                         *)
LEMMA CallTypes ==
    ASSUME IInv, call # NoCall
    PROVE  /\ call.next \in Nat \ {0} /\ call.next <= Len(strategies) + 1
           /\ call.remaining \in Nat /\ call.assets \in Nat
           /\ call.saved.idle \in Nat
           /\ strategies \in Seq(Strategy) /\ idle \in Nat
           /\ DOMAIN strategies = 1..Len(strategies) /\ Len(strategies) \in Nat
           /\ stTracked \in [Strategy -> Nat]
           /\ \A i \in DOMAIN strategies : QuotedAtStart[i] \in Nat
<1>1. call \in Call
  BY DEF IInv, VaultInv, VaultTypeOK
<1>2. call.saved \in Funds
  BY <1>1 DEF Call
<1>3. strategies \in Seq(Strategy) /\ idle \in Nat /\ reachable \in [Strategy -> BOOLEAN]
      /\ stTracked \in [Strategy -> Nat]
  BY DEF IInv, VaultInv, VaultTypeOK, StrategyInv, StrategyTypeOK, PoolTypeOK
<1>4. ASSUME NEW i \in DOMAIN strategies PROVE QuotedAtStart[i] \in Nat
  <2>1. strategies[i] \in Strategy
    BY <1>3
  <2>2. /\ call.saved.stTracked[strategies[i]] \in Nat
        /\ call.saved.reserve[strategies[i]] \in Reserve
    BY <1>2, <2>1 DEF Funds
  <2>3. reachable[strategies[i]] \in BOOLEAN
    BY <1>3, <2>1
  <2> QED BY <2>2, <2>3, QuoteWithinTracked DEF QuotedAtStart
<1>5. call.next <= Len(strategies) + 1
  BY DEF IInv, CallIsConsistent
<1> QED BY <1>1, <1>2, <1>3, <1>4, <1>5 DEF Call, Funds

(* The quotes of the strategies visited grow by that of the next one.      *)
LEMMA QuotesGrow ==
    ASSUME IInv, call # NoCall, call.next <= Len(strategies)
    PROVE  /\ SumOver(QuotedAtStart, 1..call.next)
                = SumOver(QuotedAtStart, 1..(call.next - 1)) + QuotedAtStart[call.next]
           /\ SumOver(QuotedAtStart, 1..(call.next - 1)) \in Nat
           /\ QuotedAtStart[call.next] \in Nat
<1> DEFINE k == call.next
<1>1. k \in Nat \ {0} /\ DOMAIN strategies = 1..Len(strategies) /\ Len(strategies) \in Nat
      /\ \A i \in DOMAIN strategies : QuotedAtStart[i] \in Nat
  BY CallTypes
<1>2. k \in 1..k /\ (1..k) \ {k} = 1..(k - 1) /\ k \in DOMAIN strategies
      /\ 1..k \subseteq DOMAIN strategies /\ 1..(k - 1) \subseteq DOMAIN strategies
  BY <1>1
<1>3. IsFiniteSet(1..k) /\ IsFiniteSet(1..(k - 1))
  <2>1. k \in Int /\ k - 1 \in Int
    BY <1>1
  <2> HIDE DEF k
  <2> QED BY <2>1, FS_Interval
<1> HIDE DEF k
<1>4. SumOver(QuotedAtStart, 1..k)
        = SumOver(QuotedAtStart, (1..k) \ {k}) + QuotedAtStart[k]
  BY <1>1, <1>2, <1>3, SumSplit
<1>5. SumOver(QuotedAtStart, 1..(k - 1)) \in Nat
  BY <1>1, <1>2, <1>3, SumIsNatural
<1> QED BY <1>1, <1>2, <1>4, <1>5 DEF k

(* At the start nothing was visited.                                       *)
LEMMA StartTakesNothing ==
    ASSUME IInv, NEW h, NEW n, StartWaterfall(h, n)
    PROVE  QuotesAreTaken'
<1>1. /\ call'.next = 1 /\ call'.saved.idle = idle
      /\ call'.saved.stTracked = stTracked /\ call'.saved.reserve = reserve
      /\ UNCHANGED <<idle, strategies, stTracked, reserve>>
  BY DEF StartWaterfall, CurrentFunds, vaultVars, fundVars, strategyVars, poolVars
<1>2. 1..(call'.next - 1) = {}
  BY <1>1
<1>3. SumOver(QuotedAtStart', {}) = 0
  BY SumZero
<1>4. SumOver(QuotedAtStart, 1..(call.next - 1))' = 0
  BY <1>2, <1>3
<1>5. idle \in Nat
  BY DEF IInv, VaultInv, VaultTypeOK
<1> QED BY <1>1, <1>4, <1>5 DEF QuotesAreTaken

(* A visit takes all of the quote, or all that is missing.                 *)
LEMMA VisitTakesQuote ==
    ASSUME IInv, QuotesAreTaken, NEW s \in Strategy, NEW back \in Nat,
           AtStrategy(s),
           back < call.remaining => back = AvailableLiquidity(s),
           idle' = idle + back, strategies' = strategies, reachable' = reachable,
           \A r \in Strategy \ {s} : stTracked'[r] = stTracked[r] /\ reserve'[r] = reserve[r],
           call'.saved = call.saved, call'.next = call.next + 1,
           call'.remaining = Monus(call.remaining, back)
    PROVE  QuotesAreTaken'
<1>1. call # NoCall /\ call.next <= Len(strategies) /\ call.remaining > 0
      /\ s = strategies[call.next]
  BY DEF AtStrategy
<1>2. /\ call.next \in Nat \ {0} /\ call.remaining \in Nat
      /\ call.saved.idle \in Nat /\ strategies \in Seq(Strategy) /\ idle \in Nat
      /\ DOMAIN strategies = 1..Len(strategies)
  BY <1>1, CallTypes
<1>3. QuotedAtStart' = QuotedAtStart
  BY DEF QuotedAtStart
<1>4. ASSUME NEW i \in DOMAIN strategies', i >= call'.next
      PROVE  /\ stTracked'[strategies'[i]] = call'.saved.stTracked[strategies'[i]]
             /\ reserve'[strategies'[i]] = call'.saved.reserve[strategies'[i]]
  <2>1. i \in DOMAIN strategies /\ i >= call.next /\ i # call.next
        /\ call.next \in DOMAIN strategies
    BY <1>1, <1>2, <1>4
  <2>2. strategies[i] \in Strategy /\ strategies[i] # s
    BY <1>1, <1>2, <2>1 DEF IInv, VaultInv, ListIsConsistent
  <2> QED BY <1>1, <2>1, <2>2 DEF QuotesAreTaken
<1>5. ASSUME call'.remaining > 0
      PROVE  call'.saved.idle + SumOver(QuotedAtStart', 1..(call'.next - 1)) <= idle'
  <2>1. back < call.remaining
    BY <1>2, <1>5 DEF Monus
  <2>2. back = QuotedAtStart[call.next]
    <3>1. call.next \in DOMAIN strategies
      BY <1>1, <1>2
    <3>2. stTracked[s] = call.saved.stTracked[s] /\ reserve[s] = call.saved.reserve[s]
      <4>1. \A i \in DOMAIN strategies : i >= call.next =>
              /\ stTracked[strategies[i]] = call.saved.stTracked[strategies[i]]
              /\ reserve[strategies[i]] = call.saved.reserve[strategies[i]]
        BY <1>1, Zenon DEF QuotesAreTaken
      <4>2. call.next >= call.next
        BY <1>2
      <4> QED BY <1>1, <3>1, <4>1, <4>2, Zenon
    <3> QED BY <1>1, <2>1, <3>1, <3>2 DEF QuotedAtStart, AvailableLiquidity
  <2>3. call.saved.idle + SumOver(QuotedAtStart, 1..(call.next - 1)) <= idle
    BY <1>1 DEF QuotesAreTaken
  <2>4. call'.next - 1 = call.next
    BY <1>2
  <2>5. /\ SumOver(QuotedAtStart, 1..call.next)
             = SumOver(QuotedAtStart, 1..(call.next - 1)) + QuotedAtStart[call.next]
        /\ SumOver(QuotedAtStart, 1..(call.next - 1)) \in Nat
    BY <1>1, QuotesGrow
  <2>6. SumOver(QuotedAtStart', 1..(call'.next - 1)) = SumOver(QuotedAtStart, 1..call.next)
    BY <1>3, <2>4
  <2> QED BY <1>2, <2>2, <2>3, <2>5, <2>6
<1> QED BY <1>4, <1>5 DEF QuotesAreTaken

(* Every step keeps it.                                                    *)
LEMMA QuotesStepInv ==
    ASSUME IInv, QuotesAreTaken, [Next]_vars
    PROVE  QuotesAreTaken'
<1>1. CASE UNCHANGED vars
  <2>1. UNCHANGED <<call, idle, strategies, stTracked, reserve, reachable>>
    BY <1>1 DEF vars, vaultVars, fundVars, strategyVars, poolVars
  <2>2. QuotedAtStart' = QuotedAtStart
    BY <2>1 DEF QuotedAtStart
  <2> QED BY <2>1, <2>2 DEF QuotesAreTaken
<1>2. CASE call' = NoCall
  BY <1>2 DEF QuotesAreTaken
<1>3. ASSUME NEW h \in Holder, NEW n, StartWaterfall(h, n) PROVE QuotesAreTaken'
  BY <1>3, StartTakesNothing
<1>4. ASSUME NEW s \in Strategy, SkipStrategy(s) PROVE QuotesAreTaken'
  <2>1. AtStrategy(s) /\ AvailableLiquidity(s) = 0 /\ call' = [call EXCEPT !.next = @ + 1]
        /\ UNCHANGED <<idle, strategies, stTracked, reserve, reachable>>
    BY <1>4 DEF SkipStrategy, vaultVars, fundVars, strategyVars, poolVars
  <2>2. call \in Call /\ idle \in Nat
    BY <2>1 DEF AtStrategy, IInv, VaultInv, VaultTypeOK
  <2> DEFINE back == 0
  <2>3. /\ back \in Nat /\ back = AvailableLiquidity(s) /\ idle' = idle + back
        /\ call'.saved = call.saved /\ call'.next = call.next + 1
        /\ call'.remaining = Monus(call.remaining, back)
    BY <2>1, <2>2 DEF Monus, Call
  <2> HIDE DEF back
  <2> QED BY <2>1, <2>3, VisitTakesQuote
<1>5. ASSUME NEW s \in Strategy, PullFromStrategy(s) PROVE QuotesAreTaken'
  <2> DEFINE back == Withdrawn(s, Ask(s))
  <2>1. /\ AtStrategy(s) /\ idle' = idle + back /\ strategies' = strategies
        /\ StrategyWithdraw(s, Vault, Ask(s))
    BY <1>5 DEF PullFromStrategy
  <2>2. /\ call # NoCall /\ back \in Nat /\ call'.saved = call.saved
        /\ call'.next = call.next + 1 /\ call'.remaining = Monus(call.remaining, back)
    BY <1>5, PullGoesOn
  <2>3. call.remaining \in Nat /\ stTracked \in [Strategy -> Nat]
    BY <2>2, CallTypes
  <2>4. reserve \in [Strategy -> Reserve] /\ reachable \in [Strategy -> BOOLEAN]
    BY DEF IInv, VaultInv, StrategyInv, StrategyTypeOK, PoolTypeOK
  <2>5. AvailableLiquidity(s) \in Nat /\ AvailableLiquidity(s) <= stTracked[s]
    BY <2>3, <2>4, QuoteWithinTracked DEF AvailableLiquidity
  <2>6. back < call.remaining => back = AvailableLiquidity(s)
    BY <2>3, <2>5 DEF Withdrawn, Ask, Least
  <2>7. /\ reachable' = reachable
        /\ \A r \in Strategy \ {s} : stTracked'[r] = stTracked[r] /\ reserve'[r] = reserve[r]
    BY <2>1, <2>3, <2>4 DEF StrategyWithdraw, PoolWithdraw
  <2> HIDE DEF back
  <2> QED BY <2>1, <2>2, <2>6, <2>7, VisitTakesQuote
<1>6. CASE FinishRedeem \/ FallShort \/ \E s \in Strategy : TrapInStrategy(s)
  BY <1>2, <1>6 DEF FinishRedeem, FallShort, TrapInStrategy, Rollback
<1> QED BY <1>1, <1>2, <1>3, <1>4, <1>5, <1>6 DEF Next, WaterfallStep

(* redeem fails with InsufficientAssets only if the idle balance and all   *)
(* that the listed strategies quoted when it began do not cover what the   *)
(* shares are worth: no strategy of the waterfall is forgotten, asked for  *)
(* too little or counted for less than it gave.                            *)
THEOREM ShortfallsAreReal == Spec => ShortfallIsReal
<1>1. Init => IInv /\ QuotesAreTaken
  BY VaultInitInv DEF Init, VaultInit, QuotesAreTaken
<1>2. IInv /\ QuotesAreTaken /\ [Next]_vars => (IInv /\ QuotesAreTaken)'
  BY VaultStepInv, QuotesStepInv
<1>3. IInv /\ QuotesAreTaken =>
        [FallShort => call.saved.idle + SumOver(
             [i \in DOMAIN strategies |->
                 Quote(call.saved.stTracked[strategies[i]],
                       call.saved.reserve[strategies[i]], reachable[strategies[i]])],
             DOMAIN strategies) < call.assets]_vars
  <2> SUFFICES ASSUME IInv, QuotesAreTaken, FallShort
               PROVE  call.saved.idle + SumOver(QuotedAtStart, DOMAIN strategies) < call.assets
    BY DEF QuotedAtStart
  <2>1. call # NoCall /\ idle < call.assets /\ (call.next > Len(strategies) \/ call.remaining = 0)
    BY DEF FallShort, WaterfallOver
  <2>2. /\ call.next \in Nat \ {0} /\ call.next <= Len(strategies) + 1 /\ call.remaining \in Nat
        /\ idle \in Nat /\ call.assets \in Nat /\ call.saved.idle \in Nat
        /\ DOMAIN strategies = 1..Len(strategies) /\ Len(strategies) \in Nat
        /\ \A i \in DOMAIN strategies : QuotedAtStart[i] \in Nat
    BY <2>1, CallTypes
  <2>3. call.remaining > 0
    BY <2>1, <2>2 DEF IInv, CallIsConsistent
  <2>4. call.next - 1 = Len(strategies)
    BY <2>1, <2>2, <2>3
  <2>5. 1..(call.next - 1) = DOMAIN strategies
    BY <2>2, <2>4
  <2>6. call.saved.idle + SumOver(QuotedAtStart, DOMAIN strategies) <= idle
    BY <2>1, <2>3, <2>5 DEF QuotesAreTaken
  <2>7. SumOver(QuotedAtStart, DOMAIN strategies) \in Nat
    <3> DEFINE n == Len(strategies)
    <3>1. IsFiniteSet(1..n)
      <4>1. n \in Int /\ 1 \in Int
        BY <2>2
      <4> HIDE DEF n
      <4> QED BY <4>1, FS_Interval
    <3> QED BY <2>2, <3>1, SumIsNatural
  <2> QED BY <2>1, <2>2, <2>6, <2>7
<1> QED BY <1>1, <1>2, <1>3, PTL DEF Spec, ShortfallIsReal
-----------------------------------------------------------------------------
(* The high-water mark and the fee.                                        *)

(* No step but a collection of fees moves the high-water mark.             *)
LEMMA MarkKept ==
    ASSUME [Next]_vars, ~CollectFees
    PROVE  highWaterMark' = highWaterMark
<1>1. CASE UNCHANGED vars
  BY <1>1 DEF vars, vaultVars
<1>2. CASE UserStep
  BY <1>2 DEF UserStep, Transfer, Deposit, Donate, RedeemFromIdle
<1>3. CASE ListStep
  BY <1>3 DEF ListStep, AddStrategy, RemoveStrategy
<1>4. CASE FundStep
  BY <1>4 DEF FundStep, Allocate, Deallocate, EmergencyWithdrawStrategy, StrategyAdminDrains
<1>5. CASE ReportStep
  BY <1>5 DEF ReportStep, AttestBridgedBalance, UpdateTrackedBalance
<1>6. CASE OutsideStep
  BY <1>6 DEF OutsideStep, vaultVars
<1>7. CASE \E h \in Holder : \E n \in 1..shares[h] : StartWaterfall(h, n)
  BY <1>7 DEF StartWaterfall, vaultVars
<1>8. CASE WaterfallStep
  <2>1. CASE \E s \in Strategy : SkipStrategy(s)
    BY <2>1 DEF SkipStrategy, vaultVars
  <2>2. CASE \E s \in Strategy : PullFromStrategy(s)
    BY <2>2 DEF PullFromStrategy
  <2>3. CASE FinishRedeem
    BY <2>3 DEF FinishRedeem
  <2>4. CASE FallShort \/ \E s \in Strategy : TrapInStrategy(s)
    BY <2>4 DEF FallShort, TrapInStrategy, Rollback
  <2> QED BY <1>8, <2>1, <2>2, <2>3, <2>4 DEF WaterfallStep
<1> QED BY <1>1, <1>2, <1>3, <1>4, <1>5, <1>6, <1>7, <1>8 DEF Next

(* What makes NoYieldFromExits inductive: the mark is the value per share  *)
(* of the recorded moment, and it is at least one unit a share.            *)
MarkIsRecorded ==
    /\ marked \in [supply : Nat, assets : Nat]
    /\ marked.supply = 0 => marked.assets = 0
    /\ highWaterMark = IF marked.supply = 0 THEN NavPrecision
                       ELSE Nav(marked.supply, marked.assets)
    /\ highWaterMark >= NavPrecision

FeeHistoryInv == IInv /\ MarkIsRecorded

(* A collection of fees records the moment its mark is set from, and the   *)
(* fee leaves at least a unit for every share.                             *)
LEMMA CollectFeesRecords ==
    ASSUME FeeHistoryInv, CollectFees,
           marked' = [supply |-> totalSupply', assets |-> TotalAssets']
    PROVE  MarkIsRecorded'
<1> DEFINE total  == TotalAssets
           minted == FeeShares(totalSupply, total, highWaterMark, performanceFeeBps)
           supply == totalSupply + minted
<1>1. /\ totalSupply \in Nat \ {0} /\ total \in Nat /\ highWaterMark \in Nat
      /\ performanceFeeBps \in Nat /\ Nav(totalSupply, total) > highWaterMark
      /\ minted \in Nat
  BY FeesAreNatural DEF FeeHistoryInv
<1>2. /\ totalSupply' = supply /\ highWaterMark' = Nav(supply, total)
      /\ UNCHANGED <<wallet, fundVars, strategies, bridgeVars, adminVars>>
  BY DEF CollectFees
<1>3. TotalAssets' = total
  BY <1>2, TotalKept DEF fundVars, FeeHistoryInv, IInv
<1>4. performanceFeeBps <= MaxBps
  <2>1. performanceFeeBps <= MaxPerformanceFeeBps /\ MaxPerformanceFeeBps \in Nat
    BY AdminAssumption DEF FeeHistoryInv, IInv, VaultInv, AdminInv, AdminTypeOK
  <2> QED BY <1>1, <2>1, MathAssumption, FeeCapAssumption
<1>5. Nav(supply, total) >= NavPrecision
  BY <1>1, <1>4, MarkStaysAtPar DEF FeeHistoryInv, MarkIsRecorded
<1>6. supply \in Nat \ {0}
  BY <1>1
<1> HIDE DEF minted, supply, total
<1>7. marked' = [supply |-> supply, assets |-> total]
  BY <1>2, <1>3
<1> QED BY <1>1, <1>2, <1>5, <1>6, <1>7 DEF MarkIsRecorded

(* Every step keeps the record.                                            *)
LEMMA FeeHistoryStepInv ==
    ASSUME FeeHistoryInv, [FeeHistoryNext]_feeVars
    PROVE  FeeHistoryInv'
<1>1. [Next]_vars /\ IInv
  BY DEF FeeHistoryNext, feeVars, FeeHistoryInv
<1>2. IInv'
  BY <1>1, VaultStepInv
<1>3. CASE FeeHistoryNext /\ CollectFees
  <2>1. marked' = [supply |-> totalSupply', assets |-> TotalAssets']
    BY <1>3 DEF FeeHistoryNext
  <2> QED BY <1>2, <1>3, <2>1, CollectFeesRecords DEF FeeHistoryInv
<1>4. CASE FeeHistoryNext /\ ~CollectFees
  <2>1. marked' = marked /\ highWaterMark' = highWaterMark
    BY <1>1, <1>4, MarkKept DEF FeeHistoryNext
  <2> QED BY <1>2, <2>1 DEF FeeHistoryInv, MarkIsRecorded
<1>5. CASE UNCHANGED feeVars
  BY <1>2, <1>5 DEF feeVars, vars, vaultVars, FeeHistoryInv, MarkIsRecorded
<1> QED BY <1>3, <1>4, <1>5

(* The mark is the value per share of the moment it was set, and never     *)
(* below one unit a share: collect_fees() takes no more than the yield.    *)
THEOREM TheMarkIsRecorded == FeeHistorySpec => []FeeHistoryInv
<1>1. FeeHistoryInit => FeeHistoryInv
  <2> SUFFICES ASSUME FeeHistoryInit PROVE FeeHistoryInv
    OBVIOUS
  <2>1. IInv
    BY VaultInitInv DEF FeeHistoryInit
  <2>2. marked = [supply |-> 0, assets |-> 0] /\ highWaterMark = NavPrecision
    BY DEF FeeHistoryInit, Init, VaultInit
  <2> QED BY <2>1, <2>2, MathAssumption DEF FeeHistoryInv, MarkIsRecorded
<1>2. FeeHistoryInv /\ [FeeHistoryNext]_feeVars => FeeHistoryInv'
  BY FeeHistoryStepInv
<1> QED BY <1>1, <1>2, PTL DEF FeeHistorySpec

(* collect_fees() finds no yield while the price has not grown since the   *)
(* mark was set, but for what the virtual offset makes of exits and for    *)
(* the rounding of the mark.                                               *)
THEOREM FeesNeedGrowth == FeeHistorySpec => []NoYieldFromExits
<1>1. FeeHistoryInv => NoYieldFromExits
  <2> SUFFICES ASSUME FeeHistoryInv,
                      PriceNotLower(totalSupply, CommittedAssets, marked.supply, marked.assets)
               PROVE  LET s == totalSupply + VirtualSharesOffset
                      IN  YieldAboveMark * NavPrecision * s
                            <= VirtualSharesOffset * (CommittedAssets - totalSupply) * NavPrecision
                                 + (totalSupply + NavPrecision) * s
    BY DEF NoYieldFromExits
  <2>1. /\ totalSupply \in Nat /\ highWaterMark \in Nat
        /\ marked.supply \in Nat /\ marked.assets \in Nat
    BY DEF FeeHistoryInv, MarkIsRecorded, IInv, VaultInv, VaultTypeOK
  <2>2. CommittedAssets \in Nat
    BY CommittedIsNatural, VaultInvParts DEF FeeHistoryInv, IInv
  <2>3. (CommittedAssets + VirtualSharesOffset) * NavPrecision
          <= (highWaterMark + 1) * (totalSupply + VirtualSharesOffset)
    BY <2>1, <2>2, MarkIsAbovePrice DEF FeeHistoryInv, MarkIsRecorded
  <2> QED BY <2>1, <2>2, <2>3, YieldWithoutGrowth DEF YieldAboveMark
<1> QED BY <1>1, TheMarkIsRecorded, PTL
=============================================================================
