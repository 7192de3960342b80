----------------------------- MODULE VaultProofs -----------------------------
(***************************************************************************)
(* The vault's inductive invariant, for any number of holders, strategies, *)
(* pools and roundings.                                                    *)
(***************************************************************************)
EXTENDS TezoroVault, GovernanceProofs, StrategyProofs

(* The conjuncts need one another: a redemption keeps the supply natural   *)
(* because the holder's shares are part of it, and a waterfall's end may   *)
(* take the shares because the call under way is consistent.               *)
IInv == VaultInv /\ SharesAddUp /\ CallIsConsistent

(* The vault's own part of VaultInv.                                       *)
BooksInv ==
    /\ VaultTypeOK
    /\ ListIsConsistent
    /\ call # NoCall => \A s \in Strategy :
         /\ call.saved.collateral[s] <= call.saved.reserve[s].b_supply
         /\ s \notin Listed => call.saved.tracked[s] = 0

(* The governance's part.                                                  *)
GovernanceInv == AdminInv /\ (initialized => feeRecipient \in Holder)

(* The three parts make VaultInv, before a step ...                        *)
LEMMA VaultInvParts == VaultInv <=> GovernanceInv /\ StrategyInv /\ BooksInv
BY Zenon DEF VaultInv, GovernanceInv, BooksInv

(* ... and after it.                                                       *)
LEMMA VaultInvPartsNext == VaultInv' <=> GovernanceInv' /\ StrategyInv' /\ BooksInv'
BY Zenon DEF VaultInv, GovernanceInv, BooksInv

-----------------------------------------------------------------------------
(* What is deployed, as a sum over a list.                                 *)
SumOfList(bal, list) == SumOver([i \in DOMAIN list |-> bal[list[i]]], DOMAIN list)

(* Such sums are natural, ...                                              *)
LEMMA SumOfListIsNatural ==
    ASSUME NEW list \in Seq(Strategy), NEW bal \in [Strategy -> Nat]
    PROVE  SumOfList(bal, list) \in Nat
<1> DEFINE f == [i \in DOMAIN list |-> bal[list[i]]]
<1>1. DOMAIN list = 1..Len(list) /\ Len(list) \in Nat
  OBVIOUS
<1>2. IsFiniteSet(DOMAIN list)
  BY <1>1, FS_Interval
<1>3. \A i \in DOMAIN list : f[i] \in Nat
  BY <1>1
<1> HIDE DEF f
<1>4. SumOver(f, DOMAIN list) \in Nat
  BY <1>2, <1>3, SumIsNatural
<1> QED BY <1>4 DEF SumOfList, f

(* ... and sums over the set of strategies.                                *)
LEMMA SumOfListIsSum ==
    ASSUME NEW list \in Seq(Strategy), NEW bal \in [Strategy -> Nat],
           \A i, j \in DOMAIN list : list[i] = list[j] => i = j
    PROVE  LET elements == {list[i] : i \in DOMAIN list}
           IN  IsFiniteSet(elements) /\ SumOfList(bal, list) = SumOver(bal, elements)
<1> DEFINE D == DOMAIN list
           E == {list[i] : i \in DOMAIN list}
           f == [i \in D |-> bal[list[i]]]
<1>1. D = 1..Len(list) /\ Len(list) \in Nat
  OBVIOUS
<1>2. IsFiniteSet(D)
  BY <1>1, FS_Interval
<1>3. /\ list \in [D -> E]
      /\ \A x, y \in D : list[x] = list[y] => x = y
      /\ \A e \in E : \E x \in D : list[x] = e
      /\ \A x \in D : list[x] \in Strategy
  BY <1>1
<1>4. \A x \in D : f[x] \in Nat /\ bal[list[x]] = f[x]
  BY <1>3
<1>5. SumOfList(bal, list) = SumOver(f, D)
  BY DEF SumOfList
<1> HIDE DEF D, E, f
<1>6. list \in Bijection(D, E)
  BY <1>3 DEF Bijection, Injection, Surjection, IsInjective
<1>7. IsFiniteSet(E)
  BY <1>2, <1>6, FS_Surjection DEF Bijection
<1>8. SumOver(f, D) = SumOver(bal, E)
  BY <1>2, <1>4, <1>6, SumReindex
<1>9. IsFiniteSet(E) /\ SumOfList(bal, list) = SumOver(bal, E)
  BY <1>5, <1>7, <1>8, Zenon
<1> QED BY <1>9, Zenon DEF E

(* The balances of the strategies on the list.                             *)
LEMMA DeployedIsNatural ==
    ASSUME strategies \in Seq(Strategy), NEW bal \in [Strategy -> Nat]
    PROVE  Deployed(bal) \in Nat
BY SumOfListIsNatural DEF Deployed, SumOfList

(* They are counted once each.                                             *)
LEMMA DeployedIsSum ==
    ASSUME VaultTypeOK, ListIsConsistent, NEW bal \in [Strategy -> Nat]
    PROVE  /\ IsFiniteSet(Listed) /\ Listed \subseteq Strategy
           /\ Deployed(bal) = SumOver(bal, Listed)
<1>1. strategies \in Seq(Strategy) /\ \A i, j \in DOMAIN strategies : strategies[i] = strategies[j] => i = j
  BY DEF VaultTypeOK, ListIsConsistent
<1>2. IsFiniteSet(Listed) /\ SumOfList(bal, strategies) = SumOver(bal, Listed)
  BY <1>1, SumOfListIsSum DEF Listed
<1>3. Listed \subseteq Strategy
  BY <1>1 DEF Listed
<1> QED BY <1>2, <1>3 DEF Deployed, SumOfList

(* So is the vault's view of its assets.                                   *)
LEMMA TotalIsNatural ==
    ASSUME BooksInv
    PROVE  TotalAssets \in Nat /\ EffectiveBridged \in Nat
<1>1. EffectiveBridged \in Nat
  BY DEF BooksInv, VaultTypeOK, EffectiveBridged
<1>2. Deployed(tracked) \in Nat
  BY DeployedIsNatural DEF BooksInv, VaultTypeOK
<1>3. idle \in Nat
  BY DEF BooksInv, VaultTypeOK
<1> QED BY <1>1, <1>2, <1>3 DEF TotalAssets

(* After a step as well.                                                   *)
LEMMA TotalIsNaturalNext ==
    ASSUME BooksInv'
    PROVE  TotalAssets' \in Nat
<1> DEFINE list == strategies'
           after == tracked'
<1>1. EffectiveBridged' \in Nat /\ idle' \in Nat
  BY DEF BooksInv, VaultTypeOK, EffectiveBridged
<1>2. list \in Seq(Strategy) /\ after \in [Strategy -> Nat]
  BY DEF BooksInv, VaultTypeOK
<1>3. Deployed(tracked)' = SumOfList(after, list)
  BY DEF Deployed, SumOfList
<1> HIDE DEF list, after
<1>4. SumOfList(after, list) \in Nat
  BY <1>2, SumOfListIsNatural
<1> QED BY <1>1, <1>3, <1>4 DEF TotalAssets

(* The assets outside the redemption under way.                            *)
LEMMA CommittedIsNatural ==
    ASSUME BooksInv
    PROVE  CommittedAssets \in Nat /\ CommittedTracked \in [Strategy -> Nat]
<1>1. EffectiveBridged \in Nat
  BY TotalIsNatural
<1>2. CommittedIdle \in Nat /\ CommittedTracked \in [Strategy -> Nat]
  BY DEF BooksInv, VaultTypeOK, Call, Funds, CommittedIdle, CommittedTracked
<1>3. Deployed(CommittedTracked) \in Nat
  BY <1>2, DeployedIsNatural DEF BooksInv, VaultTypeOK
<1> QED BY <1>1, <1>2, <1>3 DEF CommittedAssets

(* After a step as well.                                                   *)
LEMMA CommittedIsNaturalNext ==
    ASSUME BooksInv'
    PROVE  CommittedAssets' \in Nat
<1> DEFINE list == strategies'
           after == CommittedTracked'
<1>1. EffectiveBridged' \in Nat
  BY DEF BooksInv, VaultTypeOK, EffectiveBridged
<1>2. CommittedIdle' \in Nat /\ after \in [Strategy -> Nat] /\ list \in Seq(Strategy)
  BY DEF BooksInv, VaultTypeOK, Call, Funds, CommittedIdle, CommittedTracked
<1>3. Deployed(CommittedTracked)' = SumOfList(after, list)
  BY DEF Deployed, SumOfList
<1> HIDE DEF list, after
<1>4. SumOfList(after, list) \in Nat
  BY <1>2, SumOfListIsNatural
<1> QED BY <1>1, <1>2, <1>3, <1>4 DEF CommittedAssets

(* The bridged balance counts the same as long as it, its time, the limit  *)
(* and the clock stay, ...                                                 *)
LEMMA BridgedKept ==
    ASSUME UNCHANGED <<bridgeVars, adminVars>>
    PROVE  EffectiveBridged' = EffectiveBridged
BY DEF EffectiveBridged, bridgeVars, adminVars, settingVars

(* ... and so do all assets, if nothing else moves.                        *)
LEMMA TotalKept ==
    ASSUME UNCHANGED <<strategies, idle, tracked, bridgeVars, adminVars>>
    PROVE  TotalAssets' = TotalAssets
<1>1. EffectiveBridged' = EffectiveBridged
  BY BridgedKept
<1>2. Deployed(tracked)' = Deployed(tracked)
  BY DEF Deployed
<1> QED BY <1>1, <1>2 DEF TotalAssets

(* A new balance of one strategy on the list counts once.                  *)
LEMMA DeployedAfter ==
    ASSUME VaultTypeOK, ListIsConsistent, NEW s \in Listed, NEW v \in Nat,
           strategies' = strategies, tracked' = [tracked EXCEPT ![s] = v]
    PROVE  /\ Deployed(tracked)' = Deployed(tracked) - tracked[s] + v
           /\ Deployed(tracked) \in Nat /\ tracked[s] \in Nat
<1> DEFINE after == tracked'
<1>1. /\ tracked \in [Strategy -> Nat] /\ IsFiniteSet(Listed) /\ Listed \subseteq Strategy
      /\ Deployed(tracked) = SumOver(tracked, Listed)
  BY DeployedIsSum DEF VaultTypeOK
<1>2. /\ after \in [Strategy -> Nat] /\ after[s] = v
      /\ \A y \in Listed \ {s} : after[y] = tracked[y]
  BY <1>1
<1>3. Deployed(tracked)' = SumOfList(after, strategies)
  BY DEF Deployed, SumOfList
<1> HIDE DEF after
<1>4. SumOfList(after, strategies) = SumOver(after, Listed)
  BY <1>2, DeployedIsSum DEF Deployed, SumOfList
<1>5. SumOver(after, Listed) = SumOver(after, Listed \ {s}) + after[s]
  BY <1>1, <1>2, SumSplit
<1>6. SumOver(tracked, Listed) = SumOver(tracked, Listed \ {s}) + tracked[s]
  BY <1>1, SumSplit
<1>7. SumOver(after, Listed \ {s}) = SumOver(tracked, Listed \ {s})
  BY <1>2, SumSame
<1>8. SumOver(tracked, Listed \ {s}) \in Nat /\ tracked[s] \in Nat
  BY <1>1, SumIsNatural, FS_RemoveElement
<1> QED BY <1>1, <1>2, <1>3, <1>4, <1>5, <1>6, <1>7, <1>8

(* No holder has more shares than there are.                               *)
LEMMA SharesWithinSupply ==
    ASSUME IInv, NEW h \in Holder
    PROVE  shares[h] \in Nat /\ totalSupply \in Nat /\ shares[h] <= totalSupply
<1>1. shares \in [Holder -> Nat] /\ totalSupply \in Nat
  BY DEF IInv, VaultInv, VaultTypeOK
<1>2. IsFiniteSet(Holder) /\ IsFiniteSet(Holder \ {h})
  BY VaultAssumption, FS_RemoveElement
<1>3. SumOver(shares, Holder) = SumOver(shares, Holder \ {h}) + shares[h]
  BY <1>1, <1>2, SumSplit
<1>4. SumOver(shares, Holder \ {h}) \in Nat
  BY <1>1, <1>2, SumIsNatural
<1>5. SumOver(shares, Holder) = totalSupply
  BY DEF IInv, SharesAddUp
<1> QED BY <1>1, <1>3, <1>4, <1>5

(* A step that leaves the governance alone keeps its part, ...             *)
LEMMA GovernanceKept ==
    ASSUME GovernanceInv, UNCHANGED adminVars
    PROVE  GovernanceInv'
<1>1. AdminInv'
  BY AdminStutterInv DEF GovernanceInv
<1>2. initialized' = initialized /\ feeRecipient' = feeRecipient
  BY DEF adminVars, configVars
<1> QED BY <1>1, <1>2, Zenon DEF GovernanceInv

(* ... as does a step of it.                                               *)
LEMMA GovernanceStepInv ==
    ASSUME GovernanceInv, AdminStep
    PROVE  GovernanceInv'
<1>1. AdminInv'
  BY AdminStepInv DEF GovernanceInv
<1>2. CASE UNCHANGED configVars
  <2>1. initialized' = initialized /\ feeRecipient' = feeRecipient
    BY <1>2 DEF configVars
  <2> QED BY <1>1, <2>1, Zenon DEF GovernanceInv
<1>3. ASSUME NEW a \in Operator, NEW k \in Operator, NEW g \in Operator, NEW r \in Recipient,
             NEW f \in FeeBpsChoices, NEW b \in BufferBpsChoices, Initialize(a, k, g, r, f, b)
      PROVE  GovernanceInv'
  <2>1. feeRecipient' = r
    BY <1>3 DEF Initialize
  <2>2. r \in Holder
    BY VaultAssumption
  <2> QED BY <1>1, <2>1, <2>2, Zenon DEF GovernanceInv
<1>4. CASE CloseLedger
  BY <1>2, <1>4 DEF CloseLedger
<1>5. ASSUME NEW caller \in Operator,
             \/ Pause(caller) \/ Unpause(caller) \/ AcceptAdmin(caller) \/ GovernUpgrade(caller)
             \/ \E cap \in CapChoices : SetDepositCap(caller, cap)
             \/ \E age \in MaxAgeChoices : SetBridgedMaxAge(caller, age)
             \/ \E new \in NewKeeper : SetKeeper(caller, new)
             \/ \E new \in NewGuardian : SetGuardian(caller, new)
             \/ \E new \in NewAdmin : ProposeAdmin(caller, new)
      PROVE  GovernanceInv'
  <2>1. UNCHANGED configVars
    BY <1>5 DEF configVars, Pause, Unpause, AcceptAdmin, GovernUpgrade,
       SetDepositCap, SetBridgedMaxAge, SetKeeper, SetGuardian, ProposeAdmin
  <2> QED BY <2>1, <1>2
<1> QED BY <1>3, <1>4, <1>5 DEF AdminStep

(* A holder's balance and the supply change by as much: the shares still   *)
(* add up.                                                                 *)
LEMMA SharesMoveTogether ==
    ASSUME IInv, NEW h \in Holder, NEW n \in Nat,
           shares' = [shares EXCEPT ![h] = n],
           totalSupply' = totalSupply - shares[h] + n
    PROVE  SharesAddUp' /\ shares' \in [Holder -> Nat] /\ totalSupply' \in Nat
<1>1. shares \in [Holder -> Nat]
  BY DEF IInv, VaultInv, VaultTypeOK
<1>2. shares' \in [Holder -> Nat] /\ shares'[h] = n /\ IsFiniteSet(Holder)
      /\ \A y \in Holder \ {h} : shares'[y] = shares[y]
  BY <1>1, VaultAssumption
<1>3. SumOver(shares', Holder) = SumOver(shares, Holder) - shares[h] + shares'[h]
  <2> DEFINE after == shares'
  <2>1. after \in [Holder -> Nat] /\ \A y \in Holder \ {h} : after[y] = shares[y]
    BY <1>2
  <2> HIDE DEF after
  <2>2. SumOver(after, Holder) = SumOver(shares, Holder) - shares[h] + after[h]
    BY <1>1, <1>2, <2>1, SumUpdate
  <2> QED BY <2>2 DEF after
<1>4. SumOver(shares, Holder) = totalSupply
  BY DEF IInv, SharesAddUp
<1>5. SumOver(shares', Holder) = totalSupply'
  BY <1>2, <1>3, <1>4
<1>6. totalSupply' \in Nat
  BY SharesWithinSupply
<1> QED BY <1>2, <1>5, <1>6 DEF SharesAddUp

-----------------------------------------------------------------------------
(* Outside a redemption, the vault's parts are all there is to keep.       *)
LEMMA FreeStepInv ==
    ASSUME call' = NoCall, GovernanceInv', StrategyInv', VaultTypeOK', ListIsConsistent',
           SharesAddUp'
    PROVE  IInv'
<1>1. BooksInv'
  BY Zenon DEF BooksInv
<1>2. CallIsConsistent'
  BY Zenon DEF CallIsConsistent
<1> QED BY <1>1, <1>2, VaultInvPartsNext, Zenon DEF IInv

(* A balance may change where the strategy is on the list, or to zero.     *)
LEMMA TrackedUpdate ==
    ASSUME VaultTypeOK, ListIsConsistent, NEW s \in Strategy, NEW v \in Nat,
           s \in Listed \/ v = 0,
           strategies' = strategies, tracked' = [tracked EXCEPT ![s] = v]
    PROVE  ListIsConsistent' /\ tracked' \in [Strategy -> Nat]
<1>1. Listed' = Listed
  BY DEF Listed
<1>2. tracked' \in [Strategy -> Nat]
  BY DEF VaultTypeOK
<1>3. \A t \in Strategy \ Listed' : tracked'[t] = 0
  BY <1>1 DEF VaultTypeOK, ListIsConsistent
<1> QED BY <1>2, <1>3 DEF ListIsConsistent

(* A step that leaves list and balances alone keeps them consistent.       *)
LEMMA ListKept ==
    ASSUME ListIsConsistent, UNCHANGED <<strategies, tracked>>
    PROVE  ListIsConsistent'
BY DEF ListIsConsistent, Listed

(* Shares that do not change still add up.                                 *)
LEMMA SharesKept ==
    ASSUME SharesAddUp, UNCHANGED shareVars
    PROVE  SharesAddUp'
BY DEF SharesAddUp, shareVars

-----------------------------------------------------------------------------
(* Users.                                                                  *)

(* Two balances change, by opposite amounts or not at all.                 *)
LEMMA TransferInv ==
    ASSUME IInv, call' = NoCall,
           NEW from \in Holder, NEW to \in Holder, NEW n \in Int, Transfer(from, to, n)
    PROVE  IInv'
<1> DEFINE left == shares[from] - n
           debited == [shares EXCEPT ![from] = left]
           got == debited[to] + n
<1>1. shares \in [Holder -> Nat] /\ totalSupply \in Nat /\ IsFiniteSet(Holder)
  BY VaultAssumption DEF IInv, VaultInv, VaultTypeOK
<1>2. n \in Nat /\ left \in Nat
  BY <1>1 DEF Transfer
<1>3. debited \in [Holder -> Nat] /\ got \in Nat
      /\ debited[from] = left /\ \A y \in Holder \ {from} : debited[y] = shares[y]
  BY <1>1, <1>2
<1>4. shares' = [debited EXCEPT ![to] = got]
  BY <1>1 DEF Transfer
<1> HIDE DEF debited
<1>5. shares' \in [Holder -> Nat] /\ shares'[to] = got
      /\ \A y \in Holder \ {to} : shares'[y] = debited[y]
  BY <1>3, <1>4
<1>6. SumOver(debited, Holder) = SumOver(shares, Holder) - shares[from] + debited[from]
  BY <1>1, <1>3, SumUpdate
<1>7. SumOver(shares', Holder) = SumOver(debited, Holder) - debited[to] + shares'[to]
  BY <1>1, <1>3, <1>5, SumUpdate
<1>8. SumOver(shares, Holder) = totalSupply
  BY DEF IInv, SharesAddUp
<1>9. SumOver(shares', Holder) = totalSupply
  BY <1>1, <1>2, <1>3, <1>5, <1>6, <1>7, <1>8
<1>10. SharesAddUp'
  BY <1>9 DEF SharesAddUp, Transfer
<1>11. VaultTypeOK'
  BY <1>5 DEF IInv, VaultInv, VaultTypeOK, Transfer, fundVars, bridgeVars
<1>12. ListIsConsistent' /\ StrategyInv' /\ GovernanceInv'
  BY ListKept, StrategyStutterInv, GovernanceKept, VaultInvParts
     DEF IInv, BooksInv, Transfer, fundVars
<1> QED BY <1>10, <1>11, <1>12, FreeStepInv

(* The holder's balance and the supply grow by what is minted.             *)
LEMMA DepositInv ==
    ASSUME IInv, call' = NoCall, NEW from \in Holder, NEW n \in Int, Deposit(from, n)
    PROVE  IInv'
<1> DEFINE minted == ToShares(n, totalSupply, TotalAssets)
<1>1. shares \in [Holder -> Nat] /\ totalSupply \in Nat /\ idle \in Nat
      /\ wallet \in [Holder -> Nat]
  BY DEF IInv, VaultInv, VaultTypeOK
<1>2. TotalAssets \in Nat /\ n \in Nat
  BY TotalIsNatural, VaultInvParts DEF IInv, Deposit
<1>3. minted \in Nat
  BY <1>1, <1>2, MintedWorth
<1>4. /\ shares' = [shares EXCEPT ![from] = @ + minted]
      /\ totalSupply' = totalSupply + minted
      /\ wallet' = [wallet EXCEPT ![from] = @ - n]
      /\ wallet[from] >= n
      /\ idle' = idle + n
      /\ UNCHANGED <<tracked, strategies, bridgeVars, highWaterMark>>
      /\ UNCHANGED strategyVars /\ UNCHANGED adminVars
  BY DEF Deposit
<1> HIDE DEF minted
<1>5. SharesAddUp' /\ shares' \in [Holder -> Nat] /\ totalSupply' \in Nat
  <2>1. shares[from] + minted \in Nat
    BY <1>1, <1>3
  <2>2. totalSupply' = totalSupply - shares[from] + (shares[from] + minted)
    BY <1>1, <1>3, <1>4
  <2>3. shares' = [shares EXCEPT ![from] = shares[from] + minted]
    BY <1>1, <1>4
  <2> QED BY <2>1, <2>2, <2>3, SharesMoveTogether
<1>6. wallet' \in [Holder -> Nat] /\ idle' \in Nat
  BY <1>1, <1>2, <1>4
<1>7. VaultTypeOK'
  BY <1>4, <1>5, <1>6 DEF IInv, VaultInv, VaultTypeOK, bridgeVars
<1>8. ListIsConsistent' /\ StrategyInv' /\ GovernanceInv'
  BY <1>4, ListKept, StrategyStutterInv, GovernanceKept, VaultInvParts DEF IInv, BooksInv
<1> QED BY <1>5, <1>7, <1>8, FreeStepInv

(* Nothing but balances of the asset change.                               *)
LEMMA DonateInv ==
    ASSUME IInv, call' = NoCall, NEW from \in Holder, NEW n \in Int, Donate(from, n)
    PROVE  IInv'
<1>1. VaultTypeOK'
  BY DEF IInv, VaultInv, VaultTypeOK, Donate, shareVars, bridgeVars
<1>2. ListIsConsistent' /\ StrategyInv' /\ GovernanceInv' /\ SharesAddUp'
  BY ListKept, StrategyStutterInv, GovernanceKept, SharesKept, VaultInvParts
     DEF IInv, BooksInv, Donate
<1> QED BY <1>1, <1>2, FreeStepInv

(* A payment takes shares that the holder has.                             *)
LEMMA PayInv ==
    ASSUME IInv, call' = NoCall,
           NEW from \in Holder, NEW n \in Nat, NEW assets \in Nat,
           n <= shares[from], Pay(from, n, assets),
           UNCHANGED <<tracked, strategies, bridgeVars, highWaterMark>>,
           UNCHANGED <<strategyVars, adminVars>>
    PROVE  IInv'
<1>1. shares \in [Holder -> Nat] /\ totalSupply \in Nat /\ idle \in Nat
      /\ wallet \in [Holder -> Nat]
  BY DEF IInv, VaultInv, VaultTypeOK
<1>2. SharesAddUp' /\ shares' \in [Holder -> Nat] /\ totalSupply' \in Nat
  <2>1. shares[from] - n \in Nat
    BY <1>1
  <2>2. totalSupply' = totalSupply - shares[from] + (shares[from] - n)
    BY <1>1 DEF Pay
  <2>3. shares' = [shares EXCEPT ![from] = shares[from] - n]
    BY <1>1 DEF Pay
  <2> QED BY <2>1, <2>2, <2>3, SharesMoveTogether
<1>3. wallet' \in [Holder -> Nat] /\ idle' \in Nat
  BY <1>1 DEF Pay
<1>4. VaultTypeOK'
  BY <1>2, <1>3 DEF IInv, VaultInv, VaultTypeOK, bridgeVars
<1>5. ListIsConsistent' /\ StrategyInv' /\ GovernanceInv'
  BY ListKept, StrategyStutterInv, GovernanceKept, VaultInvParts DEF IInv, BooksInv
<1> QED BY <1>2, <1>4, <1>5, FreeStepInv

(* A redemption the idle balance covers.                                   *)
LEMMA RedeemFromIdleInv ==
    ASSUME IInv, call' = NoCall, NEW from \in Holder, NEW n \in Int, RedeemFromIdle(from, n)
    PROVE  IInv'
<1> DEFINE assets == ToAssets(n, totalSupply, TotalAssets)
<1>1. n \in Nat /\ n <= shares[from] /\ totalSupply \in Nat
  BY DEF RedeemFromIdle, CanRedeem, IInv, VaultInv, VaultTypeOK
<1>2. TotalAssets \in Nat
  BY TotalIsNatural, VaultInvParts DEF IInv
<1>3. assets \in Nat
  BY <1>1, <1>2, PaidWorth
<1>4. /\ Pay(from, n, assets)
      /\ UNCHANGED <<tracked, strategies, bridgeVars, highWaterMark>>
      /\ UNCHANGED <<strategyVars, adminVars>>
  BY DEF RedeemFromIdle
<1> HIDE DEF assets
<1> QED BY <1>1, <1>3, <1>4, PayInv

-----------------------------------------------------------------------------
(* redeem's waterfall.                                                     *)

(* The committed assets are the sum of parts that a waterfall's step does  *)
(* not touch.                                                              *)
LEMMA CommittedKept ==
    ASSUME UNCHANGED <<strategies, bridgeVars, adminVars>>,
           CommittedIdle' = CommittedIdle, CommittedTracked' = CommittedTracked
    PROVE  CommittedAssets' = CommittedAssets
<1>1. EffectiveBridged' = EffectiveBridged
  BY BridgedKept
<1> DEFINE f == [i \in DOMAIN strategies |-> CommittedTracked[strategies[i]]]
<1>2. Deployed(CommittedTracked)' = SumOver(f', (DOMAIN strategies)')
  BY DEF Deployed
<1>3. f' = f /\ (DOMAIN strategies)' = DOMAIN strategies
  OBVIOUS
<1>4. Deployed(CommittedTracked) = SumOver(f, DOMAIN strategies)
  BY DEF Deployed
<1> HIDE DEF f
<1>5. Deployed(CommittedTracked)' = Deployed(CommittedTracked)
  BY <1>2, <1>3, <1>4
<1> QED BY <1>1, <1>5 DEF CommittedAssets

(* A waterfall's first step records the vault as it is.                    *)
LEMMA StartWaterfallInv ==
    ASSUME IInv, call = NoCall,
           NEW from \in Holder, NEW n \in 1..shares[from], StartWaterfall(from, n)
    PROVE  IInv'
<1> DEFINE assets == ToAssets(n, totalSupply, TotalAssets)
<1>1. /\ idle \in Nat /\ tracked \in [Strategy -> Nat] /\ strategies \in Seq(Strategy)
      /\ shares \in [Holder -> Nat] /\ totalSupply \in Nat
  BY DEF IInv, VaultInv, VaultTypeOK
<1>2. /\ stTracked \in [Strategy -> Nat] /\ collateral \in [Strategy -> Nat]
      /\ reserve \in [Strategy -> Reserve]
      /\ \A s \in Strategy : collateral[s] <= reserve[s].b_supply
  BY DEF IInv, VaultInv, StrategyInv, StrategyTypeOK, PoolTypeOK
<1>3. n \in Nat /\ n > 0 /\ n <= shares[from]
  BY <1>1
<1>4. TotalAssets \in Nat
  BY TotalIsNatural, VaultInvParts DEF IInv
<1>5. assets \in Nat
  BY <1>1, <1>3, <1>4, PaidWorth
<1>6. /\ call' = [from |-> from, shares |-> n, assets |-> assets, remaining |-> assets - idle,
                  next |-> 1, saved |-> CurrentFunds]
      /\ idle < assets
      /\ UNCHANGED vaultVars /\ UNCHANGED strategyVars /\ UNCHANGED adminVars
  BY DEF StartWaterfall
<1>7. UNCHANGED <<wallet, shares, totalSupply, idle, tracked, strategies, bridgeVars, highWaterMark>>
  BY <1>6 DEF vaultVars, shareVars, fundVars
<1> HIDE DEF assets
<1>8. CurrentFunds \in Funds
  BY <1>1, <1>2 DEF CurrentFunds, Funds
<1>9. call' \in Call
  BY <1>1, <1>3, <1>5, <1>6, <1>8 DEF Call
<1>10. call' # NoCall
  BY <1>9, VaultAssumption
<1>11. GovernanceInv' /\ StrategyInv' /\ ListIsConsistent' /\ SharesAddUp'
  BY <1>6, <1>7, ListKept, StrategyStutterInv, GovernanceKept, SharesKept, VaultInvParts
     DEF IInv, BooksInv, shareVars
<1>12. VaultTypeOK'
  BY <1>7, <1>9 DEF IInv, VaultInv, VaultTypeOK, bridgeVars
<1>13. \A s \in Strategy : /\ call'.saved.collateral[s] <= call'.saved.reserve[s].b_supply
                           /\ s \notin Listed' => call'.saved.tracked[s] = 0
  <2>1. Listed' = Listed
    BY <1>7 DEF Listed
  <2> QED BY <1>2, <1>6, <2>1 DEF IInv, VaultInv, ListIsConsistent, CurrentFunds
<1>14. BooksInv'
  BY <1>11, <1>12, <1>13, Zenon DEF BooksInv
<1>15. CommittedAssets = TotalAssets
  BY DEF CommittedAssets, CommittedIdle, CommittedTracked, TotalAssets
<1>16. CommittedIdle' = CommittedIdle /\ CommittedTracked' = CommittedTracked
  BY <1>6, <1>10 DEF CommittedIdle, CommittedTracked, CurrentFunds
<1>17. CommittedAssets' = TotalAssets
  BY <1>6, <1>7, <1>15, <1>16, CommittedKept
<1>18. CallIsConsistent'
  <2>1. call'.assets = ToAssets(call'.shares, totalSupply', CommittedAssets')
    BY <1>6, <1>7, <1>17 DEF assets
  <2>2. /\ call'.shares > 0 /\ call'.assets > 0 /\ call'.shares <= shares'[call'.from]
        /\ call'.next <= Len(strategies') + 1
        /\ idle' + call'.remaining >= call'.assets
        /\ call'.remaining = 0 => idle' >= call'.assets
    BY <1>1, <1>3, <1>5, <1>6, <1>7
  <2>3. TotalAssets' = TotalAssets
    BY <1>6, <1>7, TotalKept
  <2>4. TotalAssets' >= CommittedAssets'
    BY <1>4, <1>17, <2>3
  <2> QED BY <2>1, <2>2, <2>4, Zenon DEF CallIsConsistent
<1> QED BY <1>11, <1>14, <1>18, VaultInvPartsNext DEF IInv

(* A step of the waterfall that goes on: it touches balances of the asset  *)
(* and of the strategies only, and what it pulls is no longer missing.     *)
LEMMA WaterfallGoesOn ==
    ASSUME IInv, call # NoCall, StrategyInv',
           UNCHANGED <<wallet, shareVars, strategies, bridgeVars, highWaterMark, adminVars>>,
           call.next <= Len(strategies),
           NEW pulled \in Nat, NEW s \in Strategy,
           idle' = idle + pulled,
           tracked' = [tracked EXCEPT ![s] = Monus(@, pulled)],
           s \in Listed,
           call' \in Call,
           call'.from = call.from, call'.shares = call.shares, call'.assets = call.assets,
           call'.saved = call.saved, call'.next = call.next + 1,
           call'.remaining = Monus(call.remaining, pulled)
    PROVE  IInv'
<1>1. /\ call \in Call /\ strategies \in Seq(Strategy)
      /\ idle \in Nat /\ tracked \in [Strategy -> Nat]
      /\ shares \in [Holder -> Nat] /\ totalSupply \in Nat
  BY DEF IInv, VaultInv, VaultTypeOK
<1>2. UNCHANGED <<wallet, shares, totalSupply, strategies, bridgeVars, highWaterMark, adminVars>>
  BY DEF shareVars
<1>3. Monus(call.remaining, pulled) \in Nat /\ Monus(tracked[s], pulled) \in Nat
  BY <1>1 DEF Call, Monus
<1>4. call.next \in Nat /\ call.remaining \in Nat /\ call.assets \in Nat
  BY <1>1 DEF Call
<1>5. call' # NoCall
  BY VaultAssumption
<1>6. GovernanceInv' /\ SharesAddUp'
  BY <1>2, GovernanceKept, SharesKept, VaultInvParts DEF IInv
<1>7. ListIsConsistent' /\ tracked' \in [Strategy -> Nat]
  <2>1. tracked' = [tracked EXCEPT ![s] = Monus(tracked[s], pulled)]
    BY <1>1
  <2>2. VaultTypeOK /\ ListIsConsistent
    BY DEF IInv, VaultInv
  <2> QED BY <1>2, <1>3, <2>1, <2>2, TrackedUpdate
<1>8. VaultTypeOK'
  <2>1. idle' \in Nat
    BY <1>1
  <2> QED BY <1>2, <1>7, <2>1 DEF IInv, VaultInv, VaultTypeOK, bridgeVars
<1>9. BooksInv'
  <2>1. Listed' = Listed
    BY <1>2 DEF Listed
  <2>2. \A t \in Strategy : /\ call'.saved.collateral[t] <= call'.saved.reserve[t].b_supply
                            /\ t \notin Listed' => call'.saved.tracked[t] = 0
    BY <2>1 DEF IInv, VaultInv
  <2> QED BY <1>7, <1>8, <2>2, Zenon DEF BooksInv
<1>10. CallIsConsistent'
  <2>1. CommittedAssets' = CommittedAssets
    <3>1. CommittedIdle' = CommittedIdle /\ CommittedTracked' = CommittedTracked
      BY <1>5 DEF CommittedIdle, CommittedTracked
    <3> QED BY <1>2, <3>1, CommittedKept
  <2>2. call'.assets = ToAssets(call'.shares, totalSupply', CommittedAssets')
    BY <1>2, <2>1 DEF IInv, CallIsConsistent
  <2>3. /\ call'.shares > 0 /\ call'.assets > 0 /\ call'.shares <= shares'[call'.from]
    BY <1>2 DEF IInv, CallIsConsistent
  <2>4. call'.next <= Len(strategies') + 1
    BY <1>1, <1>2, <1>4
  <2>5. idle' + call'.remaining >= call'.assets
    <3>1. idle + call.remaining >= call.assets
      BY DEF IInv, CallIsConsistent
    <3> QED BY <1>1, <1>4, <3>1 DEF Monus
  <2>6. call'.remaining = 0 => idle' >= call'.assets
    <3>1. idle' \in Nat
      BY <1>1
    <3> QED BY <2>5, <3>1
  <2>7. TotalAssets' >= TotalAssets
    <3> DEFINE v == Monus(tracked[s], pulled)
    <3>1. tracked' = [tracked EXCEPT ![s] = v] /\ v \in Nat
      BY <1>1, <1>3
    <3>2. v >= tracked[s] - pulled
      BY <1>1 DEF Monus
    <3> HIDE DEF v
    <3>3. Deployed(tracked)' = Deployed(tracked) - tracked[s] + v
          /\ Deployed(tracked) \in Nat /\ tracked[s] \in Nat
      BY <1>2, <3>1, DeployedAfter DEF IInv, VaultInv
    <3>4. EffectiveBridged' = EffectiveBridged /\ EffectiveBridged \in Nat
      BY <1>2, BridgedKept, TotalIsNatural, VaultInvParts DEF IInv
    <3> QED BY <1>1, <3>1, <3>2, <3>3, <3>4 DEF TotalAssets
  <2>8. TotalAssets' >= CommittedAssets'
    <3>1. TotalAssets >= CommittedAssets
      BY DEF IInv, CallIsConsistent
    <3>2. TotalAssets \in Nat /\ TotalAssets' \in Nat /\ CommittedAssets \in Nat
      BY TotalIsNatural, TotalIsNaturalNext, CommittedIsNatural, VaultInvParts, <1>9 DEF IInv
    <3> QED BY <2>1, <2>7, <3>1, <3>2
  <2> QED BY <2>2, <2>3, <2>4, <2>5, <2>6, <2>8, Zenon DEF CallIsConsistent
<1> QED BY <1>6, <1>9, <1>10, VaultInvPartsNext DEF IInv

(* A strategy with nothing to give is passed by.                           *)
LEMMA SkipInv ==
    ASSUME IInv, NEW s \in Strategy, SkipStrategy(s)
    PROVE  IInv'
<1>1. /\ call \in Call \cup {NoCall} /\ strategies \in Seq(Strategy)
      /\ idle \in Nat /\ tracked \in [Strategy -> Nat]
  BY DEF IInv, VaultInv, VaultTypeOK
<1>2. /\ call # NoCall /\ call.next <= Len(strategies) /\ call.remaining > 0
      /\ s = strategies[call.next]
  BY DEF SkipStrategy, AtStrategy
<1>3. call \in Call
  BY <1>1, <1>2
<1>4. s \in Listed
  BY <1>1, <1>2, <1>3 DEF Listed, Call
<1>5. UNCHANGED <<wallet, shareVars, strategies, bridgeVars, highWaterMark, adminVars>>
  BY DEF SkipStrategy, vaultVars
<1>6. StrategyInv'
  BY StrategyStutterInv, VaultInvParts DEF IInv, SkipStrategy
<1> DEFINE none == 0
<1>7. /\ none \in Nat
      /\ idle' = idle + none /\ tracked' = [tracked EXCEPT ![s] = Monus(@, none)]
  BY <1>1 DEF Monus, SkipStrategy, vaultVars, fundVars
<1>8. /\ call' \in Call
      /\ call'.from = call.from /\ call'.shares = call.shares /\ call'.assets = call.assets
      /\ call'.saved = call.saved /\ call'.next = call.next + 1
      /\ call'.remaining = Monus(call.remaining, none)
  BY <1>3 DEF Call, Monus, SkipStrategy
<1> HIDE DEF none
<1> QED BY <1>2, <1>4, <1>5, <1>6, <1>7, <1>8, WaterfallGoesOn

(* What a strategy gives leaves the rest of the call as it was.            *)
LEMMA PullGoesOn ==
    ASSUME IInv, NEW s \in Strategy, PullFromStrategy(s)
    PROVE  /\ call # NoCall /\ call.next <= Len(strategies) /\ s \in Listed
           /\ Withdrawn(s, Ask(s)) \in Nat /\ StrategyInv'
           /\ call' \in Call
           /\ call'.from = call.from /\ call'.shares = call.shares /\ call'.assets = call.assets
           /\ call'.saved = call.saved /\ call'.next = call.next + 1
           /\ call'.remaining = Monus(call.remaining, Withdrawn(s, Ask(s)))
<1> DEFINE pulled == Withdrawn(s, Ask(s))
<1>1. /\ call \in Call \cup {NoCall} /\ strategies \in Seq(Strategy) /\ StrategyInv
  BY DEF IInv, VaultInv, VaultTypeOK
<1>2. /\ call # NoCall /\ call.next <= Len(strategies) /\ call.remaining > 0
      /\ s = strategies[call.next]
  BY DEF PullFromStrategy, AtStrategy
<1>3. call \in Call
  BY <1>1, <1>2
<1>4. s \in Listed
  BY <1>1, <1>2, <1>3 DEF Listed, Call
<1>5. Ask(s) \in Nat
  <2>1. AvailableLiquidity(s) \in Nat
    <3>1. stTracked[s] \in Nat /\ RoundingMargin \in Nat /\ reserve[s] \in Reserve
      BY <1>1, StrategyAssumption DEF StrategyInv, StrategyTypeOK, PoolTypeOK
    <3>2. Supplied(reserve[s]) - Borrowed(reserve[s]) \in Int
      BY <1>1, SuppliedIsNatural
    <3> QED BY <3>1, <3>2 DEF AvailableLiquidity, Quote, Monus, Least
  <2> QED BY <1>3, <2>1 DEF Ask, Least, Call
<1>6. pulled \in Nat
  BY <1>1, <1>5, WithdrawnIsTracked
<1>7. StrategyInv'
  BY <1>1, <1>5, StrategyWithdrawInv DEF PullFromStrategy
<1> DEFINE next == call.next + 1
           missing == Monus(call.remaining, pulled)
<1>8. next \in Nat \ {0} /\ missing \in Nat
  BY <1>3, <1>6 DEF Call, Monus
<1>9. call' = [call EXCEPT !.next = next, !.remaining = missing]
  BY DEF PullFromStrategy
<1> HIDE DEF pulled, next, missing
<1>10. /\ call' \in Call
       /\ call'.from = call.from /\ call'.shares = call.shares /\ call'.assets = call.assets
       /\ call'.saved = call.saved /\ call'.next = next /\ call'.remaining = missing
  BY <1>3, <1>8, <1>9 DEF Call
<1>11. call'.next = call.next + 1 /\ call'.remaining = Monus(call.remaining, pulled)
  BY <1>10 DEF next, missing
<1> QED BY <1>2, <1>4, <1>6, <1>7, <1>10, <1>11 DEF pulled

(* A strategy gives what it quoted or less.                                *)
LEMMA PullInv ==
    ASSUME IInv, NEW s \in Strategy, PullFromStrategy(s)
    PROVE  IInv'
<1> DEFINE pulled == Withdrawn(s, Ask(s))
<1>1. /\ UNCHANGED <<wallet, shareVars, strategies, bridgeVars, highWaterMark, adminVars>>
      /\ idle' = idle + pulled
      /\ tracked' = [tracked EXCEPT ![s] = Monus(@, pulled)]
  BY DEF PullFromStrategy
<1>2. /\ call # NoCall /\ call.next <= Len(strategies) /\ s \in Listed
      /\ pulled \in Nat /\ StrategyInv'
      /\ call' \in Call
      /\ call'.from = call.from /\ call'.shares = call.shares /\ call'.assets = call.assets
      /\ call'.saved = call.saved /\ call'.next = call.next + 1
      /\ call'.remaining = Monus(call.remaining, pulled)
  BY PullGoesOn
<1> HIDE DEF pulled
<1> QED BY <1>1, <1>2, WaterfallGoesOn

(* The end of a waterfall that found enough.                               *)
LEMMA FinishInv ==
    ASSUME IInv, FinishRedeem
    PROVE  IInv'
<1>1. call # NoCall /\ call \in Call
  BY DEF FinishRedeem, WaterfallOver, IInv, VaultInv, VaultTypeOK
<1>2. call.from \in Holder /\ call.shares \in Nat /\ call.assets \in Nat
  BY <1>1 DEF Call
<1>3. call.shares <= shares[call.from]
  BY <1>1 DEF IInv, CallIsConsistent
<1>4. /\ Pay(call.from, call.shares, call.assets)
      /\ call' = NoCall
      /\ UNCHANGED <<tracked, strategies, bridgeVars, highWaterMark>>
      /\ UNCHANGED <<strategyVars, adminVars>>
  BY DEF FinishRedeem
<1> QED BY <1>2, <1>3, <1>4, PayInv

(* A redemption that fails puts back what satisfied the invariant.         *)
LEMMA RollbackInv ==
    ASSUME IInv, call # NoCall, Rollback
    PROVE  IInv'
<1>1. call \in Call
  BY DEF IInv, VaultInv, VaultTypeOK
<1>2. call.saved \in Funds
  BY <1>1 DEF Call
<1>3. /\ call' = NoCall /\ idle' = call.saved.idle /\ tracked' = call.saved.tracked
      /\ stTracked' = call.saved.stTracked /\ collateral' = call.saved.collateral
      /\ reserve' = call.saved.reserve
      /\ UNCHANGED <<wallet, shareVars, strategies, bridgeVars, highWaterMark>>
      /\ UNCHANGED adminVars
      /\ UNCHANGED stConfigVars /\ reachable' = reachable
  BY DEF Rollback
<1>4. \A s \in Strategy : /\ call.saved.collateral[s] <= call.saved.reserve[s].b_supply
                          /\ s \notin Listed => call.saved.tracked[s] = 0
  BY DEF IInv, VaultInv
<1>5. StrategyInv'
  <2>1. PoolInv'
    BY <1>2, <1>3, <1>4, VaultInvParts, StrategyInvParts DEF IInv, Funds, PoolInv, PoolTypeOK
  <2>2. ConfigTypeOK'
    BY <1>3, ConfigKept, VaultInvParts, StrategyInvParts DEF IInv
  <2>3. stTracked' \in [Strategy -> Nat]
    BY <1>2, <1>3 DEF Funds
  <2> QED BY <2>1, <2>2, <2>3, StrategyInvPartsNext
<1>6. GovernanceInv' /\ SharesAddUp'
  BY <1>3, GovernanceKept, SharesKept, VaultInvParts DEF IInv
<1>7. VaultTypeOK'
  BY <1>2, <1>3 DEF IInv, VaultInv, VaultTypeOK, Funds, shareVars, bridgeVars
<1>8. ListIsConsistent'
  BY <1>3, <1>4 DEF IInv, VaultInv, ListIsConsistent, Listed
<1> QED BY <1>3, <1>5, <1>6, <1>7, <1>8, FreeStepInv

(* Every step of a waterfall.                                              *)
LEMMA WaterfallInv ==
    ASSUME IInv, WaterfallStep
    PROVE  IInv'
<1>1. ASSUME NEW s \in Strategy, TrapInStrategy(s) PROVE IInv'
  BY <1>1, RollbackInv DEF TrapInStrategy, AtStrategy
<1>2. CASE FallShort
  BY <1>2, RollbackInv DEF FallShort, WaterfallOver
<1> QED BY <1>1, <1>2, SkipInv, PullInv, FinishInv DEF WaterfallStep

-----------------------------------------------------------------------------
(* The strategy list.                                                      *)

(* A strategy is added at the end, with no balance.                        *)
LEMMA AddStrategyInv ==
    ASSUME IInv, call' = NoCall, NEW caller, NEW s \in Strategy, AddStrategy(caller, s)
    PROVE  IInv'
<1>1. /\ strategies \in Seq(Strategy) /\ tracked \in [Strategy -> Nat]
      /\ ListIsConsistent /\ MaxStrategies \in Nat
  BY VaultAssumption DEF IInv, VaultInv, VaultTypeOK
<1>2. /\ strategies' = Append(strategies, s) /\ s \notin Listed
      /\ Len(strategies) < MaxStrategies
      /\ tracked' = [tracked EXCEPT ![s] = 0]
      /\ UNCHANGED <<wallet, shareVars, idle, bridgeVars, highWaterMark>>
      /\ UNCHANGED strategyVars /\ UNCHANGED adminVars
  BY DEF AddStrategy
<1>3. /\ strategies' \in Seq(Strategy) /\ Len(strategies') = Len(strategies) + 1
      /\ DOMAIN strategies' = 1..Len(strategies')
      /\ strategies'[Len(strategies) + 1] = s
      /\ \A i \in DOMAIN strategies : i \in DOMAIN strategies' /\ strategies'[i] = strategies[i]
      /\ DOMAIN strategies = 1..Len(strategies) /\ Len(strategies) \in Nat
  BY <1>1, <1>2
<1>4. ListIsConsistent'
  <2>1. \A i, j \in DOMAIN strategies' : strategies'[i] = strategies'[j] => i = j
    <3>1. \A i \in DOMAIN strategies : strategies'[i] # s
      BY <1>2, <1>3 DEF Listed
    <3>2. \A i \in DOMAIN strategies' : i \in DOMAIN strategies \/ i = Len(strategies) + 1
      BY <1>3
    <3> QED BY <1>1, <1>3, <3>1, <3>2 DEF ListIsConsistent
  <2>2. \A t \in Strategy \ Listed' : tracked'[t] = 0
    <3>1. \A t \in Listed : t \in Listed'
      BY <1>3 DEF Listed
    <3> QED BY <1>1, <1>2, <3>1 DEF ListIsConsistent
  <2>3. Len(strategies') <= MaxStrategies
    BY <1>1, <1>2, <1>3
  <2> QED BY <2>1, <2>2, <2>3 DEF ListIsConsistent
<1>5. VaultTypeOK'
  BY <1>1, <1>2, <1>3 DEF IInv, VaultInv, VaultTypeOK, shareVars, bridgeVars
<1>6. GovernanceInv' /\ StrategyInv' /\ SharesAddUp'
  BY <1>2, GovernanceKept, StrategyStutterInv, SharesKept, VaultInvParts DEF IInv
<1> QED BY <1>4, <1>5, <1>6, FreeStepInv

(* The list without the place i.                                           *)
IsWithout(new, list, i) ==
    /\ list \in Seq(Strategy) /\ i \in 1..Len(list)
    /\ new \in Seq(Strategy) /\ Len(new) = Len(list) - 1
    /\ \A j \in 1..Len(new) : /\ j < i => new[j] = list[j]
                              /\ j >= i => new[j] = list[j + 1]

NoTwice(list) == \A j, k \in 1..Len(list) : list[j] = list[k] => j = k

(* It has what is in the other places, each as often as before.            *)
LEMMA ListWithout ==
    ASSUME NEW list, NEW i, NEW new, IsWithout(new, list, i)
    PROVE  /\ \A k \in 1..Len(list) : k # i => \E j \in 1..Len(new) : new[j] = list[k]
           /\ \A j \in 1..Len(new) : \E k \in 1..Len(list) : k # i /\ new[j] = list[k]
           /\ NoTwice(list) => NoTwice(new)
<1>1. /\ Len(list) \in Nat /\ Len(new) \in Nat
      /\ i \in 1..Len(list) /\ Len(new) = Len(list) - 1
      /\ \A j \in 1..Len(new) : j < i => new[j] = list[j]
      /\ \A j \in 1..Len(new) : j >= i => new[j] = list[j + 1]
  BY DEF IsWithout
<1>2. ASSUME NEW k \in 1..Len(list), k # i PROVE \E j \in 1..Len(new) : new[j] = list[k]
  <2>1. CASE k < i
    <3>1. k \in 1..Len(new) /\ new[k] = list[k]
      BY <1>1, <2>1
    <3> QED BY <3>1
  <2>2. CASE k > i
    <3>1. k - 1 \in 1..Len(new) /\ new[k - 1] = list[(k - 1) + 1] /\ (k - 1) + 1 = k
      BY <1>1, <2>2
    <3>2. new[k - 1] = list[k]
      BY <3>1
    <3> QED BY <3>1, <3>2
  <2>3. k \in Int /\ i \in Int
    BY <1>1
  <2> QED BY <1>2, <2>1, <2>2, <2>3
<1>3. ASSUME NoTwice(list),
             NEW j \in 1..Len(new), NEW k \in 1..Len(new), new[j] = new[k]
      PROVE  j = k
  <2>0. \A p, q \in 1..Len(list) : list[p] = list[q] => p = q
    BY <1>3, Zenon DEF NoTwice
  <2> DEFINE a == IF j < i THEN j ELSE j + 1
             b == IF k < i THEN k ELSE k + 1
  <2>1. a \in 1..Len(list) /\ b \in 1..Len(list) /\ new[j] = list[a] /\ new[k] = list[b]
    BY <1>1
  <2>2. a = b
    <3> HIDE DEF a, b
    <3> QED BY <1>3, <2>0, <2>1
  <2> QED BY <1>1, <2>2
<1>4. ASSUME NEW j \in 1..Len(new) PROVE \E k \in 1..Len(list) : k # i /\ new[j] = list[k]
  <2> DEFINE k == IF j < i THEN j ELSE j + 1
  <2>1. k \in 1..Len(list) /\ k # i /\ new[j] = list[k]
    BY <1>1
  <2> QED BY <2>1
<1> QED BY <1>2, <1>3, <1>4 DEF NoTwice

(* remove_strategy takes one place off the list.                           *)
LEMMA RemovedPlace ==
    ASSUME VaultTypeOK, ListIsConsistent, NEW caller, NEW s \in Strategy, RemoveStrategy(caller, s)
    PROVE  /\ NoTwice(strategies)
           /\ \E i \in DOMAIN strategies :
                strategies[i] = s /\ IsWithout(strategies', strategies, i)
<1>1. /\ strategies \in Seq(Strategy)
      /\ DOMAIN strategies = 1..Len(strategies) /\ Len(strategies) \in Nat
  BY DEF VaultTypeOK
<1>2. PICK i \in DOMAIN strategies :
         /\ strategies[i] = s
         /\ strategies' = [j \in 1..(Len(strategies) - 1) |->
                              strategies[IF j < i THEN j ELSE j + 1]]
  BY DEF RemoveStrategy
<1> DEFINE new == strategies'
           n == Len(strategies) - 1
<1>3. new = [j \in 1..n |-> strategies[IF j < i THEN j ELSE j + 1]]
  BY <1>2, Zenon
<1>4. n \in Nat
  BY <1>1
<1>5. \A j \in 1..n : (IF j < i THEN j ELSE j + 1) \in DOMAIN strategies
  BY <1>1
<1>6. \A k \in DOMAIN strategies : strategies[k] \in Strategy
  BY <1>1
<1> HIDE DEF n, new
<1>7. new \in [1..n -> Strategy] /\ \A j \in 1..n : new[j] = strategies[IF j < i THEN j ELSE j + 1]
  BY <1>3, <1>4, <1>5, <1>6
<1>8. new \in Seq(Strategy) /\ Len(new) = n
  BY <1>4, <1>7
<1>9. \A j \in 1..Len(new) : /\ j < i => new[j] = strategies[j]
                             /\ j >= i => new[j] = strategies[j + 1]
  BY <1>1, <1>7, <1>8
<1>10. IsWithout(new, strategies, i)
  <2>1. Len(new) = Len(strategies) - 1 /\ i \in 1..Len(strategies)
    BY <1>1, <1>8 DEF n
  <2> QED BY <1>1, <1>8, <1>9, <2>1, Zenon DEF IsWithout
<1>11. NoTwice(strategies)
  BY <1>1 DEF ListIsConsistent, NoTwice
<1> QED BY <1>2, <1>10, <1>11 DEF new

(* A strategy leaves the list with no balance.                             *)
LEMMA RemoveStrategyInv ==
    ASSUME IInv, call' = NoCall, NEW caller, NEW s \in Strategy, RemoveStrategy(caller, s)
    PROVE  IInv'
<1>1. /\ strategies \in Seq(Strategy) /\ tracked \in [Strategy -> Nat]
      /\ ListIsConsistent /\ MaxStrategies \in Nat
      /\ DOMAIN strategies = 1..Len(strategies) /\ Len(strategies) \in Nat
  BY VaultAssumption DEF IInv, VaultInv, VaultTypeOK
<1>2. NoTwice(strategies)
  BY RemovedPlace DEF IInv, VaultInv
<1>3. /\ tracked[s] = 0 /\ tracked' = [tracked EXCEPT ![s] = 0]
      /\ UNCHANGED <<wallet, shareVars, idle, bridgeVars, highWaterMark>>
      /\ UNCHANGED strategyVars /\ UNCHANGED adminVars
  BY DEF RemoveStrategy
<1> DEFINE new == strategies'
<1>4. PICK i \in DOMAIN strategies : strategies[i] = s /\ IsWithout(new, strategies, i)
  BY RemovedPlace DEF IInv, VaultInv
<1> HIDE DEF new
<1>5. /\ new \in Seq(Strategy) /\ Len(new) = Len(strategies) - 1 /\ DOMAIN new = 1..Len(new)
      /\ \A k \in DOMAIN strategies : k # i => \E j \in DOMAIN new : new[j] = strategies[k]
      /\ NoTwice(new)
  <2>1. new \in Seq(Strategy) /\ Len(new) = Len(strategies) - 1
    BY <1>4 DEF IsWithout
  <2>2. /\ \A k \in 1..Len(strategies) : k # i => \E j \in 1..Len(new) : new[j] = strategies[k]
        /\ NoTwice(new)
    BY <1>2, <1>4, ListWithout
  <2>3. DOMAIN new = 1..Len(new)
    BY <2>1
  <2>4. \A k \in DOMAIN strategies : k # i => \E j \in DOMAIN new : new[j] = strategies[k]
    BY <1>1, <2>2, <2>3, Zenon
  <2> QED BY <2>1, <2>2, <2>3, <2>4, Zenon
<1>6. ListIsConsistent'
  <2>1. \A j, k \in DOMAIN strategies' : strategies'[j] = strategies'[k] => j = k
    BY <1>5 DEF new, NoTwice
  <2>2. \A t \in Strategy \ Listed' : tracked'[t] = 0
    <3>1. \A t \in Listed : t = s \/ t \in Listed'
      BY <1>4, <1>5 DEF Listed, new
    <3> QED BY <1>1, <1>3, <3>1 DEF ListIsConsistent
  <2>3. Len(strategies') <= MaxStrategies
    BY <1>1, <1>5 DEF ListIsConsistent, new
  <2> QED BY <2>1, <2>2, <2>3 DEF ListIsConsistent
<1>7. VaultTypeOK'
  BY <1>1, <1>3, <1>5 DEF IInv, VaultInv, VaultTypeOK, shareVars, bridgeVars, new
<1>8. GovernanceInv' /\ StrategyInv' /\ SharesAddUp'
  BY <1>3, GovernanceKept, StrategyStutterInv, SharesKept, VaultInvParts DEF IInv
<1> QED BY <1>6, <1>7, <1>8, FreeStepInv

-----------------------------------------------------------------------------
(* The movement of funds.                                                  *)

(* What every movement has in common.                                      *)
LEMMA FundMoveInv ==
    ASSUME IInv, call' = NoCall, StrategyInv', NEW s \in Strategy, NEW v \in Nat,
           s \in Listed \/ v = 0, idle' \in Nat, tracked' = [tracked EXCEPT ![s] = v],
           UNCHANGED <<wallet, shareVars, strategies, bridgeVars, highWaterMark, adminVars>>
    PROVE  IInv'
<1>1. strategies' = strategies /\ UNCHANGED adminVars /\ UNCHANGED shareVars
  OBVIOUS
<1>2. VaultTypeOK /\ ListIsConsistent
  BY DEF IInv, VaultInv
<1>3. ListIsConsistent' /\ tracked' \in [Strategy -> Nat]
  BY <1>1, <1>2, TrackedUpdate
<1>4. VaultTypeOK'
  BY <1>2, <1>3 DEF VaultTypeOK, shareVars, bridgeVars
<1>5. GovernanceInv' /\ SharesAddUp'
  BY <1>1, GovernanceKept, SharesKept, VaultInvParts DEF IInv
<1> QED BY <1>3, <1>4, <1>5, FreeStepInv

(* The buffer is natural, ...                                              *)
LEMMA MinIdleIsNatural ==
    ASSUME IInv
    PROVE  MinIdle \in Nat
<1>1. TotalAssets \in Nat
  BY TotalIsNatural, VaultInvParts DEF IInv
<1>2. idleBufferBps \in Nat
  BY AdminAssumption DEF IInv, VaultInv, AdminInv, AdminTypeOK
<1>3. TotalAssets * idleBufferBps \in Nat
  BY <1>1, <1>2, Products
<1> QED BY <1>3, Division, MathAssumption DEF MinIdle

(* ... so an allocation is of assets the vault has.                        *)
LEMMA AllocateInv ==
    ASSUME IInv, call' = NoCall, NEW caller, NEW s \in Strategy, NEW amount \in Int,
           Allocate(caller, s, amount)
    PROVE  IInv'
<1>1. idle \in Nat /\ tracked \in [Strategy -> Nat]
  BY DEF IInv, VaultInv, VaultTypeOK
<1>2. /\ amount > 0 /\ s \in Listed /\ idle - amount >= MinIdle
      /\ StrategyDeposit(s, Vault, amount)
      /\ idle' = idle - amount /\ tracked' = [tracked EXCEPT ![s] = @ + amount]
      /\ UNCHANGED <<wallet, shareVars, strategies, bridgeVars, highWaterMark, adminVars>>
  BY DEF Allocate, CanAllocate
<1>3. StrategyInv'
  BY <1>2, StrategyDepositInv, VaultInvParts DEF IInv
<1> DEFINE v == tracked[s] + amount
<1>4. v \in Nat /\ idle' \in Nat
  BY <1>1, <1>2, MinIdleIsNatural
<1>5. tracked' = [tracked EXCEPT ![s] = v]
  BY <1>2
<1> HIDE DEF v
<1> QED BY <1>2, <1>3, <1>4, <1>5, FundMoveInv

(* A deallocation takes no more off the balance than is on it.             *)
LEMMA DeallocateInv ==
    ASSUME IInv, call' = NoCall, NEW caller, NEW s \in Strategy, NEW amount \in Int,
           Deallocate(caller, s, amount)
    PROVE  IInv'
<1>1. idle \in Nat /\ tracked \in [Strategy -> Nat]
  BY DEF IInv, VaultInv, VaultTypeOK
<1>2. /\ amount > 0 /\ s \in Listed
      /\ StrategyWithdraw(s, Vault, amount)
      /\ idle' = idle + Withdrawn(s, amount)
      /\ tracked' = [tracked EXCEPT ![s] = Monus(@, Withdrawn(s, amount))]
      /\ UNCHANGED <<wallet, shareVars, strategies, bridgeVars, highWaterMark, adminVars>>
  BY DEF Deallocate
<1>3. StrategyInv'
  BY <1>2, StrategyWithdrawInv, VaultInvParts DEF IInv
<1>4. Withdrawn(s, amount) \in Nat
  BY <1>2, WithdrawnIsTracked, VaultInvParts DEF IInv
<1> DEFINE v == Monus(tracked[s], Withdrawn(s, amount))
<1>5. v \in Nat /\ idle' \in Nat
  BY <1>1, <1>2, <1>4 DEF Monus
<1>6. tracked' = [tracked EXCEPT ![s] = v]
  BY <1>2
<1> HIDE DEF v
<1> QED BY <1>2, <1>3, <1>5, <1>6, FundMoveInv

(* An emergency withdrawal leaves no balance.                              *)
LEMMA EmergencyInv ==
    ASSUME IInv, call' = NoCall, NEW caller, NEW s \in Strategy,
           EmergencyWithdrawStrategy(caller, s)
    PROVE  IInv'
<1>1. idle \in Nat
  BY DEF IInv, VaultInv, VaultTypeOK
<1>2. /\ StrategyDrain(s, Vault)
      /\ idle' = idle + PoolPosition(s) /\ tracked' = [tracked EXCEPT ![s] = 0]
      /\ UNCHANGED <<wallet, shareVars, strategies, bridgeVars, highWaterMark, adminVars>>
  BY DEF EmergencyWithdrawStrategy
<1>3. StrategyInv'
  BY <1>2, StrategyDrainInv, VaultInvParts DEF IInv
<1>4. PoolPosition(s) \in Nat
  BY PositionIsNatural, VaultInvParts DEF IInv
<1>5. idle' \in Nat
  BY <1>1, <1>2, <1>4
<1> DEFINE v == 0
<1>6. v \in Nat /\ tracked' = [tracked EXCEPT ![s] = v] /\ v = 0
  BY <1>2
<1> HIDE DEF v
<1> QED BY <1>2, <1>3, <1>5, <1>6, FundMoveInv

(* Nor does a drain the vault does not hear of touch its accounts.         *)
LEMMA AdminDrainsInv ==
    ASSUME IInv, call' = NoCall, NEW caller, NEW s \in Strategy, StrategyAdminDrains(caller, s)
    PROVE  IInv'
<1>1. idle \in Nat
  BY DEF IInv, VaultInv, VaultTypeOK
<1>2. /\ StrategyDrain(s, caller)
      /\ idle' = idle + (IF stVault[s] = Vault THEN PoolPosition(s) ELSE 0)
      /\ UNCHANGED <<wallet, shareVars, tracked, strategies, bridgeVars, highWaterMark>>
      /\ UNCHANGED adminVars
  BY DEF StrategyAdminDrains
<1>3. StrategyInv'
  BY <1>2, StrategyDrainInv, VaultInvParts DEF IInv
<1>4. PoolPosition(s) \in Nat
  BY PositionIsNatural, VaultInvParts DEF IInv
<1>5. idle' \in Nat
  BY <1>1, <1>2, <1>4
<1>6. VaultTypeOK'
  BY <1>2, <1>5 DEF IInv, VaultInv, VaultTypeOK, shareVars, bridgeVars
<1>7. GovernanceInv' /\ SharesAddUp' /\ ListIsConsistent'
  BY <1>2, GovernanceKept, SharesKept, ListKept, VaultInvParts DEF IInv, VaultInv
<1> QED BY <1>3, <1>6, <1>7, FreeStepInv

-----------------------------------------------------------------------------
(* Reports, fees, and what happens outside the vault's accounts.           *)

(* An attestation is of a natural balance, now.                            *)
LEMMA AttestInv ==
    ASSUME IInv, call' = NoCall, NEW caller, NEW n \in Int, AttestBridgedBalance(caller, n)
    PROVE  IInv'
<1>1. now \in Nat
  BY DEF IInv, VaultInv, AdminInv, TimelockInv, TimelockTypeOK
<1>2. VaultTypeOK'
  BY <1>1 DEF IInv, VaultInv, VaultTypeOK, AttestBridgedBalance, shareVars, fundVars
<1>3. ListIsConsistent' /\ StrategyInv' /\ GovernanceInv' /\ SharesAddUp'
  BY ListKept, StrategyStutterInv, GovernanceKept, SharesKept, VaultInvParts
     DEF IInv, BooksInv, AttestBridgedBalance, fundVars
<1> QED BY <1>2, <1>3, FreeStepInv

(* A reported balance is that of a strategy on the list.                   *)
LEMMA ReportInv ==
    ASSUME IInv, call' = NoCall, NEW caller, NEW s \in Strategy, NEW n \in Int,
           UpdateTrackedBalance(caller, s, n)
    PROVE  IInv'
<1>1. /\ n \in Nat /\ s \in Listed /\ tracked' = [tracked EXCEPT ![s] = n] /\ idle' = idle
      /\ UNCHANGED <<wallet, shareVars, strategies, bridgeVars, highWaterMark, adminVars>>
      /\ UNCHANGED strategyVars
  BY DEF UpdateTrackedBalance
<1>2. StrategyInv'
  BY <1>1, StrategyStutterInv, VaultInvParts DEF IInv
<1>3. idle' \in Nat
  BY <1>1 DEF IInv, VaultInv, VaultTypeOK
<1> QED BY <1>1, <1>2, <1>3, FundMoveInv

(* What CollectFees mints, and the mark it sets, are natural.              *)
LEMMA FeesAreNatural ==
    ASSUME IInv, CollectFees
    PROVE  /\ totalSupply \in Nat \ {0} /\ TotalAssets \in Nat /\ highWaterMark \in Nat
           /\ performanceFeeBps \in Nat /\ Nav(totalSupply, TotalAssets) > highWaterMark
           /\ FeeShares(totalSupply, TotalAssets, highWaterMark, performanceFeeBps) \in Nat
<1>1. totalSupply \in Nat \ {0} /\ highWaterMark \in Nat
      /\ Nav(totalSupply, TotalAssets) > highWaterMark
  BY DEF IInv, VaultInv, VaultTypeOK, CollectFees
<1>2. TotalAssets \in Nat
  BY TotalIsNatural, VaultInvParts DEF IInv
<1>3. performanceFeeBps \in Nat
  BY AdminAssumption DEF IInv, VaultInv, AdminInv, AdminTypeOK
<1> QED BY <1>1, <1>2, <1>3, FeeSharesWorthTheFee

(* The recipient's balance and the supply grow by as much.                 *)
LEMMA CollectFeesInv ==
    ASSUME IInv, call' = NoCall, CollectFees
    PROVE  IInv'
<1> DEFINE minted == FeeShares(totalSupply, TotalAssets, highWaterMark, performanceFeeBps)
           total == TotalAssets
<1>1. minted \in Nat /\ total \in Nat /\ totalSupply \in Nat
  BY FeesAreNatural
<1>2. /\ initialized
      /\ shares' = [shares EXCEPT ![feeRecipient] = @ + minted]
      /\ totalSupply' = totalSupply + minted
      /\ highWaterMark' = Nav(totalSupply + minted, total)
      /\ minted > 0
      /\ UNCHANGED <<wallet, fundVars, strategies, bridgeVars>>
      /\ UNCHANGED strategyVars /\ UNCHANGED adminVars
  BY DEF CollectFees
<1> HIDE DEF minted, total
<1>3. feeRecipient \in Holder /\ shares \in [Holder -> Nat]
  BY <1>2 DEF IInv, VaultInv, VaultTypeOK
<1>4. SharesAddUp' /\ shares' \in [Holder -> Nat] /\ totalSupply' \in Nat
  <2>1. shares[feeRecipient] + minted \in Nat
    BY <1>1, <1>3
  <2>2. totalSupply' = totalSupply - shares[feeRecipient] + (shares[feeRecipient] + minted)
    BY <1>1, <1>2, <1>3
  <2>3. shares' = [shares EXCEPT ![feeRecipient] = shares[feeRecipient] + minted]
    BY <1>2
  <2> QED BY <1>3, <2>1, <2>2, <2>3, SharesMoveTogether
<1>5. highWaterMark' \in Nat
  <2>1. total * NavPrecision \in Nat
    BY <1>1, MathAssumption, Products
  <2>2. totalSupply + minted \in Nat \ {0}
    BY <1>1, <1>2
  <2> QED BY <1>2, <2>1, <2>2, Division DEF Nav
<1>6. VaultTypeOK'
  BY <1>2, <1>4, <1>5 DEF IInv, VaultInv, VaultTypeOK, fundVars, bridgeVars
<1>7. ListIsConsistent' /\ StrategyInv' /\ GovernanceInv'
  BY <1>2, ListKept, StrategyStutterInv, GovernanceKept, VaultInvParts
     DEF IInv, BooksInv, fundVars
<1> QED BY <1>4, <1>6, <1>7, FreeStepInv

(* Governance, the strategies' own settings, the pools.                    *)
LEMMA OutsideInv ==
    ASSUME IInv, call' = NoCall, OutsideStep
    PROVE  IInv'
<1>1. UNCHANGED <<wallet, shareVars, fundVars, strategies, bridgeVars, highWaterMark>>
  BY DEF OutsideStep, vaultVars
<1>2. VaultTypeOK' /\ ListIsConsistent' /\ SharesAddUp'
  <2>1. ListIsConsistent' /\ SharesAddUp'
    BY <1>1, ListKept, SharesKept DEF IInv, VaultInv, fundVars
  <2> QED BY <1>1, <2>1 DEF IInv, VaultInv, VaultTypeOK, fundVars, shareVars, bridgeVars
<1>3. StrategyInv /\ GovernanceInv
  BY VaultInvParts DEF IInv
<1>4. CASE AdminStep /\ UNCHANGED strategyVars
  BY <1>2, <1>3, <1>4, GovernanceStepInv, StrategyStutterInv, FreeStepInv
<1>5. CASE StrategySettings /\ UNCHANGED adminVars
  BY <1>2, <1>3, <1>5, GovernanceKept, StrategySettingsInv, FreeStepInv
<1>6. CASE PoolEnvironment /\ UNCHANGED <<stTracked, stConfigVars, adminVars>>
  <2>1. UNCHANGED stConfigVars /\ stTracked' = stTracked /\ UNCHANGED adminVars
    BY <1>6
  <2>2. PoolInv /\ ConfigTypeOK /\ stTracked \in [Strategy -> Nat]
    BY <1>3, StrategyInvParts
  <2>3. PoolInv' /\ ConfigTypeOK'
    BY <1>6, <2>1, <2>2, PoolEnvironmentInv, ConfigKept
  <2>4. StrategyInv'
    BY <2>1, <2>2, <2>3, StrategyInvPartsNext
  <2> QED BY <1>2, <1>3, <2>1, <2>4, GovernanceKept, FreeStepInv
<1> QED BY <1>4, <1>5, <1>6 DEF OutsideStep

-----------------------------------------------------------------------------
(* The whole vault.                                                        *)

(* The state initialize finds.                                             *)
LEMMA VaultInitInv == Init => IInv
<1> SUFFICES ASSUME Init PROVE IInv
  OBVIOUS
<1>1. AdminInv /\ StrategyInv
  BY AdminInitInv, StrategyInitInv DEF Init
<1>2. VaultTypeOK
  BY VaultAssumption, MathAssumption DEF Init, VaultInit, VaultTypeOK
<1>3. ListIsConsistent
  BY VaultAssumption DEF Init, VaultInit, ListIsConsistent, Listed
<1>4. initialized = FALSE /\ call = NoCall
  BY DEF Init, AdminInit, VaultInit
<1>5. SharesAddUp
  <2>1. \A h \in Holder : shares[h] = 0
    BY DEF Init, VaultInit
  <2>2. totalSupply = 0
    BY DEF Init, VaultInit
  <2> QED BY <2>1, <2>2, SumZero DEF SharesAddUp
<1> QED BY <1>1, <1>2, <1>3, <1>4, <1>5 DEF IInv, VaultInv, CallIsConsistent

(* A step that changes nothing.                                            *)
LEMMA StutterInv ==
    ASSUME IInv, UNCHANGED vars
    PROVE  IInv'
<1>1. /\ UNCHANGED <<wallet, shareVars, fundVars, strategies, bridgeVars, highWaterMark>>
      /\ UNCHANGED strategyVars /\ UNCHANGED adminVars /\ call' = call
  BY DEF vars, vaultVars
<1>2. GovernanceInv' /\ StrategyInv' /\ SharesAddUp'
  BY <1>1, GovernanceKept, StrategyStutterInv, SharesKept, VaultInvParts DEF IInv
<1>3. BooksInv'
  BY <1>1 DEF IInv, VaultInv, BooksInv, VaultTypeOK, ListIsConsistent, Listed, shareVars, fundVars,
              bridgeVars
<1>4. CallIsConsistent'
  <2>1. CommittedAssets' = CommittedAssets
    <3>1. CommittedIdle' = CommittedIdle /\ CommittedTracked' = CommittedTracked
      BY <1>1 DEF CommittedIdle, CommittedTracked, fundVars
    <3> QED BY <1>1, <3>1, CommittedKept
  <2>2. TotalAssets' = TotalAssets
    BY <1>1, TotalKept DEF fundVars
  <2> QED BY <1>1, <2>1, <2>2 DEF IInv, CallIsConsistent, shareVars, fundVars
<1> QED BY <1>2, <1>3, <1>4, VaultInvPartsNext DEF IInv

(* A user's transaction, ...                                               *)
LEMMA UserStepInv ==
    ASSUME IInv, call' = NoCall, UserStep
    PROVE  IInv'
<1> PICK h \in Holder :
        \/ \E to \in Holder, n \in TransferChoices : Transfer(h, to, n)
        \/ \E n \in DepositChoices : Deposit(h, n)
        \/ \E n \in DonationChoices : Donate(h, n)
        \/ \E n \in 1..shares[h] : RedeemFromIdle(h, n)
  BY DEF UserStep
<1>1. TransferChoices \subseteq Int /\ DepositChoices \subseteq Int /\ DonationChoices \subseteq Int
  BY VaultAssumption
<1>2. CASE \E to \in Holder, n \in TransferChoices : Transfer(h, to, n)
  BY <1>1, <1>2, TransferInv
<1>3. CASE \E n \in DepositChoices : Deposit(h, n)
  BY <1>1, <1>3, DepositInv
<1>4. CASE \E n \in DonationChoices : Donate(h, n)
  BY <1>1, <1>4, DonateInv
<1>5. CASE \E n \in 1..shares[h] : RedeemFromIdle(h, n)
  <2> PICK n \in 1..shares[h] : RedeemFromIdle(h, n)
    BY <1>5
  <2>1. n \in Int
    OBVIOUS
  <2> QED BY <2>1, RedeemFromIdleInv
<1> QED BY <1>2, <1>3, <1>4, <1>5

(* ... one of the keeper, the admin or the guardian that moves funds, ...  *)
LEMMA FundStepInv ==
    ASSUME IInv, call' = NoCall, FundStep
    PROVE  IInv'
<1> PICK s \in Strategy :
        \/ \E caller \in Operator :
             \/ \E n \in MoveChoices : Allocate(caller, s, n) \/ Deallocate(caller, s, n)
             \/ EmergencyWithdrawStrategy(caller, s)
        \/ \E caller \in Drainers : StrategyAdminDrains(caller, s)
  BY DEF FundStep
<1>1. MoveChoices \subseteq Int
  BY VaultAssumption
<1>2. ASSUME NEW caller \in Operator, NEW n \in MoveChoices,
             Allocate(caller, s, n) \/ Deallocate(caller, s, n)
      PROVE  IInv'
  BY <1>1, <1>2, AllocateInv, DeallocateInv
<1>3. ASSUME NEW caller \in Operator, EmergencyWithdrawStrategy(caller, s) PROVE IInv'
  BY <1>3, EmergencyInv
<1>4. ASSUME NEW caller \in Drainers, StrategyAdminDrains(caller, s) PROVE IInv'
  BY <1>4, AdminDrainsInv
<1> QED BY <1>2, <1>3, <1>4

(* ... or one that reports.                                                *)
LEMMA ReportStepInv ==
    ASSUME IInv, call' = NoCall, ReportStep
    PROVE  IInv'
<1>1. BridgeChoices \subseteq Int /\ ReportChoices \subseteq Int
  BY VaultAssumption
<1>2. ASSUME NEW caller \in Operator, NEW n \in BridgeChoices, AttestBridgedBalance(caller, n)
      PROVE  IInv'
  BY <1>1, <1>2, AttestInv
<1>3. ASSUME NEW caller \in Operator, NEW s \in Strategy, NEW n \in ReportChoices,
             UpdateTrackedBalance(caller, s, n)
      PROVE  IInv'
  BY <1>1, <1>3, ReportInv
<1> QED BY <1>2, <1>3 DEF ReportStep

(* Every step of the vault keeps the invariant.                            *)
LEMMA VaultStepInv ==
    ASSUME IInv, [Next]_vars
    PROVE  IInv'
<1>1. CASE UNCHANGED vars
  BY <1>1, StutterInv
<1>2. CASE /\ call' = NoCall
           /\ UserStep \/ ListStep \/ FundStep \/ ReportStep \/ CollectFees \/ OutsideStep
  <2>1. CASE ListStep
    BY <1>2, <2>1, AddStrategyInv, RemoveStrategyInv DEF ListStep
  <2> QED BY <1>2, <2>1, UserStepInv, FundStepInv, ReportStepInv, CollectFeesInv, OutsideInv
<1>3. CASE /\ call = NoCall
           /\ \E h \in Holder : \E n \in 1..shares[h] : StartWaterfall(h, n)
  BY <1>3, StartWaterfallInv
<1>4. CASE WaterfallStep
  BY <1>4, WaterfallInv
<1> QED BY <1>1, <1>2, <1>3, <1>4 DEF Next

(* The inductive invariant holds of the vault.                             *)
THEOREM VaultInvariant == Spec => []IInv
<1>1. Init => IInv
  BY VaultInitInv
<1>2. IInv /\ [Next]_vars => IInv'
  BY VaultStepInv
<1> QED BY <1>1, <1>2, PTL DEF Spec

(* The vault's account of the world: types, a list without duplicates, no  *)
(* balance that total_assets() forgets (add_strategy, remove_strategy,     *)
(* update_tracked_balance), whatever a failed redemption puts back.        *)
THEOREM VaultSafe == Spec => []VaultInv
<1>1. IInv => VaultInv
  BY DEF IInv
<1> QED BY <1>1, VaultInvariant, PTL

(* The balances of all holders add up to the supply, always.               *)
THEOREM EveryShareIsSomeones == Spec => []SharesAddUp
<1>1. IInv => SharesAddUp
  BY DEF IInv
<1> QED BY <1>1, VaultInvariant, PTL

(* A redemption under way owes what the holder's shares were worth when it *)
(* began, the holder still has the shares, and what it has pulled from the *)
(* strategies is in the vault.                                             *)
THEOREM RedemptionsAreConsistent == Spec => []CallIsConsistent
<1>1. IInv => CallIsConsistent
  BY DEF IInv
<1> QED BY <1>1, VaultInvariant, PTL

(* collect_fees never mints shares worth more than the fee on the yield    *)
(* above the high-water mark, at the price after the mint.                 *)
THEOREM FeesAreBounded == Spec => FeeIsBounded
<1>1. IInv /\ [Next]_vars =>
        [CollectFees =>
           ToAssets(totalSupply' - totalSupply, totalSupply', TotalAssets)
              <= FeeAssets(totalSupply, TotalAssets, highWaterMark, performanceFeeBps)]_vars
  <2> SUFFICES ASSUME IInv, CollectFees
               PROVE  ToAssets(totalSupply' - totalSupply, totalSupply', TotalAssets)
                        <= FeeAssets(totalSupply, TotalAssets, highWaterMark, performanceFeeBps)
    OBVIOUS
  <2> DEFINE minted == FeeShares(totalSupply, TotalAssets, highWaterMark, performanceFeeBps)
  <2>1. /\ totalSupply \in Nat \ {0} /\ TotalAssets \in Nat /\ highWaterMark \in Nat
        /\ performanceFeeBps \in Nat /\ Nav(totalSupply, TotalAssets) > highWaterMark
        /\ minted \in Nat
    BY FeesAreNatural
  <2>2. totalSupply' = totalSupply + minted
    BY DEF CollectFees
  <2>3. ToAssets(minted, totalSupply + minted, TotalAssets)
          <= FeeAssets(totalSupply, TotalAssets, highWaterMark, performanceFeeBps)
    BY <2>1, FeeSharesWorthTheFee
  <2> HIDE DEF minted
  <2>4. totalSupply' - totalSupply = minted
    BY <2>1, <2>2
  <2> QED BY <2>2, <2>3, <2>4
<1> QED BY <1>1, VaultInvariant, PTL DEF Spec, FeeIsBounded

(* The high-water mark never falls (collect_fees sets it from the price    *)
(* after dilution), as long as the supply is at least the virtual offset   *)
(* and the fee at most a third (MAX_PERFORMANCE_FEE_BPS is 3000 of 10000). *)
THEOREM TheMarkNeverFalls ==
    ASSUME 3 * MaxPerformanceFeeBps <= MaxBps
    PROVE  Spec => MarkNeverFalls
<1>1. IInv /\ [Next]_vars =>
        [CollectFees /\ totalSupply >= VirtualSharesOffset
           => highWaterMark' >= highWaterMark]_vars
  <2> SUFFICES ASSUME IInv, CollectFees, totalSupply >= VirtualSharesOffset
               PROVE  highWaterMark' >= highWaterMark
    OBVIOUS
  <2> DEFINE minted == FeeShares(totalSupply, TotalAssets, highWaterMark, performanceFeeBps)
  <2>1. /\ totalSupply \in Nat \ {0} /\ TotalAssets \in Nat /\ highWaterMark \in Nat
        /\ performanceFeeBps \in Nat /\ Nav(totalSupply, TotalAssets) > highWaterMark
    BY FeesAreNatural
  <2>2. minted > 0 /\ highWaterMark' = Nav(totalSupply + minted, TotalAssets)
    BY DEF CollectFees
  <2>3. 3 * performanceFeeBps <= MaxBps
    BY AdminAssumption, MathAssumption DEF IInv, VaultInv, AdminInv, AdminTypeOK
  <2> QED BY <2>1, <2>2, <2>3, FeesKeepTheMark
<1> QED BY <1>1, VaultInvariant, PTL DEF Spec, MarkNeverFalls
=============================================================================
