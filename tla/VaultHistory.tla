----------------------------- MODULE VaultHistory -----------------------------
(***************************************************************************)
(* TezoroVault with history variables, for the properties that speak of    *)
(* what happened before: they record and, but for the bound MaxRoundings,  *)
(* never restrict.                                                         *)
(***************************************************************************)
EXTENDS TezoroVault, RoundingHistory

VARIABLES
    remarked,               \* the strategies whose tracked balance the vault
                            \* was told, or was not told, from outside
    yieldSinceFee,          \* the assets grew without a deposit since the last fee
    before                  \* the roundings when the redemption under way began

historyVars == <<vars, roundingVars, remarked, yieldSinceFee, before>>

Roundings == [roundings |-> roundings, impaired |-> impaired]

HistoryInit ==
    /\ Init
    /\ RoundingInit
    /\ remarked = {}
    /\ yieldSinceFee = FALSE
    /\ before = Roundings

(* A transaction of its own, not a step of a redemption.                   *)
Alone == call = NoCall /\ call' = NoCall

(* The vault's and the strategy's own record of the strategy's balance, as *)
(* others see them.                                                        *)
Books == <<CommittedTracked, IF call = NoCall THEN stTracked ELSE call.saved.stTracked>>

(* A record the keeper changed with a report, or the strategy's own admin  *)
(* with a drain.                                                           *)
RemarkedNow ==
    {s \in Strategy :
        /\ Alone
        /\ tracked'[s] # tracked[s] \/ stTracked'[s] # stTracked[s]
        /\ \/ \E caller \in Operator, n \in ReportChoices : UpdateTrackedBalance(caller, s, n)
           \/ \E caller \in Drainers : StrategyAdminDrains(caller, s)}

(* Emptied on both books.                                                  *)
SettledNow ==
    {s \in Strategy : Alone /\ \E caller \in Operator : EmergencyWithdrawStrategy(caller, s)}

(* What a redemption pulled in vain never happened to the strategies.      *)
Undone == FallShort \/ \E s \in Strategy : TrapInStrategy(s)

RecordRoundings ==
    /\ \/ ~Undone /\ Record
       \/ Undone /\ roundings' = before.roundings /\ impaired' = before.impaired
    /\ before' = IF call = NoCall \/ call' = NoCall THEN Roundings' ELSE before

HistoryNext ==
    /\ Next
    /\ RecordRoundings
    /\ call = NoCall => Bounded
    /\ remarked' = (remarked \cup RemarkedNow) \ SettledNow
    /\ yieldSinceFee' = IF totalSupply' = totalSupply
                        THEN yieldSinceFee \/ CommittedAssets' > CommittedAssets
                        ELSE yieldSinceFee /\ ~CollectFees

HistorySpec == HistoryInit /\ [][HistoryNext]_historyVars

-----------------------------------------------------------------------------
(* The vault's and the strategy's books of a strategy agree, on the list   *)
(* or off it, after every allocation, deallocation, waterfall (finished,   *)
(* failed or under way), removal and return to the list: they part only    *)
(* when the keeper reports a balance or the strategy's own admin drains it.*)
BooksAgree == \A s \in Strategy \ remarked : tracked[s] = stTracked[s]

(* How far two balances, and the two books of a strategy, are apart.       *)
Apart(a, b) == Monus(a, b) + Monus(b, a)
Gap(s)      == Apart(Books[1][s], Books[2][s])

(* Books that a report or a drain has parted come closer or stay as they   *)
(* are with every other transaction: withdrawals are capped by the one and *)
(* subtracted from the other, which saturates, the list drops and takes    *)
(* back what it counted as nothing, redemptions fail halfway, and none of  *)
(* it makes the difference that the keeper must correct any larger.        *)
BooksOnlyApproach ==
    [][\A s \in Strategy : Gap(s)' > Gap(s) => s \in RemarkedNow]_historyVars

(* What total_assets() counts as deployed is in the pools: for each        *)
(* strategy that nobody re-marked and no bad debt hit, the balance in the  *)
(* share price is the worth of the strategy's b_tokens, or more by at most *)
(* one b_token for every time its pool rounded, through allocations,       *)
(* deallocations, waterfalls that finish, fail or are under way, interest, *)
(* drains, removal and return to the list.                                 *)
AssetsAreBacked ==
    \A s \in Strategy \ remarked : ~impaired[s] =>
        tracked[s] * RateScalar <= (collateral[s] + roundings[s]) * reserve[s].b_rate

(* What all holders could redeem is there, in the vault, attested from the *)
(* bridge and in the pools, up to one b_token for every time a pool rounded*)
(* and, after a net loss, the virtual offset: at every moment, a redemption*)
(* under way included, as long as no listed strategy was re-marked or hit  *)
(* by bad debt.                                                            *)
SharesAreBacked ==
    (\A s \in Listed : s \notin remarked /\ ~impaired[s]) =>
        LET pools == Deployed([s \in Strategy |->
                                 (collateral[s] + roundings[s]) * reserve[s].b_rate])
            held  == (idle + EffectiveBridged) * RateScalar + pools
        IN  /\ Claims * RateScalar < held + VirtualSharesOffset * RateScalar
            /\ totalSupply <= CommittedAssets => Claims * RateScalar <= held

(* "No new yield -> no new fees" (test_fee_hwm_prevents_double_counting).  *)
FeesNeedYield == [][CollectFees => yieldSinceFee]_historyVars
=============================================================================
