----------------------------- MODULE TezoroVault -----------------------------
(***************************************************************************)
(* The tezoro-vault contract over blend-strategy contracts: share          *)
(* accounting, the strategy list and its tracked balances, the movement of *)
(* funds, bridged attestations and performance fees.  Governance comes     *)
(* from VaultAdmin, the strategies and their pools from BlendStrategy.     *)
(*                                                                         *)
(* A Soroban transaction is atomic: a call that fails leaves no trace, so  *)
(* a failing call is no step.  Only redeem's withdrawal waterfall takes    *)
(* several steps, one per strategy of the list: while `call` holds it, no  *)
(* other transaction takes place, and if it fails what it changed is put   *)
(* back.                                                                   *)
(***************************************************************************)
EXTENDS VaultAdmin, BlendStrategy, Sequences

CONSTANTS
    Holder,                 \* the addresses that hold shares and the asset
    InitialWallet,          \* the asset balance each of them starts with
    NoCall,                 \* no redemption is under way
    MaxStrategies,          \* MAX_STRATEGIES, 20 in the code
    DepositChoices,         \* the amounts deposited
    TransferChoices,        \* the numbers of shares transferred
    DonationChoices,        \* the amounts sent to the vault outside deposit
    MoveChoices,            \* the amounts the keeper allocates, deallocates
    ReportChoices,          \* the balances update_tracked_balance reports
    BridgeChoices,          \* the balances attest_bridged_balance reports
    Drainers,               \* the strategy admins who call emergency_withdraw
    MaxTracked,             \* bound on what is allocated to one strategy
    MaxSupply               \* bound on the shares minted

(* What a waterfall may change, to be put back if the redemption fails.    *)
Funds == [idle : Nat, tracked : [Strategy -> Nat], stTracked : [Strategy -> Nat],
          collateral : [Strategy -> Nat], reserve : [Strategy -> Reserve]]

Call == [from : Holder, shares : Nat, assets : Nat, remaining : Nat,
         next : Nat \ {0}, saved : Funds]

ASSUME VaultAssumption ==
    /\ IsFiniteSet(Holder)
    /\ Recipient \subseteq Holder
    /\ NoCall \notin Call
    /\ InitialWallet \in Nat
    /\ MaxStrategies \in Nat
    /\ DepositChoices \cup TransferChoices \cup DonationChoices \subseteq Int
    /\ MoveChoices \cup ReportChoices \cup BridgeChoices \subseteq Int
    /\ Drainers \subseteq StrategyOperator
    /\ MaxTracked \in Nat
    /\ MaxSupply \in Nat

VARIABLES
    wallet,                 \* asset balance of each holder
    idle,                   \* asset balance of the vault
    shares,                 \* DataKey::ShareBalance
    totalSupply,
    strategies,             \* DataKey::StrategyList
    tracked,                \* DataKey::TrackedBalance
    bridged,
    bridgedAt,              \* DataKey::BridgedTimestamp
    highWaterMark,
    call                    \* the redemption under way

shareVars  == <<shares, totalSupply>>
fundVars   == <<idle, tracked>>
bridgeVars == <<bridged, bridgedAt>>
vaultVars  == <<wallet, shareVars, fundVars, strategies, bridgeVars, highWaterMark>>
vars == <<vaultVars, call, strategyVars, adminVars>>

Listed == {strategies[i] : i \in DOMAIN strategies}

VaultTypeOK ==
    /\ wallet \in [Holder -> Nat]
    /\ idle \in Nat
    /\ shares \in [Holder -> Nat]
    /\ totalSupply \in Nat
    /\ strategies \in Seq(Strategy)
    /\ tracked \in [Strategy -> Nat]
    /\ bridged \in Nat
    /\ bridgedAt \in Nat
    /\ highWaterMark \in Nat
    /\ call \in Call \cup {NoCall}

VaultInit ==
    /\ wallet = [h \in Holder |-> InitialWallet]
    /\ idle = 0
    /\ shares = [h \in Holder |-> 0]
    /\ totalSupply = 0
    /\ strategies = <<>>
    /\ tracked = [s \in Strategy |-> 0]
    /\ bridged = 0
    /\ bridgedAt = 0
    /\ highWaterMark = NavPrecision
    /\ call = NoCall

Init == AdminInit /\ StrategyInit /\ VaultInit

-----------------------------------------------------------------------------
(* Views.                                                                  *)

EffectiveBridged ==
    IF now > bridgedAt /\ now - bridgedAt > bridgedMaxAge THEN 0 ELSE bridged

(* total_assets() sums over the list: a strategy listed twice counts twice.*)
Deployed(bal) == SumOver([i \in DOMAIN strategies |-> bal[strategies[i]]], DOMAIN strategies)

TotalAssets == idle + Deployed(tracked) + EffectiveBridged

-----------------------------------------------------------------------------
(* Shares.                                                                 *)

(* Mutated: both balances are read before either is written.               *)
TransferStale(from, to, amount) ==
    /\ amount > 0
    /\ shares[from] >= amount
    /\ shares' = [[shares EXCEPT ![from] = @ - amount] EXCEPT ![to] = shares[to] + amount]
    /\ UNCHANGED <<wallet, totalSupply, fundVars, strategies, bridgeVars, highWaterMark>>
    /\ UNCHANGED <<strategyVars, adminVars>>

(* `from` and `to` may be one address: `to` is read after `from` is written*)
Transfer(from, to, amount) ==
    /\ amount > 0
    /\ shares[from] >= amount
    /\ LET debited == [shares EXCEPT ![from] = @ - amount]
       IN  shares' = [debited EXCEPT ![to] = @ + amount]
    /\ UNCHANGED <<wallet, totalSupply, fundVars, strategies, bridgeVars, highWaterMark>>
    /\ UNCHANGED <<strategyVars, adminVars>>

(* Mutated: the price is that after the assets arrived.                    *)
DepositAtPriceAfter(from, assets) ==
    LET total  == TotalAssets
        minted == ToShares(assets, totalSupply, total + assets)
    IN  /\ initialized
        /\ ~paused
        /\ assets > 0
        /\ depositCap > 0 => total + assets <= depositCap
        /\ minted > 0
        /\ wallet[from] >= assets
        /\ totalSupply + minted <= MaxSupply
        /\ wallet' = [wallet EXCEPT ![from] = @ - assets]
        /\ idle' = idle + assets
        /\ shares' = [shares EXCEPT ![from] = @ + minted]
        /\ totalSupply' = totalSupply + minted
        /\ UNCHANGED <<tracked, strategies, bridgeVars, highWaterMark>>
        /\ UNCHANGED <<strategyVars, adminVars>>

(* The price is that before the assets arrive.                             *)
Deposit(from, assets) ==
    LET total  == TotalAssets
        minted == ToShares(assets, totalSupply, total)
    IN  /\ initialized
        /\ ~paused
        /\ assets > 0
        /\ depositCap > 0 => total + assets <= depositCap
        /\ minted > 0
        /\ wallet[from] >= assets
        /\ totalSupply + minted <= MaxSupply
        /\ wallet' = [wallet EXCEPT ![from] = @ - assets]
        /\ idle' = idle + assets
        /\ shares' = [shares EXCEPT ![from] = @ + minted]
        /\ totalSupply' = totalSupply + minted
        /\ UNCHANGED <<tracked, strategies, bridgeVars, highWaterMark>>
        /\ UNCHANGED <<strategyVars, adminVars>>

(* Anyone may send the asset to the vault's address.                       *)
Donate(from, amount) ==
    /\ amount > 0
    /\ wallet[from] >= amount
    /\ wallet' = [wallet EXCEPT ![from] = @ - amount]
    /\ idle' = idle + amount
    /\ UNCHANGED <<shareVars, tracked, strategies, bridgeVars, highWaterMark>>
    /\ UNCHANGED <<strategyVars, adminVars>>

-----------------------------------------------------------------------------
(* redeem.                                                                 *)

CanRedeem(from, amount) ==
    /\ initialized
    /\ amount > 0
    /\ shares[from] >= amount
    /\ ToAssets(amount, totalSupply, TotalAssets) > 0

(* Mutated: the supply keeps the shares that were redeemed.                *)
PayKeepingSupply(from, amount, assets) ==
    /\ idle >= assets
    /\ shares' = [shares EXCEPT ![from] = @ - amount]
    /\ wallet' = [wallet EXCEPT ![from] = @ + assets]
    /\ idle' = idle - assets
    /\ UNCHANGED totalSupply

Pay(from, amount, assets) ==
    /\ idle >= assets
    /\ shares' = [shares EXCEPT ![from] = @ - amount]
    /\ totalSupply' = totalSupply - amount
    /\ wallet' = [wallet EXCEPT ![from] = @ + assets]
    /\ idle' = idle - assets

RedeemFromIdle(from, amount) ==
    /\ CanRedeem(from, amount)
    /\ Pay(from, amount, ToAssets(amount, totalSupply, TotalAssets))
    /\ UNCHANGED <<tracked, strategies, bridgeVars, highWaterMark>>
    /\ UNCHANGED <<strategyVars, adminVars>>

CurrentFunds == [idle |-> idle, tracked |-> tracked, stTracked |-> stTracked,
                 collateral |-> collateral, reserve |-> reserve]

StartWaterfall(from, amount) ==
    LET assets == ToAssets(amount, totalSupply, TotalAssets)
    IN  /\ CanRedeem(from, amount)
        /\ idle < assets
        /\ call' = [from |-> from, shares |-> amount, assets |-> assets,
                    remaining |-> assets - idle, next |-> 1, saved |-> CurrentFunds]
        /\ UNCHANGED <<vaultVars, strategyVars, adminVars>>

AtStrategy(s) ==
    /\ call # NoCall
    /\ call.next <= Len(strategies)
    /\ call.remaining > 0
    /\ s = strategies[call.next]

Ask(s) == Least(call.remaining, AvailableLiquidity(s))

(* Mutated: the strategy after the skipped one is skipped with it.         *)
SkipTwo(s) ==
    /\ AtStrategy(s)
    /\ AvailableLiquidity(s) = 0
    /\ call' = [call EXCEPT !.next = @ + 2]
    /\ UNCHANGED <<vaultVars, strategyVars, adminVars>>

SkipStrategy(s) ==
    /\ AtStrategy(s)
    /\ AvailableLiquidity(s) = 0
    /\ call' = [call EXCEPT !.next = @ + 1]
    /\ UNCHANGED <<vaultVars, strategyVars, adminVars>>

(* Mutated: the comparison of what came with what is missing is reversed.  *)
PullReversed(s) ==
    /\ AtStrategy(s)
    /\ AvailableLiquidity(s) > 0
    /\ StrategyWithdraw(s, Vault, Ask(s))
    /\ idle' = idle + Withdrawn(s, Ask(s))
    /\ tracked' = [tracked EXCEPT ![s] = Monus(@, Withdrawn(s, Ask(s)))]
    /\ call' = [call EXCEPT !.next = @ + 1,
                            !.remaining = IF Withdrawn(s, Ask(s)) <= @ THEN 0 ELSE @]
    /\ UNCHANGED <<wallet, shareVars, strategies, bridgeVars, highWaterMark, adminVars>>

(* Mutated: the tracked balance is not written, as deallocate writes it.   *)
PullKeepingTracked(s) ==
    /\ AtStrategy(s)
    /\ AvailableLiquidity(s) > 0
    /\ StrategyWithdraw(s, Vault, Ask(s))
    /\ idle' = idle + Withdrawn(s, Ask(s))
    /\ call' = [call EXCEPT !.next = @ + 1, !.remaining = Monus(@, Withdrawn(s, Ask(s)))]
    /\ UNCHANGED <<wallet, shareVars, tracked, strategies, bridgeVars, highWaterMark, adminVars>>

PullFromStrategy(s) ==
    /\ AtStrategy(s)
    /\ AvailableLiquidity(s) > 0
    /\ StrategyWithdraw(s, Vault, Ask(s))
    /\ idle' = idle + Withdrawn(s, Ask(s))
    /\ tracked' = [tracked EXCEPT ![s] = Monus(@, Withdrawn(s, Ask(s)))]
    /\ call' = [call EXCEPT !.next = @ + 1, !.remaining = Monus(@, Withdrawn(s, Ask(s)))]
    /\ UNCHANGED <<wallet, shareVars, strategies, bridgeVars, highWaterMark, adminVars>>

WaterfallOver ==
    call # NoCall /\ (call.next > Len(strategies) \/ call.remaining = 0)

FinishRedeem ==
    /\ WaterfallOver
    /\ Pay(call.from, call.shares, call.assets)
    /\ call' = NoCall
    /\ UNCHANGED <<tracked, strategies, bridgeVars, highWaterMark>>
    /\ UNCHANGED <<strategyVars, adminVars>>

Rollback ==
    /\ call' = NoCall
    /\ idle' = call.saved.idle
    /\ tracked' = call.saved.tracked
    /\ stTracked' = call.saved.stTracked
    /\ collateral' = call.saved.collateral
    /\ reserve' = call.saved.reserve
    /\ UNCHANGED <<wallet, shareVars, strategies, bridgeVars, highWaterMark, adminVars>>
    /\ UNCHANGED <<stConfigVars, reachable>>

(* VaultError::InsufficientAssets.                                         *)
FallShort == WaterfallOver /\ idle < call.assets /\ Rollback

(* The strategy's withdraw fails and traps the whole transaction.          *)
TrapInStrategy(s) ==
    /\ AtStrategy(s)
    /\ AvailableLiquidity(s) > 0
    /\ ~CanPull(s, Vault, Ask(s))
    /\ Rollback

WaterfallStep ==
    \/ \E s \in Strategy : SkipStrategy(s) \/ PullFromStrategy(s) \/ TrapInStrategy(s)
    \/ FinishRedeem
    \/ FallShort
-----------------------------------------------------------------------------
(* The strategy list: the admin's.                                         *)

(* Mutated: a strategy may be added twice.                                 *)
AddStrategyAgain(caller, s) ==
    /\ caller = admin
    /\ Len(strategies) < MaxStrategies
    /\ strategies' = Append(strategies, s)
    /\ tracked' = [tracked EXCEPT ![s] = 0]
    /\ UNCHANGED <<wallet, shareVars, idle, bridgeVars, highWaterMark>>
    /\ UNCHANGED <<strategyVars, adminVars>>

AddStrategy(caller, s) ==
    /\ caller = admin
    /\ Len(strategies) < MaxStrategies
    /\ s \notin Listed
    /\ strategies' = Append(strategies, s)
    /\ tracked' = [tracked EXCEPT ![s] = 0]
    /\ UNCHANGED <<wallet, shareVars, idle, bridgeVars, highWaterMark>>
    /\ UNCHANGED <<strategyVars, adminVars>>

(* Mutated: a strategy is removed with its balance.                        *)
RemoveFunded(caller, s) ==
    /\ caller = admin
    /\ \E i \in DOMAIN strategies :
         /\ strategies[i] = s
         /\ strategies' = [j \in 1..(Len(strategies) - 1) |->
                              strategies[IF j < i THEN j ELSE j + 1]]
    /\ tracked' = [tracked EXCEPT ![s] = 0]
    /\ UNCHANGED <<wallet, shareVars, idle, bridgeVars, highWaterMark>>
    /\ UNCHANGED <<strategyVars, adminVars>>

(* The code rebuilds the list without the strategy; with one occurrence    *)
(* at most, that removes it.                                               *)
RemoveStrategy(caller, s) ==
    /\ caller = admin
    /\ tracked[s] = 0
    /\ \E i \in DOMAIN strategies :
         /\ strategies[i] = s
         /\ strategies' = [j \in 1..(Len(strategies) - 1) |->
                              strategies[IF j < i THEN j ELSE j + 1]]
    /\ tracked' = [tracked EXCEPT ![s] = 0]
    /\ UNCHANGED <<wallet, shareVars, idle, bridgeVars, highWaterMark>>
    /\ UNCHANGED <<strategyVars, adminVars>>

-----------------------------------------------------------------------------
(* The movement of funds: the keeper's, and in an emergency the guardian's.*)

MinIdle == (TotalAssets * idleBufferBps) \div MaxBps

(* Mutated: the buffer is compared with the balance before the allocation. *)
AllocateIntoBuffer(caller, s, amount) ==
    /\ caller = keeper
    /\ amount > 0
    /\ s \in Listed
    /\ idle >= MinIdle
    /\ idle >= amount
    /\ IsHealthy(s)
    /\ tracked[s] + amount <= MaxTracked
    /\ StrategyDeposit(s, Vault, amount)
    /\ idle' = idle - amount
    /\ tracked' = [tracked EXCEPT ![s] = @ + amount]
    /\ UNCHANGED <<wallet, shareVars, strategies, bridgeVars, highWaterMark, adminVars>>

CanAllocate(caller, s, amount) ==
    /\ caller = keeper
    /\ amount > 0
    /\ s \in Listed
    /\ idle - amount >= MinIdle
    /\ IsHealthy(s)
    /\ CanDeposit(s, Vault, amount)

Allocate(caller, s, amount) ==
    /\ CanAllocate(caller, s, amount)
    /\ tracked[s] + amount <= MaxTracked
    /\ StrategyDeposit(s, Vault, amount)
    /\ idle' = idle - amount
    /\ tracked' = [tracked EXCEPT ![s] = @ + amount]
    /\ UNCHANGED <<wallet, shareVars, strategies, bridgeVars, highWaterMark, adminVars>>

(* Mutated: the request, not what was withdrawn, leaves the tracked balance*)
DeallocateRequested(caller, s, amount) ==
    /\ caller = keeper
    /\ amount > 0
    /\ s \in Listed
    /\ StrategyWithdraw(s, Vault, amount)
    /\ idle' = idle + Withdrawn(s, amount)
    /\ tracked' = [tracked EXCEPT ![s] = Monus(@, amount)]
    /\ UNCHANGED <<wallet, shareVars, strategies, bridgeVars, highWaterMark, adminVars>>

Deallocate(caller, s, amount) ==
    /\ caller = keeper
    /\ amount > 0
    /\ s \in Listed
    /\ StrategyWithdraw(s, Vault, amount)
    /\ idle' = idle + Withdrawn(s, amount)
    /\ tracked' = [tracked EXCEPT ![s] = Monus(@, Withdrawn(s, amount))]
    /\ UNCHANGED <<wallet, shareVars, strategies, bridgeVars, highWaterMark, adminVars>>

(* Mutated: the tracked balance outlives what was drained.                 *)
EmergencyKeepsTracked(caller, s) ==
    /\ caller \in {admin, guardian}
    /\ s \in Listed
    /\ StrategyDrain(s, Vault)
    /\ idle' = idle + PoolPosition(s)
    /\ UNCHANGED tracked
    /\ UNCHANGED <<wallet, shareVars, strategies, bridgeVars, highWaterMark, adminVars>>

EmergencyWithdrawStrategy(caller, s) ==
    /\ caller \in {admin, guardian}
    /\ s \in Listed
    /\ StrategyDrain(s, Vault)
    /\ idle' = idle + PoolPosition(s)
    /\ tracked' = [tracked EXCEPT ![s] = 0]
    /\ UNCHANGED <<wallet, shareVars, strategies, bridgeVars, highWaterMark, adminVars>>

(* The strategy's own admin drains it: the funds go to the strategy's      *)
(* vault, whose tracked balance does not hear of it.                       *)
StrategyAdminDrains(caller, s) ==
    /\ caller = stAdmin[s]
    /\ StrategyDrain(s, caller)
    /\ idle' = idle + (IF stVault[s] = Vault THEN PoolPosition(s) ELSE 0)
    /\ UNCHANGED <<wallet, shareVars, tracked, strategies, bridgeVars, highWaterMark, adminVars>>

-----------------------------------------------------------------------------
(* Reports: the keeper's.                                                  *)

AttestBridgedBalance(caller, balance) ==
    /\ caller = keeper
    /\ balance >= 0
    /\ bridged' = balance
    /\ bridgedAt' = now
    /\ UNCHANGED <<wallet, shareVars, fundVars, strategies, highWaterMark>>
    /\ UNCHANGED <<strategyVars, adminVars>>

UpdateTrackedBalance(caller, s, balance) ==
    /\ caller = keeper
    /\ balance >= 0
    /\ s \in Listed
    /\ tracked' = [tracked EXCEPT ![s] = balance]
    /\ UNCHANGED <<wallet, shareVars, idle, strategies, bridgeVars, highWaterMark>>
    /\ UNCHANGED <<strategyVars, adminVars>>

-----------------------------------------------------------------------------
(* Mutated: the mark stays where it was.                                   *)
CollectFeesKeepingMark ==
    LET minted == FeeShares(totalSupply, TotalAssets, highWaterMark, performanceFeeBps)
    IN  /\ initialized
        /\ totalSupply # 0
        /\ Nav(totalSupply, TotalAssets) > highWaterMark
        /\ performanceFeeBps # 0
        /\ minted > 0
        /\ totalSupply + minted <= MaxSupply
        /\ shares' = [shares EXCEPT ![feeRecipient] = @ + minted]
        /\ totalSupply' = totalSupply + minted
        /\ UNCHANGED <<wallet, fundVars, strategies, bridgeVars, highWaterMark>>
        /\ UNCHANGED <<strategyVars, adminVars>>

(* Anyone collects the performance fee, as shares for the fee recipient.   *)
CollectFees ==
    LET total  == TotalAssets
        minted == FeeShares(totalSupply, total, highWaterMark, performanceFeeBps)
    IN  /\ initialized
        /\ totalSupply # 0
        /\ Nav(totalSupply, total) > highWaterMark
        /\ performanceFeeBps # 0
        /\ minted > 0
        /\ totalSupply + minted <= MaxSupply
        /\ shares' = [shares EXCEPT ![feeRecipient] = @ + minted]
        /\ totalSupply' = totalSupply + minted
        /\ highWaterMark' = Nav(totalSupply + minted, total)
        /\ UNCHANGED <<wallet, fundVars, strategies, bridgeVars>>
        /\ UNCHANGED <<strategyVars, adminVars>>

-----------------------------------------------------------------------------
UserStep ==
    \E h \in Holder :
        \/ \E to \in Holder, n \in TransferChoices : Transfer(h, to, n)
        \/ \E n \in DepositChoices : Deposit(h, n)
        \/ \E n \in DonationChoices : Donate(h, n)
        \/ \E n \in 1..shares[h] : RedeemFromIdle(h, n)

ListStep ==
    \E caller \in Operator, s \in Strategy : AddStrategy(caller, s) \/ RemoveStrategy(caller, s)

FundStep ==
    \E s \in Strategy :
        \/ \E caller \in Operator :
             \/ \E n \in MoveChoices : Allocate(caller, s, n) \/ Deallocate(caller, s, n)
             \/ EmergencyWithdrawStrategy(caller, s)
        \/ \E caller \in Drainers : StrategyAdminDrains(caller, s)

ReportStep ==
    \E caller \in Operator :
        \/ \E n \in BridgeChoices : AttestBridgedBalance(caller, n)
        \/ \E s \in Strategy, n \in ReportChoices : UpdateTrackedBalance(caller, s, n)

(* Steps that touch none of the vault's own accounts.                      *)
OutsideStep ==
    /\ \/ AdminStep /\ UNCHANGED strategyVars
       \/ StrategySettings /\ UNCHANGED adminVars
       \/ PoolEnvironment /\ UNCHANGED <<stTracked, stConfigVars, adminVars>>
    /\ UNCHANGED vaultVars

(* A transaction of one step, a redemption that needs a waterfall, or a    *)
(* step of that waterfall.                                                 *)
Next ==
    \/ /\ call = NoCall
       /\ call' = NoCall
       /\ UserStep \/ ListStep \/ FundStep \/ ReportStep \/ CollectFees \/ OutsideStep
    \/ /\ call = NoCall
       /\ \E h \in Holder : \E n \in 1..shares[h] : StartWaterfall(h, n)
    \/ WaterfallStep

Spec == Init /\ [][Next]_vars

-----------------------------------------------------------------------------
(* What the accounts are outside the redemption under way: its waterfall   *)
(* counts only when it has paid.                                           *)

CommittedIdle    == IF call = NoCall THEN idle ELSE call.saved.idle
CommittedTracked == IF call = NoCall THEN tracked ELSE call.saved.tracked
CommittedAssets  == CommittedIdle + Deployed(CommittedTracked) + EffectiveBridged

-----------------------------------------------------------------------------
(* Every share is someone's: the balances add up to the supply, through    *)
(* transfers to oneself, fee mints, and redemptions that fail halfway.     *)
SharesAddUp == SumOver(shares, Holder) = totalSupply

(* The list has no strategy twice, and a strategy that is not on it has no *)
(* balance that total_assets() would forget.                               *)
ListIsConsistent ==
    /\ Len(strategies) <= MaxStrategies
    /\ \A i, j \in DOMAIN strategies : strategies[i] = strategies[j] => i = j
    /\ \A s \in Strategy \ Listed : tracked[s] = 0

(* The vault's own account of the world, strategies and governance         *)
(* included: the inductive invariant the others rest on.                   *)
VaultInv ==
    /\ AdminInv
    /\ StrategyInv
    /\ VaultTypeOK
    /\ ListIsConsistent
    /\ initialized => feeRecipient \in Holder
    /\ call # NoCall => \A s \in Strategy :
         /\ call.saved.collateral[s] <= call.saved.reserve[s].b_supply
         /\ s \notin Listed => call.saved.tracked[s] = 0

(* What a redemption under way has pulled is in the vault, still owed to   *)
(* the holder, who still has the shares; and pulling it lost nothing.      *)
CallIsConsistent ==
    call # NoCall =>
        /\ call.shares > 0 /\ call.assets > 0
        /\ call.shares <= shares[call.from]
        /\ call.assets = ToAssets(call.shares, totalSupply, CommittedAssets)
        /\ call.next <= Len(strategies) + 1
        /\ TotalAssets >= CommittedAssets
        /\ idle + call.remaining >= call.assets
        /\ call.remaining = 0 => idle >= call.assets

(* Where the price of a share may fall: a report, an expiry, a loss taken  *)
(* in an emergency, a fee.                                                 *)
PriceMayFall == ReportStep \/ FundStep \/ OutsideStep \/ CollectFees

(* No deposit, redemption or transfer makes the remaining shares worth     *)
(* less: every rounding is in the vault's favour, at the price before it.  *)
UsersNeverDilute ==
    [][PriceMayFall \/ PriceNotLower(totalSupply, CommittedAssets,
                                     totalSupply', CommittedAssets')]_vars

(* What all holders could redeem, each at the price of the moment, the     *)
(* vault owns: with a share worth a unit or more, in full; after a net     *)
(* loss the virtual offset, which stands on both sides of the price,       *)
(* promises up to as much again as the offset is.                          *)
Claims ==
    SumOver([h \in Holder |-> ToAssets(shares[h], totalSupply, CommittedAssets)], Holder)

ClaimsAreCovered ==
    /\ Claims < CommittedAssets + VirtualSharesOffset
    /\ totalSupply <= CommittedAssets => Claims <= CommittedAssets

(* Who deposits and redeems at once gets no more than was deposited, and   *)
(* less by at most the rounding: one unit, and the worth of one share.     *)
DepositsAreFair ==
    [][\A h \in Holder, n \in DepositChoices : Deposit(h, n) =>
         LET back == ToAssets(totalSupply' - totalSupply, totalSupply', TotalAssets')
         IN  /\ back <= n
             /\ (n - back - 1) * (totalSupply' + VirtualSharesOffset)
                  < TotalAssets + VirtualSharesOffset]_vars

(* Moving funds between vault and strategy does not make shares worth less.*)
MovesKeepPrice ==
    [][\A s \in Strategy, caller \in Operator, n \in MoveChoices :
         Allocate(caller, s, n) \/ Deallocate(caller, s, n)
            => TotalAssets' >= TotalAssets]_vars

(* A redemption is refused for lack of assets only when the vault's idle   *)
(* balance and all that the strategies quoted at its start do not cover it.*)
ShortfallIsReal ==
    [][FallShort =>
         call.saved.idle + SumOver(
             [i \in DOMAIN strategies |->
                 Quote(call.saved.stTracked[strategies[i]],
                       call.saved.reserve[strategies[i]], reachable[strategies[i]])],
             DOMAIN strategies) < call.assets]_vars

(* After an allocation the idle balance is at least the buffer's part of   *)
(* the assets ("after allocation, remaining idle must be >=                *)
(* idle_buffer_bps % of total_assets").                                    *)
BufferIsKept ==
    [][\A s \in Strategy, caller \in Operator, n \in MoveChoices :
         Allocate(caller, s, n) => idle' >= MinIdle']_vars

(* The fee recipient's new shares are worth at most the fee on the yield   *)
(* above the high-water mark.                                              *)
FeeIsBounded ==
    [][CollectFees =>
         ToAssets(totalSupply' - totalSupply, totalSupply', TotalAssets)
            <= FeeAssets(totalSupply, TotalAssets, highWaterMark, performanceFeeBps)]_vars

(* A fee never lowers the high-water mark it is measured from, or the same *)
(* yield would be charged again: the mark is set to the value per share    *)
(* after the fee diluted it.  With fewer shares than the virtual offset    *)
(* the fee's shares are so many that it may fall.                          *)
MarkNeverFalls ==
    [][CollectFees /\ totalSupply >= VirtualSharesOffset
         => highWaterMark' >= highWaterMark]_vars

(* "Whatever the vault holds across idle + strategies is redeemable in a   *)
(* single transaction" (redeem).                                           *)
WhatIsHeldIsRedeemable ==
    [][FallShort =>
         call.saved.idle + SumOver(
             [i \in DOMAIN strategies |->
                 Least(call.saved.stTracked[strategies[i]],
                       Supplied(call.saved.reserve[strategies[i]])
                         - Borrowed(call.saved.reserve[strategies[i]]))],
             DOMAIN strategies) < call.assets]_vars

-----------------------------------------------------------------------------
(* Holders see the vault of ShareVault: the waterfall's steps are no steps *)
(* there, moving funds is none, and a failed redemption never was.         *)
Abstract == INSTANCE ShareVault WITH assets <- CommittedAssets, supply <- totalSupply

ImplementsShareVault == Abstract!Spec
=============================================================================
