# Formal models of the Tezoro yield aggregator

Tezoro is a share vault for one asset (USDC) on Stellar's Soroban.  This
directory holds TLA+ models of its contracts, the TLC runs that check them on
small instances, and TLAPS proofs that hold for every value of the constants.

## 1. The system

| Part | State | Operations |
|---|---|---|
| `tezoro-vault`, accounts | share balances, supply, strategy list, a *tracked* balance per strategy, bridged attestation with timestamp, high-water mark; its own balance of the asset (*idle*) | `deposit`, `redeem`, `transfer`, `allocate`, `deallocate`, `emergency_withdraw_strategy`, `add_strategy`, `remove_strategy`, `attest_bridged_balance`, `update_tracked_balance`, `collect_fees` |
| `tezoro-vault`, governance | admin, pending admin, keeper, guardian, paused, cap, ages, fee and buffer, scheduled upgrade | `initialize`, `propose_admin`, `accept_admin`, `pause`, `unpause`, the setters, the upgrade calls |
| `blend-strategy` | its own tracked balance, vault, admin, pending admin, paused, thresholds, approval buffer, claimed reward tokens, scheduled upgrade | `initialize`, `deposit`, `withdraw`, `emergency_withdraw`, `available_liquidity`, `is_healthy`, `harvest`, setters, upgrade calls |
| Blend pool (external) | supplies and debts in tokens, their rates, backstop credit, positions | `submit`, `get_reserve`, `get_positions`; other users, interest, bad debt |
| keeper (TypeScript) | one running tick with what it has read, a failure count, a shutdown flag; nothing survives a restart | reads idle and `total_assets`, pre-checks health, submits `allocate`, polls, exits after five failures or a signal, is restarted by pm2 |
| `tezoro-common` | none | strategy interface, error codes, TTL helpers |
| `mock-strategy`, `mainnet-fork`, scripts | none deployed | tests |

How they interact.  Every contract call is one atomic ledger transaction; a call
that returns an error or traps leaves no trace, and a trap in a called contract
takes the caller's transaction with it (the vault calls strategies with the
client that traps, not with its `try_` variants).  A redemption that exceeds
the idle balance walks the strategy list, asks each strategy what it can give,
and pulls it.  Two books of a strategy's balance exist: the vault's
(`tracked_balance`, the basis of the share price) and the strategy's own (the
basis of what it quotes and pays).  The keeper can overwrite the vault's, the
strategy's admin can empty the strategy's, and the pool knows what the position
is really worth.

What is hard.

* Concurrency is between transactions of many actors in any order: holders, a
  keeper, an admin, a guardian, a strategy's admin, the pool's other users and
  the clock.
* Failure is partial inside a redemption: strategies that answered before the
  one that traps have paid, and everything must be undone.
* Every amount is rounded, at several prices: shares, net asset value, fee,
  b_tokens in and out.
* Time: attestations expire, upgrades wait, and the delay can change while one
  waits.
* The keeper acts on stale reads; its transactions have no time bound, outlive
  its polling and its process, share sequence numbers, or get lost; the node it
  talks to goes away at any await.

What makes each part correct.

* Accounts: shares add up to the supply; what all holders could redeem is there;
  who deposits, redeems or transfers never takes value from the others, and gets
  back what was deposited but for a rounding; a redemption is paid exactly at
  the price of the moment or does not happen; it is refused only if the quoted
  funds do not suffice; the fee is bounded by the yield, and there
  is next to no yield unless a share has gained.
* Books: the vault's and a strategy's balances agree unless someone
  re-marked them, through removal from the list and return to it; and what the
  price of a share counts as deployed is in the pools, so that what all shares
  claim is there.
* Strategy: what it quotes it can pay; an emergency withdrawal leaves nothing.
* Governance: one initialisation; the admin role moves only to whom the admin in
  office chose; new code runs only after its minimum notice.
* Keeper: whatever it has in flight, one transaction at most takes effect; no
  allocation takes the buffer, however stale; excess is allocated in the end;
  an unhealthy strategy does not make it restart for ever; a shutdown ends.

## 2. The modules

| Module | What it models | In terms of the code |
|---|---|---|
| `VaultMath` | share, asset, NAV and fee conversions, sums, saturating subtraction | `convert_to_shares`, `convert_to_assets`, the arithmetic of `collect_fees`, `total_assets` |
| `UpgradeTimelock` | the upgrade timelock of both contracts | the four upgrade calls; the constant `AnnouncesExecuteAfter` is the one statement in which the copies differ |
| `VaultAdmin` | governance; extends `UpgradeTimelock` | roles, settings, `initialize`; `caller` is the address that signed |
| `BlendPool` | one lending pool per strategy, external | as the strategy reads (`get_reserve`, `get_positions`) and calls it (`submit`) |
| `BlendStrategy` | the strategy's operations; extends `BlendPool`, `VaultMath` | a call the vault makes is a pair: when it succeeds (`CanPull`) and what it does (`StrategyWithdraw`) |
| `BlendAdapter` | the strategy on its own, under any sequence of calls | composition of `BlendStrategy` with a vault that calls at random |
| `RoundingHistory` | history variables: how often a pool has rounded, and whether bad debt hit it, since the strategy last tracked nothing | none: a count beside `stTracked`, the strategy's `tracked_balance` |
| `AdapterHistory` | `BlendAdapter` with `RoundingHistory` | for what the margin of `available_liquidity` is worth |
| `TezoroVault` | the vault; extends `VaultAdmin`, `BlendStrategy` | one action per call; a waterfall takes one step per strategy |
| `ShareVault` | abstract specification: what holders are promised | no strategies, no roles, each operation one step |
| `VaultHistory` | `TezoroVault` with `RoundingHistory` and history variables of its own | for properties about the past |
| `FeeHistory` | `TezoroVault` with a history variable: supply and assets when the high-water mark was set | for what `collect_fees` takes for yield |
| `Keeper` | the keeper process, the network and the RPC node; extends `TezoroVault` | one action per await of `tick` and `invokeWithKeypair`; the fuse, the timer, signals, restarts |
| `MC...` | values for TLC | |
| `GovernanceProofs`, `VaultMathProofs`, `StrategyProofs`, `AdapterProofs`, `VaultProofs`, `VaultPriceProofs`, `HistoryProofs`, `KeeperProofs` | theorems | section 5 |

State.  Variables carry the names of the storage keys (`stTracked`, `stAdmin`,
... are the strategy's); `idle` is the vault's balance in the asset contract and
`wallet` those of the holders.  `notice`, `proposer`, `remarked`,
`yieldSinceFee`, `roundings`, `impaired`, `before` and `marked` are history: no guard of an
operation reads them.  `Bounded` stops what the *history* specifications allow
at `MaxRoundings` (it is a bound of the runs; the theorems hold whatever its
value, so for behaviours of every length).  A redemption that is rolled back
also takes back its roundings, which is what `before` is kept for.

Transactions.  A failing call is no step.  The exception is the waterfall of
`redeem`: it calls other contracts, and its failure halfway is the behaviour of
interest.  `StartWaterfall` saves what it may change in `call.saved`, each
strategy visited is a step (`SkipStrategy`, `PullFromStrategy`,
`TrapInStrategy`), and the call ends in `FinishRedeem` or in a rollback
(`FallShort`, `TrapInStrategy`).  While `call` holds a redemption, no other step
is enabled: that is the ledger's atomicity.  Properties that speak of what others
see use the *committed* values (`CommittedAssets`), which are the saved ones
while a waterfall runs.

The keeper.  `process` is where `startStellarAllocateLoop` stands: down, in the
tick it awaits before it sets its timer and handlers, looping, or draining after
a signal.  `tick` is the tick under way (`running` is `tick # Resting`), with
the stage it awaits in; the two reads of `Promise.all` are answered separately.
Before the vault is initialised `total_assets` traps on the asset that is not
set, the simulated read throws, and the tick counts as failed.
`failures` is `consecutiveFailures`.  What is sent goes to `mempool`; `applied`
is the sequence of the account's transactions in ledgers, so its length is the
account's sequence number.  `Include` is the contract's `Allocate` at the moment
of inclusion, or a failed transaction that uses up its number.  A transaction is
its number and its amount: the hash, the fee and the resources differ with
nothing the properties tell apart.  A node may forget a transaction (`Drop`),
refuse to queue one while another is pending (TRY_AGAIN_LATER, which the code
treats as sent), or answer none of the awaits (`Throw`), even after it has
taken the transaction.

The strategy before `initialize`.  `Uninitialized` names the strategies
deployed and not yet initialised; until then every call traps or is refused.
`Harvest` only adds to `claimed`: no call of either contract moves reward
tokens on, whatever the comment of `harvest` expects.  An approval buffer
beyond `MaxApprovalBuffer` makes the asset refuse the allowance and with it
every deposit.

Numbers are mathematical integers, and `\div` is Rust's `/` because no dividend
is negative (a negative free liquidity occurs only in `Quote`, which subtracts
and clamps).  Constants such as the virtual offset, the precisions and the
margin are parameters.

The refinement.  `TezoroVault` implements `ShareVault` with `assets` mapped to
`CommittedAssets` and `supply` to `totalSupply`.  Moving funds is a stutter;
re-marking, attesting, expiry, yield and loss are `Revalue`; a waterfall is
nothing until `FinishRedeem`, which is the abstract redemption at the price of
its start.

## 3. The runs

Passing:

| Run | Instance | What it asks |
|---|---|---|
| `exit` | 2 strategies (symmetric), 1 holder, 4 units, pools that lend out 7 or 8 of the units that others (6) and the strategy supply, so that free liquidity limits what is quoted, and go down | do waterfalls, with skips, traps and shortfalls, keep the books and look atomic (`VaultInv`, `CallIsConsistent`, `ShortfallIsReal`, `ImplementsShareVault`) |
| `accounting` | 2 holders, offset 2, at most 7 shares, donations and reports of 0 and 5, fees of 0 or 30% | does rounding ever favour who acts, do shares and the claims on them add up (the claims to no more than the assets, after a net loss to less than the assets and the offset), is a deposit worth what was paid, is the fee bounded, does the mark ever fall, what is taken for yield while a share has not gained (`SharesAddUp`, `ClaimsAreCovered`, `UsersNeverDilute`, `DepositsAreFair`, `FeeIsBounded`, `MarkNeverFalls`, `NoYieldFromExits`, `ImplementsShareVault`) |
| `keeping` | 1 strategy, buffer 20%, attestations that expire, both admins draining, debts written, b_tokens worth 2 units and then 3, so that odd amounts round | do the two books agree, does nothing but a report or a drain part them further, is what they say and what the shares claim in the pool, do moves keep the price, does the buffer hold (`VaultInv`, `BooksAgree`, `AssetsAreBacked`, `SharesAreBacked`, `MovesKeepPrice`, `BufferIsKept`, `BooksOnlyApproach`) |
| `adapter` | rates between 0.8 and 1.7, debts, bad debt, outages, every setting, two admins, two vaults, initialisation, harvests, approval buffers on both sides of the limit | are quotes deliverable and drains complete, how far can what is tracked run ahead of what is there (`StrategyInv`, `QuoteIsDeliverable`, `TrackedIsCovered`, `FewRoundingsAreDeliverable`, `DrainLeavesNothing`) |
| `governance` | 3 addresses, every call, the vault's timelock | is the handover two-step, does a proposal outlive its proposer, is the minimum notice kept (`AdminInv`, of which `TimelockInv` is a part, `HandoverIsTwoStep`, `MinimumNotice`) |
| `keeper` | 1 strategy that is paused, lends out and goes down; 1 holder; a buffer of 40%; a fuse of 2 failures, 2 polls; 6 disturbances of any kind | can two transactions take effect, can one take the buffer, does excess wait for ever, does the process restart for ever, does a tick run alone and out, does a shutdown end (`KeeperInv`, `OneCanTakeEffect`, `LateAllocationsKeepBuffer`, `ExcessIsAllocated`, `UnhealthyIsNoFailure`, `TicksRunOut`, `ShutdownEnds`) |

Violations, each a disagreement of the code with what it says of itself:

| Run | Statement | What the code does |
|---|---|---|
| `exit_in_full` | whatever the vault holds is redeemable in a single transaction (`redeem`) | each strategy holds back its margin; the last holder's full exit fails until funds are deallocated |
| `adapter_unreachable` | an unreachable pool should not promise more than can be delivered | it is quoted at the whole tracked balance less the margin |
| `adapter_race` | the margin eliminates the rounding race (README) | roundings of several deposits add up beyond it |
| `adapter_ceiling` | unhealthy when utilisation exceeds the ceiling (README) | raw d_tokens are divided by raw b_tokens, so diverging rates hide utilisation |
| `notice_kept` | the delay gives users time to exit; the event announces `execute_after` | the delay in force at execution counts |
| `fees_need_yield` | no new yield, no new fees (a test) | the mark ignores the virtual offset and redemptions alone lift the NAV; `NoYieldFromExits` bounds by how much |

Bounds.  `MaxTime` stops the clock, `MaxSupply` stops minting, `MaxTracked` and
`MaxCollateral` stop deploying; amounts come from the `...Choices` sets and an
empty set switches an operation off in a run that does not need it.  They are
enough because the arithmetic's cases (exact, rounded, zero, saturated) occur at
single-digit balances with offsets of the same size, the waterfall's cases
(first covers all, second needed, skip, trap, shortfall) occur with two
strategies, the list's cases (empty, full, re-added) with a limit of two, and the
timelock's orders within three schedules.  In the `keeper` run
`MaxDisturbances` bounds what the process does not cause (users, pauses, debts,
outages, lost transactions, crashes, signals).  The vault's `Initialize`,
`AddStrategy` and a `Deposit` are three of the six; the other three are enough for
an outage with its recovery and a signal, or for the crash and the change of the
vault that two transactions of one number from two processes need.  The process' own
steps are not bounded.  `MaxRoundings` is 2 in `keeping`, a supply and
a withdrawal, and 3 in `adapter`, one more than the margin pays for; a waterfall
under way is not stopped by it.  In `keeping` there is one attestation, of 4
units, which is stale as soon as the clock moves; reports are of 1 unit, above
and below what a strategy tracks.  In `keeping` interest accrues once, from 2 to 3 units a
b_token, which is what makes supplies and withdrawals round there and keeps the
space finite; bad debt (`impaired`) occurs in `adapter`.  `MaxClaimed` bounds the reward tokens.  Deadlock is not checked where the
clock and the bounds let the system stop.

Of the strategy's copy of the timelock, which does not compute the time it
announces (`AnnouncesExecuteAfter = FALSE`), TLC checks nothing any more: the
theorems of section 5 cover both values of the constant.

Fairness.  The contracts only react and nothing obliges anyone to call them:
their runs assume none and their properties are safety.  The keeper is obliged,
and `FairKeeperSpec` says by what:

* `WF(ProcessStep)`: the timer fires, an awaited call returns or throws, a poll's
  `setTimeout` ends, pm2 restarts a process that exited.  The event loop and pm2
  give this.  What is not given by the code is that a call returns or throws: it
  sets no timeout, so a hung call leaves `running` set for ever (a hazard).
* `WF(IncludeOne)`: while something includable is pending, a ledger includes one.
  This is the network's promise; a transaction that is dropped is not pending.
* `WF(FinishCall)`: a redemption under way is one transaction and so ends.

No fairness is put on disturbances, and their bound makes them stop: the liveness
properties say what happens once outages, losses and signals have ended.
`ExcessIsAllocated` excludes what the keeper cannot overcome by itself
(`WorthAllocating`): a mirrored `idleBufferBps` that is not the vault's, a
node that does not answer, an excess below the threshold, a vault that would
refuse.  `UnhealthyIsNoFailure` speaks of an initialised vault and a node that
answers: without either the reads throw, ticks fail, and the process does exit
and restart for as long as that lasts.

## 4. Hazards

`PROJECT.json` lists what is hard to test in this code, at its line, with the
properties that watch it and, where none does yet, why.

## 5. What is proved

The theorems hold for every value of the constants, under the named
assumptions of the modules: `MathAssumption` (offset and precisions are
positive), `TimelockAssumption`, `AdminAssumption`, `PoolAssumption`,
`StrategyAssumption`, `AdapterAssumption`, `RoundingAssumption`,
`VaultAssumption`, `FeeCapAssumption` and `KeeperAssumption` (the performance fee
is at most everything, amounts are integers, the sets of addresses have the members they must have, holders are
finitely many and include the fee recipients, the keeper's account is one of
the operators).  No bound of the runs is among
them: `MaxSupply`, `MaxTracked`, `MaxRoundings` and the like may be any number.

**Governance** (`GovernanceProofs`).  `TimelockInv` is inductive by itself: what
is scheduled was announced, and under a delay of at least the minimum.
`MinimumNotice` follows: an execution's time is that of the announcement plus the
delay in force, which is never below the minimum.  `AdminInv` ties the pending
admin to the admin in office; `HandoverIsTwoStep` follows from it.

**Arithmetic** (`VaultMathProofs`).  Division is used only through what it
means (`Division`: a quotient is at most, and less than one below, the
fraction), and the inequalities are multiplied out with `Products`.  Deposits and
redemptions keep the price; fee shares are worth no more than the fee, because
diluting the supply by the shares just minted lowers their worth further.  Sums
are cardinalities (`SumOver`), so their laws (one summand apart, one summand
changed, renamed summands, a sum against a multiple of another) are laws of
finite sets and need no induction.

Three theorems say that nobody gains by how an amount is cut up.  `RoundTripIsFair`:
a deposit redeemed at once returns no more than was paid, and less by at most a
unit and the worth of a share.  `SplittingARedemptionGainsNothing` and
`SplittingADepositGainsNothing`: two parts never get more than the whole, because
the price the first part leaves is better by no more than what that part lost.
`ClaimsAddUp` sums over all holders: each claim is at most its share of
`total + offset`, so together they stay below it; with a share worth a unit or
more, the part of the offset's virtual shares is at least the offset, and the
claims stay within the total.

**Strategy** (`StrategyProofs`, `AdapterProofs`).  `StrategyInv` contains, beside
types, that the strategy's b_tokens are part of the pool's: without it an
outflow could make the pool's supply negative.  Quotes: a
quote is the margin below both the tracked balance and the free liquidity.  The
position, at most the margin short of the tracked balance, covers it; burning up
to one token too many costs at most what one b_token is worth, hence at most the
margin, so what the pool has left is still at least its debts.  Drains: the b_tokens
that remain are worth less than one unit, which floors to nothing.

`QuoteIsDeliverable` supposes a position that covers the tracked balance but for
the margin.  The history theorems say when that is so.  `CoverOf` is the
invariant: the b_tokens held, and one more for every rounding, are worth what is
tracked.  `Moves` sorts the steps by what they do to a strategy's
balance, b_tokens and rate: a supply mints at most one b_token too few
(`SupplyKeepsCover`), a withdrawal burns at most one too many
(`WithdrawalKeepsCover`), a drain empties both, interest only helps, and bad debt
is recorded in `impaired`.  `TheTrackedIsCovered` follows, and with
`MarginPaysForRoundings` that every quote can be withdrawn while the roundings, at
the worth of a b_token each, are within the margin
(`FreshQuotesAreDeliverable`).  That measures the README's claim that the margin
of 2 stroops eliminates the race: it pays for one rounding as long as a b_token
is worth at most 2 units, for two only while it is worth 1, and nothing in
the code counts roundings (`adapter_race` shows what more of them do).

**Vault** (`VaultProofs`).  The inductive invariant is
`IInv == VaultInv /\ SharesAddUp /\ CallIsConsistent`; `VaultStepInv` has a lemma
per action.  What makes it inductive:

* the funds a redemption saved satisfy what the vault's satisfy (no b_token the
  pool lacked, no balance off the list), or a rollback could not restore the
  invariant;
* the redeemer still has the shares of the call, and no holder has more than the
  supply (`SharesAddUp`), or paying could make the supply negative;
* `TotalAssets >= CommittedAssets`: what is pulled never loses value, because the
  vault writes off no more than it received;
* the fee recipient is a holder as soon as the contract is initialised, or a fee
  could mint shares for nobody.

`DeployedAfter` carries most of the arithmetic: a list without duplicates sums
each strategy's balance once, so changing one balance changes the total by as
much.

**Refinement and price** (`VaultPriceProofs`).  `VaultStepImplements` sorts every
step: an operation of a holder, a step that holders do not see, or a revaluation.
A waterfall's steps leave `CommittedAssets` alone; its end is the abstract
`Redeem` because `CallIsConsistent` says the assets owed are those at the
committed price and nothing pulled was lost.  `ImplementsShareVault` and
`UsersNeverDilute` are both read off that sorting, the latter with the
arithmetic.  `ClaimsAreCovered` is `SharesAddUp` with `ClaimsAddUp`: the vault never
owes its holders more than it counts, after a net loss than it counts and the
virtual offset (the offset stands on both sides of the price, so with less than
one unit a share it promises up to that much more).  `DepositsAreFair` is the
round trip at every deposit.  `MovesKeepPrice` and `BufferIsKept` rest on `DeployedAfter`; for
the buffer, that an allocation leaves the total, and so the buffer itself, alone.

`ShortfallIsReal` needs one invariant more, `QuotesAreTaken`: the waterfall leaves
alone the strategies it has not come to, and while something is missing the vault
has received all that those before them quoted.  At the end of the list the sum
of the quotes is therefore in the vault, and still too little.

**The mark** (`FeesKeepTheMark`, `TheMarkNeverFalls`).  The new mark is the value
per share after the fee's shares are minted.  The fee is at most a third of the
yield (`3 * MaxPerformanceFeeBps <= MaxBps`; the code's cap is 3000 of 10000) and
the supply at least the virtual offset.  Then the shares the fee is converted to,
at the price with the offset, are too few to dilute the other two thirds of the
yield away, and the quotient stays at or above the old mark.  With fewer shares
than the offset the mark can fall: the offset makes the fee's shares many times
the supply.

**Yield** (`FeesNeedGrowth`, `TheMarkIsRecorded`).  `fees_need_yield` shows that
redemptions alone make a fee.  `NoYieldFromExits` says how large its basis can be:
while a share is worth no more than when the mark was set, the assets above the
mark are at most the virtual shares' part of the vault's gains,
`V * (T - S) / (S + V)` for `S` shares, `T` assets and the offset `V`, and what
the mark rounds off, `1 + S / NavPrecision`.  The first term is real: what
leavers leave to the virtual shares is counted as yield of those who stay, and
without the term TLC finds the property violated.  The argument:

* the mark is the value per share of the moment it was set (`MarkIsRecorded`; no
  other call writes it, `MarkKept`);
* it is never below one unit a share: a fee is at most the yield above the old
  mark, its shares are at most one per unit, so a unit is left for every share
  (`MarkStaysAtPar`).  This needs that the cap on the fee is within the whole,
  `FeeCapAssumption` (the code's cap is 3000 of 10000);
* shares worth a unit or more are worth more without the virtual offset than with
  it, so the mark is at least the price of that moment, but for its own rounding
  (`MarkIsAbovePrice`), and so at least every price that is not higher;
* between that price and the mark there is room for the two terms only
  (`YieldWithoutGrowth`).

**Books** (`HistoryProofs`).  `BooksAgree` is inductive together with two facts:
the funds a waterfall saved agree as well (`SavedAgree`), or a rollback would
part the books; and a strategy that is not initialised tracks nothing
(`UnbornIsEmpty`), so that `initialize` zeroes what is zero.

`BooksAgree` says nothing of a strategy whose books were parted by a report of the
keeper or a drain by the strategy's own admin (a transaction of its own that
changes one of the two).  `BooksOnlyApproach` is about those: `Gap`, the distance
of the two balances, grows in no other step.  Subtracting one amount from both,
each stopping at zero, brings two numbers no further apart (`ApartShifts`,
`NearerAgree`); a removal happens at zero tracked, a return counts from zero on
both sides as they were.  A transaction is judged as a whole: while a waterfall runs,
`Gap` is that of the saved books, so a rollback leaves it as it was, and the
invariant `PulledCloser`, that what the waterfall has reached is no further apart
than what it saved, makes its end come no further apart either
(`TheBooksOnlyApproach`).

`AssetsAreBacked` joins both parts: the balance in the price of a share is the
strategy's (`BooksAgree`), and the strategy's is in the pool (`TrackedIsCovered`,
lifted to the vault's steps with the same `CoverStep`).  The rollback is the hard
step again: the invariant `BackingInv` holds of the saved funds with the
roundings and rate losses as they were (`SavedIsCovered`), and while a waterfall
runs no rate moves, so that taking both back restores it (`RollbackKeepsBacking`).

`EveryShareIsBacked` is where the chain ends that begins with a holder's shares:
all claims together are within the assets the vault counts (`ClaimsWithinAssets`,
from `SharesAddUp` and `ClaimsAddUp`), what it counts as deployed is within the
pools' b_tokens and their roundings (`PoolsCoverDeployed`, from `AssetsAreBacked`'s
invariant, summed over the list), and the rest is idle or attested.  So the last
of the holders to leave is short of what the pools rounded away and of nothing
else, unless a listed strategy was re-marked, drained by its own admin or hit by
bad debt, or the bridge does not hold what was attested.

**Keeper** (`KeeperProofs`).  `KeeperInv` holds the whole argument for
`OneCanTakeEffect`: `invokeWithKeypair` asks for the account's number instead of
counting, so every transaction in flight has the number after that of the last
one applied, and the inclusion of one voids the others.  A keeper that counted
its pending transactions would break it, which is the property's mutant.
`LateAllocationsKeepBuffer` does not depend on what the keeper read: the vault
checks at inclusion.  `TicksRunOut` is the part of `ShutdownEnds` that needs no
fairness: `StepsLeft` falls with every step of a tick (each await, each of the two
reads, each poll), and no tick begins beside another or after a signal.  What
fairness adds is that the awaited calls do return.  `HoldersDoNotSeeTheKeeper` lifts the refinement: a step
of the keeper, the network or a disturbance is a step of the vault or leaves the
vault's variables alone.

Only model-checked: the keeper's liveness (`ExcessIsAllocated`,
`UnhealthyIsNoFailure`, `ShutdownEnds`; the prover cannot treat liveness under
fairness) and the disagreements of section 3.  Every safety property of a passing
run is a theorem.  Induction over data, also out of the prover's reach, is
avoided: the modules have no recursive definition.

## 6. Not modelled

* i128 overflow: the arithmetic is of unbounded integers.  A width small enough
  for TLC would trap at ordinary amounts, and no source states which reports
  may stop redemptions.
* Storage archival and time to live: the ledger's business; the code extends
  entries whenever it touches them.
* Events other than `upgrade_scheduled`, and error codes: a call that fails is no
  step, whatever it returns.
* What code an upgrade installs: the models follow this code.
* Liquidations of the strategy's own position: it only supplies.
* Calls of the keeper that hang for ever, the identity of a transaction beyond
  number and amount, logging and the parsing of the environment.
* How much a depositor gains from an attestation that expired: the models take
  the step, and no source promises a bound.
* `mock-strategy` (a test double, never deployed with funds), `mainnet-fork`
  (tests), scripts and CI.

## 7. Plan

1. Done: the timelock, governance, the share arithmetic, the strategy and its
   pool with every operation, the vault with its waterfall, the abstract share
   vault and the refinement, the keeper with its network and its liveness.
2. Done: every safety property of the runs as a theorem, the high-water mark, the
   agreement of the books and the keeper's safety among them.
3. Done: the history of roundings, the backing of the assets and of the quotes,
   the claims of all holders, round trips and splits, the end of a tick.
4. Done: the backing of every share, the high-water mark's history and the yield
   that exits make.
5. Open: fees over several collections (their sum against the sum of the
   yields); a second keeper process on the same account during a deployment;
   the payout of a whole position when nothing is lent.
