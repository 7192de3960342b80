-------------------------------- MODULE Keeper --------------------------------
(***************************************************************************)
(* The keeper process (keeper/src) over the vault: a timer starts a tick,  *)
(* the tick reads idle balance and total assets, decides, checks the       *)
(* strategy's health, submits an allocate transaction and polls for its    *)
(* result.  Every await is a step of its own, and anything may happen      *)
(* between two of them.                                                    *)
(*                                                                         *)
(* The network holds what was sent until a ledger includes it, which may   *)
(* be after the keeper has stopped asking (setTimeout(TimeoutInfinite)),   *)
(* after it has exited, and never for what a node drops.  A process that   *)
(* exits is started again by pm2 and remembers nothing.                    *)
(*                                                                         *)
(* What the process cannot cause (users, admins, pool, outages of the RPC, *)
(* lost transactions, signals, crashes) is a disturbance; their number is  *)
(* bounded by MaxDisturbances.                                             *)
(***************************************************************************)
EXTENDS TezoroVault

CONSTANTS
    Bot,                    \* the address of the keeper's keypair
    Target,                 \* STELLAR_VAULT.strategyId
    MirroredBufferBps,      \* STELLAR_VAULT.idleBufferBps
    MinAllocate,            \* STELLAR_MIN_ALLOCATE_UNITS
    MaxFailures,            \* MAX_CONSECUTIVE_FAILURES, 5 in the code
    MaxPolls,               \* TX_POLL_MAX_ATTEMPTS, 30 in the code
    MaxDisturbances

ASSUME KeeperAssumption ==
    /\ Bot \in Operator
    /\ Target \in Strategy \ Uninitialized
    /\ MirroredBufferBps \in 0..MaxBps
    /\ MinAllocate \in Nat
    /\ MaxFailures \in Nat \ {0}
    /\ MaxPolls \in Nat \ {0}
    /\ MaxDisturbances \in Nat

VARIABLES
    process,                \* down, in its first tick, looping, shutting down
    failures,               \* consecutiveFailures
    tick,                   \* the tick under way; none is `running = false`
    online,                 \* the RPC node answers
    mempool,                \* transactions sent and not yet in a ledger
    applied,                \* the keeper account's transactions in ledgers
    disturbances

processVars == <<process, failures, tick>>
networkVars == <<online, mempool, applied>>
keeperVars  == <<vars, processVars, networkVars, disturbances>>

Phase == {"down", "first", "looping", "draining"}
Stage == {"resting", "reading", "checking", "fetching", "preparing", "sending", "polling"}
Transaction == [seq : Nat, amount : Nat]
Outcome == [amount : Nat, ok : BOOLEAN]
TickState == [at : Stage, unread : SUBSET {"idle", "total"}, idle : Nat, total : Nat,
              amount : Nat, seq : Nat, polls : 0..MaxPolls]

Resting == [at |-> "resting", unread |-> {}, idle |-> 0, total |-> 0,
            amount |-> 0, seq |-> 0, polls |-> 0]

FirstAwait == [Resting EXCEPT !.at = "reading", !.unread = {"idle", "total"}]

KeeperInit ==
    /\ Init
    /\ process = "down"
    /\ failures = 0
    /\ tick = Resting
    /\ online = TRUE
    /\ mempool = {}
    /\ applied = <<>>
    /\ disturbances = 0

(* The account's sequence number; it grows by one with each transaction a  *)
(* ledger includes, those that fail there too.                             *)
AccountSeq == Len(applied)

Sent == [seq |-> tick.seq, amount |-> tick.amount]

(* The network takes a transaction whose number no ledger has used.        *)
Queue == tick.seq > AccountSeq /\ mempool' = mempool \cup {Sent}

-----------------------------------------------------------------------------
(* The end of a tick, and of the process.                                  *)

Exit == process' = "down" /\ failures' = 0 /\ tick' = Resting

(* The first tick is awaited before the timer and the signal handlers are  *)
(* set up.                                                                 *)
Rest ==
    /\ tick' = Resting
    /\ process' = IF process = "first" THEN "looping" ELSE process

Succeed == Rest /\ failures' = 0

(* Mutated: the limit is passed before the process exits.                  *)
FailPastLimit ==
    \/ failures < MaxFailures /\ Rest /\ failures' = failures + 1
    \/ failures >= MaxFailures /\ Exit

(* catch: the fuse, or the next tick.                                      *)
Fail ==
    \/ failures + 1 < MaxFailures /\ Rest /\ failures' = failures + 1
    \/ failures + 1 >= MaxFailures /\ Exit

(* A node that does not answer makes the awaited call throw.  A            *)
(* transaction may have reached the network all the same.                  *)
Throw ==
    /\ ~online
    /\ tick.at # "resting"
    /\ Fail
    /\ \/ UNCHANGED mempool
       \/ tick.at = "sending" /\ Queue

-----------------------------------------------------------------------------
(* One tick, await by await.                                               *)

(* pm2 starts the process, which starts with a tick.                       *)
Start ==
    /\ process = "down"
    /\ process' = "first"
    /\ tick' = FirstAwait
    /\ UNCHANGED <<failures, mempool>>

(* Mutated: the timer is not cleared and shuttingDown not asked for.       *)
TimerFiresWhileDraining ==
    /\ process \in {"looping", "draining"}
    /\ tick = Resting
    /\ tick' = FirstAwait
    /\ UNCHANGED <<process, failures, mempool>>

(* Mutated: `running` is not looked at.                                    *)
TimerFiresWhileRunning ==
    /\ process = "looping"
    /\ tick' = FirstAwait
    /\ UNCHANGED <<process, failures, mempool>>

(* A timer that fires while a tick is running does nothing.                *)
TimerFires ==
    /\ process = "looping"
    /\ tick = Resting
    /\ tick' = FirstAwait
    /\ UNCHANGED <<process, failures, mempool>>

(* Promise.all: the two reads are answered in any order, each from the     *)
(* ledger of its own moment.                                               *)
ReadIdle ==
    /\ online
    /\ "idle" \in tick.unread
    /\ tick' = [tick EXCEPT !.idle = idle, !.unread = @ \ {"idle"}]
    /\ UNCHANGED <<process, failures, mempool>>

(* total_assets() traps in a vault that is not initialised: the simulated  *)
(* call throws, and Promise.all rejects whatever the other read answers.   *)
ReadTotal ==
    /\ online
    /\ "total" \in tick.unread
    /\ \/ initialized /\ tick' = [tick EXCEPT !.total = TotalAssets, !.unread = @ \ {"total"}]
                       /\ UNCHANGED <<process, failures>>
       \/ ~initialized /\ Fail
    /\ UNCHANGED mempool

SeenMinIdle == (tick.total * MirroredBufferBps) \div MaxBps
SeenExcess  == tick.idle - SeenMinIdle

(* idle-below-buffer or below-threshold.                                   *)
Skip ==
    /\ tick.at = "reading"
    /\ tick.unread = {}
    /\ SeenExcess <= 0 \/ SeenExcess < MinAllocate
    /\ Succeed
    /\ UNCHANGED mempool

DecideToAllocate ==
    /\ tick.at = "reading"
    /\ tick.unread = {}
    /\ SeenExcess > 0
    /\ SeenExcess >= MinAllocate
    /\ tick' = [Resting EXCEPT !.at = "checking", !.amount = SeenExcess]
    /\ UNCHANGED <<process, failures, mempool>>

(* Mutated: an unhealthy strategy counts as a failed tick.                 *)
UnhealthyFails ==
    /\ online
    /\ tick.at = "checking"
    /\ \/ IsHealthy(Target) /\ tick' = [tick EXCEPT !.at = "fetching"]
                            /\ UNCHANGED <<process, failures>>
       \/ ~IsHealthy(Target) /\ Fail
    /\ UNCHANGED mempool

(* strategy-unhealthy is a skip and no failure.                            *)
CheckHealth ==
    /\ online
    /\ tick.at = "checking"
    /\ \/ IsHealthy(Target) /\ tick' = [tick EXCEPT !.at = "fetching"]
                            /\ UNCHANGED <<process, failures>>
       \/ ~IsHealthy(Target) /\ Succeed
    /\ UNCHANGED mempool

(* Mutated: a number after those of what is pending.                       *)
FetchAfterPending ==
    /\ online
    /\ tick.at = "fetching"
    /\ tick' = [tick EXCEPT !.at = "preparing",
                            !.seq = AccountSeq + 1 + Cardinality(mempool)]
    /\ UNCHANGED <<process, failures, mempool>>

(* getAccount: the number of the last ledger, whatever is pending.         *)
FetchAccount ==
    /\ online
    /\ tick.at = "fetching"
    /\ tick' = [tick EXCEPT !.at = "preparing", !.seq = AccountSeq + 1]
    /\ UNCHANGED <<process, failures, mempool>>

(* prepareTransaction simulates the call, and throws if it fails.          *)
Prepare ==
    /\ online
    /\ tick.at = "preparing"
    /\ \/ CanAllocate(Bot, Target, tick.amount) /\ tick' = [tick EXCEPT !.at = "sending"]
                                                /\ UNCHANGED <<process, failures>>
       \/ ~CanAllocate(Bot, Target, tick.amount) /\ Fail
    /\ UNCHANGED mempool

(* A used number is an error (txBAD_SEQ).  A node that already holds a     *)
(* transaction of the account may answer TRY_AGAIN_LATER and not queue     *)
(* this one; the code polls for it nevertheless.                           *)
SendTransaction ==
    /\ online
    /\ tick.at = "sending"
    /\ \/ /\ tick.seq > AccountSeq
          /\ tick' = [tick EXCEPT !.at = "polling"]
          /\ Queue \/ (mempool # {} /\ UNCHANGED mempool)
          /\ UNCHANGED <<process, failures>>
       \/ tick.seq <= AccountSeq /\ Fail /\ UNCHANGED mempool

IsApplied == tick.seq <= AccountSeq /\ applied[tick.seq].amount = tick.amount

(* Mutated: the count of polls starts again instead of ending the tick.    *)
PollWithoutLimit ==
    /\ online
    /\ tick.at = "polling"
    /\ \/ IsApplied /\ applied[tick.seq].ok /\ Succeed
       \/ IsApplied /\ ~applied[tick.seq].ok /\ Fail
       \/ /\ ~IsApplied
          /\ tick' = [tick EXCEPT !.polls = (@ + 1) % MaxPolls]
          /\ UNCHANGED <<process, failures>>
    /\ UNCHANGED mempool

(* getTransaction until it answers SUCCESS or FAILED, MaxPolls times.      *)
Poll ==
    /\ online
    /\ tick.at = "polling"
    /\ \/ IsApplied /\ applied[tick.seq].ok /\ Succeed
       \/ IsApplied /\ ~applied[tick.seq].ok /\ Fail
       \/ /\ ~IsApplied /\ tick.polls + 1 < MaxPolls
          /\ tick' = [tick EXCEPT !.polls = @ + 1]
          /\ UNCHANGED <<process, failures>>
       \/ ~IsApplied /\ tick.polls + 1 >= MaxPolls /\ Fail
    /\ UNCHANGED mempool

(* The check of `running` every shutdownCheckMs, then exit(0).             *)
ExitWhenDone ==
    /\ process = "draining"
    /\ tick = Resting
    /\ Exit
    /\ UNCHANGED mempool

(* The keeper sees ledgers, never a transaction halfway.                   *)
ProcessStep ==
    /\ call = NoCall
    /\ \/ Start \/ TimerFires \/ ExitWhenDone \/ Throw
       \/ ReadIdle \/ ReadTotal \/ Skip \/ DecideToAllocate
       \/ CheckHealth \/ FetchAccount \/ Prepare \/ SendTransaction \/ Poll
    /\ UNCHANGED <<vars, online, applied, disturbances>>

-----------------------------------------------------------------------------
(* The network.                                                            *)

(* A ledger includes t, which uses up its sequence number and with it every*)
(* other transaction of that number; allocate succeeds in it or fails.     *)
Include(t) ==
    /\ call = NoCall
    /\ t.seq = AccountSeq + 1
    /\ \/ /\ Allocate(Bot, Target, t.amount)
          /\ call' = NoCall
          /\ applied' = Append(applied, [amount |-> t.amount, ok |-> TRUE])
       \/ /\ ~CanAllocate(Bot, Target, t.amount)
          /\ applied' = Append(applied, [amount |-> t.amount, ok |-> FALSE])
          /\ UNCHANGED vars
    /\ mempool' = {u \in mempool : u.seq > t.seq}
    /\ UNCHANGED <<processVars, online, disturbances>>

IncludeOne == \E t \in mempool : Include(t)

(* A redemption under way is one transaction of somebody else's: it ends.  *)
FinishCall == WaterfallStep /\ UNCHANGED <<processVars, networkVars, disturbances>>

-----------------------------------------------------------------------------
(* Disturbances.                                                           *)

Others == call = NoCall /\ Next /\ UNCHANGED <<processVars, networkVars>>

Outages == online' = ~online /\ UNCHANGED <<vars, processVars, mempool, applied>>

(* A node forgets a transaction.                                           *)
Drop ==
    /\ \E t \in mempool : mempool' = mempool \ {t}
    /\ UNCHANGED <<vars, processVars, online, applied>>

Crash ==
    /\ process # "down"
    /\ Exit
    /\ UNCHANGED <<vars, networkVars>>

(* SIGTERM or SIGINT: without handlers it ends the process, with them a    *)
(* running tick is let finish; a second signal changes nothing.            *)
Signal ==
    /\ \/ process = "first" /\ Exit
       \/ process = "looping" /\ process' = "draining" /\ UNCHANGED <<failures, tick>>
    /\ UNCHANGED <<vars, networkVars>>

Disturb ==
    /\ disturbances < MaxDisturbances
    /\ disturbances' = disturbances + 1
    /\ Others \/ Outages \/ Drop \/ Crash \/ Signal

KeeperNext == ProcessStep \/ IncludeOne \/ FinishCall \/ Disturb

KeeperSpec == KeeperInit /\ [][KeeperNext]_keeperVars

(* Timers fire, awaited calls return or throw, pm2 restarts what exited, a *)
(* transaction in reach of a ledger is included, one being executed ends.  *)
Fairness ==
    /\ WF_keeperVars(ProcessStep)
    /\ WF_keeperVars(IncludeOne)
    /\ WF_keeperVars(FinishCall)

FairKeeperSpec == KeeperSpec /\ Fairness

-----------------------------------------------------------------------------
(* Types; a dead process has no memory; the fuse has blown before the      *)
(* count reaches its limit; and a transaction, sent or about to be, has    *)
(* the account's next number or a used one.                                *)
KeeperInv ==
    /\ process \in Phase
    /\ failures \in 0..(MaxFailures - 1)
    /\ tick \in TickState
    /\ online \in BOOLEAN
    /\ mempool \subseteq Transaction
    /\ applied \in Seq(Outcome)
    /\ disturbances \in 0..MaxDisturbances
    /\ process = "down" => tick = Resting /\ failures = 0
    /\ tick.unread # {} => tick.at = "reading"
    /\ tick.seq <= AccountSeq + 1
    /\ tick.at \notin {"resting", "reading"} => tick.amount > 0
    /\ tick.at \in {"preparing", "sending", "polling"} => tick.seq > 0
    /\ \A t \in mempool : t.seq = AccountSeq + 1

(* Whatever timed out, was resent, or was forgotten in a crash: of all the *)
(* keeper has sent and no ledger has included, one at most can still move  *)
(* funds, the others share its sequence number (invokeWithKeypair asks the *)
(* ledger for the number instead of counting).                             *)
OneCanTakeEffect == \A t, u \in mempool : t.seq = u.seq

(* However old the reads behind it, however late it is included: an        *)
(* allocation of the keeper leaves the buffer in the vault.                *)
LateAllocationsKeepBuffer ==
    [][\A t \in mempool : Include(t) /\ fundVars' # fundVars
            => idle' >= MinIdle' /\ CommittedAssets' = CommittedAssets]_keeperVars

(* How many more steps the tick under way can come to.                     *)
AwaitsAhead == [resting |-> 0, polling |-> 0, sending |-> 1, preparing |-> 2,
                fetching |-> 3, checking |-> 4, reading |-> 5]

PollsAhead(t) == IF t.at = "polling" THEN MaxPolls - t.polls ELSE MaxPolls

StepsOf(t) == 1 + AwaitsAhead[t.at] + Cardinality(t.unread) + PollsAhead(t)

StepsLeft == IF tick = Resting THEN 0 ELSE StepsOf(tick)

(* A tick runs alone and runs out: whatever happens around it, each of its *)
(* steps leaves fewer to come, and none begins but in a process that rests *)
(* and is not shutting down (`running`, clearInterval on a signal).        *)
TicksRunOut ==
    [][tick' # tick =>
         \/ StepsLeft' < StepsLeft
         \/ tick = Resting /\ process \in {"down", "looping"}]_keeperVars

(* What the keeper is there for: the buffer it was configured with is the  *)
(* vault's, the node answers, the excess is worth a transaction and the    *)
(* vault would take it.                                                    *)
WorthAllocating ==
    /\ online
    /\ MirroredBufferBps = idleBufferBps
    /\ idle - MinIdle >= MinAllocate
    /\ CanAllocate(Bot, Target, idle - MinIdle)

(* Excess does not wait for ever: through failed ticks, the fuse, restarts,*)
(* stale transactions and lost ones, the loop gets to allocate it.         *)
ExcessIsAllocated == []<>~WorthAllocating

(* An unhealthy strategy "is a known, legitimate skip signal, not a broken *)
(* system": while it lasts, with a vault and a node that answer, the       *)
(* process does not exit and restart for ever.                             *)
UnhealthyIsNoFailure ==
    <>[](initialized /\ online /\ ~IsHealthy(Target)) => <>[](process # "down")

(* "Let the currently-running tick (if any) finish; then exit cleanly":    *)
(* a shutdown comes to its end.                                            *)
ShutdownEnds == process = "draining" ~> process = "down"
=============================================================================
