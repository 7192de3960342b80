----------------------------- MODULE KeeperProofs -----------------------------
(***************************************************************************)
(* The keeper over the vault: whatever the process, the network and the    *)
(* signals do, the vault's invariant holds, one transaction at most can    *)
(* still take effect, a late one keeps the buffer, and holders notice      *)
(* nothing.                                                                *)
(***************************************************************************)
EXTENDS Keeper, VaultPriceProofs

(* The account's number is a natural.                                      *)
LEMMA AccountSeqIsNatural ==
    ASSUME KeeperInv
    PROVE  AccountSeq \in Nat
BY DEF KeeperInv, AccountSeq

(* A tick at rest, and one that has just begun, are ticks.                 *)
LEMMA FreshTicks == Resting \in TickState /\ FirstAwait \in TickState
<1>1. 0 \in 0..MaxPolls
  BY KeeperAssumption
<1>2. Resting \in TickState
  BY <1>1 DEF Resting, TickState, Stage
<1>3. "reading" \in Stage /\ {"idle", "total"} \in SUBSET {"idle", "total"}
  BY DEF Stage
<1>4. FirstAwait \in TickState
  BY <1>2, <1>3 DEF TickState, FirstAwait
<1> QED BY <1>2, <1>4

-----------------------------------------------------------------------------
(* The process.                                                            *)

(* What of the invariant the process's own steps can disturb.              *)
ProcessInv ==
    /\ process \in Phase
    /\ failures \in 0..(MaxFailures - 1)
    /\ tick \in TickState
    /\ process = "down" => tick = Resting /\ failures = 0
    /\ tick.unread # {} => tick.at = "reading"
    /\ tick.seq <= AccountSeq + 1
    /\ tick.at \notin {"resting", "reading"} => tick.amount > 0
    /\ tick.at \in {"preparing", "sending", "polling"} => tick.seq > 0

(* What of it the network can.                                             *)
NetworkInv ==
    /\ online \in BOOLEAN
    /\ mempool \subseteq Transaction
    /\ applied \in Seq(Outcome)
    /\ disturbances \in 0..MaxDisturbances
    /\ \A t \in mempool : t.seq = AccountSeq + 1

(* The two are all of it.                                                  *)
LEMMA KeeperInvParts ==
    /\ KeeperInv <=> ProcessInv /\ NetworkInv
    /\ KeeperInv' <=> ProcessInv' /\ NetworkInv'
BY DEF KeeperInv, ProcessInv, NetworkInv

(* A process that ends a tick, or itself, keeps it.                        *)
LEMMA EndOfTick ==
    ASSUME KeeperInv, Exit \/ Succeed \/ Fail, UNCHANGED applied, tick.at # "resting" \/ Exit
    PROVE  ProcessInv'
<1>1. Resting \in TickState /\ MaxFailures \in Nat \ {0}
  BY FreshTicks, KeeperAssumption
<1>2. AccountSeq' = AccountSeq /\ AccountSeq \in Nat
  BY AccountSeqIsNatural DEF AccountSeq
<1>3. tick' = Resting
  BY DEF Exit, Succeed, Fail, Rest
<1>4. /\ process' \in Phase /\ failures' \in 0..(MaxFailures - 1)
      /\ process' = "down" => failures' = 0
  BY <1>1 DEF Exit, Succeed, Fail, Rest, KeeperInv, Phase, Resting
<1>5. /\ Resting.unread = {} /\ Resting.seq = 0 /\ Resting.at = "resting"
  BY DEF Resting
<1> QED BY <1>1, <1>2, <1>3, <1>4, <1>5 DEF ProcessInv

(* A tick that goes on keeps it: only the tick changes.                    *)
LEMMA TickGoesOn ==
    ASSUME KeeperInv, UNCHANGED <<process, failures, applied>>, process # "down",
           tick' \in TickState,
           tick'.unread # {} => tick'.at = "reading",
           tick'.seq <= AccountSeq + 1,
           tick'.at \notin {"resting", "reading"} => tick'.amount > 0,
           tick'.at \in {"preparing", "sending", "polling"} => tick'.seq > 0
    PROVE  ProcessInv'
<1>1. AccountSeq' = AccountSeq
  BY DEF AccountSeq
<1> QED BY <1>1 DEF KeeperInv, ProcessInv

(* A process that is down has no tick.                                     *)
LEMMA TickIsAlive ==
    ASSUME KeeperInv, tick.at # "resting"
    PROVE  process # "down"
BY DEF KeeperInv, Resting

(* A tick begins, with the process or with the timer.                      *)
LEMMA TickBegins ==
    ASSUME KeeperInv, UNCHANGED applied, Start \/ TimerFires
    PROVE  ProcessInv'
<1>1. /\ tick' = FirstAwait /\ FirstAwait \in TickState
      /\ FirstAwait.at = "reading" /\ FirstAwait.seq = 0
  BY FreshTicks DEF Start, TimerFires, FirstAwait, Resting
<1>2. AccountSeq' = AccountSeq /\ AccountSeq \in Nat
  BY AccountSeqIsNatural DEF AccountSeq
<1>3. process' \in Phase \ {"down"} /\ failures' \in 0..(MaxFailures - 1)
  BY DEF Start, TimerFires, Phase, KeeperInv
<1> QED BY <1>1, <1>2, <1>3 DEF ProcessInv

(* Either read.                                                            *)
LEMMA ReadKeeps ==
    ASSUME IInv, KeeperInv, UNCHANGED applied, ReadIdle \/ ReadTotal
    PROVE  ProcessInv'
<1>1. idle \in Nat /\ TotalAssets \in Nat
  BY TotalIsNatural, VaultInvParts DEF IInv, VaultInv, VaultTypeOK
<1>2. tick \in TickState /\ tick.at = "reading" /\ tick.seq <= AccountSeq + 1
  BY DEF KeeperInv, ReadIdle, ReadTotal
<1>3. CASE ReadIdle
  <2>1. tick' = [tick EXCEPT !.idle = idle, !.unread = tick.unread \ {"idle"}]
    BY <1>3 DEF ReadIdle
  <2>2. /\ tick' \in TickState /\ tick'.at = "reading" /\ tick'.seq = tick.seq
    BY <1>1, <1>2, <2>1 DEF TickState
  <2> QED BY <1>2, <1>3, <2>2, TickGoesOn, TickIsAlive DEF ReadIdle
<1>4. CASE /\ tick' = [tick EXCEPT !.total = TotalAssets, !.unread = @ \ {"total"}]
           /\ UNCHANGED <<process, failures>>
  <2>1. tick' = [tick EXCEPT !.total = TotalAssets, !.unread = tick.unread \ {"total"}]
    BY <1>4
  <2>2. /\ tick' \in TickState /\ tick'.at = "reading" /\ tick'.seq = tick.seq
    BY <1>1, <1>2, <2>1 DEF TickState
  <2> QED BY <1>2, <1>4, <2>2, TickGoesOn, TickIsAlive
<1>5. CASE Fail
  BY <1>2, <1>5, EndOfTick
<1> QED BY <1>3, <1>4, <1>5 DEF ReadTotal

(* The decision to allocate.                                               *)
LEMMA DecideKeeps ==
    ASSUME KeeperInv, UNCHANGED applied, DecideToAllocate
    PROVE  ProcessInv'
<1>1. tick \in TickState /\ tick.at = "reading" /\ SeenExcess > 0
  BY DEF KeeperInv, DecideToAllocate
<1>2. SeenExcess \in Nat
  <2>1. tick.total * MirroredBufferBps \in Int /\ MaxBps \in Nat \ {0} /\ tick.idle \in Int
    BY <1>1, KeeperAssumption, MathAssumption DEF TickState
  <2>2. SeenMinIdle \in Int
    BY <2>1 DEF SeenMinIdle
  <2> QED BY <1>1, <2>1, <2>2 DEF SeenExcess
<1>3. tick' = [Resting EXCEPT !.at = "checking", !.amount = SeenExcess]
  BY DEF DecideToAllocate
<1>4. /\ tick' \in TickState /\ tick'.at = "checking" /\ tick'.unread = {}
      /\ tick'.seq = 0 /\ tick'.amount = SeenExcess
  <2>1. "checking" \in Stage
    BY DEF Stage
  <2> QED BY <1>2, <1>3, <2>1, FreshTicks DEF TickState, Resting
<1>5. AccountSeq \in Nat
  BY AccountSeqIsNatural
<1> QED BY <1>1, <1>4, <1>5, TickGoesOn, TickIsAlive DEF DecideToAllocate

(* The later awaits move the tick to its next stage.                       *)
LEMMA StageKeeps ==
    ASSUME KeeperInv, UNCHANGED <<process, failures, applied>>, NEW stage \in Stage,
           stage \notin {"resting", "reading"},
           tick.at \notin {"resting", "reading"},
           NEW n \in Nat, n <= AccountSeq + 1,
           stage \in {"preparing", "sending", "polling"} => n > 0,
           tick' = [tick EXCEPT !.at = stage, !.seq = n]
    PROVE  ProcessInv'
<1>1. tick \in TickState /\ tick.unread = {} /\ tick.amount > 0
  BY DEF KeeperInv
<1>2. /\ tick' \in TickState /\ tick'.at = stage /\ tick'.unread = {}
      /\ tick'.seq = n /\ tick'.amount = tick.amount
  BY <1>1 DEF TickState
<1> QED BY <1>1, <1>2, TickGoesOn, TickIsAlive

(* The rest of a tick's awaits.                                            *)
LEMMA AwaitKeeps ==
    ASSUME KeeperInv, UNCHANGED applied,
           CheckHealth \/ FetchAccount \/ Prepare \/ SendTransaction \/ Poll
    PROVE  ProcessInv'
<1>1. tick \in TickState /\ tick.unread = {} /\ tick.seq \in Nat /\ tick.seq <= AccountSeq + 1
  BY DEF KeeperInv, TickState, CheckHealth, FetchAccount, Prepare, SendTransaction, Poll
<1>2. AccountSeq \in Nat
  BY AccountSeqIsNatural
<1>3. CASE Succeed \/ Fail
  BY <1>3, EndOfTick DEF CheckHealth, FetchAccount, Prepare, SendTransaction, Poll
<1>4. CASE tick.at = "checking" /\ tick' = [tick EXCEPT !.at = "fetching"]
           /\ UNCHANGED <<process, failures>>
  <2>1. "fetching" \in Stage /\ tick' = [tick EXCEPT !.at = "fetching", !.seq = tick.seq]
    BY <1>1, <1>4 DEF Stage, TickState
  <2> QED BY <1>1, <1>4, <2>1, StageKeeps
<1>5. CASE FetchAccount
  <2>1. PICK n \in Nat : n = AccountSeq + 1
    BY <1>2
  <2>2. "preparing" \in Stage /\ n <= AccountSeq + 1 /\ n > 0
    BY <1>2, <2>1 DEF Stage
  <2>3. /\ tick.at = "fetching" /\ tick' = [tick EXCEPT !.at = "preparing", !.seq = n]
        /\ UNCHANGED <<process, failures>>
    BY <1>5, <2>1 DEF FetchAccount
  <2> QED BY <2>2, <2>3, StageKeeps
<1>6. CASE tick.at = "preparing" /\ tick' = [tick EXCEPT !.at = "sending"]
           /\ UNCHANGED <<process, failures>>
  <2>1. "sending" \in Stage /\ tick' = [tick EXCEPT !.at = "sending", !.seq = tick.seq]
    BY <1>1, <1>6 DEF Stage, TickState
  <2>2. tick.seq > 0
    BY <1>6 DEF KeeperInv
  <2> QED BY <1>1, <1>6, <2>1, <2>2, StageKeeps
<1>7. CASE tick.at = "sending" /\ tick' = [tick EXCEPT !.at = "polling"]
           /\ UNCHANGED <<process, failures>>
  <2>1. "polling" \in Stage /\ tick' = [tick EXCEPT !.at = "polling", !.seq = tick.seq]
    BY <1>1, <1>7 DEF Stage, TickState
  <2>2. tick.seq > 0
    BY <1>7 DEF KeeperInv
  <2> QED BY <1>1, <1>7, <2>1, <2>2, StageKeeps
<1>8. CASE /\ tick.at = "polling" /\ tick.polls + 1 < MaxPolls
           /\ tick' = [tick EXCEPT !.polls = @ + 1]
           /\ UNCHANGED <<process, failures>>
  <2>1. tick.polls \in 0..MaxPolls /\ MaxPolls \in Nat
    BY <1>1, KeeperAssumption DEF TickState
  <2>2. tick.polls + 1 \in 0..MaxPolls /\ tick' = [tick EXCEPT !.polls = tick.polls + 1]
    BY <1>8, <2>1
  <2>3. /\ tick' \in TickState /\ tick'.at = tick.at /\ tick'.unread = {}
        /\ tick'.seq = tick.seq /\ tick'.amount = tick.amount
    BY <1>1, <2>2 DEF TickState
  <2>4. tick.seq > 0 /\ tick.amount > 0
    BY <1>8 DEF KeeperInv
  <2> QED BY <1>1, <1>8, <2>3, <2>4, TickGoesOn, TickIsAlive
<1> QED BY <1>3, <1>4, <1>5, <1>6, <1>7, <1>8 DEF CheckHealth, Prepare, SendTransaction, Poll

(* What the process puts into the network has the account's next number.   *)
LEMMA NetworkKeeps ==
    ASSUME KeeperInv, UNCHANGED <<online, applied, disturbances>>,
           \/ UNCHANGED mempool
           \/ Queue /\ tick.at = "sending"
    PROVE  NetworkInv'
<1>1. AccountSeq' = AccountSeq /\ AccountSeq \in Nat
  BY AccountSeqIsNatural DEF AccountSeq
<1>2. tick \in TickState /\ tick.seq <= AccountSeq + 1
  BY DEF KeeperInv
<1>3. CASE UNCHANGED mempool
  BY <1>1, <1>3 DEF KeeperInv, NetworkInv
<1>4. CASE Queue
  <2>1. Sent.seq = AccountSeq + 1 /\ Sent \in Transaction /\ mempool' = mempool \cup {Sent}
    BY <1>1, <1>2, <1>4 DEF Queue, Sent, TickState, Transaction
  <2> QED BY <1>1, <2>1 DEF KeeperInv, NetworkInv
<1> QED BY <1>3, <1>4

(* Every step of the process.                                              *)
LEMMA ProcessStepInv ==
    ASSUME IInv, KeeperInv, ProcessStep
    PROVE  IInv' /\ KeeperInv'
<1>1. UNCHANGED vars /\ UNCHANGED <<online, applied, disturbances>>
  BY DEF ProcessStep
<1>2. IInv'
  BY <1>1, StutterInv
<1>3. \/ UNCHANGED mempool
      \/ Queue /\ tick.at = "sending"
  <2>1. CASE Throw \/ SendTransaction
    BY <2>1 DEF Throw, SendTransaction
  <2>2. CASE Start \/ TimerFires \/ ExitWhenDone \/ ReadIdle \/ ReadTotal
    BY <2>2 DEF Start, TimerFires, ExitWhenDone, ReadIdle, ReadTotal
  <2>3. CASE Skip \/ DecideToAllocate \/ CheckHealth \/ FetchAccount \/ Prepare \/ Poll
    BY <2>3 DEF Skip, DecideToAllocate, CheckHealth, FetchAccount, Prepare, Poll
  <2> QED BY <2>1, <2>2, <2>3 DEF ProcessStep
<1>4. NetworkInv'
  BY <1>1, <1>3, NetworkKeeps
<1>5. ProcessInv'
  <2>1. CASE Start \/ TimerFires
    BY <1>1, <2>1, TickBegins
  <2>2. CASE ExitWhenDone \/ Throw \/ Skip
    <3>1. (Exit \/ Succeed \/ Fail) /\ (tick.at # "resting" \/ Exit)
      BY <2>2 DEF ExitWhenDone, Throw, Skip
    <3> QED BY <1>1, <3>1, EndOfTick
  <2>3. CASE ReadIdle \/ ReadTotal
    BY <1>1, <2>3, ReadKeeps
  <2>4. CASE DecideToAllocate
    BY <1>1, <2>4, DecideKeeps
  <2>5. CASE CheckHealth \/ FetchAccount \/ Prepare \/ SendTransaction \/ Poll
    BY <1>1, <2>5, AwaitKeeps
  <2> QED BY <2>1, <2>2, <2>3, <2>4, <2>5 DEF ProcessStep
<1> QED BY <1>2, <1>4, <1>5, KeeperInvParts

-----------------------------------------------------------------------------
(* The network and everybody else.                                         *)

(* A step that leaves the process alone and the account's number not lower.*)
LEMMA ProcessKept ==
    ASSUME KeeperInv, UNCHANGED processVars, AccountSeq' \in Nat, AccountSeq' >= AccountSeq
    PROVE  ProcessInv'
<1>1. AccountSeq \in Nat /\ tick.seq \in Nat
  BY AccountSeqIsNatural DEF KeeperInv, TickState
<1> QED BY <1>1 DEF KeeperInv, ProcessInv, processVars

(* A ledger that includes a transaction.                                   *)
LEMMA IncludeInv ==
    ASSUME IInv, KeeperInv, NEW t \in mempool, Include(t)
    PROVE  IInv' /\ KeeperInv'
<1>1. /\ t \in Transaction /\ t.amount \in Int /\ t.seq = AccountSeq + 1
      /\ \A u \in mempool : u.seq = AccountSeq + 1
  BY DEF KeeperInv, Transaction
<1>2. AccountSeq \in Nat
  BY AccountSeqIsNatural
<1>3. IInv'
  <2>1. CASE Allocate(Bot, Target, t.amount) /\ call' = NoCall
    BY <1>1, <2>1, AllocateInv, KeeperAssumption
  <2>2. CASE UNCHANGED vars
    BY <2>2, StutterInv
  <2> QED BY <2>1, <2>2 DEF Include
<1>4. PICK ok \in BOOLEAN : applied' = Append(applied, [amount |-> t.amount, ok |-> ok])
  BY DEF Include
<1>5. [amount |-> t.amount, ok |-> ok] \in Outcome /\ applied \in Seq(Outcome)
  BY <1>1 DEF Outcome, Transaction, KeeperInv
<1>6. applied' \in Seq(Outcome) /\ AccountSeq' = AccountSeq + 1
  BY <1>4, <1>5 DEF AccountSeq
<1>7. ProcessInv'
  BY <1>2, <1>6, ProcessKept DEF Include
<1>8. mempool' = {}
  BY <1>1, <1>2 DEF Include
<1>9. NetworkInv'
  BY <1>6, <1>8 DEF NetworkInv, Include, KeeperInv
<1> QED BY <1>3, <1>7, <1>9, KeeperInvParts

(* A step of the vault that is not the keeper's.                           *)
LEMMA VaultsOwnStepInv ==
    ASSUME IInv, KeeperInv, Next, UNCHANGED <<processVars, networkVars>>,
           disturbances' \in 0..MaxDisturbances
    PROVE  IInv' /\ KeeperInv'
<1>1. IInv'
  BY VaultStepInv
<1>2. AccountSeq' = AccountSeq /\ AccountSeq \in Nat
  BY AccountSeqIsNatural DEF AccountSeq, networkVars
<1>3. ProcessInv'
  BY <1>2, ProcessKept
<1>4. NetworkInv'
  BY <1>2 DEF NetworkInv, KeeperInv, networkVars
<1> QED BY <1>1, <1>3, <1>4, KeeperInvParts

(* An outage, a lost transaction, a crash, a signal.                       *)
LEMMA FaultInv ==
    ASSUME IInv, KeeperInv, Outages \/ Drop \/ Crash \/ Signal,
           disturbances' \in 0..MaxDisturbances
    PROVE  IInv' /\ KeeperInv'
<1>1. UNCHANGED vars /\ UNCHANGED applied
  BY DEF Outages, Drop, Crash, Signal, networkVars
<1>2. IInv'
  BY <1>1, StutterInv
<1>3. AccountSeq' = AccountSeq /\ AccountSeq \in Nat
  BY <1>1, AccountSeqIsNatural DEF AccountSeq
<1>4. ProcessInv'
  <2>1. CASE UNCHANGED processVars
    BY <1>3, <2>1, ProcessKept
  <2>2. CASE Exit
    BY <1>1, <2>2, EndOfTick
  <2>3. CASE process = "looping" /\ process' = "draining" /\ UNCHANGED <<failures, tick>>
    BY <1>3, <2>3 DEF KeeperInv, ProcessInv, Phase
  <2> QED BY <2>1, <2>2, <2>3 DEF Outages, Drop, Crash, Signal
<1>5. NetworkInv'
  BY <1>3 DEF NetworkInv, KeeperInv, networkVars, Outages, Drop, Crash, Signal
<1> QED BY <1>2, <1>4, <1>5, KeeperInvParts

(* Every step of the composition.                                          *)
LEMMA KeeperStepInv ==
    ASSUME IInv, KeeperInv, [KeeperNext]_keeperVars
    PROVE  IInv' /\ KeeperInv'
<1>1. CASE ProcessStep
  BY <1>1, ProcessStepInv
<1>2. CASE IncludeOne
  BY <1>2, IncludeInv DEF IncludeOne
<1>3. CASE FinishCall
  <2>1. Next /\ disturbances' \in 0..MaxDisturbances
    BY <1>3 DEF FinishCall, Next, KeeperInv
  <2> QED BY <1>3, <2>1, VaultsOwnStepInv DEF FinishCall
<1>4. CASE Disturb
  <2>1. disturbances' \in 0..MaxDisturbances
    BY <1>4, KeeperAssumption DEF Disturb, KeeperInv
  <2> QED BY <1>4, <2>1, VaultsOwnStepInv, FaultInv DEF Disturb, Others
<1>5. CASE UNCHANGED keeperVars
  <2>1. UNCHANGED vars /\ UNCHANGED <<processVars, networkVars, disturbances>>
    BY <1>5 DEF keeperVars
  <2>2. IInv'
    BY <2>1, StutterInv
  <2>3. KeeperInv'
    BY <2>1 DEF KeeperInv, processVars, networkVars, AccountSeq
  <2> QED BY <2>2, <2>3
<1> QED BY <1>1, <1>2, <1>3, <1>4, <1>5 DEF KeeperNext

(* The composition's invariant: the vault's with its redemption under way, *)
(* and the keeper's.                                                       *)
THEOREM KeeperInvariant == KeeperSpec => [](IInv /\ KeeperInv)
<1>1. KeeperInit => IInv /\ KeeperInv
  <2> SUFFICES ASSUME KeeperInit PROVE IInv /\ KeeperInv
    OBVIOUS
  <2>1. IInv
    BY VaultInitInv DEF KeeperInit
  <2>2. /\ Resting \in TickState /\ Resting.seq = 0 /\ Resting.at = "resting"
        /\ Resting.unread = {}
    BY FreshTicks DEF Resting
  <2>3. applied = <<>> /\ AccountSeq = 0
    BY DEF KeeperInit, AccountSeq
  <2>4. 0 \in 0..(MaxFailures - 1) /\ 0 \in 0..MaxDisturbances
    BY KeeperAssumption
  <2>5. KeeperInv
    BY <2>2, <2>3, <2>4 DEF KeeperInv, KeeperInit, Phase
  <2> QED BY <2>1, <2>5
<1>2. IInv /\ KeeperInv /\ [KeeperNext]_keeperVars => IInv' /\ KeeperInv'
  BY KeeperStepInv
<1> QED BY <1>1, <1>2, PTL DEF KeeperSpec

(* The process's own account of itself, with its fuse and its numbers.     *)
THEOREM KeeperSafe == KeeperSpec => []KeeperInv
BY KeeperInvariant, PTL

(* Of all the keeper has sent and no ledger has included, one transaction  *)
(* at most can still move funds, through any number of crashes, restarts,  *)
(* timeouts and lost answers.                                              *)
THEOREM AtMostOneTakesEffect == KeeperSpec => []OneCanTakeEffect
<1>1. KeeperInv => OneCanTakeEffect
  BY DEF KeeperInv, OneCanTakeEffect
<1> QED BY <1>1, KeeperInvariant, PTL

(* A transaction of the keeper leaves the buffer in the vault and the      *)
(* assets what they were, however stale the reads it was computed from.    *)
THEOREM StaleReadsAreHarmless == KeeperSpec => LateAllocationsKeepBuffer
<1>1. IInv /\ KeeperInv /\ [KeeperNext]_keeperVars =>
        [\A t \in mempool : Include(t) /\ fundVars' # fundVars
            => idle' >= MinIdle' /\ CommittedAssets' = CommittedAssets]_keeperVars
  <2> SUFFICES ASSUME IInv, KeeperInv, NEW t \in mempool, Include(t), fundVars' # fundVars
               PROVE  idle' >= MinIdle' /\ CommittedAssets' = CommittedAssets
    OBVIOUS
  <2>1. Allocate(Bot, Target, t.amount) /\ call = NoCall /\ call' = NoCall
    BY DEF Include, vars, vaultVars
  <2>2. t.amount \in Int
    BY DEF KeeperInv, Transaction
  <2>3. TotalAssets' = TotalAssets
    BY <2>1, <2>2, AllocateKeepsTotal, KeeperAssumption
  <2>4. MinIdle' = MinIdle
    BY <2>1, <2>3 DEF MinIdle, Allocate, adminVars, configVars, settingVars
  <2>5. idle' >= MinIdle'
    BY <2>1, <2>4 DEF Allocate, CanAllocate
  <2>6. CommittedAssets = TotalAssets /\ CommittedAssets' = TotalAssets'
    BY <2>1, CommittedIsAll
  <2> QED BY <2>3, <2>5, <2>6
<1> QED BY <1>1, KeeperInvariant, PTL DEF KeeperSpec, LateAllocationsKeepBuffer

(* With the keeper, the vault still implements ShareVault: none of its     *)
(* transactions is anything to the holders.                                *)
THEOREM HoldersDoNotSeeTheKeeper == KeeperSpec => ImplementsShareVault
<1>1. KeeperInit => Abstract!Init
  BY AbstractInit DEF KeeperInit
<1>2. IInv /\ KeeperInv /\ [KeeperNext]_keeperVars => [Abstract!Next]_(Abstract!svars)
  <2> SUFFICES ASSUME IInv, KeeperInv, [KeeperNext]_keeperVars
               PROVE  [Abstract!Next]_(Abstract!svars)
    OBVIOUS
  <2>1. CASE [Next]_vars
    BY <2>1, AbstractStep
  <2>2. CASE \E t \in mempool : Allocate(Bot, Target, t.amount) /\ call = NoCall /\ call' = NoCall
    <3>1. PICK t \in mempool : Allocate(Bot, Target, t.amount) /\ call = NoCall /\ call' = NoCall
      BY <2>2
    <3>2. t.amount \in Int
      BY DEF KeeperInv, Transaction
    <3>3. TotalAssets' = TotalAssets
      BY <3>1, <3>2, AllocateKeepsTotal, KeeperAssumption
    <3>4. CommittedAssets' = CommittedAssets
      BY <3>1, <3>3, CommittedIsAll
    <3>5. UNCHANGED <<totalSupply, shares, wallet>>
      BY <3>1 DEF Allocate, shareVars
    <3> QED BY <3>4, <3>5 DEF Abstract!svars
  <2>3. UNCHANGED keeperVars => UNCHANGED vars
    BY DEF keeperVars
  <2>4. ProcessStep \/ Outages \/ Drop \/ Crash \/ Signal => UNCHANGED vars
    BY DEF ProcessStep, Outages, Drop, Crash, Signal
  <2>5. FinishCall \/ Others => Next
    BY DEF FinishCall, Others, Next
  <2>6. IncludeOne => \/ UNCHANGED vars
                      \/ \E t \in mempool : /\ Allocate(Bot, Target, t.amount)
                                             /\ call = NoCall /\ call' = NoCall
    BY DEF IncludeOne, Include
  <2> QED BY <2>1, <2>2, <2>3, <2>4, <2>5, <2>6 DEF KeeperNext, Disturb
<1> QED BY <1>1, <1>2, KeeperInvariant, PTL DEF KeeperSpec, ImplementsShareVault, Abstract!Spec

-----------------------------------------------------------------------------
(* A tick comes to its end.                                                *)

(* A tick has a natural number of steps ahead of it, one at least.         *)
LEMMA StepsAreNatural ==
    ASSUME NEW t \in TickState
    PROVE  /\ StepsOf(t) \in Nat \ {0}
           /\ AwaitsAhead[t.at] \in Nat /\ PollsAhead(t) \in 0..MaxPolls
           /\ IsFiniteSet(t.unread) /\ Cardinality(t.unread) \in Nat
<1>1. /\ t.at \in Stage /\ t.unread \subseteq {"idle", "total"}
      /\ t.polls \in 0..MaxPolls /\ MaxPolls \in Nat
  BY KeeperAssumption DEF TickState
<1>2. IsFiniteSet({"idle", "total"})
  <2>1. IsFiniteSet({} \cup {"idle"})
    BY FS_EmptySet, FS_AddElement, Zenon
  <2>2. IsFiniteSet(({} \cup {"idle"}) \cup {"total"})
    BY <2>1, FS_AddElement, Zenon
  <2>3. ({} \cup {"idle"}) \cup {"total"} = {"idle", "total"}
    OBVIOUS
  <2> QED BY <2>2, <2>3, Zenon
<1>3. IsFiniteSet(t.unread) /\ Cardinality(t.unread) \in Nat
  BY <1>1, <1>2, FS_Subset, FS_CardinalityType
<1>4. AwaitsAhead[t.at] \in Nat
  BY <1>1 DEF AwaitsAhead, Stage
<1>5. PollsAhead(t) \in 0..MaxPolls
  BY <1>1 DEF PollsAhead
<1> QED BY <1>1, <1>3, <1>4, <1>5 DEF StepsOf

(* A tick that ends, or goes on with fewer steps ahead, is nearer its end. *)
LEMMA NearerTheEnd ==
    ASSUME tick \in TickState, tick # Resting,
           \/ tick' = Resting
           \/ tick' \in TickState /\ StepsOf(tick') < StepsOf(tick)
    PROVE  StepsLeft' < StepsLeft
<1>1. StepsOf(tick) \in Nat \ {0} /\ StepsLeft = StepsOf(tick)
  BY StepsAreNatural DEF StepsLeft
<1>2. CASE tick' = Resting
  BY <1>1, <1>2 DEF StepsLeft
<1>3. CASE tick' # Resting /\ StepsOf(tick') < StepsOf(tick)
  BY <1>1, <1>3 DEF StepsLeft
<1> QED BY <1>2, <1>3

(* An answer to one of the two reads leaves one fewer to come.             *)
LEMMA ReadIsForward ==
    ASSUME tick \in TickState, NEW x \in tick.unread,
           tick'.at = tick.at, tick'.polls = tick.polls,
           tick'.unread = tick.unread \ {x}
    PROVE  StepsOf(tick') < StepsOf(tick)
<1>1. /\ AwaitsAhead[tick.at] \in Nat /\ PollsAhead(tick) \in Nat
      /\ Cardinality(tick.unread) \in Nat
  BY StepsAreNatural, KeeperAssumption
<1>2. IsFiniteSet(tick.unread)
  BY StepsAreNatural
<1>3. Cardinality(tick'.unread) = Cardinality(tick.unread) - 1
  BY <1>2, FS_RemoveElement
<1>4. PollsAhead(tick') = PollsAhead(tick) /\ AwaitsAhead[tick'.at] = AwaitsAhead[tick.at]
  BY DEF PollsAhead
<1> QED BY <1>1, <1>3, <1>4 DEF StepsOf

(* So does an await whose answer takes a tick to the next.                 *)
LEMMA StageIsForward ==
    ASSUME tick \in TickState, tick' \in TickState,
           tick.unread = {}, tick'.unread = {}, tick.at # "polling",
           AwaitsAhead[tick'.at] < AwaitsAhead[tick.at]
    PROVE  StepsOf(tick') < StepsOf(tick)
<1>1. PollsAhead(tick) = MaxPolls /\ PollsAhead(tick') \in 0..MaxPolls /\ MaxPolls \in Nat
  BY StepsAreNatural, KeeperAssumption DEF PollsAhead
<1>2. AwaitsAhead[tick.at] \in Nat /\ AwaitsAhead[tick'.at] \in Nat
  BY StepsAreNatural
<1>3. Cardinality(tick.unread) = 0 /\ Cardinality(tick'.unread) = 0
  BY FS_EmptySet
<1> QED BY <1>1, <1>2, <1>3 DEF StepsOf

(* And a poll that is not the last.                                        *)
LEMMA PollIsForward ==
    ASSUME tick \in TickState, tick' \in TickState, tick.at = "polling", tick'.at = "polling",
           tick.unread = {}, tick'.unread = {}, tick'.polls = tick.polls + 1
    PROVE  StepsOf(tick') < StepsOf(tick)
<1>1. tick.polls \in 0..MaxPolls /\ MaxPolls \in Nat
  BY KeeperAssumption DEF TickState
<1>2. Cardinality(tick.unread) = 0 /\ Cardinality(tick'.unread) = 0
  BY FS_EmptySet
<1>3. PollsAhead(tick) = MaxPolls - tick.polls /\ PollsAhead(tick') = MaxPolls - (tick.polls + 1)
  BY DEF PollsAhead
<1>4. AwaitsAhead["polling"] = 0
  BY DEF AwaitsAhead
<1> QED BY <1>1, <1>2, <1>3, <1>4 DEF StepsOf

(* Every step of a tick's own ends it, or takes it forward.                *)
LEMMA TickGoesForward ==
    ASSUME KeeperInv, tick' \in TickState,
           \/ ReadIdle \/ ReadTotal \/ DecideToAllocate
           \/ CheckHealth \/ FetchAccount \/ Prepare \/ SendTransaction \/ Poll
    PROVE  \/ tick' = Resting
           \/ StepsOf(tick') < StepsOf(tick)
<1>1. tick \in TickState /\ (tick.unread # {} => tick.at = "reading")
  BY DEF KeeperInv
<1>2. CASE ReadIdle
  <2>1. /\ "idle" \in tick.unread /\ tick'.at = tick.at /\ tick'.polls = tick.polls
        /\ tick'.unread = tick.unread \ {"idle"}
    BY <1>1, <1>2 DEF ReadIdle, TickState
  <2> QED BY <1>1, <2>1, ReadIsForward
<1>3. CASE /\ "total" \in tick.unread
           /\ tick' = [tick EXCEPT !.total = TotalAssets, !.unread = @ \ {"total"}]
  <2>1. /\ "total" \in tick.unread /\ tick'.at = tick.at /\ tick'.polls = tick.polls
        /\ tick'.unread = tick.unread \ {"total"}
    BY <1>1, <1>3 DEF TickState
  <2> QED BY <1>1, <2>1, ReadIsForward
<1>4. CASE DecideToAllocate
  <2>1. /\ tick.at = "reading" /\ tick.unread = {}
        /\ tick'.at = "checking" /\ tick'.unread = {}
    BY <1>4 DEF DecideToAllocate, Resting
  <2>2. AwaitsAhead[tick'.at] < AwaitsAhead[tick.at]
    BY <2>1 DEF AwaitsAhead
  <2> QED BY <1>1, <2>1, <2>2, StageIsForward
<1>5. CASE Succeed \/ Fail
  BY <1>5 DEF Succeed, Fail, Rest, Exit
<1>6. CASE \/ tick.at = "checking" /\ tick' = [tick EXCEPT !.at = "fetching"]
           \/ FetchAccount
           \/ tick.at = "preparing" /\ tick' = [tick EXCEPT !.at = "sending"]
           \/ tick.at = "sending" /\ tick' = [tick EXCEPT !.at = "polling"]
  <2>1. /\ tick'.unread = tick.unread
        /\ \/ tick.at = "checking" /\ tick'.at = "fetching"
           \/ tick.at = "fetching" /\ tick'.at = "preparing"
           \/ tick.at = "preparing" /\ tick'.at = "sending"
           \/ tick.at = "sending" /\ tick'.at = "polling"
    BY <1>1, <1>6 DEF TickState, FetchAccount
  <2>2. tick.at # "polling" /\ AwaitsAhead[tick'.at] < AwaitsAhead[tick.at]
    BY <2>1 DEF AwaitsAhead
  <2>3. tick.unread = {} /\ tick'.unread = {}
    BY <1>1, <2>1
  <2> QED BY <1>1, <2>2, <2>3, StageIsForward
<1>7. CASE tick.at = "polling" /\ tick' = [tick EXCEPT !.polls = @ + 1]
  <2>1. /\ tick'.at = "polling" /\ tick'.unread = tick.unread /\ tick.unread = {}
        /\ tick'.polls = tick.polls + 1
    BY <1>1, <1>7 DEF TickState
  <2> QED BY <1>1, <1>7, <2>1, PollIsForward
<1> QED BY <1>2, <1>3, <1>4, <1>5, <1>6, <1>7
        DEF ReadTotal, CheckHealth, Prepare, SendTransaction, Poll

(* Every tick runs alone and runs out.  `running` and the signals' flag    *)
(* keep a second one from starting; nothing sends one back: not an outage, *)
(* nor a transaction that a ledger includes while the keeper polls for it. *)
THEOREM EveryTickRunsOut == KeeperSpec => TicksRunOut
<1> DEFINE Forward == \/ StepsLeft' < StepsLeft
                      \/ tick = Resting /\ process \in {"down", "looping"}
<1>1. IInv /\ KeeperInv /\ [KeeperNext]_keeperVars => [tick' # tick => Forward]_keeperVars
  <2> SUFFICES ASSUME IInv, KeeperInv, KeeperNext, tick' # tick
               PROVE  Forward
    OBVIOUS
  <2>1. tick \in TickState /\ tick' \in TickState
    BY KeeperStepInv DEF KeeperInv
  <2>2. ASSUME tick # Resting, tick' = Resting \/ StepsOf(tick') < StepsOf(tick)
        PROVE  Forward
    BY <2>1, <2>2, NearerTheEnd
  <2>3. CASE Start
    BY <2>3 DEF Start, KeeperInv
  <2>4. CASE TimerFires
    BY <2>4 DEF TimerFires
  <2>5. CASE Exit \/ Succeed \/ Fail
    <3>1. tick' = Resting
      BY <2>5 DEF Exit, Succeed, Fail, Rest
    <3> QED BY <2>2, <3>1
  <2>6. CASE \/ ReadIdle \/ ReadTotal \/ DecideToAllocate
             \/ CheckHealth \/ FetchAccount \/ Prepare \/ SendTransaction \/ Poll
    <3>1. tick.at # "resting"
      BY <2>6 DEF KeeperInv, ReadIdle, ReadTotal, DecideToAllocate, CheckHealth,
                  FetchAccount, Prepare, SendTransaction, Poll
    <3>2. tick # Resting
      BY <3>1 DEF Resting
    <3> QED BY <2>1, <2>2, <2>6, <3>2, TickGoesForward
  <2>7. IncludeOne \/ FinishCall \/ Others \/ Outages \/ Drop => UNCHANGED tick
    BY DEF IncludeOne, Include, FinishCall, Others, Outages, Drop, processVars
  <2>8. Signal => Exit \/ UNCHANGED tick
    BY DEF Signal
  <2>9. ExitWhenDone \/ Throw \/ Skip \/ Crash => Exit \/ Succeed \/ Fail
    BY DEF ExitWhenDone, Throw, Skip, Crash
  <2> HIDE DEF Forward
  <2> QED BY <2>3, <2>4, <2>5, <2>6, <2>7, <2>8, <2>9 DEF KeeperNext, ProcessStep, Disturb
<1> QED BY <1>1, KeeperInvariant, PTL DEF KeeperSpec, TicksRunOut
=============================================================================
