--------------------------- MODULE UpgradeTimelock ---------------------------
(***************************************************************************)
(* The WASM upgrade timelock that tezoro-vault and blend-strategy both     *)
(* carry: a code hash is scheduled, waits for the configured delay of      *)
(* ledger time, and is then executed, or is cancelled.                     *)
(*                                                                         *)
(* The two copies differ in one statement: the vault's schedule_upgrade    *)
(* computes the execute_after it announces in the upgrade_scheduled event, *)
(* an addition of u64 timestamps that traps on overflow; the strategy's    *)
(* announces nothing.  AnnouncesExecuteAfter tells the copies apart.       *)
(*                                                                         *)
(* A transaction that fails leaves no trace, so a failing call is no step. *)
(* Authorisation (caller = admin) is added by the module that extends this *)
(* one; on its own the module has the admin call in any order.             *)
(***************************************************************************)
EXTENDS Integers

CONSTANTS
    Wasm,                   \* code hashes
    InitialWasm,            \* the code the contract is deployed with
    NoUpgrade,              \* "no upgrade is scheduled"
    UpgradeChoices,         \* the code an admin schedules
    DelayChoices,           \* the delays an admin asks set_upgrade_delay for
    DefaultUpgradeDelay,
    MinUpgradeDelay,
    MaxU64,                 \* the largest ledger timestamp a u64 holds
    MaxTime,                \* bound: the clock stops here
    AnnouncesExecuteAfter   \* TRUE for the vault, FALSE for the Blend strategy

Schedule == [hash : Wasm, at : Nat]
Notice   == [hash : Wasm, at : Nat, execute_after : Nat]

ASSUME TimelockAssumption ==
    /\ InitialWasm \in Wasm
    /\ UpgradeChoices \subseteq Wasm
    /\ NoUpgrade \notin Schedule \cup Notice
    /\ DelayChoices \subseteq Nat
    /\ MinUpgradeDelay \in Nat
    /\ DefaultUpgradeDelay \in Nat
    /\ DefaultUpgradeDelay >= MinUpgradeDelay
    /\ MaxU64 \in Nat
    /\ MaxTime \in Nat
    /\ AnnouncesExecuteAfter \in BOOLEAN

VARIABLES
    now,            \* ledger timestamp
    upgradeDelay,   \* DataKey::UpgradeDelay
    scheduled,      \* DataKey::ScheduledUpgradeHash and ...At, one Option
    wasm,           \* the code the contract runs
    notice          \* history: what the last schedule_upgrade told the users

timelockVars == <<upgradeDelay, scheduled, wasm, notice>>

TimelockTypeOK ==
    /\ now \in Nat
    /\ upgradeDelay \in Nat
    /\ scheduled \in Schedule \cup {NoUpgrade}
    /\ wasm \in Wasm
    /\ notice \in Notice \cup {NoUpgrade}

TimelockInit ==
    /\ now = 0
    /\ upgradeDelay = DefaultUpgradeDelay
    /\ scheduled = NoUpgrade
    /\ wasm = InitialWasm
    /\ notice = NoUpgrade

-----------------------------------------------------------------------------
(* A ledger closes: its timestamp is later than the one before.            *)
Tick ==
    /\ now < MaxTime
    /\ now' = now + 1
    /\ UNCHANGED timelockVars

SetUpgradeDelay(delay) ==
    /\ delay >= MinUpgradeDelay
    /\ upgradeDelay' = delay
    /\ UNCHANGED <<now, scheduled, wasm, notice>>

(* Mutated: rescheduling swaps the hash and keeps the old clock.           *)
ScheduleUpgradeKeepingClock(hash) ==
    /\ AnnouncesExecuteAfter => now + upgradeDelay <= MaxU64
    /\ scheduled' = [hash |-> hash, at |-> IF scheduled = NoUpgrade THEN now ELSE scheduled.at]
    /\ notice' = [hash |-> hash, at |-> now, execute_after |-> now + upgradeDelay]
    /\ UNCHANGED <<now, upgradeDelay, wasm>>

ScheduleUpgrade(hash) ==
    /\ AnnouncesExecuteAfter => now + upgradeDelay <= MaxU64
    /\ scheduled' = [hash |-> hash, at |-> now]
    /\ notice' = [hash |-> hash, at |-> now, execute_after |-> now + upgradeDelay]
    /\ UNCHANGED <<now, upgradeDelay, wasm>>

(* The delay in force now is the one that counts, not the one in force     *)
(* when the upgrade was scheduled.                                         *)
ExecuteUpgrade ==
    /\ scheduled # NoUpgrade
    /\ scheduled.at + upgradeDelay <= MaxU64
    /\ now >= scheduled.at + upgradeDelay
    /\ scheduled' = NoUpgrade
    /\ wasm' = scheduled.hash
    /\ UNCHANGED <<now, upgradeDelay, notice>>

CancelUpgrade ==
    /\ scheduled # NoUpgrade
    /\ scheduled' = NoUpgrade
    /\ UNCHANGED <<now, upgradeDelay, wasm, notice>>

TimelockStep ==
    \/ \E delay \in DelayChoices : SetUpgradeDelay(delay)
    \/ \E hash \in UpgradeChoices : ScheduleUpgrade(hash)
    \/ ExecuteUpgrade
    \/ CancelUpgrade

TimelockNext == Tick \/ TimelockStep

TimelockSpec == TimelockInit /\ [][TimelockNext]_<<now, timelockVars>>

-----------------------------------------------------------------------------
(* What is scheduled is what the last notice announced, under a delay that *)
(* is never below the minimum.  Inductive; the two properties rest on it.  *)
TimelockInv ==
    /\ TimelockTypeOK
    /\ upgradeDelay >= MinUpgradeDelay
    /\ scheduled # NoUpgrade =>
         /\ notice # NoUpgrade
         /\ notice.hash = scheduled.hash
         /\ notice.at = scheduled.at

(* New code runs only if it is the code last announced and at least        *)
(* MinUpgradeDelay after it was: whatever set_upgrade_delay, rescheduling  *)
(* and cancelling do in between, users have that long to leave.            *)
MinimumNotice ==
    [][wasm' # wasm => /\ notice # NoUpgrade
                       /\ wasm' = notice.hash
                       /\ now >= notice.at + MinUpgradeDelay]_<<now, timelockVars>>

(* New code never runs before the execute_after its upgrade_scheduled      *)
(* event told users (schedule_upgrade: "This gives users time to exit if   *)
(* they disagree with the upgrade").                                       *)
NoticeKept ==
    [][wasm' # wasm => now >= notice.execute_after]_<<now, timelockVars>>
=============================================================================
