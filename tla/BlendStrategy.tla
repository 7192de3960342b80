---------------------------- MODULE BlendStrategy ----------------------------
(***************************************************************************)
(* The blend-strategy contract: the adapter between a vault and one Blend  *)
(* pool.  Its cross-contract calls are one step together with the pool     *)
(* operation they end in.  What the vault calls is written as a pair, the  *)
(* condition under which the call succeeds (CanDeposit, CanPull, CanDrain) *)
(* and the action: a call that fails traps the caller's transaction.       *)
(*                                                                         *)
(* The strategy forwards what it receives within the call, so between      *)
(* calls it holds none of the asset itself.                                *)
(***************************************************************************)
EXTENDS BlendPool, VaultMath

CONSTANTS
    Vault,                  \* the address of the vault
    OtherVault,             \* an address set_vault may point to instead
    NoVault,                \* before initialize
    Uninitialized,          \* the strategies deployed and not yet initialised
    StrategyOperator,       \* the addresses that may be the strategy's admin
    NoStrategyAdmin,        \* no pending admin
    InitialStrategyAdmin,
    RoundingMargin,         \* AVAILABLE_LIQUIDITY_ROUNDING_MARGIN
    DefaultMaxUtilization,
    DefaultMinBackstop,
    DefaultApprovalBuffer,
    MaxApprovalBuffer,      \* the longest an allowance may live, the network's
    UtilizationChoices,
    BackstopChoices,
    ApprovalChoices,        \* the buffers an admin sets
    EmissionChoices,        \* the reward tokens the pool has for a claim
    MaxClaimed,             \* bound on the reward tokens claimed
    StrategyPauseChoices,   \* subset of BOOLEAN: may the admin pause and unpause
    NewStrategyAdmin,       \* the addresses an admin proposes
    NewVault                \* the vaults an admin may point the strategy to

ASSUME StrategyAssumption ==
    /\ Vault # OtherVault
    /\ {Vault, OtherVault} \cap StrategyOperator = {}
    /\ NoStrategyAdmin \notin StrategyOperator \cup {Vault, OtherVault}
    /\ NoVault \notin StrategyOperator \cup {Vault, OtherVault}
    /\ Uninitialized \subseteq Strategy
    /\ InitialStrategyAdmin \in StrategyOperator
    /\ RoundingMargin \in Nat
    /\ DefaultMaxUtilization \in 0..MaxBps
    /\ DefaultMinBackstop \in 0..MaxBps
    /\ DefaultApprovalBuffer \in Nat
    /\ MaxApprovalBuffer \in Nat
    /\ UtilizationChoices \subseteq Nat
    /\ BackstopChoices \subseteq Nat
    /\ ApprovalChoices \subseteq Nat
    /\ EmissionChoices \subseteq Nat
    /\ MaxClaimed \in Nat
    /\ StrategyPauseChoices \subseteq BOOLEAN
    /\ NewStrategyAdmin \subseteq StrategyOperator
    /\ NewVault \subseteq {Vault, OtherVault}

VARIABLES
    stTracked,              \* the strategy's own TrackedBalance
    stVault,
    stAdmin,
    stPendingAdmin,
    stPaused,
    maxUtilization,
    minBackstop,
    approvalBuffer,         \* ApprovalLedgerBuffer
    claimed                 \* reward tokens the contract holds

stRoleVars == <<stVault, stAdmin, stPendingAdmin>>
stLimitVars    == <<stPaused, maxUtilization, minBackstop, approvalBuffer>>

(* All that moving the asset leaves alone.                                 *)
stConfigVars == <<stRoleVars, stLimitVars, claimed>>
strategyVars == <<stTracked, stConfigVars, poolVars>>

StrategyTypeOK ==
    /\ PoolTypeOK
    /\ stTracked \in [Strategy -> Nat]
    /\ stVault \in [Strategy -> {Vault, OtherVault, NoVault}]
    /\ stAdmin \in [Strategy -> StrategyOperator \cup {NoStrategyAdmin}]
    /\ stPendingAdmin \in [Strategy -> StrategyOperator \cup {NoStrategyAdmin}]
    /\ stPaused \in [Strategy -> BOOLEAN]
    /\ maxUtilization \in [Strategy -> 0..MaxBps]
    /\ minBackstop \in [Strategy -> 0..MaxBps]
    /\ approvalBuffer \in [Strategy -> Nat]
    /\ claimed \in [Strategy -> Nat]

(* Storage before initialize, and what initialize leaves; the getters of   *)
(* the limits have the defaults it sets.                                   *)
StrategyInit ==
    /\ PoolInit
    /\ stTracked = [s \in Strategy |-> 0]
    /\ stVault = [s \in Strategy |-> IF s \in Uninitialized THEN NoVault ELSE Vault]
    /\ stAdmin = [s \in Strategy |-> IF s \in Uninitialized THEN NoStrategyAdmin
                                                            ELSE InitialStrategyAdmin]
    /\ stPendingAdmin = [s \in Strategy |-> NoStrategyAdmin]
    /\ stPaused = [s \in Strategy |-> FALSE]
    /\ maxUtilization = [s \in Strategy |-> DefaultMaxUtilization]
    /\ minBackstop = [s \in Strategy |-> DefaultMinBackstop]
    /\ approvalBuffer = [s \in Strategy |-> DefaultApprovalBuffer]
    /\ claimed = [s \in Strategy |-> 0]

-----------------------------------------------------------------------------
(* Views.                                                                  *)

(* What available_liquidity() answers for a tracked balance t, a reserve r  *)
(* and a pool that answers iff up: all that is tracked, capped by the       *)
(* pool's free liquidity, less the margin.  A pool that does not answer     *)
(* caps nothing.  (With t = 0 the code returns 0 at once; so does this.)    *)
(* Mutated first: without the margin.                                       *)
QuoteWithoutMargin(t, r, up) == IF up THEN Least(Supplied(r) - Borrowed(r), t) ELSE t

Quote(t, r, up) ==
    Monus(IF up THEN Least(Supplied(r) - Borrowed(r), t) ELSE t, RoundingMargin)

AvailableLiquidity(s) == Quote(stTracked[s], reserve[s], reachable[s])

(* is_healthy(), which traps before initialize.  Utilisation is the ratio  *)
(* of the raw token counts, debts in d_tokens to supplies in b_tokens.     *)
IsHealthy(s) ==
    LET r == reserve[s]
    IN  /\ stVault[s] # NoVault
        /\ reachable[s]
        /\ r.b_supply > 0 => (r.d_supply * MaxBps) \div r.b_supply <= maxUtilization[s]
        /\ r.backstop_credit >= 0
        /\ r.b_supply > 0 => (r.backstop_credit * MaxBps) \div r.b_supply >= minBackstop[s]

(* query_pool_position(): the tracked balance stands in for a pool that    *)
(* does not answer.                                                        *)
PoolPosition(s) == IF reachable[s] THEN Position(s) ELSE stTracked[s]

-----------------------------------------------------------------------------
(* What the vault calls.                                                   *)

CanDeposit(s, caller, amount) ==
    /\ caller = stVault[s]
    /\ ~stPaused[s]
    /\ amount > 0
    /\ approvalBuffer[s] <= MaxApprovalBuffer
    /\ CanSupply(s, amount)

(* deposit(): the amount was transferred to the strategy beforehand.  The  *)
(* asset refuses an allowance that would outlive its storage.              *)
StrategyDeposit(s, caller, amount) ==
    /\ CanDeposit(s, caller, amount)
    /\ PoolSupply(s, amount)
    /\ stTracked' = [stTracked EXCEPT ![s] = @ + amount]
    /\ UNCHANGED stConfigVars

(* withdraw() gives at most what the strategy tracks, and returns it.      *)
(* Mutated first: it gives what is asked.                                  *)
WithdrawnUncapped(s, amount) == amount

Withdrawn(s, amount) == Least(amount, stTracked[s])

CanPull(s, caller, amount) ==
    /\ caller = stVault[s]
    /\ amount > 0
    /\ Withdrawn(s, amount) > 0
    /\ CanWithdraw(s, Withdrawn(s, amount))

StrategyWithdraw(s, caller, amount) ==
    /\ CanPull(s, caller, amount)
    /\ PoolWithdraw(s, Withdrawn(s, amount))
    /\ stTracked' = [stTracked EXCEPT ![s] = @ - Withdrawn(s, amount)]
    /\ UNCHANGED stConfigVars

CanDrain(s, caller) ==
    /\ caller \in {stVault[s], stAdmin[s]}
    /\ PoolPosition(s) > 0 => CanWithdraw(s, PoolPosition(s))

(* Mutated: the tracked balance is drained, not the position.              *)
StrategyDrainTracked(s, caller) ==
    /\ caller \in {stVault[s], stAdmin[s]}
    /\ stTracked[s] > 0 => CanWithdraw(s, stTracked[s])
    /\ IF stTracked[s] > 0 THEN PoolWithdraw(s, stTracked[s]) ELSE UNCHANGED poolVars
    /\ stTracked' = [stTracked EXCEPT ![s] = 0]
    /\ UNCHANGED stConfigVars

(* Mutated: the tracked balance outlives the position.                     *)
StrategyDrainKeepsTracked(s, caller) ==
    /\ CanDrain(s, caller)
    /\ IF PoolPosition(s) > 0 THEN PoolWithdraw(s, PoolPosition(s)) ELSE UNCHANGED poolVars
    /\ UNCHANGED <<stTracked, stConfigVars>>

(* emergency_withdraw(): the position goes to stVault[s], whoever calls.   *)
StrategyDrain(s, caller) ==
    /\ CanDrain(s, caller)
    /\ IF PoolPosition(s) > 0 THEN PoolWithdraw(s, PoolPosition(s)) ELSE UNCHANGED poolVars
    /\ stTracked' = [stTracked EXCEPT ![s] = 0]
    /\ UNCHANGED stConfigVars

-----------------------------------------------------------------------------
(* What the strategy's admin calls.                                        *)

(* initialize(): once.  The balance it zeroes is zero before it.           *)
StrategyInitialize(s, caller, vault) ==
    /\ stVault[s] = NoVault
    /\ stAdmin' = [stAdmin EXCEPT ![s] = caller]
    /\ stVault' = [stVault EXCEPT ![s] = vault]
    /\ stPaused' = [stPaused EXCEPT ![s] = FALSE]
    /\ maxUtilization' = [maxUtilization EXCEPT ![s] = DefaultMaxUtilization]
    /\ minBackstop' = [minBackstop EXCEPT ![s] = DefaultMinBackstop]
    /\ approvalBuffer' = [approvalBuffer EXCEPT ![s] = DefaultApprovalBuffer]
    /\ stTracked' = [stTracked EXCEPT ![s] = 0]
    /\ UNCHANGED <<stPendingAdmin, claimed, poolVars>>

StrategySetPaused(s, caller, p) ==
    /\ caller = stAdmin[s]
    /\ stPaused' = [stPaused EXCEPT ![s] = p]
    /\ UNCHANGED <<stTracked, stRoleVars, maxUtilization, minBackstop, approvalBuffer>>
    /\ UNCHANGED <<claimed, poolVars>>

StrategyProposeAdmin(s, caller, new) ==
    /\ caller = stAdmin[s]
    /\ stPendingAdmin' = [stPendingAdmin EXCEPT ![s] = new]
    /\ UNCHANGED <<stTracked, stVault, stAdmin, stLimitVars, claimed, poolVars>>

StrategyAcceptAdmin(s, caller) ==
    /\ caller = stPendingAdmin[s]
    /\ stAdmin' = [stAdmin EXCEPT ![s] = caller]
    /\ stPendingAdmin' = [stPendingAdmin EXCEPT ![s] = NoStrategyAdmin]
    /\ UNCHANGED <<stTracked, stVault, stLimitVars, claimed, poolVars>>

StrategySetVault(s, caller, new) ==
    /\ caller = stAdmin[s]
    /\ stVault' = [stVault EXCEPT ![s] = new]
    /\ UNCHANGED <<stTracked, stAdmin, stPendingAdmin, stLimitVars, claimed, poolVars>>

SetMaxUtilization(s, caller, bps) ==
    /\ caller = stAdmin[s]
    /\ bps <= MaxBps
    /\ maxUtilization' = [maxUtilization EXCEPT ![s] = bps]
    /\ UNCHANGED <<stTracked, stRoleVars, stPaused, minBackstop, approvalBuffer>>
    /\ UNCHANGED <<claimed, poolVars>>

SetMinBackstopCoverage(s, caller, bps) ==
    /\ caller = stAdmin[s]
    /\ bps <= MaxBps
    /\ minBackstop' = [minBackstop EXCEPT ![s] = bps]
    /\ UNCHANGED <<stTracked, stRoleVars, stPaused, maxUtilization, approvalBuffer>>
    /\ UNCHANGED <<claimed, poolVars>>

(* set_approval_buffer(): any u32 is taken.                                *)
SetApprovalBuffer(s, caller, buffer) ==
    /\ caller = stAdmin[s]
    /\ approvalBuffer' = [approvalBuffer EXCEPT ![s] = buffer]
    /\ UNCHANGED <<stTracked, stRoleVars, stPaused, maxUtilization, minBackstop>>
    /\ UNCHANGED <<claimed, poolVars>>

(* harvest(): the reward tokens stay in the contract, which has no call    *)
(* that moves them; a pool that does not answer gives none.                *)
Harvest(s, caller) ==
    /\ caller \in {stVault[s], stAdmin[s]}
    /\ reachable[s]
    /\ \E n \in EmissionChoices : /\ claimed[s] + n <= MaxClaimed
                                  /\ claimed' = [claimed EXCEPT ![s] = @ + n]
    /\ UNCHANGED <<stTracked, stRoleVars, stLimitVars, poolVars>>

StrategySettings ==
    \E s \in Strategy, caller \in StrategyOperator :
        \/ \E vault \in {Vault, OtherVault} : StrategyInitialize(s, caller, vault)
        \/ Harvest(s, caller)
        \/ \E p \in StrategyPauseChoices : StrategySetPaused(s, caller, p)
        \/ \E new \in NewStrategyAdmin : StrategyProposeAdmin(s, caller, new)
        \/ StrategyAcceptAdmin(s, caller)
        \/ \E new \in NewVault : StrategySetVault(s, caller, new)
        \/ \E bps \in UtilizationChoices : SetMaxUtilization(s, caller, bps)
        \/ \E bps \in BackstopChoices : SetMinBackstopCoverage(s, caller, bps)
        \/ \E buffer \in ApprovalChoices : SetApprovalBuffer(s, caller, buffer)

-----------------------------------------------------------------------------
(* Types, and the b_tokens a strategy holds are b_tokens in being.         *)
StrategyInv ==
    /\ StrategyTypeOK
    /\ \A s \in Strategy : collateral[s] <= reserve[s].b_supply
=============================================================================
