----------------------------- MODULE BlendAdapter -----------------------------
(***************************************************************************)
(* The blend-strategy contract on its own: its vault deposits, withdraws   *)
(* and drains in any order and amount, its admin changes every setting,    *)
(* and the pool moves in between.  The module states what a vault may rely *)
(* on; TezoroVault composes the same operators with the vault's own code.  *)
(***************************************************************************)
EXTENDS BlendStrategy

CONSTANTS
    CallAmounts,            \* the amounts the vault asks for
    MaxTracked,             \* bound on what the vault deposits
    MaxCollateral           \* bound on the b_tokens of a position

ASSUME AdapterAssumption ==
    CallAmounts \subseteq Int /\ MaxTracked \in Nat /\ MaxCollateral \in Nat

VaultCalls ==
    \E s \in Strategy, caller \in {Vault, OtherVault} :
        \/ \E amount \in CallAmounts :
             \/ /\ stTracked[s] + amount <= MaxTracked
                /\ collateral[s] + Minted(s, amount) <= MaxCollateral
                /\ StrategyDeposit(s, caller, amount)
             \/ StrategyWithdraw(s, caller, amount)
        \/ StrategyDrain(s, caller)

AdminDrains == \E s \in Strategy, caller \in StrategyOperator : StrategyDrain(s, caller)

PoolMoves == PoolEnvironment /\ UNCHANGED <<stTracked, stConfigVars>>

AdapterNext == VaultCalls \/ AdminDrains \/ StrategySettings \/ PoolMoves

AdapterSpec == StrategyInit /\ [][AdapterNext]_strategyVars

-----------------------------------------------------------------------------
(* Every amount up to the quote can be withdrawn: with a pool that answers *)
(* and a position no more than the margin short of the tracked balance,    *)
(* withdraw() does not fail for the rounding inside the pool.  (The margin *)
(* covers one rounding of up to RoundingMargin units, so b_rate is bounded)*)
QuoteIsDeliverable ==
    \A s \in Strategy :
        /\ reachable[s]
        /\ reserve[s].b_rate <= RoundingMargin * RateScalar
        /\ Position(s) + RoundingMargin >= stTracked[s]
        => \A a \in 1..AvailableLiquidity(s) : CanPull(s, stVault[s], a)

(* An emergency withdrawal leaves nothing the pool would pay out: interest *)
(* above the tracked balance and losses below it are drained as they are   *)
(* ("Uses actual pool position instead of tracked balance").               *)
DrainLeavesNothing ==
    [][\A s \in Strategy :
         (\E caller \in {Vault, OtherVault} \cup StrategyOperator : StrategyDrain(s, caller))
            /\ reachable[s] => Position(s)' = 0]_strategyVars

(* "A stale or unreachable pool should not silently promise more than we   *)
(* can deliver" (available_liquidity).                                     *)
NoPromiseOfUnreachable ==
    \A s \in Strategy : ~reachable[s] =>
        \A a \in 1..AvailableLiquidity(s) : CanPull(s, stVault[s], a)

(* The margin "eliminates the race" of a quote with the pool's rounding    *)
(* (README): with a pool that answers and no bad debt, what is quoted can  *)
(* be withdrawn.                                                           *)
MarginEliminatesRace ==
    \A s \in Strategy : reachable[s] =>
        \A a \in 1..AvailableLiquidity(s) : CanPull(s, stVault[s], a)

(* A strategy is not healthy while the pool's utilisation, the part of the *)
(* supplied underlying that is borrowed, exceeds the configured ceiling    *)
(* ("returns false when the pool's utilization exceeds the configured      *)
(* ceiling", README).                                                      *)
HealthyMeansBelowCeiling ==
    \A s \in Strategy :
        IsHealthy(s) /\ Supplied(reserve[s]) > 0 =>
            (Borrowed(reserve[s]) * MaxBps) \div Supplied(reserve[s]) <= maxUtilization[s]
=============================================================================
