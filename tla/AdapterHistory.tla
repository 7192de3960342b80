---------------------------- MODULE AdapterHistory ----------------------------
(***************************************************************************)
(* BlendAdapter with the history of its roundings: what the margin of      *)
(* available_liquidity() is worth.                                         *)
(***************************************************************************)
EXTENDS BlendAdapter, RoundingHistory

historyVars == <<strategyVars, roundingVars>>

AdapterHistoryInit == StrategyInit /\ RoundingInit

AdapterHistoryNext == AdapterNext /\ Record /\ Bounded

AdapterHistorySpec == AdapterHistoryInit /\ [][AdapterHistoryNext]_historyVars

-----------------------------------------------------------------------------
(* Without bad debt, every quote can be withdrawn in full while the pool   *)
(* has rounded no more often than the margin pays for, although withdraw() *)
(* burns b_tokens by a rounding of its own and the pool has to keep enough *)
(* supplied for its borrowers.                                             *)
FewRoundingsAreDeliverable ==
    \A s \in Strategy :
        /\ reachable[s]
        /\ ~impaired[s]
        /\ roundings[s] * reserve[s].b_rate <= RoundingMargin * RateScalar
        => \A a \in 1..AvailableLiquidity(s) : CanPull(s, stVault[s], a)
=============================================================================
