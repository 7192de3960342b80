---------------------------- MODULE MCTezoroVault ----------------------------
(* TezoroVault with the values TLC checks it for.                          *)
EXTENDS TezoroVault, TLC

(* No action tells strategies apart: the list is in the state.             *)
StrategySymmetry == Permutations(Strategy)

(* Other suppliers have 6 in the pool, nothing is lent out yet.            *)
MCReserve == [b_supply |-> 6, b_rate |-> 1, d_supply |-> 0, d_rate |-> 1,
              backstop_credit |-> 1]
=============================================================================
