------------------------------- MODULE MCKeeper -------------------------------
(* Keeper with the values TLC checks it for.                               *)
EXTENDS Keeper

(* Other suppliers have 6 in the pool, nothing is lent out yet.            *)
MCReserve == [b_supply |-> 6, b_rate |-> 1, d_supply |-> 0, d_rate |-> 1,
              backstop_credit |-> 1]
=============================================================================
