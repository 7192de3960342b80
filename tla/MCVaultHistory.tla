---------------------------- MODULE MCVaultHistory ----------------------------
(* VaultHistory with the values TLC checks it for.                         *)
EXTENDS VaultHistory

(* Other suppliers have 6 in the pool, nothing is lent out yet.            *)
MCReserve == [b_supply |-> 6, b_rate |-> 1, d_supply |-> 0, d_rate |-> 1,
              backstop_credit |-> 1]

(* A b_token is worth 2 units, and so is a d_token.                        *)
MCInterest == [MCReserve EXCEPT !.b_rate = 2, !.d_rate = 2]
=============================================================================
