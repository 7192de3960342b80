---------------------------- MODULE MCBlendAdapter ----------------------------
(* The adapter with one strategy and a reserve of small numbers.           *)
EXTENDS BlendAdapter

MCCredits == {-1, 2}

(* 12 b_tokens of other suppliers at 1.0, half of them lent out.           *)
MCReserve == [b_supply |-> 12, b_rate |-> 10, d_supply |-> 6, d_rate |-> 10,
              backstop_credit |-> 2]

(* As above, with little interest on the books: a b_token is worth 1.1.    *)
MCLowInterest == [MCReserve EXCEPT !.b_rate = 11, !.d_rate = 11]

(* As above, with interest on the books: a b_token is worth 1.7.           *)
MCAccrued == [b_supply |-> 12, b_rate |-> 17, d_supply |-> 6, d_rate |-> 20,
              backstop_credit |-> 2]
=============================================================================
