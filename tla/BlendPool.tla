------------------------------ MODULE BlendPool ------------------------------
(***************************************************************************)
(* The Blend lending pool a strategy supplies to.  The pool is not part of *)
(* this repository: it is modelled from how blend-strategy reads and calls *)
(* it (get_reserve, get_positions, submit) and from the rounding the       *)
(* strategy's comments say it applies.  Each strategy has its own pool.    *)
(*                                                                         *)
(* A pool keeps supplies in b_tokens and debts in d_tokens, each worth     *)
(* rate / RateScalar units of the underlying asset.                        *)
(***************************************************************************)
EXTENDS Integers

CONSTANTS
    Strategy,               \* the strategies, and so the pools
    RateScalar,             \* BLEND_RATE_SCALAR, 10^12 in the code
    InitialReserve,         \* the reserve before the strategy supplies
    DebtChoices,            \* d_supply others may bring about by borrowing, repaying
    OthersChoices,          \* b_tokens the other suppliers may hold
    RateChoices,            \* the values of b_rate and d_rate
    CreditChoices,          \* the values of backstop_credit
    OutageChoices           \* subset of BOOLEAN: may the pool go and come back

Reserve == [b_supply : Nat, b_rate : Nat \ {0}, d_supply : Nat, d_rate : Nat \ {0},
            backstop_credit : Int]

ASSUME PoolAssumption ==
    /\ RateScalar \in Nat \ {0}
    /\ InitialReserve \in Reserve
    /\ DebtChoices \subseteq Nat
    /\ OthersChoices \subseteq Nat
    /\ RateChoices \subseteq Nat \ {0}
    /\ CreditChoices \subseteq Int
    /\ OutageChoices \subseteq BOOLEAN

VARIABLES
    reserve,                \* get_reserve(asset).data of each strategy's pool
    collateral,             \* b_tokens of the strategy: get_positions
    reachable               \* the pool answers calls

poolVars == <<reserve, collateral, reachable>>

PoolTypeOK ==
    /\ reserve \in [Strategy -> Reserve]
    /\ collateral \in [Strategy -> Nat]
    /\ reachable \in [Strategy -> BOOLEAN]

PoolInit ==
    /\ reserve = [s \in Strategy |-> InitialReserve]
    /\ collateral = [s \in Strategy |-> 0]
    /\ reachable = [s \in Strategy |-> TRUE]

-----------------------------------------------------------------------------
Supplied(r) == (r.b_supply * r.b_rate) \div RateScalar
Borrowed(r) == (r.d_supply * r.d_rate) \div RateScalar

(* The underlying the strategy's b_tokens are worth.                       *)
Position(s) == (collateral[s] * reserve[s].b_rate) \div RateScalar

(* b_tokens minted for a supply round down; burnt for a withdrawal, up.    *)
Minted(s, amount) == (amount * RateScalar) \div reserve[s].b_rate
Burnt(s, amount) ==
    (amount * RateScalar + reserve[s].b_rate - 1) \div reserve[s].b_rate

CanSupply(s, amount) == reachable[s] /\ Minted(s, amount) > 0

(* submit(SupplyCollateral).                                               *)
PoolSupply(s, amount) ==
    /\ CanSupply(s, amount)
    /\ reserve' = [reserve EXCEPT ![s].b_supply = @ + Minted(s, amount)]
    /\ collateral' = [collateral EXCEPT ![s] = @ + Minted(s, amount)]
    /\ UNCHANGED reachable

(* The pool burns no more b_tokens than the position has, and then pays    *)
(* less than was asked: the strategy cannot forward what it did not get,   *)
(* so its call fails as a whole.  Nor does the pool let a withdrawal       *)
(* leave less supplied than is borrowed.                                   *)
CanWithdraw(s, amount) ==
    /\ reachable[s]
    /\ Burnt(s, amount) <= collateral[s]
    /\ Supplied([reserve[s] EXCEPT !.b_supply = @ - Burnt(s, amount)]) >= Borrowed(reserve[s])

(* submit(WithdrawCollateral).                                             *)
PoolWithdraw(s, amount) ==
    /\ CanWithdraw(s, amount)
    /\ reserve' = [reserve EXCEPT ![s].b_supply = @ - Burnt(s, amount)]
    /\ collateral' = [collateral EXCEPT ![s] = @ - Burnt(s, amount)]
    /\ UNCHANGED reachable

-----------------------------------------------------------------------------
(* What everyone else does to the pool.  A move keeps it solvent: what is  *)
(* borrowed was supplied.                                                  *)
ReserveMove(s, new) ==
    /\ Supplied(new) >= Borrowed(new)
    /\ new # reserve[s]
    /\ reserve' = [reserve EXCEPT ![s] = new]
    /\ UNCHANGED <<collateral, reachable>>

BorrowOrRepay(s) ==
    \E d \in DebtChoices : ReserveMove(s, [reserve[s] EXCEPT !.d_supply = d])

OthersSupplyOrWithdraw(s) ==
    \E b \in OthersChoices : ReserveMove(s, [reserve[s] EXCEPT !.b_supply = collateral[s] + b])

(* Interest: both rates grow.                                              *)
Accrue(s) ==
    \E br, dr \in RateChoices :
        /\ br >= reserve[s].b_rate
        /\ dr >= reserve[s].d_rate
        /\ ReserveMove(s, [reserve[s] EXCEPT !.b_rate = br, !.d_rate = dr])

(* Bad debt: debts are written off and suppliers bear the loss.            *)
WriteOff(s) ==
    \E br \in RateChoices, d \in DebtChoices :
        /\ br < reserve[s].b_rate
        /\ d < reserve[s].d_supply
        /\ ReserveMove(s, [reserve[s] EXCEPT !.b_rate = br, !.d_supply = d])

BackstopMoves(s) ==
    \E c \in CreditChoices : ReserveMove(s, [reserve[s] EXCEPT !.backstop_credit = c])

Outage(s) ==
    \E up \in OutageChoices :
        /\ up # reachable[s]
        /\ reachable' = [reachable EXCEPT ![s] = up]
        /\ UNCHANGED <<reserve, collateral>>

PoolEnvironment ==
    \E s \in Strategy :
        \/ BorrowOrRepay(s)
        \/ OthersSupplyOrWithdraw(s)
        \/ Accrue(s)
        \/ WriteOff(s)
        \/ BackstopMoves(s)
        \/ Outage(s)
=============================================================================
