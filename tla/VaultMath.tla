------------------------------ MODULE VaultMath ------------------------------
(***************************************************************************)
(* The share arithmetic of tezoro-vault.  Assets and shares are integers   *)
(* (7-decimal stroops); every division rounds towards zero, and no         *)
(* dividend is negative, so \div is Rust's `/`.                            *)
(***************************************************************************)
EXTENDS Integers, FiniteSets

CONSTANTS
    VirtualSharesOffset,    \* 1_000_000 in the code
    NavPrecision,           \* 10_000_000 in the code
    MaxBps                  \* 10_000 in the code

ASSUME MathAssumption ==
    /\ VirtualSharesOffset \in Nat \ {0}
    /\ NavPrecision \in Nat \ {0}
    /\ MaxBps \in Nat \ {0}

(* The sum of f over S, as the number of pairs <<x, k>> with k in 1..f[x]: *)
(* a definition without recursion, for f with natural values.              *)
UnitsOf(f, S) == UNION {{x} \X (1..f[x]) : x \in S}
SumOver(f, S) == Cardinality(UnitsOf(f, S))

Least(a, b) == IF a < b THEN a ELSE b

(* The saturating subtraction of the tracked balances.  Mutated first: a   *)
(* plain one.                                                              *)
PlainMinus(a, b) == a - b

Monus(a, b) == IF b > a THEN 0 ELSE a - b

-----------------------------------------------------------------------------
(* Mutated: the virtual offset is missing from the assets.                 *)
ToSharesNoOffset(assets, supply, total) ==
    (assets * (supply + VirtualSharesOffset)) \div (IF total = 0 THEN 1 ELSE total)

ToShares(assets, supply, total) ==
    (assets * (supply + VirtualSharesOffset)) \div (total + VirtualSharesOffset)

(* Mutated: assets are rounded up, in favour of who redeems.               *)
ToAssetsRoundedUp(shares, supply, total) ==
    (shares * (total + VirtualSharesOffset) + supply + VirtualSharesOffset - 1)
        \div (supply + VirtualSharesOffset)

ToAssets(shares, supply, total) ==
    (shares * (total + VirtualSharesOffset)) \div (supply + VirtualSharesOffset)

(* Net asset value per share, scaled: unlike the price of a share it knows *)
(* no virtual offset.                                                      *)
Nav(supply, total) == (total * NavPrecision) \div supply

(* The fee, in assets and in shares, on what lies above the high-water     *)
(* mark.                                                                   *)
FeeAssets(supply, total, mark, feeBps) ==
    ((total - (mark * supply) \div NavPrecision) * feeBps) \div MaxBps

(* Mutated: the fee is on all assets, not on the yield above the mark.     *)
FeeSharesOnAll(supply, total, mark, feeBps) ==
    ToShares((total * feeBps) \div MaxBps, supply, total)

FeeShares(supply, total, mark, feeBps) ==
    ToShares(FeeAssets(supply, total, mark, feeBps), supply, total)

(* A share of the second pair <<supply, total>> is worth at least what one *)
(* of the first is: the prices (total + V) / (supply + V), cross-multiplied*)
PriceNotLower(supply1, total1, supply2, total2) ==
    (total2 + VirtualSharesOffset) * (supply1 + VirtualSharesOffset)
        >= (total1 + VirtualSharesOffset) * (supply2 + VirtualSharesOffset)
=============================================================================
