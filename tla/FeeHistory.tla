------------------------------ MODULE FeeHistory ------------------------------
(***************************************************************************)
(* TezoroVault with a history of what the high-water mark was set from.  No*)
(* step of the code reads it.                                              *)
(***************************************************************************)
EXTENDS TezoroVault

(* MAX_PERFORMANCE_FEE_BPS = 3_000 of MAX_BPS = 10_000.                    *)
ASSUME FeeCapAssumption == MaxPerformanceFeeBps <= MaxBps

VARIABLE marked             \* supply and assets when the mark was set

feeVars == <<vars, marked>>

(* The mark begins at one unit a share, the price of an empty vault.       *)
FeeHistoryInit == Init /\ marked = [supply |-> 0, assets |-> 0]

FeeHistoryNext ==
    /\ Next
    /\ marked' = IF CollectFees THEN [supply |-> totalSupply', assets |-> TotalAssets']
                 ELSE marked

FeeHistorySpec == FeeHistoryInit /\ [][FeeHistoryNext]_feeVars

-----------------------------------------------------------------------------
(* What collect_fees() takes for yield: the assets above the mark.         *)
YieldAboveMark == CommittedAssets - (highWaterMark * totalSupply) \div NavPrecision

(* "No new yield -> no new fees" (test_fee_hwm_prevents_double_counting),  *)
(* as far as the code keeps it: while a share is worth no more than when   *)
(* the mark was set, whatever was deposited, redeemed, gained and lost     *)
(* since, what collect_fees() takes for yield is at most what the virtual  *)
(* shares hold of the vault's gains, V * (T - S) / (S + V), but for the    *)
(* rounding of the mark, 1 + S / NavPrecision.                             *)
NoYieldFromExits ==
    PriceNotLower(totalSupply, CommittedAssets, marked.supply, marked.assets) =>
        LET s == totalSupply + VirtualSharesOffset
        IN  YieldAboveMark * NavPrecision * s
              <= VirtualSharesOffset * (CommittedAssets - totalSupply) * NavPrecision
                   + (totalSupply + NavPrecision) * s
=============================================================================
