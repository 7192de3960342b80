----------------------------- MODULE MCFeeHistory -----------------------------
(* FeeHistory with the values of MCTezoroVault.                            *)
EXTENDS FeeHistory, MCTezoroVault
=============================================================================
