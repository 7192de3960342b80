--------------------------- MODULE MCAdapterHistory ---------------------------
(* AdapterHistory with the reserves of MCBlendAdapter.                     *)
EXTENDS AdapterHistory, MCBlendAdapter
=============================================================================
