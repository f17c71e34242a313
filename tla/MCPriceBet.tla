----------------------------- MODULE MCPriceBet -----------------------------
(* Instances of PriceBet for TLC.  Two units make a base unit: a stake of 3   *)
(* lies exactly between two of them, where the ledger rounds up.  A node      *)
(* keeps two rounds, a call reads at most two.                                *)
EXTENDS PriceBet
=============================================================================
