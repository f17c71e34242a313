---------------------------- MODULE MCStableVault ----------------------------
(* Instances of StableVault for TLC.  The vaults share one pool and amounts  *)
(* off either grid are asked for.  Collateral 4 carries a debt of 8 at price *)
(* 3 by the relative tolerance alone (1200 against 1208, of which one in 151 *)
(* is 8) and collateral 2 a debt of 4 by either; neither does at price 2.  A *)
(* debt of 4 on collateral 4 is healthy at both prices, one of 6 at 3 only,  *)
(* and the seizure is then 3.3, off the collateral's grid.  What others mint *)
(* may use up the whole cap, and the debts may exceed it when loans have     *)
(* been destroyed.                                                           *)
EXTENDS StableVault, TLC

CONSTANTS a1, a2, a3

\* a3 comes by collateral or stable only through the others
MCFunds == [a \in Addr |-> IF a = a3 THEN 0 ELSE 4]
Symmetry == Permutations({a1, a2})
=============================================================================
