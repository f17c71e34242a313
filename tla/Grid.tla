-------------------------------- MODULE Grid --------------------------------
(***************************************************************************)
(* Decimal grids.  Amounts are counted in a unit fine enough for every     *)
(* amount the model speaks of; a tick's grid g is the number of those      *)
(* units in one base unit of the tick.  Ledger balances are multiples of   *)
(* g.  The templates bring computed amounts onto the grid by truncation    *)
(* (floorToDecimals); the indexer re-quantises every amount a contract     *)
(* emits, half up, when it writes the ledger.                              *)
(***************************************************************************)
EXTENDS Integers

FloorTo(q, g) == q - (q % g)

OnGrid(q, g) == FloorTo(q, g) = q

\* bcadd(amount, 0, decimals) of the indexer
HalfUp(q, g) == FloorTo(2 * q + g, 2 * g) \div 2
=============================================================================
