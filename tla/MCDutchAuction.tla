--------------------------- MODULE MCDutchAuction ---------------------------
(* Instances of DutchAuction for TLC.  With a bid grid of 2, start and end   *)
(* prices in 1..6 put the price on the grid, half way between two grid  *)
(* points and below one base unit, at the start, on the way and at the end.  *)
EXTENDS DutchAuction

MCItemFunds == [a \in Addr |-> ItemGrid]
MCBidFunds == [a \in Addr |-> 2 * BidGrid]
=============================================================================
