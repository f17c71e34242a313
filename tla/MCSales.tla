------------------------------ MODULE MCSales -------------------------------
(***************************************************************************)
(* An instance of Sales for TLC.  The variables of the two templates that  *)
(* do not run keep one value of their Init.                                *)
(*                                                                         *)
(* English: every address may be the seller; each holds one base unit of   *)
(* the item and two of the bid tick, enough for an off-grid itemAmount to  *)
(* be covered, for raises, for a stray deposit and for a bid counting it.  *)
(* Dutch: with a bid grid of 2, prices in 1..6 put the price on the grid,  *)
(* half way between two grid points and below one base unit, at the start, *)
(* on the way and at the end.                                              *)
(* Crowdsale: a base unit of payTick buys 2/3 of a base unit of saleTick,  *)
(* so that most payments leave change; two buyers can overfill the sale,   *)
(* and the owner may buy in it too.                                        *)
(***************************************************************************)
EXTENDS Sales

CONSTANTS a1, a2

MCItemFunds == [a \in Addr |-> IF a \in {a1, a2} THEN ItemGrid ELSE 0]
MCBidFunds == [a \in Addr |-> IF a = a1 THEN 1 ELSE 2]

MCDutchItems == [a \in {a1, a2} |-> ItemGrid]
MCDutchBids == [a \in {a1, a2} |-> 4]
MCPayFunds == [a \in Addr |-> IF a = a1 THEN 1 ELSE 4]

MCInit == /\ SInit
          /\ template # "english" => seller = a1 /\ itemAmount = ItemGrid
          /\ template # "dutch" => /\ dSeller = a1 /\ dItemAmount = ItemGrid
                                   /\ dStartPrice = 6 /\ dEndPrice = 1

MCFairSpec == MCInit /\ [][SNext]_all /\ SFairness
=============================================================================
