---------------------------- MODULE MCSafekeeping ----------------------------
(***************************************************************************)
(* An instance of Safekeeping for TLC.  The variables of the template that *)
(* does not run keep one value of their Init.                              *)
(*                                                                         *)
(* Escrow with delivery checks, and through it the escrow, whose           *)
(* behaviours are those in which nobody asks for a check: three addresses  *)
(* let every pair of roles coincide and leave a stranger when they do;     *)
(* their three base units can leave the agreed two short, met or exceeded. *)
(* Two requests are enough for an old answer to meet a newer check.        *)
(* Vesting: three units make a base unit and the grant vests over five     *)
(* blocks, so that no step of the schedule but the last is on the grid; 10 *)
(* is a total the grid cannot represent.                                   *)
(***************************************************************************)
EXTENDS Safekeeping

CONSTANTS a1, a2

MCGrantFunds == [a \in Parties |-> 9]

MCInit == /\ CInit
          /\ template = "escrowDelivery" =>
                /\ grantor = a1 /\ beneficiary = a2 /\ cliff = 0
                /\ revocable = TRUE /\ grant = 9
          /\ template = "vesting" => buyer = a1 /\ seller = a2 /\ arbiter = a1

MCFairSpec == MCInit /\ [][CNext]_all /\ CFairness
=============================================================================
