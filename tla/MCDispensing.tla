---------------------------- MODULE MCDispensing ----------------------------
(***************************************************************************)
(* An instance of Dispensing for TLC.  The variables of the template that  *)
(* does not run keep one value of their Init.                              *)
(*                                                                         *)
(* Dispenser: a base unit of y is three units, so that a copy of one unit  *)
(* cannot be expressed in it and a copy of three can, unless it is spelled *)
(* with a digit too many; x is a card twice in one deck, and one deck      *)
(* holds payTick.  Pool: one tick has a coarser grid than the shares, the  *)
(* fee is a quarter, the LP supply can run out.                            *)
(***************************************************************************)
EXTENDS Dispensing, TLC

CONSTANTS a1, a2

MCUnits == {[value |-> 1, digit |-> 1, plain |-> TRUE],
            [value |-> 3, digit |-> 3, plain |-> TRUE],
            [value |-> 3, digit |-> 1, plain |-> TRUE],
            [value |-> 1, digit |-> 1, plain |-> FALSE]}
MCDecks == {<<"x", "y">>, <<"y", "x", "x">>, <<"y">>, <<"x", "pay">>}
MCGrids == ("pay" :> 1) @@ ("x" :> 1) @@ ("y" :> 3)
MCFunds == (a1 :> [t \in Ticks |-> IF t = "pay" THEN 1 ELSE 3])
        @@ (a2 :> [t \in Ticks |-> IF t = "pay" THEN 3 ELSE 0])

MCPoolGrid == ("A" :> 1) @@ ("B" :> 2)
MCPoolSupply == ("A" :> 9) @@ ("B" :> 12)

MCInit == /\ DInit
          /\ template = "amm" => price = 2 /\ unit.value = 1 /\ Len(cards) = 1

MCFairSpec == MCInit /\ [][DNext]_all /\ DFairness
=============================================================================
