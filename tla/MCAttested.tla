----------------------------- MODULE MCAttested ------------------------------
(***************************************************************************)
(* An instance of Attested for TLC.                                        *)
(*                                                                         *)
(* Bridge: a base unit is two units and a burn of five of them is not a    *)
(* whole number; an exponent halves what the digits say.  Both holders     *)
(* burn, a third send is worth nothing and one is of another asset; a page *)
(* shows two of the three sends that land, and together they may exceed    *)
(* the supply.  Oracle: the page says one of two things.                   *)
(***************************************************************************)
EXTENDS Attested

CONSTANTS a1, a2

Burn(a, q) == [from |-> a, quantity |-> q, ours |-> TRUE]

MCSends == {Burn(a1, 5), Burn(a2, 5), Burn(a1, 1), [Burn(a2, 5) EXCEPT !.ours = FALSE]}
=============================================================================
