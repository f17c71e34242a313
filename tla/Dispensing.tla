----------------------------- MODULE Dispensing -----------------------------
(***************************************************************************)
(* The two templates that recognise a payment by what custody has grown by *)
(* since a watermark in their own books, as one deployment sees them: the  *)
(* card dispenser and the pool.  template names the one that runs; the     *)
(* other's variables keep the value its Init gives them.                   *)
(***************************************************************************)
EXTENDS CardDispenser

CONSTANTS PoolGrid, PoolSupply, MinOuts, FeeNum, FeeDen, Locked, MaxShares

VARIABLES template, reserve, totalShares, lpInventory, poolHeld, outside

P == INSTANCE Amm WITH TickGrid <- PoolGrid, Supply <- PoolSupply, held <- poolHeld

ASSUME PoolAssumption == P!Assumption

-----------------------------------------------------------------------------
pool == <<reserve, totalShares, lpInventory, poolHeld, outside>>
all == <<template, vars, pool>>

OnlyDispenser == template = "cardDispenser" /\ UNCHANGED <<template, pool>>
OnlyPool == template = "amm" /\ UNCHANGED <<template, vars>>

DInit == template \in {"cardDispenser", "amm"} /\ Init /\ P!Init

DNext == \/ OnlyDispenser /\ Next
         \/ OnlyPool /\ P!Next

DSpec == DInit /\ [][DNext]_all

\* The fairness of the dispenser's FairSpec; the pool's Spec has none.
DFairness == WF_all(OnlyDispenser /\ \E a \in Addr : Draw(a))

-----------------------------------------------------------------------------
(* The properties of the pool, by names a run can give. *)

\* The pool's books agree with the ledger: see BooksMatchLedger there.
PoolBooksMatchLedger == P!BooksMatchLedger

\* No provider's share is diluted: see ShareValueNeverFalls there.
PoolShareValueNeverFalls == P!ShareValueNeverFalls
=============================================================================
