----------------------------- MODULE Governance ------------------------------
(***************************************************************************)
(* The two contracts through which the holders of a token or its owner     *)
(* govern it, as one deployment sees them: the treasury, and the guard the *)
(* policy generator emits.  template names the one that runs; the other's  *)
(* variables keep the value its Init gives them.                           *)
(***************************************************************************)
EXTENDS Treasury

CONSTANTS Callers, WellFormed, Base58Check, Bech32, Settlements, Configs, MaxBps, ProtocolMax

VARIABLES template, raw, cfg, store, intent

G == INSTANCE PolicyGuard WITH Addr <- Callers

ASSUME PolicyAssumption == G!Assumption

-----------------------------------------------------------------------------
policy == <<raw, cfg, store, intent>>
all == <<template, vars, policy>>

OnlyTreasury == template = "treasury" /\ UNCHANGED <<template, policy>>
OnlyPolicy == template = "policy" /\ UNCHANGED <<template, vars>>

GInit == template \in {"treasury", "policy"} /\ Init /\ G!Init

GNext == \/ OnlyTreasury /\ Next
         \/ OnlyPolicy /\ G!Next

GSpec == GInit /\ [][GNext]_all

-----------------------------------------------------------------------------
(* The properties of the guard that is deployed, by names a run can give. *)

\* The guard denies what the config and its owner deny: see PolicyGuard.
GuardMatchesPolicy == template = "policy" => G!GuardMatchesPolicy

\* Nothing emitted is missing and nothing is dead: see PolicyGuard.
EmittedClosed == template = "policy" => G!EmittedClosed

\* What the generator can see to, the chain takes: see PolicyGuard.
ChainAccepts == template = "policy" => G!ChainAccepts
=============================================================================
