----------------------------- MODULE UrlOracle ------------------------------
(***************************************************************************)
(* urlOracle/urlOracle.js: anyone has the network read a page, and the     *)
(* callback stores what it says.  The template leaves its callback         *)
(* unpinned and its requester unrestricted, and says so (lines 24-39).     *)
(*                                                                         *)
(* The network is external: it answers a request once, with a body or with *)
(* a failure, and the callback is called by the indexer and by anyone.     *)
(* The url plays no part but in what the answer may be.                    *)
(***************************************************************************)
CONSTANT Bodies          \* external: what a page may say

VARIABLES price, pending,    \* the contract's keys, None when absent
          response,          \* external: answers to the last request and the one before
          attested           \* ghost: every body the network has agreed on

vars == <<price, pending, response, attested>>

None == "none"
Requests == {"previous", "last"}

Unsent == [status |-> "unsent", payload |-> None]
Open == [status |-> "open", payload |-> None]
Failed == [status |-> "failed", payload |-> "error"]

Init == /\ price = None
        /\ pending = None
        /\ response = [r \in Requests |-> Unsent]
        /\ attested = {}

Answer(r) == /\ response[r] = Open
             /\ \/ /\ response' = [response EXCEPT ![r] = Failed]
                   /\ UNCHANGED attested
                \/ \E body \in Bodies :
                      /\ response' = [response EXCEPT ![r] = [status |-> "ok", payload |-> body]]
                      /\ attested' = attested \cup {body}
             /\ UNCHANGED <<price, pending>>

\* A request made while one is pending takes its place, and the answer of the older
\* one stays there for onPrice().
RequestPrice == /\ response' = [previous |-> response["last"], last |-> Open]
                /\ pending' = "last"
                /\ UNCHANGED <<price, attested>>

\* mutant: the status is not looked at
AnyStatus(r) == response[r] \notin {Unsent, Open}
Settled(r) == response[r].status = "ok"

OnPrice(r) == /\ Settled(r)
              /\ price' = response[r].payload
              /\ pending' = None
              /\ UNCHANGED <<response, attested>>

Next == \/ RequestPrice
        \/ \E r \in Requests : Answer(r) \/ OnPrice(r)

Spec == Init /\ [][Next]_vars

(* Type of every variable. *)
TypeOK == /\ price \in Bodies \cup {None}
          /\ pending \in {None, "last"}
          /\ \A r \in Requests : response[r].status \in {"unsent", "open", "failed", "ok"}
          /\ attested \subseteq Bodies

(* Unpinned as the callback is, whoever calls it, in whatever order and with *)
(* whatever old request, the price is always one the network agreed on.      *)
OraclePriceAttested == price # None => price \in attested
=============================================================================
