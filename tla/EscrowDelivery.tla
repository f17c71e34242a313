--------------------------- MODULE EscrowDelivery ---------------------------
(***************************************************************************)
(* escrowDelivery/escrowDelivery.js: the escrow plus one more way to       *)
(* settle.  Anyone may ask the network to read a tracking page; when the   *)
(* answer carries the delivery marker, its callback pays the seller.       *)
(*                                                                         *)
(* The template carries its own copy of the escrow's methods; they are the *)
(* actions of module Escrow here.  The attestation network is external: it *)
(* answers a request once, in a later step, with a page that has the       *)
(* marker, one that has not, or a failure (an expired deadline included);  *)
(* the indexer then runs the callback once, in a step of its own, and any  *)
(* address may call the same method at any time.                           *)
(***************************************************************************)
EXTENDS Escrow

CONSTANT MaxRequests   \* bound: attestation requests made

ASSUME RequestAssumption == MaxRequests \in Nat

Requests == 1..MaxRequests
NoRequest == 0

VARIABLES pending,     \* the contract's pending key, NoRequest when absent
          answer,      \* external: what the network has settled per request
          injected     \* external: answered requests whose callback is to run

attestation == <<pending, answer, injected>>
dvars == <<vars, attestation>>

Answers == {"match", "nomatch", "failed"}

\* Init, with no request made
DInit == /\ Init
         /\ pending = NoRequest
         /\ answer = [r \in Requests |-> "unsent"]
         /\ injected = {}

-----------------------------------------------------------------------------
(* The network. *)

Answer(r) == /\ answer[r] = "open"
             /\ \E ans \in Answers : answer' = [answer EXCEPT ![r] = ans]
             /\ injected' = injected \cup {r}
             /\ UNCHANGED <<vars, pending>>

-----------------------------------------------------------------------------
(* The attestation methods. *)

\* The request ids are deterministic and fresh: the next one not used.
RequestDelivery == /\ status = "FUNDED"
                   /\ pending = NoRequest
                   /\ \E r \in Requests :
                        /\ answer[r] = "unsent"
                        /\ \A s \in 1..(r - 1) : answer[s] # "unsent"
                        /\ pending' = r
                        /\ answer' = [answer EXCEPT ![r] = "open"]
                   /\ UNCHANGED <<vars, injected>>

\* mutant: the callback is not pinned to the outstanding request
AnyRequest(r) == answer[r] # "unsent"
IsOutstanding(r) == r = pending

\* mutant: a failed answer counts as a delivery
NotNoMatch(r) == answer[r] # "nomatch"
ShowsDelivery(r) == answer[r] = "match"

\* mutant: a failed answer makes the callback revert
NotFailed(r) == answer[r] \in Answers \ {"failed"}
Answered(r) == answer[r] \in Answers

\* mutant: the escrow need not be FUNDED any more
FundedOrSettled == TRUE
StillFunded == status = "FUNDED"

\* onDelivery(r), called by the indexer or by anyone.
OnDelivery(r) ==
    /\ IsOutstanding(r)
    /\ pending' = NoRequest
    /\ \/ ~StillFunded /\ UNCHANGED vars
       \/ StillFunded /\ Answered(r) /\ ~ShowsDelivery(r) /\ UNCHANGED vars
       \/ StillFunded /\ ShowsDelivery(r) /\ Pay(NoOne, seller, "DELIVERED")

\* The indexer's one call; one that reverts is not repeated.
Callback(r) == /\ r \in injected
               /\ injected' = injected \ {r}
               /\ UNCHANGED answer
               /\ \/ OnDelivery(r)
                  \/ ~IsOutstanding(r) /\ UNCHANGED <<vars, pending>>

UserCallback(r) == OnDelivery(r) /\ UNCHANGED <<answer, injected>>

-----------------------------------------------------------------------------
(* The escrow's own methods, which leave the attestation state alone. *)

DFund == Fund /\ UNCHANGED attestation
DRelease(a) == Release(a) /\ UNCHANGED attestation
DRefund(a) == Refund(a) /\ UNCHANGED attestation

\* mutant: the reclaim waits for a pending check
TimeoutWhenIdle(a) == pending = NoRequest /\ Timeout(a) /\ UNCHANGED attestation
DTimeout(a) == Timeout(a) /\ UNCHANGED attestation
DCancel(a) == Cancel(a) /\ UNCHANGED attestation

DNext == \/ NextBlock /\ UNCHANGED attestation
         \/ \E a \in Addr : \E q \in 1..wallet[a] : Deposit(a, q) /\ UNCHANGED attestation
         \/ DFund
         \/ \E a \in Addr : DRelease(a) \/ DRefund(a) \/ DTimeout(a) \/ DCancel(a)
         \/ RequestDelivery
         \/ \E r \in Requests : Answer(r) \/ Callback(r) \/ UserCallback(r)

DSpec == DInit /\ [][DNext]_dvars

\* The buyer keeps calling timeout(); nothing is assumed of the network.
DFairBuyer == /\ DSpec
              /\ WF_dvars(NextBlock /\ UNCHANGED attestation)
              /\ WF_dvars(\E a \in Addr : DTimeout(a))

\* Assumed only where it is named: the network answers (or fails) each request
\* and the indexer runs the callbacks.
NetworkAnswers == \A r \in Requests : WF_dvars(Answer(r)) /\ WF_dvars(Callback(r))

-----------------------------------------------------------------------------
(* Type of every variable. *)
DTypeOK == /\ TypeOK
           /\ pending \in Requests \cup {NoRequest}
           /\ answer \in [Requests -> Answers \cup {"unsent", "open"}]
           /\ injected \in SUBSET Requests

(* The network, not a caller, decides a delivery: a delivered escrow has an  *)
(* answer that shows the marker, paid the seller in full, and was settled by *)
(* no party.                                                                 *)
DeliveryAttested ==
    status = "DELIVERED" => /\ \E r \in Requests : answer[r] = "match"
                            /\ settlement.by = NoOne
                            /\ settlement.payee = seller
                            /\ settlement.paid >= Amount

(* Every way out of a funded escrow is somebody's right: each outcome pays   *)
(* the party it names, in full, on that party's counterpart's word, the      *)
(* arbiter's, the network's, or after the deadline, with checks and old      *)
(* answers racing the manual calls.                                          *)
SettledRightly == PaidInFull /\ SettlementAuthorized /\ DeliveryAttested

(* A check in flight is never lost: while the escrow is funded, pending is   *)
(* cleared only when its own request has been answered, whatever old answers *)
(* are replayed.                                                             *)
CheckNotLost ==
    [][(pending # NoRequest /\ pending' = NoRequest /\ status = "FUNDED")
          => answer[pending] \in Answers]_dvars

(* The manual paths never go away: with the network dead and a check pending *)
(* for ever, a funded escrow is still settled once its deadline has passed.  *)
ReclaimWithoutNetwork ==
    (status = "FUNDED" /\ deadline <= MaxHeight) ~> (status \in Terminal)

(* If the network answers, a check does not stay pending: it settles the     *)
(* escrow or can be made again.                                              *)
CheckResolved == NetworkAnswers => ((pending # NoRequest) ~> (pending = NoRequest))
=============================================================================
