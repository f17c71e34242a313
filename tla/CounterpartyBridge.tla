------------------------- MODULE CounterpartyBridge -------------------------
(***************************************************************************)
(* counterpartyBridge/counterpartyBridge.js: a holder who burned cpAsset   *)
(* on Counterparty has the network read the newest page of the burn        *)
(* address' feed, and is sent as much of xchainTick for every burn of      *)
(* theirs that was not credited before.                                    *)
(*                                                                         *)
(* Counterparty, its API and the attestation network are external: sends   *)
(* land on the burn address at any time, and a request is answered once,   *)
(* by the page of that moment, by a body with no rows (malformed, or of    *)
(* another shape) or by a failure.  The page spells each quantity plainly  *)
(* or with an exponent.  A send is named by its place in the feed, which   *)
(* stands for its tx_hash.                                                 *)
(*                                                                         *)
(* Quantities are counted in a unit of which TickGrid make one base unit   *)
(* of xchainTick.  No method reads the contract's own balance, so deposits *)
(* back into it are left out.                                              *)
(***************************************************************************)
EXTENDS Grid, Functions, Sequences

CONSTANTS Addr,
          TickGrid,
          Radix,        \* what an exponent scales its mantissa by
          MaxSupply,    \* maxSupply
          PageSize,     \* the limit in the requested URL
          Sends,        \* external: the sends that may land on the burn address
          MaxSends      \* bound: how many of them do

\* Assumed of the constants wherever the module is used.
Assumption == /\ TickGrid \in Nat \ {0}
              /\ Radix \in Nat \ {0}
              /\ MaxSupply \in Nat \ {0}
              /\ OnGrid(MaxSupply, TickGrid)
              /\ PageSize \in Nat \ {0}
              /\ Sends \subseteq [from : Addr, quantity : Nat \ {0}, ours : BOOLEAN]
              /\ MaxSends \in Nat

VARIABLES pending,       \* the pending:<addr> keys, NoRequest when absent
          credited,      \* the burned:<tx_hash> keys
          claimedTotal,  \* the claimedTotal:<addr> keys
          totalClaimed,
          wallet,        \* the ledger's xchainTick balances
          response,      \* external: what the network has settled per request
          feed           \* external: the sends that landed on the burn address

books == <<credited, claimedTotal, totalClaimed, wallet>>
vars == <<pending, books, response, feed>>

\* A request is named by who made it.  Its answer can be replayed, for any address,
\* until they make another.
NoRequest == "none"

Unsent == [status |-> "unsent"]
Open == [status |-> "open"]
Failed == [status |-> "failed"]

\* The whole supply is minted to the contract at deploy, and minting locked.
Init == /\ pending = [a \in Addr |-> NoRequest]
        /\ credited = {}
        /\ claimedTotal = [a \in Addr |-> 0]
        /\ totalClaimed = 0
        /\ wallet = [a \in Addr |-> 0]
        /\ response = [a \in Addr |-> Unsent]
        /\ feed = <<>>

-----------------------------------------------------------------------------
(* The environment. *)

\* A send that is not ours is of another asset, or invalid.
Land == /\ Len(feed) < MaxSends
        /\ \E send \in Sends : feed' = Append(feed, send)
        /\ UNCHANGED <<pending, books, response>>

Page == {i \in 1..Len(feed) : i > Len(feed) - PageSize}

Body(rows, scientific) ==
    [status |-> "ok", rows |-> rows, scientific |-> scientific]

Settle(r, answer) == /\ response[r] = Open
                     /\ response' = [response EXCEPT ![r] = answer]
                     /\ UNCHANGED <<pending, books, feed>>

AnswerPage(r) == \E scientific \in SUBSET Page : Settle(r, Body(Page, scientific))
AnswerPlainly(r) == Settle(r, Body(Page, {}))
AnswerEmpty(r) == Settle(r, Body({}, {}))
AnswerFailure(r) == Settle(r, Failed)

-----------------------------------------------------------------------------
(* extractBurnSends() and its helpers. *)

\* mutant: the notation is not checked
AnyNotation(body, i) == TRUE

IsPlainDecimal(body, i) == i \notin body.scientific

\* The text is cut after the tick's decimals: an exponent goes with the rest.
AsReported(body, i) == IF i \in body.scientific THEN feed[i].quantity \div Radix
                       ELSE feed[i].quantity
FloorToDecimals(body, i) == FloorTo(AsReported(body, i), TickGrid)

ExtractBurnSends(body, a) == {i \in body.rows : /\ feed[i].ours
                                                /\ feed[i].from = a
                                                /\ IsPlainDecimal(body, i)}

\* isAtLeastExact(maxSupply, claimed)
WithinSupply(claimed) == claimed <= MaxSupply

-----------------------------------------------------------------------------
(* The contract's methods. *)

RequestClaim(a) == /\ pending[a] = NoRequest
                   /\ pending' = [pending EXCEPT ![a] = a]
                   /\ response' = [response EXCEPT ![a] = Open]
                   /\ UNCHANGED <<books, feed>>

NewBurns(body, a) == {i \in ExtractBurnSends(body, a) \ credited :
                        FloorToDecimals(body, i) > 0}

TotalNew(body, burns) ==
    SumFunctionOnSet([i \in burns |-> FloorToDecimals(body, i)], burns)

Send(a, q) == LET moved == HalfUp(q, TickGrid)
              IN  /\ moved <= MaxSupply - SumFunctionOnSet(wallet, Addr)
                  /\ wallet' = [wallet EXCEPT ![a] = @ + moved]

Credit(a, burns, total) ==
    /\ WithinSupply(totalClaimed + total)
    /\ credited' = credited \cup burns
    /\ totalClaimed' = totalClaimed + total
    /\ claimedTotal' = [claimedTotal EXCEPT ![a] = @ + total]
    /\ Send(a, total)

\* mutant: any settled response will do
AnyRequest(r, a) == TRUE
IsOutstanding(r, a) == r = pending[a]

\* mutant: a failed answer reverts
NotFailed(r) == response[r] \notin {Unsent, Open, Failed}
Answered(r) == response[r] \notin {Unsent, Open}

\* onClaim(r, a), called by the indexer once and by anyone at any time.
OnClaim(r, a) ==
    /\ IsOutstanding(r, a)
    /\ Answered(r)
    /\ pending' = [pending EXCEPT ![a] = NoRequest]
    /\ LET burns == IF response[r] = Failed THEN {} ELSE NewBurns(response[r], a)
       IN  IF burns = {} THEN UNCHANGED books
           ELSE Credit(a, burns, TotalNew(response[r], burns))
    /\ UNCHANGED <<response, feed>>

Next == \/ Land
        \/ \E a \in Addr : RequestClaim(a)
        \/ \E r \in Addr : \/ AnswerPage(r) \/ AnswerEmpty(r) \/ AnswerFailure(r)
                               \/ \E a \in Addr : OnClaim(r, a)

Spec == Init /\ [][Next]_vars

\* A holder keeps asking; the network answers or fails each request and the indexer
\* then runs its callback; and of the requests made for ever, some are answered by
\* a page the contract can read.
FairSpec == /\ Spec
            /\ \A a \in Addr : /\ WF_vars(RequestClaim(a))
                               /\ WF_vars(AnswerFailure(a))
                               /\ SF_vars(AnswerPlainly(a))
                               /\ WF_vars(OnClaim(a, a))

-----------------------------------------------------------------------------
(* Properties. *)

\* What a send is worth on the bridge, however an answer spelled it.
Worth(i) == IF feed[i].ours THEN FloorTo(feed[i].quantity, TickGrid) ELSE 0

Burned(sends) == SumFunctionOnSet([i \in 1..Len(feed) |-> Worth(i)], sends)

(* Type of every variable. *)
TypeOK == /\ pending \in [Addr -> Addr \cup {NoRequest}]
          /\ credited \subseteq 1..Len(feed)
          /\ claimedTotal \in [Addr -> Nat] /\ totalClaimed \in Nat
          /\ wallet \in [Addr -> Nat]
          /\ \A r \in Addr :
               response[r].status \in {"unsent", "open", "failed", "ok"}
          /\ Len(feed) <= MaxSends

(* One for one: what the bridge has sent an address is what the burns it     *)
(* credited to that address are truly worth, each counted once however many  *)
(* answers carried it and however they spelled it, and it never sends more   *)
(* than maxSupply.                                                           *)
CreditIsBurn ==
    /\ \A a \in Addr :
          /\ claimedTotal[a] = Burned({i \in credited : feed[i].from = a})
          /\ wallet[a] = claimedTotal[a]
    /\ totalClaimed = Burned(credited)
    /\ totalClaimed <= MaxSupply

(* A check in flight is never lost: pending is cleared only once the request *)
(* it names has been answered, whatever older answers are replayed and for   *)
(* whatever address.                                                         *)
CheckKept ==
    [][\A a \in Addr : pending[a] # NoRequest /\ pending'[a] = NoRequest
                          => response[pending[a]] \notin {Unsent, Open}]_vars

(* A burn worth a base unit is credited in the end, whatever failures and    *)
(* unreadable answers come first: unless later sends have pushed it off the  *)
(* page, or more was burned than the supply.                                 *)
BurnCredited ==
    \A i \in 1..MaxSends :
       i <= Len(feed) /\ Worth(i) > 0
          ~> \/ i \in credited
             \/ i \notin Page
             \/ Burned(1..Len(feed)) > MaxSupply
=============================================================================
