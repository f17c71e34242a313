------------------------------ MODULE Treasury ------------------------------
(***************************************************************************)
(* treasury/treasury.js: funds leave only through a proposal that a poll   *)
(* over the governance token has armed, after Timelock blocks in which the *)
(* guardian may veto, and inside the Window blocks that follow.            *)
(*                                                                         *)
(* Polls are external.  One names a proposal id (that may not exist yet),  *)
(* has an electorate, and finalises once; in that same step the indexer    *)
(* injects its callback, arm(), whose source is the contract's own         *)
(* address, which no caller can present.  A callback that reverts or runs  *)
(* out of gas is not repeated.                                             *)
(*                                                                         *)
(* Amounts of the tick the proposals spend are counted in a unit of which  *)
(* TickGrid make one base unit.                                            *)
(***************************************************************************)
EXTENDS Grid, Functions

CONSTANTS Addr, Polls, NoPoll,
          MaxProposals,        \* bound: proposals made
          Recipients, Amounts, \* the recipients and amounts proposed
          TickGrid,
          MinPropose,          \* minProposeBalance
          Timelock, Window,    \* timelockBlocks, executeWindowBlocks
          Funds, GovFunds,     \* what each address holds at deploy
          MaxHeight            \* bound: the last block considered

ASSUME TreasuryAssumption == /\ NoPoll \notin Polls
                             /\ MaxProposals \in Nat
                             /\ Recipients \subseteq Addr
                             /\ Amounts \subseteq Nat \ {0}
                             /\ TickGrid \in Nat \ {0}
                             /\ MinPropose \in Nat \ {0}
                             /\ Timelock \in Nat \ {0}
                             /\ Window \in Nat \ {0}
                             /\ Funds \in [Addr -> Nat]
                             /\ GovFunds \in [Addr -> Nat]
                             /\ \A a \in Addr : OnGrid(Funds[a], TickGrid)
                             /\ MaxHeight \in Nat

Ids == 1..MaxProposals

VARIABLES guardian, mode,      \* terms: who may veto; "guardian" or "open"
          count,               \* proposal_count
          proposal,            \* the proposal:<id> records, for ids up to count
          held, wallet,        \* the ledger's balances of the spent tick
          gov,                 \* its balances of the governance token
          height,
          names, electorate,   \* external: each poll's CALLBACK_PARAMS and TICK
          outcome,             \* external: each poll's result, "open" before it
          received             \* ghost: everything ever deposited

terms == <<guardian, mode>>
polls == <<names, electorate, outcome>>
ledger == <<held, wallet, received>>
vars == <<terms, count, proposal, ledger, gov, height, polls>>

\* "won": option 0 strictly ahead; "tied": reported as won by option 0; "lost":
\* another option ahead, no result, or a gate not met.
Outcomes == {"won", "tied", "lost"}
Dead == {"VETOED", "CANCELLED", "EXECUTED"}

Blank == [proposer |-> CHOOSE a \in Addr : TRUE, recipient |-> CHOOSE a \in Addr : TRUE,
          amount |-> 0, status |-> "NONE", expected |-> NoPoll,
          poll |-> NoPoll, armed |-> 0, executed |-> 0, paid |-> 0]

Init == /\ guardian \in Addr
        /\ mode \in {"guardian", "open"}
        /\ count = 0
        /\ proposal = [i \in Ids |-> Blank]
        /\ held = 0 /\ wallet = Funds /\ received = 0
        /\ gov = GovFunds
        /\ height = 0
        /\ names \in [Polls -> Ids]
        /\ electorate \in [Polls -> {"gov", "other"}]
        /\ outcome = [p \in Polls |-> "open"]

-----------------------------------------------------------------------------
(* The environment. *)

NextBlock == /\ height < MaxHeight
             /\ height' = height + 1
             /\ UNCHANGED <<terms, count, proposal, ledger, gov, polls>>

Deposit(a, q) == /\ q <= wallet[a]
                 /\ OnGrid(q, TickGrid)
                 /\ wallet' = [wallet EXCEPT ![a] = @ - q]
                 /\ held' = held + q
                 /\ received' = received + q
                 /\ UNCHANGED <<terms, count, proposal, gov, height, polls>>

\* Governance tokens change hands at any time.
TransferGov(a, b) == /\ a # b /\ gov[a] > 0
                     /\ gov' = [gov EXCEPT ![a] = 0, ![b] = @ + gov[a]]
                     /\ UNCHANGED <<terms, count, proposal, ledger, height, polls>>

-----------------------------------------------------------------------------
(* The contract's methods. *)

Propose(a, to, amount) ==
    /\ count < MaxProposals
    /\ gov[a] >= MinPropose
    /\ count' = count + 1
    /\ proposal' = [proposal EXCEPT ![count + 1] =
                      [Blank EXCEPT !.proposer = a, !.recipient = to,
                                    !.amount = amount, !.status = "PROPOSED"]]
    /\ UNCHANGED <<terms, ledger, gov, height, polls>>

\* The guardian may bind again while the proposal waits for its poll.
ApprovePoll(a, id, p) ==
    /\ mode = "guardian"
    /\ a = guardian
    /\ proposal[id].status = "PROPOSED"
    /\ proposal' = [proposal EXCEPT ![id].expected = p]
    /\ UNCHANGED <<terms, count, ledger, gov, height, polls>>

GovElectorate(p) == electorate[p] = "gov"

Bound(id, p) == mode = "guardian" => proposal[id].expected = p

Awaiting(id) == proposal[id].status = "PROPOSED"

\* arm() accepts what the callback of poll p, finalised as result, tells it.
\* A tie is told as a win of option 0.
Arms(p, result) == /\ result \in {"won", "tied"}
                   /\ GovElectorate(p)
                   /\ Awaiting(names[p])
                   /\ Bound(names[p], p)

Finalize(p) ==
    /\ outcome[p] = "open"
    /\ \E result \in Outcomes :
         /\ outcome' = [outcome EXCEPT ![p] = result]
         /\ \/ /\ Arms(p, result)
               /\ proposal' = [proposal EXCEPT ![names[p]].status = "ARMED",
                                               ![names[p]].poll = p,
                                               ![names[p]].armed = height]
            \/ UNCHANGED proposal       \* it reverts, or its gas runs out
    /\ UNCHANGED <<terms, count, ledger, gov, height, names, electorate>>

\* mutant: no status is beyond the guardian's reach
AlwaysVetoable(id) == id <= count
Vetoable(id) == proposal[id].status \in {"PROPOSED", "ARMED"}

Veto(a, id) == /\ a = guardian
               /\ Vetoable(id)
               /\ proposal' = [proposal EXCEPT ![id].status = "VETOED"]
               /\ UNCHANGED <<terms, count, ledger, gov, height, polls>>

Cancel(a, id) == /\ a = proposal[id].proposer
                 /\ proposal[id].status = "PROPOSED"
                 /\ proposal' = [proposal EXCEPT ![id].status = "CANCELLED"]
                 /\ UNCHANGED <<terms, count, ledger, gov, height, polls>>

Ready(id) == proposal[id].armed + Timelock

\* mutant: the winner reported is trusted, ties included
Reported(id) == outcome[proposal[id].poll] \in {"won", "tied"}
StrictlyWon(id) == outcome[proposal[id].poll] = "won"

\* getPollResult() only shows polls finalised in an earlier block.
PollVerified(id) == /\ proposal[id].armed < height
                    /\ StrictlyWon(id)
                    /\ GovElectorate(proposal[id].poll)

\* mutant: the amount is sent as proposed
AsProposed(id) == proposal[id].amount
Payout(id) == FloorTo(proposal[id].amount, TickGrid)

\* mutant: the terminal status is not written
StaysArmed == "ARMED"
Terminal == "EXECUTED"

Moved(id) == HalfUp(Payout(id), TickGrid)

\* What executeProposal() checks, and what the ledger checks of its emission.
Executable(id) == /\ proposal[id].status = "ARMED"
                  /\ height >= Ready(id)
                  /\ height <= Ready(id) + Window
                  /\ PollVerified(id)
                  /\ Payout(id) > 0
                  /\ held >= Payout(id)
                  /\ Moved(id) <= held

\* Anyone may call.
ExecuteProposal(id) ==
    /\ Executable(id)
    /\ proposal' = [proposal EXCEPT ![id].status = Terminal,
                                    ![id].executed = height,
                                    ![id].paid = Payout(id)]
    /\ held' = held - Moved(id)
    /\ wallet' = [wallet EXCEPT ![proposal[id].recipient] = @ + Moved(id)]
    /\ UNCHANGED <<terms, count, received, gov, height, polls>>

-----------------------------------------------------------------------------
Next == \/ NextBlock
        \/ \E a \in Addr : \E q \in 1..wallet[a] : Deposit(a, q)
        \/ \E a, b \in Addr : TransferGov(a, b)
        \/ \E a \in Addr, to \in Recipients, amount \in Amounts : Propose(a, to, amount)
        \/ \E p \in Polls : Finalize(p)
        \/ \E id \in 1..count : \/ \E a \in Addr : \/ \E p \in Polls : ApprovePoll(a, id, p)
                                                   \/ Veto(a, id)
                                                   \/ Cancel(a, id)
                                \/ ExecuteProposal(id)

Spec == Init /\ [][Next]_vars

-----------------------------------------------------------------------------
Proposals == [proposer : Addr, recipient : Addr, amount : Nat,
              status : {"NONE", "PROPOSED", "ARMED"} \cup Dead,
              expected : Polls \cup {NoPoll}, poll : Polls \cup {NoPoll},
              armed : Nat, executed : Nat, paid : Nat]

(* Type of every variable. *)
TypeOK == /\ guardian \in Addr /\ mode \in {"guardian", "open"}
          /\ count \in 0..MaxProposals
          /\ proposal \in [Ids -> Proposals]
          /\ held \in Nat /\ wallet \in [Addr -> Nat] /\ received \in Nat
          /\ gov \in [Addr -> Nat]
          /\ height \in Nat
          /\ names \in [Polls -> Ids] /\ electorate \in [Polls -> {"gov", "other"}]
          /\ outcome \in [Polls -> Outcomes \cup {"open"}]

(* Every proposal that was paid has the whole mandate behind it: a poll over *)
(* the governance token that names this proposal and that option 0 strictly  *)
(* won, in guardian mode the one the guardian had bound before it finalised, *)
(* and a payment Timelock blocks or more after it, inside the window.        *)
MandateBehindPayment ==
    \A id \in Ids : proposal[id].status = "EXECUTED" =>
        LET p == proposal[id].poll
        IN  /\ names[p] = id
            /\ electorate[p] = "gov"
            /\ outcome[p] = "won"
            /\ mode = "guardian" => proposal[id].expected = p
            /\ proposal[id].executed \in proposal[id].armed + Timelock
                                           .. proposal[id].armed + Timelock + Window

(* The audit trail agrees with the ledger: what has left the treasury is     *)
(* exactly what the EXECUTED proposals record as paid, each of them once.    *)
Executed == {id \in Ids : proposal[id].status = "EXECUTED"}

RecordsMatchLedger ==
    received - held = SumFunctionOnSet([id \in Ids |-> proposal[id].paid], Executed)

(* What was vetoed, cancelled or paid stays so, its record untouched by      *)
(* later polls, bindings and calls.                                          *)
DeadStaysDead ==
    [][\A id \in Ids : proposal[id].status \in Dead => proposal'[id] = proposal[id]]_vars

(* No rounding wedges a mandate: a proposal with a strict majority behind it *)
(* can be executed on every block of its window on which the treasury holds  *)
(* what its amount is worth in whole base units.  (Executable is the whole   *)
(* guard of ExecuteProposal, whose effect always exists.)                    *)
NeverWedged ==
    \A id \in 1..count :
        (/\ proposal[id].status = "ARMED"
         /\ height \in Ready(id)..Ready(id) + Window
         /\ outcome[proposal[id].poll] = "won"
         /\ proposal[id].amount >= TickGrid
         /\ held >= FloorTo(proposal[id].amount, TickGrid))
            => Executable(id)
=============================================================================
