------------------------------- MODULE Escrow -------------------------------
(***************************************************************************)
(* escrow/escrow.js: a buyer locks Amount of one tick for a seller; buyer, *)
(* seller, arbiter or a deadline decide who gets it.                       *)
(*                                                                         *)
(* One EXECUTE is one action: its state writes and its SEND commit         *)
(* together or not at all, so a call whose require() fails is a disabled   *)
(* action.  A BATCH of DEPOSIT and EXECUTE is two actions, because a       *)
(* reverted EXECUTE leaves the DEPOSIT standing; any address may DEPOSIT   *)
(* at any time.  Deploying is Init: the roles are arbitrary addresses,     *)
(* which may coincide.                                                     *)
(***************************************************************************)
EXTENDS Integers

CONSTANTS Addr,        \* the addresses that hold tokens and call the contract
          NoOne,       \* not an address: nobody has settled yet
          Amount,      \* the agreed amount, in base units of the tick
          Window,      \* deadlineBlocks: blocks from fund() to the deadline
          Funds,       \* what every address holds at deploy
          MaxHeight    \* bound: the last block considered

ASSUME EscrowAssumption == /\ NoOne \notin Addr
                           /\ Amount \in Nat \ {0}
                           /\ Window \in Nat \ {0}
                           /\ Funds \in Nat
                           /\ MaxHeight \in Nat

VARIABLES buyer, seller, arbiter,   \* terms fixed by initialize()
          status,                   \* the contract's status key
          deadline,                 \* its deadline key, 0 until fund()
          held,                     \* its ledger balance of the tick
          wallet,                   \* everyone else's balance of the tick
          height,                   \* the block being applied
          fundedAt,                 \* ghost: the block custody was taken in
          settlement                \* ghost: who settled, when, what was paid

terms == <<buyer, seller, arbiter>>
vars == <<terms, status, deadline, held, wallet, height, fundedAt, settlement>>

Live == {"INIT", "FUNDED"}
Terminal == {"RELEASED", "REFUNDED", "CANCELLED",
             "DELIVERED"}         \* reached only in EscrowDelivery

Init == /\ buyer \in Addr /\ seller \in Addr /\ arbiter \in Addr
        /\ status = "INIT"
        /\ deadline = 0
        /\ held = 0
        /\ wallet = [a \in Addr |-> Funds]
        /\ height = 0
        /\ fundedAt = 0
        /\ settlement = [by |-> NoOne, payee |-> NoOne, at |-> 0, paid |-> 0]

-----------------------------------------------------------------------------
(* The environment: blocks and deposits. *)

NextBlock == /\ height < MaxHeight
             /\ height' = height + 1
             /\ UNCHANGED <<terms, status, deadline, held, wallet, fundedAt, settlement>>

\* A DEPOSIT by anyone, alone or ahead of an EXECUTE in a BATCH.
Deposit(a, q) == /\ q <= wallet[a]
                 /\ wallet' = [wallet EXCEPT ![a] = @ - q]
                 /\ held' = held + q
                 /\ UNCHANGED <<terms, status, deadline, height, fundedAt, settlement>>

-----------------------------------------------------------------------------
(* The contract's methods. *)

Covers == held >= Amount

DeadlineFromNow == height + Window

\* fund(): anyone; arms the escrow and the buyer's reclaim deadline.
Fund == /\ status = "INIT"
        /\ Covers
        /\ status' = "FUNDED"
        /\ deadline' = DeadlineFromNow
        /\ fundedAt' = height
        /\ UNCHANGED <<terms, held, wallet, height, settlement>>

\* The end of settle() and cancel(): mark the escrow terminal and send the
\* whole balance to the payee.
Pay(by, payee, terminal) ==
    /\ held > 0
    /\ status' = terminal
    /\ held' = 0
    /\ wallet' = [wallet EXCEPT ![payee] = @ + held]
    /\ settlement' = [by |-> by, payee |-> payee, at |-> height,
                      paid |-> settlement.paid + held]
    /\ UNCHANGED <<terms, deadline, height, fundedAt>>

Settle(by, roles, payee, terminal) == /\ status = "FUNDED"
                                      /\ by \in roles
                                      /\ Pay(by, payee, terminal)

Release(a) == Settle(a, {buyer, arbiter}, seller, "RELEASED")

Refund(a) == Settle(a, {seller, arbiter}, buyer, "REFUNDED")

AtDeadline == height >= deadline

Timeout(a) == /\ AtDeadline
              /\ Settle(a, {buyer}, buyer, "REFUNDED")

Cancel(a) == /\ status = "INIT"
             /\ a = buyer
             /\ Pay(a, buyer, "CANCELLED")

-----------------------------------------------------------------------------
Next == \/ NextBlock
        \/ \E a \in Addr : \E q \in 1..wallet[a] : Deposit(a, q)
        \/ Fund
        \/ \E a \in Addr : Release(a) \/ Refund(a) \/ Timeout(a) \/ Cancel(a)

Spec == Init /\ [][Next]_vars

-----------------------------------------------------------------------------
(* Type of every variable. *)
TypeOK == /\ buyer \in Addr /\ seller \in Addr /\ arbiter \in Addr
          /\ status \in Live \cup Terminal
          /\ deadline \in Nat
          /\ held \in Nat
          /\ wallet \in [Addr -> Nat]
          /\ height \in Nat
          /\ fundedAt \in Nat
          /\ settlement \in [by : Addr \cup {NoOne}, payee : Addr \cup {NoOne},
                             at : Nat, paid : Nat]

(* A FUNDED escrow holds the agreed amount until it is settled, so settle()  *)
(* never finds less than what fund() checked, whoever deposits or calls in   *)
(* between.                                                                  *)
FundedIsCovered == status = "FUNDED" => held >= Amount

(* Whoever is paid out of a funded escrow is the party the outcome names,    *)
(* and gets at least the agreed amount, in one payment.                      *)
PaidInFull ==
    /\ status = "RELEASED" => settlement.payee = seller /\ settlement.paid >= Amount
    /\ status = "REFUNDED" => settlement.payee = buyer /\ settlement.paid >= Amount

(* The seller is paid only on the word of the buyer or the arbiter.  The     *)
(* buyer gets a funded escrow back before Window blocks have passed since    *)
(* custody was taken only on the word of the seller or the arbiter, however  *)
(* late after the deploy the escrow was funded.                              *)
SettlementAuthorized ==
    /\ status = "RELEASED" => settlement.by \in {buyer, arbiter}
    /\ status = "REFUNDED" => \/ settlement.by \in {seller, arbiter}
                              \/ /\ settlement.by = buyer
                                 /\ settlement.at >= fundedAt + Window
    /\ status = "CANCELLED" => settlement.by = buyer

(* The escrow is a one-shot custody: locked when covered, paid out once and  *)
(* as a whole, closed by that same step and never open again.                *)
Phase == IF status = "INIT" THEN "OPEN"
         ELSE IF status = "FUNDED" THEN "LOCKED" ELSE "CLOSED"

Custody == INSTANCE OneShotCustody
             WITH MinLock <- Amount, phase <- Phase, out <- settlement.paid

ImplementsCustody == Custody!CustodySpec
=============================================================================
