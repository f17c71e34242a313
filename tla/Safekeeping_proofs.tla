------------------------ MODULE Safekeeping_proofs --------------------------
(* Proofs about the two templates of Safekeeping.  EscrowDelivery and the    *)
(* Escrow it extends come first, for every set of addresses, amount, window, *)
(* initial balance, horizon and number of requests: a step of EscrowDelivery *)
(* is a step of Escrow, or a delivery paid.  Then Vesting, an instance, for  *)
(* every grant, grid, duration, cliff and horizon; and the deployment of     *)
(* either.                                                                   *)
EXTENDS Safekeeping, Amounts_proofs

-----------------------------------------------------------------------------
(* Escrow. *)

(* The deadline the buyer's reclaim is tested against is the one counted     *)
(* from the block that took custody.                                         *)
DeadlineAnchored == status = "FUNDED" => deadline = fundedAt + Window

(* The inductive invariant: FundedIsCovered carries fund()'s check to the    *)
(* settling step, DeadlineAnchored carries the block it was made in.         *)
IInv == /\ TypeOK
        /\ FundedIsCovered
        /\ DeadlineAnchored
        /\ PaidInFull
        /\ SettlementAuthorized

Parts == /\ FundedIsCovered
         /\ DeadlineAnchored
         /\ PaidInFull
         /\ SettlementAuthorized

-----------------------------------------------------------------------------
LEMMA InitIInv == Init => IInv
BY EscrowAssumption
   DEF Init, IInv, TypeOK, Live, Terminal, FundedIsCovered, DeadlineAnchored,
       PaidInFull, SettlementAuthorized

(* What every payment leaves behind, whoever is paid.                        *)
LEMMA PayEffect ==
    ASSUME TypeOK, NEW by \in Addr \cup {NoOne}, NEW payee \in Addr,
           NEW terminal \in Terminal, Pay(by, payee, terminal)
    PROVE  /\ TypeOK'
           /\ status' = terminal
           /\ settlement'.by = by
           /\ settlement'.payee = payee
           /\ settlement'.at = height
           /\ settlement'.paid = settlement.paid + held
           /\ held > 0 /\ held' = 0
           /\ UNCHANGED <<terms, fundedAt>>
<1> USE DEF TypeOK, Pay
<1>1. /\ held \in Nat /\ settlement.paid \in Nat
      /\ wallet[payee] + held \in Nat
  OBVIOUS
<1>2. wallet' \in [Addr -> Nat]
  BY <1>1
<1>3. settlement' \in [by : Addr \cup {NoOne}, payee : Addr \cup {NoOne},
                       at : Nat, paid : Nat]
  BY <1>1
<1>4. status' \in Live \cup Terminal /\ held' = 0
  BY <1>1
<1> QED
  BY <1>1, <1>2, <1>3, <1>4 DEF terms

LEMMA StepIInv == IInv /\ [Next]_vars => IInv'
<1> SUFFICES ASSUME IInv, [Next]_vars
             PROVE  IInv'
  OBVIOUS
<1> USE EscrowAssumption
<1>1. TypeOK /\ Parts
  BY DEF IInv, Parts
<1>2. SUFFICES TypeOK' /\ Parts'
  BY DEF IInv, Parts
<1>3. CASE NextBlock
  BY <1>1, <1>3 DEF NextBlock, TypeOK, Parts, FundedIsCovered,
     DeadlineAnchored, PaidInFull, SettlementAuthorized, terms
<1>4. ASSUME NEW a \in Addr, NEW q \in 1..wallet[a], Deposit(a, q)
      PROVE  TypeOK' /\ Parts'
  <2>1. wallet[a] \in Nat /\ wallet[a] - q \in Nat /\ held + q \in Nat
    BY <1>1, <1>4 DEF TypeOK
  <2>2. TypeOK'
    BY <1>1, <1>4, <2>1 DEF TypeOK, Deposit, terms
  <2>3. held' >= held
    BY <1>1, <1>4, <2>1 DEF TypeOK, Deposit
  <2> QED
    BY <1>1, <1>4, <2>2, <2>3 DEF Deposit, TypeOK, Parts, FundedIsCovered,
       DeadlineAnchored, PaidInFull, SettlementAuthorized, terms
<1>5. CASE Fund
  BY <1>1, <1>5 DEF Fund, Covers, DeadlineFromNow, TypeOK, Live, Parts,
     FundedIsCovered, DeadlineAnchored, PaidInFull, SettlementAuthorized, terms
<1>6. ASSUME NEW a \in Addr, Release(a)
      PROVE  TypeOK' /\ Parts'
  <2>1. /\ status = "FUNDED" /\ a \in {buyer, arbiter}
        /\ Pay(a, seller, "RELEASED")
    BY <1>6 DEF Release, Settle
  <2>2. seller \in Addr /\ "RELEASED" \in Terminal
    BY <1>1 DEF TypeOK, Terminal
  <2> QED
    BY <1>1, <2>1, <2>2, PayEffect DEF Parts, TypeOK, FundedIsCovered,
       DeadlineAnchored, PaidInFull, SettlementAuthorized, terms
<1>7. ASSUME NEW a \in Addr, Refund(a)
      PROVE  TypeOK' /\ Parts'
  <2>1. /\ status = "FUNDED" /\ a \in {seller, arbiter}
        /\ Pay(a, buyer, "REFUNDED")
    BY <1>7 DEF Refund, Settle
  <2>2. buyer \in Addr /\ "REFUNDED" \in Terminal
    BY <1>1 DEF TypeOK, Terminal
  <2> QED
    BY <1>1, <2>1, <2>2, PayEffect DEF Parts, TypeOK, FundedIsCovered,
       DeadlineAnchored, PaidInFull, SettlementAuthorized, terms
<1>8. ASSUME NEW a \in Addr, Timeout(a)
      PROVE  TypeOK' /\ Parts'
  <2>1. /\ status = "FUNDED" /\ a = buyer /\ height >= deadline
        /\ Pay(a, buyer, "REFUNDED")
    BY <1>8 DEF Timeout, AtDeadline, Settle
  <2>2. buyer \in Addr /\ "REFUNDED" \in Terminal
    BY <1>1 DEF TypeOK, Terminal
  <2> QED
    BY <1>1, <2>1, <2>2, PayEffect DEF Parts, TypeOK, FundedIsCovered,
       DeadlineAnchored, PaidInFull, SettlementAuthorized, terms
<1>9. ASSUME NEW a \in Addr, Cancel(a)
      PROVE  TypeOK' /\ Parts'
  <2>1. /\ a = buyer /\ Pay(a, buyer, "CANCELLED")
    BY <1>9 DEF Cancel
  <2>2. buyer \in Addr /\ "CANCELLED" \in Terminal
    BY <1>1 DEF TypeOK, Terminal
  <2> QED
    BY <1>1, <2>1, <2>2, PayEffect DEF Parts, TypeOK, FundedIsCovered,
       DeadlineAnchored, PaidInFull, SettlementAuthorized, terms
<1>10. CASE UNCHANGED vars
  BY <1>1, <1>10 DEF vars, TypeOK, Parts, FundedIsCovered,
     DeadlineAnchored, PaidInFull, SettlementAuthorized, terms
<1> QED
  BY <1>3, <1>4, <1>5, <1>6, <1>7, <1>8, <1>9, <1>10 DEF Next

-----------------------------------------------------------------------------
(* In every reachable state of every instance, a funded escrow is covered,   *)
(* a settled one paid the right party in full, and nobody settled who had    *)
(* no right to: the inductive invariant and the three properties it implies. *)
THEOREM EscrowSafety ==
    Spec => [](TypeOK /\ FundedIsCovered /\ PaidInFull /\ SettlementAuthorized)
<1>1. Spec => []IInv
  BY InitIInv, StepIInv, PTL DEF Spec
<1>2. IInv => TypeOK /\ FundedIsCovered /\ PaidInFull /\ SettlementAuthorized
  BY DEF IInv
<1> QED
  BY <1>1, <1>2, PTL

(* A payment out of an unsettled escrow is the custody's PayOut.             *)
LEMMA PayIsPayOut ==
    ASSUME TypeOK, NEW by \in Addr \cup {NoOne}, NEW payee \in Addr,
           NEW terminal \in Terminal, status \in Live, Pay(by, payee, terminal)
    PROVE  Custody!PayOut
<1>1. /\ held > 0 /\ held' = 0
      /\ settlement'.paid = settlement.paid + held
      /\ status' = terminal
  BY PayEffect
<1>2. Phase # "CLOSED" /\ Phase' = "CLOSED"
  BY <1>1 DEF Phase, Live, Terminal
<1> QED
  BY <1>1, <1>2 DEF Custody!PayOut

LEMMA StepCustody ==
    TypeOK /\ [Next]_vars => [Custody!CustodyNext]_Custody!custodyVars
<1> SUFFICES ASSUME TypeOK, [Next]_vars
             PROVE  [Custody!CustodyNext]_Custody!custodyVars
  OBVIOUS
<1> USE EscrowAssumption
<1>1. buyer \in Addr /\ seller \in Addr
      /\ {"RELEASED", "REFUNDED", "CANCELLED"} \subseteq Terminal
  BY DEF TypeOK, Terminal
<1>2. CASE NextBlock \/ UNCHANGED vars
  BY <1>2 DEF NextBlock, vars, Custody!custodyVars, Phase
<1>3. ASSUME NEW a \in Addr, NEW q \in 1..wallet[a], Deposit(a, q)
      PROVE  Custody!Receive
  BY <1>3 DEF TypeOK, Deposit, Custody!Receive, Phase
<1>4. CASE Fund
  BY <1>4 DEF Fund, Covers, Custody!CustodyNext, Custody!Lock, Phase
<1>5. ASSUME NEW a \in Addr, Release(a) \/ Refund(a) \/ Timeout(a) \/ Cancel(a)
      PROVE  Custody!PayOut
  BY <1>1, <1>5, PayIsPayOut DEF Release, Refund, Timeout, Cancel, Settle, Live
<1> QED
  BY <1>2, <1>3, <1>4, <1>5 DEF Next, Custody!CustodyNext

(* The escrow implements the one-shot custody: its steps deposit, lock a     *)
(* covered amount, or pay everything out and close for good.                 *)
THEOREM EscrowImplementsCustody == Spec => ImplementsCustody
<1>1. Init => Custody!CustodyInit
  BY DEF Init, Custody!CustodyInit, Phase
<1>2. IInv => TypeOK
  BY DEF IInv
<1>3. Spec => []IInv
  BY InitIInv, StepIInv, PTL DEF Spec
<1> QED
  BY <1>1, <1>2, <1>3, StepCustody, PTL DEF Spec, ImplementsCustody, Custody!CustodySpec

-----------------------------------------------------------------------------
(* The escrow that a delivery settles.                                       *)

(* The inductive invariant: the escrow's, and what a delivery rested on.     *)
DInv == /\ IInv
        /\ DTypeOK
        /\ DeliveryAttested

\* The one step that Escrow has not.
Delivered(r) == /\ status = "FUNDED"
                /\ answer[r] = "match"
                /\ Pay(NoOne, seller, "DELIVERED")

-----------------------------------------------------------------------------
LEMMA InitDInv == DInit => DInv
<1> SUFFICES ASSUME DInit PROVE DInv
  OBVIOUS
<1>1. IInv
  BY InitIInv DEF DInit
<1>2. DTypeOK
  BY <1>1, RequestAssumption DEF DInit, DTypeOK, IInv, Requests, Answers
<1>3. DeliveryAttested
  BY DEF DInit, Init, DeliveryAttested
<1> QED
  BY <1>1, <1>2, <1>3 DEF DInv

(* What onDelivery() does, whoever calls it.                                 *)
LEMMA OnDeliveryCases ==
    ASSUME NEW r \in Requests, OnDelivery(r)
    PROVE  /\ pending = r /\ pending' = NoRequest
           /\ status = "FUNDED" => answer[r] \in Answers
           /\ UNCHANGED vars \/ Delivered(r)
BY DEF OnDelivery, IsOutstanding, StillFunded, Answered, ShowsDelivery, Answers, Delivered

(* What each step does to the escrow's own state.                            *)
LEMMA StepOfEscrow ==
    ASSUME [DNext]_dvars
    PROVE  \/ [Next]_vars
           \/ \E r \in Requests : Delivered(r) /\ UNCHANGED answer
<1>1. ASSUME NEW r \in Requests, OnDelivery(r), UNCHANGED answer
      PROVE  UNCHANGED vars \/ (Delivered(r) /\ UNCHANGED answer)
  BY <1>1, OnDeliveryCases
<1>2. ASSUME NEW r \in Requests, Answer(r) \/ Callback(r) \/ UserCallback(r)
      PROVE  UNCHANGED vars \/ (Delivered(r) /\ UNCHANGED answer)
  BY <1>1, <1>2 DEF Answer, Callback, UserCallback
<1>3. CASE RequestDelivery
  BY <1>3 DEF RequestDelivery
<1>4. CASE \/ NextBlock /\ UNCHANGED attestation
           \/ \E a \in Addr : \E q \in 1..wallet[a] : Deposit(a, q) /\ UNCHANGED attestation
           \/ DFund
           \/ \E a \in Addr : DRelease(a) \/ DRefund(a) \/ DTimeout(a) \/ DCancel(a)
  BY <1>4 DEF DFund, DRelease, DRefund, DTimeout, DCancel, Next
<1>5. CASE UNCHANGED dvars
  BY <1>5 DEF dvars
<1> QED
  BY <1>2, <1>3, <1>4, <1>5 DEF DNext

(* What each step does to the attestation state: it keeps its type, and an   *)
(* answer once given is final.                                               *)
LEMMA StepOfAttestation ==
    ASSUME DTypeOK, [DNext]_dvars
    PROVE  /\ pending' \in Requests \cup {NoRequest}
           /\ answer' \in [Requests -> Answers \cup {"unsent", "open"}]
           /\ injected' \in SUBSET Requests
           /\ \A r \in Requests : answer[r] = "match" => answer'[r] = "match"
<1> USE DEF DTypeOK
<1>1. ASSUME NEW r \in Requests, Answer(r)
      PROVE  /\ pending' = pending
             /\ answer' \in [Requests -> Answers \cup {"unsent", "open"}]
             /\ injected' \in SUBSET Requests
             /\ \A s \in Requests : answer[s] = "match" => answer'[s] = "match"
  <2>1. PICK ans \in Answers : answer' = [answer EXCEPT ![r] = ans]
    BY <1>1 DEF Answer
  <2> QED
    BY <1>1, <2>1 DEF Answer
<1>2. ASSUME NEW r \in Requests, Callback(r) \/ UserCallback(r)
      PROVE  /\ pending' \in {pending, NoRequest}
             /\ answer' = answer
             /\ injected' \in SUBSET Requests
  BY <1>2 DEF Callback, UserCallback, OnDelivery
<1>3. CASE RequestDelivery
  <2>1. PICK r \in Requests : /\ answer[r] = "unsent"
                              /\ pending' = r
                              /\ answer' = [answer EXCEPT ![r] = "open"]
    BY <1>3 DEF RequestDelivery
  <2> QED
    BY <1>3, <2>1 DEF RequestDelivery
<1>4. CASE UNCHANGED attestation
  BY <1>4 DEF attestation
<1> QED
  BY <1>1, <1>2, <1>3, <1>4
     DEF DNext, DFund, DRelease, DRefund, DTimeout, DCancel, dvars, attestation

(* A step of the escrow leaves a delivered one as it is.                     *)
LEMMA DeliveredIsFinal ==
    ASSUME TypeOK, status = "DELIVERED", [Next]_vars
    PROVE  UNCHANGED <<status, settlement, seller>>
BY DEF Next, NextBlock, Deposit, Fund, Release, Refund, Timeout, Cancel, Settle, vars, terms

LEMMA StepDInv == DInv /\ [DNext]_dvars => DInv'
<1> SUFFICES ASSUME DInv, [DNext]_dvars
             PROVE  DInv'
  OBVIOUS
<1> USE EscrowAssumption
<1>1. IInv /\ TypeOK /\ DTypeOK /\ DeliveryAttested
  BY DEF DInv, DTypeOK
<1>2. \A r \in Requests : answer[r] = "match" => answer'[r] = "match"
  BY <1>1, StepOfAttestation
<1>3. CASE [Next]_vars
  <2>1. IInv'
    BY <1>1, <1>3, StepIInv
  <2>2. status' = "DELIVERED" => status = "DELIVERED"
    BY <1>1, <1>3 DEF Next, NextBlock, Deposit, Fund, Release, Refund, Timeout, Cancel,
       Settle, Pay, vars
  <2>3. DeliveryAttested'
    BY <1>1, <1>2, <1>3, <2>2, DeliveredIsFinal DEF DeliveryAttested
  <2> QED
    BY <2>1, <2>3, <1>1, StepOfAttestation DEF DInv, DTypeOK, IInv
<1>4. ASSUME NEW r \in Requests, Delivered(r)
      PROVE  DInv'
  <2>1. /\ TypeOK'
        /\ status' = "DELIVERED"
        /\ settlement'.by = NoOne /\ settlement'.payee = seller
        /\ settlement'.paid = settlement.paid + held
        /\ UNCHANGED <<terms, fundedAt>>
    <3>1. seller \in Addr /\ "DELIVERED" \in Terminal
      BY <1>1 DEF TypeOK, Terminal
    <3> QED
      BY <1>1, <1>4, <3>1, PayEffect DEF Delivered
  <2>2. settlement'.paid >= Amount
    BY <1>1, <1>4, <2>1 DEF Delivered, IInv, TypeOK, FundedIsCovered
  <2>3. IInv'
    BY <2>1 DEF IInv, FundedIsCovered, DeadlineAnchored, PaidInFull, SettlementAuthorized
  <2>4. DeliveryAttested'
    BY <1>2, <1>4, <2>1, <2>2 DEF DeliveryAttested, Delivered, terms
  <2> QED
    BY <2>1, <2>3, <2>4, <1>1, StepOfAttestation DEF DInv, DTypeOK
<1> QED
  BY <1>3, <1>4, StepOfEscrow

LEMMA InvariantDInv == DSpec => []DInv
BY InitDInv, StepDInv, PTL DEF DSpec

-----------------------------------------------------------------------------
(* With the attestation path added, in every reachable state of every        *)
(* instance: whoever is settled on got the agreed amount, and only the       *)
(* parties' word, the deadline or an answer of the network settled it.       *)
THEOREM DeliverySafety == DSpec => [](DTypeOK /\ SettledRightly)
<1>1. DInv => DTypeOK /\ SettledRightly
  BY DEF DInv, IInv, SettledRightly
<1> QED
  BY <1>1, InvariantDInv, PTL

(* The attestation path keeps the one-shot custody: a delivery is one more   *)
(* way to pay everything out and close.                                      *)
THEOREM DeliveryImplementsCustody == DSpec => ImplementsCustody
<1>1. DInit => Custody!CustodyInit
  BY DEF DInit, Init, Custody!CustodyInit, Phase
<1>2. DInv /\ [DNext]_dvars => [Custody!CustodyNext]_Custody!custodyVars
  <2> SUFFICES ASSUME DInv, [DNext]_dvars
               PROVE  [Custody!CustodyNext]_Custody!custodyVars
    OBVIOUS
  <2>1. TypeOK
    BY DEF DInv, DTypeOK
  <2>2. CASE [Next]_vars
    BY <2>1, <2>2, StepCustody
  <2>3. ASSUME NEW r \in Requests, Delivered(r)
        PROVE  Custody!PayOut
    BY <2>1, <2>3, PayIsPayOut DEF Delivered, TypeOK, Live, Terminal
  <2> QED
    BY <2>2, <2>3, StepOfEscrow DEF Custody!CustodyNext
<1> QED
  BY <1>1, <1>2, InvariantDInv, PTL DEF DSpec, ImplementsCustody, Custody!CustodySpec

(* A check in flight is only ever cleared by its own answer.                 *)
THEOREM DeliveryKeepsCheck == DSpec => CheckNotLost
<1> DEFINE Cleared == pending # NoRequest /\ pending' = NoRequest /\ status = "FUNDED"
<1>1. DInv /\ [DNext]_dvars => [Cleared => answer[pending] \in Answers]_dvars
  <2> SUFFICES ASSUME DInv, DNext, Cleared
               PROVE  answer[pending] \in Answers
    BY DEF dvars, attestation
  <2>1. PICK r \in Requests : Callback(r) \/ UserCallback(r)
    <3>1. ASSUME NEW r \in Requests, Answer(r)
          PROVE  pending' = pending
      BY <3>1 DEF Answer
    <3>2. CASE RequestDelivery
      BY <3>2 DEF RequestDelivery
    <3> QED
      BY <3>1, <3>2 DEF DNext, DFund, DRelease, DRefund, DTimeout, DCancel, attestation
  <2>2. OnDelivery(r)
    BY <2>1 DEF Callback, UserCallback
  <2> QED
    BY <2>2, OnDeliveryCases
<1> QED
  BY <1>1, InvariantDInv, PTL DEF DSpec, CheckNotLost

-----------------------------------------------------------------------------
(* Vesting. *)

(* The operators that its instance brings with it are the same.              *)
LEMMA GrantOperators ==
    \A q, g : /\ V!FloorTo(q, g) = FloorTo(q, g)
             /\ V!OnGrid(q, g) = OnGrid(q, g)
             /\ V!HalfUp(q, g) = HalfUp(q, g)
  BY DEF V!FloorTo, V!OnGrid, V!HalfUp, FloorTo, OnGrid, HalfUp

USE GrantOperators

-----------------------------------------------------------------------------
(* What is paid out of n over the duration: a whole number of base units,    *)
(* no more than n over the duration, and short of it by less than one.       *)
GrantShare(n) == FloorTo(n \div Duration, TickGrid)

LEMMA GrantShareBounds ==
    ASSUME NEW n \in Nat
    PROVE  /\ GrantShare(n) \in Nat /\ OnGrid(GrantShare(n), TickGrid)
           /\ Duration * GrantShare(n) <= n
           /\ n < Duration * GrantShare(n) + TickGrid * Duration
<1> DEFINE u == n \div Duration
           s == GrantShare(n)
<1>1. Duration \in Nat \ {0} /\ TickGrid \in Nat \ {0}
  BY GrantAssumption DEF V!Assumption
<1>2. u \in Nat /\ n % Duration \in 0..Duration - 1 /\ n = Duration * u + (n % Duration)
  BY <1>1, QuotientRemainder
<1> HIDE DEF u
<1>3. s \in 0..u /\ u <= s + TickGrid - 1 /\ OnGrid(s, TickGrid)
  <2>1. s = FloorTo(u, TickGrid)
    BY DEF GrantShare, u
  <2> HIDE DEF s
  <2> QED
    BY <1>1, <1>2, <2>1, FloorToBounds, FloorToOnGrid
<1> HIDE DEF s
<1>4. Duration * s <= Duration * u
  BY <1>1, <1>2, <1>3, ProductMonotone
<1>5. Duration * u <= Duration * (s + TickGrid - 1)
  BY <1>1, <1>2, <1>3, ProductMonotone
<1>6. Duration * (s + TickGrid - 1) = Duration * s + TickGrid * Duration - Duration
  BY <1>1, <1>3
<1>7. Duration * s \in Nat /\ Duration * u \in Nat /\ TickGrid * Duration \in Nat
  BY <1>1, <1>2, <1>3
<1>8. s \in Nat /\ Duration * s <= n /\ n < Duration * s + TickGrid * Duration
  BY <1>1, <1>2, <1>3, <1>4, <1>5, <1>6, <1>7
<1> QED
  BY <1>3, <1>8 DEF s

LEMMA GrantShareMonotone ==
    ASSUME NEW m \in Nat, NEW n \in Nat, m <= n
    PROVE  GrantShare(m) <= GrantShare(n)
<1>1. Duration \in Nat \ {0} /\ TickGrid \in Nat \ {0}
  BY GrantAssumption DEF V!Assumption
<1> DEFINE u == m \div Duration
           v == n \div Duration
<1>2. u \in Nat /\ v \in Nat
  BY <1>1, QuotientRemainder
<1>3. u <= v
  BY <1>1, DivisionMonotone
<1> HIDE DEF u, v
<1>4. FloorTo(u, TickGrid) <= FloorTo(v, TickGrid)
  BY <1>1, <1>2, <1>3, FloorToMonotone
<1> QED
  BY <1>4 DEF GrantShare, u, v

(* A whole number of base units is shared out as it stands.                  *)
LEMMA GrantShareOfWhole ==
    ASSUME NEW p \in Nat, OnGrid(p, TickGrid)
    PROVE  GrantShare(Duration * p) = p
<1>1. Duration \in Nat \ {0}
  BY GrantAssumption DEF V!Assumption
<1>2. (Duration * p + 0) \div Duration = p
  BY <1>1, DivisionIsUnique
<1>3. (Duration * p) \div Duration = p
  BY <1>1, <1>2
<1> QED
  BY <1>3 DEF GrantShare, OnGrid

-----------------------------------------------------------------------------
(* The inductive invariant.                                                  *)

(* Nothing has moved before fund().                                          *)
GrantUntouched == gStatus = "INIT" => /\ claimed = 0 /\ paid = 0 /\ returned = 0
                                      /\ total = grant

(* Balances and everything paid so far are whole base units.                 *)
GrantWhole == /\ OnGrid(gHeld, TickGrid) /\ OnGrid(claimed, TickGrid)
              /\ V!Running => OnGrid(total, TickGrid)

GrantBooks == V!Running => /\ start <= gHeight
                           /\ paid = claimed /\ total + returned = grant
                           /\ claimed <= total
                           /\ gStatus = "ACTIVE" => returned = 0

(* What was claimed had accrued.                                             *)
GrantBehind == V!Running => /\ V!Accrued \in Nat
                            /\ Duration * claimed <= V!Accrued
                            /\ V!Accrued <= Duration * total

(* What revoke() froze had accrued by then, but for less than a base unit.   *)
GrantFrozenBehind ==
    gStatus = "REVOKED" => /\ Duration * total < grant * V!Elapsed + TickGrid * Duration
                           /\ total > 0 => V!Elapsed >= cliff

GrantIInv == /\ V!TypeOK /\ GrantUntouched /\ GrantWhole /\ GrantBooks /\ V!Solvent
             /\ GrantBehind /\ GrantFrozenBehind

-----------------------------------------------------------------------------
(* The schedule at any one block: elapsed e of it, with the cliff at c.      *)
GrantAt(e, c, t) == IF e < c THEN 0 ELSE IF e >= Duration THEN t * Duration ELSE t * e

LEMMA GrantAtBounds ==
    ASSUME NEW e \in Nat, NEW c \in 0..Duration, NEW t \in Nat
    PROVE  /\ GrantAt(e, c, t) \in Nat
           /\ GrantAt(e, c, t) <= Duration * t
           /\ GrantAt(e, c, t) <= t * e
           /\ GrantAt(e, c, t) > 0 => e >= c
<1>1. Duration \in Nat
  BY GrantAssumption DEF V!Assumption
<1>2. /\ t * e \in Nat /\ t * Duration \in Nat /\ t * Duration = Duration * t
      /\ e <= Duration => t * e <= t * Duration
      /\ Duration <= e => t * Duration <= t * e
  BY <1>1, ProductMonotone
<1> QED
  BY <1>1, <1>2 DEF GrantAt

LEMMA GrantAtMonotone ==
    ASSUME NEW e \in Nat, NEW c \in 0..Duration, NEW t \in Nat
    PROVE  GrantAt(e, c, t) <= GrantAt(e + 1, c, t)
<1>1. Duration \in Nat
  BY GrantAssumption DEF V!Assumption
<1>2. /\ t * e \in Nat /\ t * (e + 1) \in Nat /\ t * Duration \in Nat
      /\ t * e <= t * (e + 1)
      /\ e <= Duration => t * e <= t * Duration
  BY <1>1, ProductMonotone
<1> QED
  BY <1>1, <1>2 DEF GrantAt

LEMMA GrantAccruedIsAt == gStatus # "REVOKED" => V!Accrued
  = GrantAt(V!Elapsed, cliff, total)
  BY DEF V!Accrued, GrantAt

LEMMA GrantSendFrame ==
    ASSUME V!TypeOK, OnGrid(gHeld, TickGrid),
           NEW to \in Parties, NEW q \in Nat, OnGrid(q, TickGrid), V!Send(to, q)
    PROVE  /\ gHeld' \in Nat /\ gHeld' = gHeld - q
           /\ OnGrid(gHeld', TickGrid)
           /\ gWallet' \in [Parties -> Nat]
<1>1. TickGrid \in Nat \ {0}
  BY GrantAssumption DEF V!Assumption
<1>2. HalfUp(q, TickGrid) = q
  BY <1>1, LedgerKeepsGrid
<1>3. q <= gHeld /\ gHeld' = gHeld - q /\ gWallet' = [gWallet EXCEPT ![to] = @ + q]
  BY <1>2 DEF V!Send
<1>4. gHeld \in Nat /\ q \in 0..gHeld
  BY <1>3 DEF V!TypeOK
<1>5. OnGrid(gHeld', TickGrid)
  BY <1>1, <1>3, <1>4, GridDifference
<1> QED
  BY <1>3, <1>4, <1>5 DEF V!TypeOK

(* What the beneficiary may claim never takes them ahead of what accrued.    *)
LEMMA GrantClaimableBounds ==
    ASSUME V!TypeOK, GrantWhole, GrantBooks, GrantBehind, V!Running
    PROVE  /\ V!Claimable \in Nat /\ OnGrid(V!Claimable, TickGrid)
           /\ V!Accrued - claimed * Duration \in Nat
           /\ V!Claimable = GrantShare(V!Accrued - claimed * Duration)
           /\ Duration * (claimed + V!Claimable) <= V!Accrued
           /\ claimed + V!Claimable <= total
<1>1. Duration \in Nat \ {0}
  BY GrantAssumption DEF V!Assumption
<1>2. /\ claimed \in Nat /\ total \in Nat /\ V!Accrued \in Nat
      /\ Duration * claimed <= V!Accrued /\ V!Accrued <= Duration * total
  BY DEF V!TypeOK, GrantBehind
<1>3. claimed * Duration = Duration * claimed /\ Duration * claimed \in Nat
  BY <1>1, <1>2
<1> DEFINE n == V!Accrued - claimed * Duration
<1>4. n \in Nat
  BY <1>2, <1>3
<1>5. V!Claimable = GrantShare(n)
  BY DEF V!Claimable, GrantShare
<1>6. /\ GrantShare(n) \in Nat /\ OnGrid(GrantShare(n), TickGrid)
      /\ Duration * GrantShare(n) <= n
  <2> HIDE DEF n
  <2> QED
    BY <1>4, GrantShareBounds
<1>7. Duration * (claimed + V!Claimable) = Duration * claimed + Duration * V!Claimable
  BY <1>1, <1>2, <1>5, <1>6
<1>8. Duration * (claimed + V!Claimable) <= V!Accrued
  BY <1>1, <1>2, <1>3, <1>5, <1>6, <1>7
<1>9. claimed + V!Claimable <= total
  <2>1. /\ claimed + V!Claimable \in Nat
        /\ Duration * (claimed + V!Claimable) \in Nat /\ Duration * total \in Nat
    BY <1>1, <1>2, <1>5, <1>6
  <2>2. Duration * (claimed + V!Claimable) <= Duration * total
    BY <1>2, <1>8, <2>1
  <2> QED
    BY <1>1, <1>2, <2>1, <2>2, ProductCancels
<1> QED
  BY <1>4, <1>5, <1>6, <1>8, <1>9

(* What revoke() leaves the beneficiary is what accrued, rounded up.         *)
LEMMA GrantUnvestedBounds ==
    ASSUME V!TypeOK, GrantWhole, GrantBooks, GrantBehind, gStatus = "ACTIVE"
    PROVE  /\ V!Unvested \in Nat /\ OnGrid(V!Unvested, TickGrid)
           /\ V!FrozenCap \in Nat /\ OnGrid(V!FrozenCap, TickGrid)
           /\ V!Accrued <= Duration * V!FrozenCap
           /\ Duration * V!FrozenCap < V!Accrued + TickGrid * Duration
           /\ claimed <= V!FrozenCap
<1>1. Duration \in Nat \ {0} /\ TickGrid \in Nat \ {0}
  BY GrantAssumption DEF V!Assumption
<1>2. /\ claimed \in Nat /\ total \in Nat /\ V!Accrued \in Nat
      /\ Duration * claimed <= V!Accrued /\ V!Accrued <= Duration * total
      /\ OnGrid(total, TickGrid)
  BY DEF V!TypeOK, GrantBehind, GrantWhole, V!Running
<1>3. total * Duration = Duration * total /\ Duration * total \in Nat
  BY <1>1, <1>2
<1> DEFINE n == total * Duration - V!Accrued
<1>4. n \in Nat
  BY <1>2, <1>3
<1>5. V!Unvested = GrantShare(n)
  BY DEF V!Unvested, GrantShare
<1>6. /\ GrantShare(n) \in Nat /\ OnGrid(GrantShare(n), TickGrid)
      /\ Duration * GrantShare(n) <= n
      /\ n < Duration * GrantShare(n) + TickGrid * Duration
  <2> HIDE DEF n
  <2> QED
    BY <1>4, GrantShareBounds
<1>7. V!Unvested <= total
  <2>1. Duration * V!Unvested \in Nat /\ Duration * V!Unvested <= Duration * total
    BY <1>1, <1>2, <1>3, <1>5, <1>6
  <2> QED
    BY <1>1, <1>2, <1>5, <1>6, <2>1, ProductCancels
<1>8. V!FrozenCap \in Nat /\ OnGrid(V!FrozenCap, TickGrid)
  <2>1. V!Unvested \in 0..total
    BY <1>2, <1>5, <1>6, <1>7
  <2> QED
    BY <1>1, <1>2, <1>5, <1>6, <2>1, GridDifference DEF V!FrozenCap
<1>9. Duration * V!FrozenCap = Duration * total - Duration * V!Unvested
  BY <1>1, <1>2, <1>5, <1>6, <1>7 DEF V!FrozenCap
<1>10. /\ V!Accrued <= Duration * V!FrozenCap
       /\ Duration * V!FrozenCap < V!Accrued + TickGrid * Duration
  <2>1. /\ Duration * V!Unvested \in Nat /\ TickGrid * Duration \in Nat
        /\ Duration * V!Unvested <= Duration * total - V!Accrued
        /\ Duration * total - V!Accrued < Duration * V!Unvested + TickGrid * Duration
    BY <1>1, <1>3, <1>5, <1>6
  <2> QED
    BY <1>2, <1>3, <1>9, <2>1
<1>11. claimed <= V!FrozenCap
  <2>1. Duration * claimed \in Nat /\ Duration * V!FrozenCap \in Nat
    BY <1>1, <1>2, <1>8
  <2>2. Duration * claimed <= Duration * V!FrozenCap
    BY <1>2, <1>10, <2>1
  <2> QED
    BY <1>1, <1>2, <1>8, <2>2, ProductCancels
<1> QED
  BY <1>5, <1>6, <1>8, <1>10, <1>11

-----------------------------------------------------------------------------
LEMMA GrantInitIInv == V!Init => GrantIInv
<1> SUFFICES ASSUME V!Init PROVE GrantIInv
  OBVIOUS
<1>1. /\ TickGrid \in Nat \ {0} /\ Duration \in Nat \ {0} /\ Grants \subseteq Nat \ {0}
      /\ GrantFunds \in [Parties -> Nat]
  BY GrantAssumption DEF V!Assumption
<1>2. OnGrid(0, TickGrid)
  BY <1>1, ZeroOnGrid
<1>3. V!TypeOK
  BY <1>1 DEF V!Init, V!TypeOK
<1> QED
  BY <1>2, <1>3
       DEF V!Init, GrantIInv, GrantUntouched, GrantWhole, GrantBooks, V!Solvent,
           GrantBehind,
                    GrantFrozenBehind, V!Running

LEMMA GrantNextBlockIInv == GrantIInv /\ V!NextBlock => GrantIInv'
<1> SUFFICES ASSUME GrantIInv, V!NextBlock PROVE GrantIInv'
  OBVIOUS
<1> USE DEF GrantIInv
<1>1. /\ Duration \in Nat \ {0} /\ TickGrid \in Nat \ {0} /\ Grants \subseteq Nat \ {0}
  BY GrantAssumption DEF V!Assumption
<1>2. V!TypeOK'
  BY DEF V!TypeOK, V!NextBlock, V!terms, V!store
<1>3. GrantUntouched' /\ GrantWhole' /\ V!Solvent'
  BY DEF GrantUntouched, GrantWhole, V!Solvent, V!Running, V!NextBlock, V!terms, V!store
<1>4. GrantBooks'
  BY DEF V!TypeOK, GrantBooks, V!Running, V!NextBlock, V!terms, V!store
<1>5. CASE gStatus = "ACTIVE"
  <2>1. V!Elapsed \in Nat /\ V!Elapsed' = V!Elapsed + 1 /\ gStatus' = "ACTIVE"
    BY <1>5 DEF V!TypeOK, GrantBooks, V!Running, V!Elapsed, V!NextBlock, V!store
  <2>2. /\ V!Accrued = GrantAt(V!Elapsed, cliff, total)
        /\ V!Accrued' = GrantAt(V!Elapsed + 1, cliff, total)
    BY <1>5, <2>1 DEF V!Accrued, GrantAt, V!NextBlock, V!terms, V!store
  <2>3. cliff \in 0..Duration /\ total \in Nat /\ claimed \in Nat
    BY DEF V!TypeOK
  <2>4. /\ V!Accrued <= V!Accrued' /\ V!Accrued \in Nat /\ V!Accrued' \in Nat
        /\ V!Accrued' <= Duration * total
    BY <2>1, <2>2, <2>3, GrantAtMonotone, GrantAtBounds
  <2>5. Duration * claimed <= V!Accrued /\ Duration * claimed \in Nat
    BY <1>1, <1>5, <2>3 DEF GrantBehind, V!Running
  <2>6. GrantBehind'
    BY <2>4, <2>5 DEF GrantBehind, V!NextBlock, V!store
  <2>7. GrantFrozenBehind'
    BY <2>1 DEF GrantFrozenBehind
  <2> QED
    BY <1>2, <1>3, <1>4, <2>6, <2>7
<1>6. CASE gStatus = "REVOKED"
  <2>1. V!Elapsed \in Nat /\ V!Elapsed' = V!Elapsed + 1 /\ gStatus' = "REVOKED"
    BY <1>6 DEF V!TypeOK, GrantBooks, V!Running, V!Elapsed, V!NextBlock, V!store
  <2>2. GrantBehind'
    BY <1>6, <2>1 DEF GrantBehind, V!Running, V!Accrued, V!NextBlock, V!terms, V!store
  <2>3. grant \in Nat /\ total \in Nat /\ cliff \in Nat
    BY <1>1 DEF V!TypeOK
  <2>4. grant * V!Elapsed <= grant * (V!Elapsed + 1) /\ grant * (V!Elapsed + 1) \in Nat
    BY <2>1, <2>3, ProductMonotone
  <2>5. /\ Duration * total < grant * V!Elapsed + TickGrid * Duration
        /\ Duration * total \in Nat /\ grant * V!Elapsed \in Nat
        /\ TickGrid * Duration \in Nat
    BY <1>1, <1>6, <2>1, <2>3 DEF GrantFrozenBehind
  <2>6. Duration * total < grant * (V!Elapsed + 1) + TickGrid * Duration
    BY <2>4, <2>5
  <2>7. GrantFrozenBehind'
    BY <1>6, <2>1, <2>3, <2>6 DEF GrantFrozenBehind, V!NextBlock, V!terms, V!store
  <2> QED
    BY <1>2, <1>3, <1>4, <2>2, <2>7
<1>7. CASE ~V!Running
  BY <1>2, <1>3, <1>4, <1>7
       DEF GrantBehind, GrantFrozenBehind, V!Running, V!NextBlock, V!store
<1> QED
  BY <1>5, <1>6, <1>7 DEF V!Running

LEMMA GrantDepositIInv ==
    ASSUME GrantIInv, NEW a \in Parties, NEW q \in 1..gWallet[a], V!Deposit(a, q)
    PROVE  GrantIInv'
<1> USE DEF GrantIInv
<1>1. TickGrid \in Nat \ {0}
  BY GrantAssumption DEF V!Assumption
<1>2. q \in Nat /\ gWallet[a] \in Nat /\ gHeld \in Nat
  BY DEF V!TypeOK
<1>3. V!TypeOK'
  BY <1>2 DEF V!TypeOK, V!Deposit, V!terms, V!store
<1>4. OnGrid(gHeld + q, TickGrid)
  BY <1>1, <1>2, GridSum DEF GrantWhole, V!Deposit
<1>5. GrantWhole'
  BY <1>4 DEF GrantWhole, V!Running, V!Deposit, V!store
<1>6. V!Solvent'
  BY <1>2 DEF V!TypeOK, V!Solvent, V!Running, V!Deposit, V!store
<1>7. GrantUntouched' /\ GrantBooks' /\ GrantBehind' /\ GrantFrozenBehind'
  BY
       DEF GrantUntouched, GrantBooks, GrantBehind, GrantFrozenBehind, V!Running,
           V!Accrued, V!Elapsed,
         V!Deposit, V!terms, V!store
<1> QED
  BY <1>3, <1>5, <1>6, <1>7

LEMMA GrantFundIInv ==
    ASSUME GrantIInv, NEW a \in Parties, V!Fund(a)
    PROVE  GrantIInv'
<1> USE DEF GrantIInv
<1>1. /\ Duration \in Nat \ {0} /\ TickGrid \in Nat \ {0} /\ Grants \subseteq Nat \ {0}
  BY GrantAssumption DEF V!Assumption
<1>2. V!TypeOK'
  BY DEF V!TypeOK, V!Fund, V!terms
<1>3. gStatus' = "ACTIVE" /\ V!Elapsed' = 0 /\ claimed' = 0 /\ total' = total
  BY DEF V!Fund, GrantUntouched, V!Elapsed, V!TypeOK
<1>4. GrantUntouched' /\ GrantFrozenBehind'
  BY <1>3 DEF GrantUntouched, GrantFrozenBehind
<1>5. GrantWhole'
  BY DEF GrantWhole, V!Fund, V!Fundable
<1>6. GrantBooks'
  BY <1>3 DEF GrantBooks, GrantUntouched, V!TypeOK, V!Fund, V!terms
<1>7. V!Solvent'
  BY DEF V!Solvent, GrantUntouched, V!TypeOK, V!Fund, V!Fundable
<1>8. V!Accrued' = GrantAt(0, cliff, total)
  BY <1>3 DEF V!Accrued, GrantAt, V!Fund, V!terms
<1>9. /\ GrantAt(0, cliff, total) \in Nat /\ GrantAt(0, cliff, total) <= Duration * total
      /\ Duration * 0 = 0
  <2>1. 0 \in Nat /\ cliff \in 0..Duration /\ total \in Nat
    BY DEF V!TypeOK
  <2>2. /\ GrantAt(0, cliff, total) \in Nat
        /\ GrantAt(0, cliff, total) <= Duration * total
    BY <2>1, GrantAtBounds
  <2> QED
    BY <1>1, <2>2
<1>10. GrantBehind'
  BY <1>3, <1>8, <1>9 DEF GrantBehind
<1> QED
  BY <1>2, <1>4, <1>5, <1>6, <1>7, <1>10

LEMMA GrantCancelIInv ==
    ASSUME GrantIInv, NEW a \in Parties, V!Cancel(a)
    PROVE  GrantIInv'
<1> USE DEF GrantIInv
<1>1. gHeld \in Nat /\ grantor \in Parties /\ OnGrid(gHeld, TickGrid)
  BY DEF V!TypeOK, GrantWhole
<1>2. gHeld' \in Nat /\ OnGrid(gHeld', TickGrid) /\ gWallet' \in [Parties -> Nat]
  BY <1>1, GrantSendFrame DEF V!Cancel
<1>3. gStatus' = "CANCELLED" /\ claimed' = claimed
  BY DEF V!Cancel
<1>4. V!TypeOK'
  BY <1>2, <1>3 DEF V!TypeOK, V!Cancel, V!terms
<1>5. GrantWhole'
  BY <1>2, <1>3 DEF GrantWhole, V!Running
<1>6. GrantUntouched' /\ GrantBooks' /\ V!Solvent' /\ GrantBehind' /\ GrantFrozenBehind'
  BY <1>3
       DEF GrantUntouched, GrantBooks, V!Solvent, GrantBehind, GrantFrozenBehind, V!Running
<1> QED
  BY <1>4, <1>5, <1>6

LEMMA GrantClaimStep ==
    ASSUME GrantIInv, NEW a \in Parties, V!Claim(a)
    PROVE  /\ V!Running /\ V!Running' /\ gStatus' = gStatus /\ total' = total
           /\ V!Accrued' = V!Accrued
           /\ claimed' = claimed + V!Claimable /\ paid' = paid + V!Claimable
           /\ gHeld' = gHeld - V!Claimable
           /\ gHeld' \in Nat /\ OnGrid(gHeld', TickGrid) /\ gWallet' \in [Parties -> Nat]
<1>1. V!Running
  BY DEF V!Claim, V!Running
<1>2. V!Claimable \in Nat /\ OnGrid(V!Claimable, TickGrid)
  BY <1>1, GrantClaimableBounds DEF GrantIInv
<1>3. V!TypeOK /\ OnGrid(gHeld, TickGrid) /\ beneficiary \in Parties /\ gHeld \in Nat
  BY DEF GrantIInv, V!TypeOK, GrantWhole
<1>4. V!Send(beneficiary, V!Claimable)
  BY DEF V!Claim
<1>5. /\ gHeld' = gHeld - V!Claimable
      /\ gHeld' \in Nat /\ OnGrid(gHeld', TickGrid) /\ gWallet' \in [Parties -> Nat]
  BY <1>2, <1>3, <1>4, GrantSendFrame
<1>6. gHeld - gHeld' = V!Claimable
  BY <1>2, <1>3, <1>5
<1> QED
  BY <1>1, <1>5, <1>6 DEF V!Claim, V!Running, V!Accrued, V!Elapsed, V!terms

LEMMA GrantClaimIInv ==
    ASSUME GrantIInv, NEW a \in Parties, V!Claim(a)
    PROVE  GrantIInv'
<1> USE DEF GrantIInv
<1>1. TickGrid \in Nat \ {0} /\ Duration \in Nat \ {0} /\ Grants \subseteq Nat \ {0}
  BY GrantAssumption DEF V!Assumption
<1>2. /\ V!Running /\ V!Running' /\ gStatus' = gStatus /\ total' = total
      /\ V!Accrued' = V!Accrued
      /\ claimed' = claimed + V!Claimable /\ paid' = paid + V!Claimable
      /\ gHeld' = gHeld - V!Claimable
      /\ gHeld' \in Nat /\ OnGrid(gHeld', TickGrid) /\ gWallet' \in [Parties -> Nat]
  BY GrantClaimStep
<1>3. /\ V!Claimable \in Nat /\ OnGrid(V!Claimable, TickGrid)
      /\ Duration * (claimed + V!Claimable) <= V!Accrued
      /\ claimed + V!Claimable <= total
  BY <1>2, GrantClaimableBounds
<1>4. V!TypeOK'
  BY <1>2, <1>3 DEF V!TypeOK, V!Claim, V!terms
<1>5. GrantUntouched'
  BY <1>2 DEF GrantUntouched, V!Running
<1>6. GrantWhole'
  <2>1. OnGrid(claimed', TickGrid)
    BY <1>1, <1>2, <1>3, GridSum DEF V!TypeOK, GrantWhole
  <2> QED
    BY <1>2, <2>1 DEF GrantWhole
<1>7. GrantBooks'
  BY <1>2, <1>3 DEF GrantBooks, V!Running, V!TypeOK, V!Claim, V!terms
<1>8. V!Solvent'
  BY <1>2, <1>3 DEF V!Solvent, V!TypeOK
<1>9. GrantBehind'
  BY <1>2, <1>3 DEF GrantBehind
<1>10. GrantFrozenBehind'
  BY <1>2 DEF GrantFrozenBehind, V!Elapsed, V!Claim, V!terms
<1> QED
  BY <1>4, <1>5, <1>6, <1>7, <1>8, <1>9, <1>10

LEMMA GrantRevokeStep ==
    ASSUME GrantIInv, NEW a \in Parties, V!Revoke(a)
    PROVE  /\ gStatus = "ACTIVE" /\ gStatus' = "REVOKED" /\ claimed' = claimed
           /\ total' = V!FrozenCap /\ V!FrozenCap = total - V!Unvested
           /\ gHeld' = gHeld - V!Unvested /\ returned' = returned + V!Unvested
           /\ gHeld' \in Nat /\ OnGrid(gHeld', TickGrid) /\ gWallet' \in [Parties -> Nat]
           /\ V!Accrued' = Duration * V!FrozenCap
<1>1. Duration \in Nat
  BY GrantAssumption DEF V!Assumption
<1>2. gStatus = "ACTIVE" /\ V!Send(grantor, V!Unvested) /\ total' = V!FrozenCap
  BY DEF V!Revoke
<1>3. /\ V!Unvested \in Nat /\ OnGrid(V!Unvested, TickGrid)
      /\ V!FrozenCap \in Nat
  BY <1>2, GrantUnvestedBounds DEF GrantIInv
<1>4. V!TypeOK /\ OnGrid(gHeld, TickGrid) /\ grantor \in Parties /\ gHeld \in Nat
  BY DEF GrantIInv, V!TypeOK, GrantWhole
<1>5. /\ gHeld' = gHeld - V!Unvested
      /\ gHeld' \in Nat /\ OnGrid(gHeld', TickGrid) /\ gWallet' \in [Parties -> Nat]
  BY <1>2, <1>3, <1>4, GrantSendFrame
<1>6. gHeld - gHeld' = V!Unvested
  BY <1>3, <1>4, <1>5
<1>7. V!Accrued' = total' * Duration
  BY DEF V!Revoke, V!Accrued
<1>8. V!FrozenCap * Duration = Duration * V!FrozenCap
  BY <1>1, <1>3
<1> QED
  BY <1>2, <1>5, <1>6, <1>7, <1>8 DEF V!Revoke, V!FrozenCap

(* What revoke() freezes before the cliff is nothing.                        *)
LEMMA GrantNothingBeforeCliff ==
    ASSUME GrantIInv, gStatus = "ACTIVE", V!FrozenCap > 0
    PROVE  V!Elapsed >= cliff
<1>1. Duration \in Nat \ {0} /\ TickGrid \in Nat \ {0}
  BY GrantAssumption DEF V!Assumption
<1>2. SUFFICES ASSUME V!Elapsed < cliff PROVE FALSE
  BY DEF GrantIInv, V!TypeOK, GrantBooks, V!Running, V!Elapsed
<1>3. V!Accrued = 0
  BY <1>2 DEF V!Accrued
<1>4. /\ V!FrozenCap \in Nat /\ OnGrid(V!FrozenCap, TickGrid)
      /\ Duration * V!FrozenCap < TickGrid * Duration
  <2>1. TickGrid * Duration \in Nat
    BY <1>1
  <2> QED
    BY <1>3, <2>1, GrantUnvestedBounds DEF GrantIInv
<1>5. V!FrozenCap < TickGrid
  <2>1. SUFFICES ASSUME TickGrid <= V!FrozenCap PROVE FALSE
    BY <1>1, <1>4
  <2>2. /\ Duration * TickGrid <= Duration * V!FrozenCap
        /\ Duration * TickGrid = TickGrid * Duration
        /\ Duration * TickGrid \in Nat /\ Duration * V!FrozenCap \in Nat
    BY <1>1, <1>4, <2>1, ProductMonotone
  <2> QED
    BY <1>4, <2>2
<1>6. V!FrozenCap = 0
  BY <1>1, <1>4, <1>5, SmallOnGrid
<1> QED
  BY <1>6

LEMMA GrantRevokeIInv ==
    ASSUME GrantIInv, NEW a \in Parties, V!Revoke(a)
    PROVE  GrantIInv'
<1> USE DEF GrantIInv
<1>1. TickGrid \in Nat \ {0} /\ Duration \in Nat \ {0} /\ Grants \subseteq Nat \ {0}
  BY GrantAssumption DEF V!Assumption
<1>2. /\ gStatus = "ACTIVE" /\ gStatus' = "REVOKED" /\ claimed' = claimed
      /\ total' = V!FrozenCap /\ V!FrozenCap = total - V!Unvested
      /\ gHeld' = gHeld - V!Unvested /\ returned' = returned + V!Unvested
      /\ gHeld' \in Nat /\ OnGrid(gHeld', TickGrid) /\ gWallet' \in [Parties -> Nat]
      /\ V!Accrued' = Duration * V!FrozenCap
  BY GrantRevokeStep
<1>3. /\ V!Unvested \in Nat
      /\ V!FrozenCap \in Nat /\ OnGrid(V!FrozenCap, TickGrid)
      /\ Duration * V!FrozenCap < V!Accrued + TickGrid * Duration
      /\ claimed <= V!FrozenCap
  BY <1>2, GrantUnvestedBounds
<1>4. V!TypeOK'
  BY <1>2, <1>3 DEF V!TypeOK, V!Revoke, V!terms
<1>5. GrantUntouched' /\ GrantWhole'
  BY <1>2, <1>3 DEF GrantUntouched, GrantWhole
<1>6. GrantBooks'
  BY <1>2, <1>3 DEF GrantBooks, V!Running, V!TypeOK, V!Revoke, V!terms
<1>7. V!Solvent'
  BY <1>2, <1>3 DEF V!Solvent, V!Running, V!TypeOK
<1>8. GrantBehind'
  <2>1. claimed \in Nat
    BY DEF V!TypeOK
  <2>2. /\ Duration * claimed <= Duration * V!FrozenCap
        /\ Duration * V!FrozenCap \in Nat
    BY <1>1, <1>3, <2>1, ProductMonotone
  <2> QED
    BY <1>2, <2>2 DEF GrantBehind
<1>9. GrantFrozenBehind'
  <2>1. /\ V!Elapsed \in Nat /\ V!Elapsed' = V!Elapsed /\ total = grant
        /\ total \in Nat /\ cliff \in 0..Duration
    BY <1>2 DEF V!TypeOK, GrantBooks, V!Running, V!Elapsed, V!Revoke, V!terms
  <2>2. V!Accrued = GrantAt(V!Elapsed, cliff, grant)
    BY <1>2, <2>1 DEF V!Accrued, GrantAt
  <2>3. V!Accrued \in Nat /\ V!Accrued <= grant * V!Elapsed /\ grant * V!Elapsed \in Nat
    BY <2>1, <2>2, GrantAtBounds
  <2>4. Duration * V!FrozenCap < grant * V!Elapsed + TickGrid * Duration
    <3>1. Duration * V!FrozenCap \in Nat /\ TickGrid * Duration \in Nat
      BY <1>1, <1>3
    <3> QED
      BY <1>3, <2>3, <3>1
  <2>5. V!FrozenCap > 0 => V!Elapsed >= cliff
    BY <1>2, GrantNothingBeforeCliff
  <2>6. grant' = grant /\ cliff' = cliff
    BY DEF V!Revoke, V!terms
  <2> QED
    BY <1>2, <2>1, <2>4, <2>5, <2>6 DEF GrantFrozenBehind
<1> QED
  BY <1>4, <1>5, <1>6, <1>7, <1>8, <1>9

LEMMA GrantStutterIInv == GrantIInv /\ UNCHANGED V!vars => GrantIInv'
  BY
       DEF GrantIInv, V!TypeOK, GrantUntouched, GrantWhole, GrantBooks, V!Solvent,
           GrantBehind, GrantFrozenBehind,
         V!Running, V!Accrued, V!Elapsed, V!vars, V!terms, V!store

LEMMA GrantStepIInv == GrantIInv /\ [V!Next]_(V!vars) => GrantIInv'
<1> SUFFICES ASSUME GrantIInv, [V!Next]_(V!vars) PROVE GrantIInv'
  OBVIOUS
<1>1. CASE V!NextBlock
  BY <1>1, GrantNextBlockIInv
<1>2. ASSUME NEW a \in Parties, NEW q \in 1..gWallet[a], V!Deposit(a, q) PROVE GrantIInv'
  BY <1>2, GrantDepositIInv
<1>3. ASSUME NEW a \in Parties, V!Fund(a) PROVE GrantIInv'
  BY <1>3, GrantFundIInv
<1>4. ASSUME NEW a \in Parties, V!Cancel(a) PROVE GrantIInv'
  BY <1>4, GrantCancelIInv
<1>5. ASSUME NEW a \in Parties, V!Claim(a) PROVE GrantIInv'
  BY <1>5, GrantClaimIInv
<1>6. ASSUME NEW a \in Parties, V!Revoke(a) PROVE GrantIInv'
  BY <1>6, GrantRevokeIInv
<1>7. CASE UNCHANGED V!vars
  BY <1>7, GrantStutterIInv
<1> QED
  BY <1>1, <1>2, <1>3, <1>4, <1>5, <1>6, <1>7 DEF V!Next

LEMMA GrantInvariantHolds == V!Spec => []GrantIInv
<1>1. V!Init => GrantIInv
  BY GrantInitIInv
<1>2. GrantIInv /\ [V!Next]_(V!vars) => GrantIInv'
  BY GrantStepIInv
<1> QED
  BY <1>1, <1>2, PTL DEF V!Spec

-----------------------------------------------------------------------------
(* What the invariant gives.                                                 *)

LEMMA GrantIInvOnSchedule == GrantIInv => V!OnSchedule
<1> SUFFICES ASSUME GrantIInv PROVE V!OnSchedule
  OBVIOUS
<1> USE DEF GrantIInv
<1>1. TickGrid \in Nat \ {0} /\ Duration \in Nat \ {0} /\ Grants \subseteq Nat \ {0}
  BY GrantAssumption DEF V!Assumption
<1>2. V!Running => paid = claimed /\ total + returned = grant /\ claimed <= total
  BY DEF GrantBooks
<1>3. ASSUME V!Running, claimed > 0
      PROVE  /\ V!Elapsed >= cliff
             /\ gStatus = "ACTIVE" => claimed * Duration <= V!Accrued
             /\ V!Elapsed < Duration
                  => claimed * Duration < grant * V!Elapsed + TickGrid * Duration
  <2>1. /\ claimed \in Nat /\ total \in Nat /\ grant \in Nat /\ V!Elapsed \in Nat
        /\ cliff \in 0..Duration
    BY <1>1, <1>3 DEF V!TypeOK, GrantBooks, V!Elapsed
  <2>2. /\ Duration * claimed \in Nat /\ Duration * claimed > 0
        /\ claimed * Duration = Duration * claimed
    <3>1. 1 \in Nat /\ 1 <= claimed
      BY <1>3, <2>1
    <3>2. Duration * 1 <= Duration * claimed /\ Duration * 1 = Duration
      BY <1>1, <2>1, <3>1, ProductMonotone
    <3> QED
      BY <1>1, <2>1, <3>2
  <2>3. Duration * claimed <= V!Accrued
    BY <1>3 DEF GrantBehind
  <2>4. grant * V!Elapsed \in Nat /\ TickGrid * Duration \in Nat \ {0}
    <3>1. 1 \in Nat /\ 1 <= Duration
      BY <1>1
    <3>2. TickGrid * 1 <= TickGrid * Duration /\ TickGrid * 1 = TickGrid
      BY <1>1, <3>1, ProductMonotone
    <3> QED
      BY <1>1, <2>1, <3>2
  <2>5. CASE gStatus = "ACTIVE"
    <3>1. V!Accrued = GrantAt(V!Elapsed, cliff, grant)
      BY <1>3, <2>1, <2>5 DEF V!Accrued, GrantAt, GrantBooks
    <3>2. /\ V!Accrued \in Nat /\ V!Accrued <= grant * V!Elapsed
          /\ V!Accrued > 0 => V!Elapsed >= cliff
      BY <2>1, <3>1, GrantAtBounds
    <3> QED
      BY <2>2, <2>3, <2>4, <3>2
  <2>6. CASE gStatus = "REVOKED"
    <3>1. /\ Duration * total < grant * V!Elapsed + TickGrid * Duration
          /\ V!Elapsed >= cliff
      BY <1>2, <1>3, <2>1, <2>6 DEF GrantFrozenBehind
    <3>2. Duration * claimed <= Duration * total /\ Duration * total \in Nat
      BY <1>1, <1>2, <1>3, <2>1, ProductMonotone
    <3> QED
      BY <2>2, <2>4, <2>6, <3>1, <3>2
  <2> QED
    BY <1>3, <2>5, <2>6 DEF V!Running
<1> QED
  BY <1>2, <1>3 DEF V!OnSchedule

LEMMA GrantCommutes ==
    ASSUME NEW p \in Nat
    PROVE  p * Duration = Duration * p /\ Duration * p \in Nat
<1>1. Duration \in Nat
  BY GrantAssumption DEF V!Assumption
<1> QED
  BY <1>1

(* More accrued, with as much claimed, is more to claim.                     *)
LEMMA GrantMoreAccrued ==
    ASSUME NEW m \in Nat, NEW n \in Nat, NEW p \in Nat, Duration * p <= m, m <= n
    PROVE  /\ GrantShare(m - p * Duration) \in Nat /\ GrantShare(n - p * Duration) \in Nat
           /\ GrantShare(m - p * Duration) <= GrantShare(n - p * Duration)
<1>1. /\ p * Duration = Duration * p /\ Duration * p \in Nat
  BY GrantAssumption DEF V!Assumption
<1> DEFINE k == m - p * Duration
           l == n - p * Duration
<1>2. k \in Nat /\ l \in Nat /\ k <= l
  BY <1>1
<1> HIDE DEF k, l
<1>3. GrantShare(k) \in Nat /\ GrantShare(l) \in Nat /\ GrantShare(k) <= GrantShare(l)
  BY <1>2, GrantShareBounds, GrantShareMonotone
<1> QED
  BY <1>3 DEF k, l

LEMMA GrantWaitingEarns ==
    ASSUME GrantIInv, V!Running, V!NextBlock
    PROVE  V!Running' /\ V!Accrued <= V!Accrued' /\ claimed' = claimed
<1>1. V!Accrued \in Nat
  BY DEF GrantIInv, GrantBehind
<1>2. CASE gStatus = "ACTIVE"
  <2>1. V!Elapsed \in Nat /\ V!Elapsed' = V!Elapsed + 1 /\ gStatus' = "ACTIVE"
    BY <1>2 DEF GrantIInv, V!TypeOK, GrantBooks, V!Elapsed, V!NextBlock, V!store
  <2>2. /\ V!Accrued = GrantAt(V!Elapsed, cliff, total)
        /\ V!Accrued' = GrantAt(V!Elapsed + 1, cliff, total)
    BY <1>2, <2>1 DEF V!Accrued, GrantAt, V!NextBlock, V!terms, V!store
  <2>3. cliff \in 0..Duration /\ total \in Nat
    BY DEF GrantIInv, V!TypeOK
  <2> QED
    BY <2>1, <2>2, <2>3, GrantAtMonotone DEF V!Running, V!NextBlock, V!store
<1>3. CASE gStatus = "REVOKED"
  BY <1>1, <1>3 DEF V!Running, V!Accrued, V!NextBlock, V!store
<1> QED
  BY <1>2, <1>3 DEF V!Running

LEMMA GrantStepKeepsEarned ==
    ASSUME GrantIInv, GrantIInv', [V!Next]_(V!vars), V!Running
    PROVE  claimed' + V!Claimable' >= claimed + V!Claimable
<1>1. /\ claimed \in Nat /\ V!Accrued \in Nat /\ Duration * claimed <= V!Accrued
      /\ V!Claimable = GrantShare(V!Accrued - claimed * Duration)
      /\ V!Claimable \in Nat
  BY GrantClaimableBounds DEF GrantIInv, V!TypeOK, GrantBehind
<1>2. V!Claimable' = GrantShare(V!Accrued' - claimed' * Duration)
  BY DEF V!Claimable, GrantShare
<1>3. claimed' \in Nat
  BY DEF GrantIInv, V!TypeOK
<1>4. V!Running' => V!Accrued' \in Nat /\ Duration * claimed' <= V!Accrued'
  BY DEF GrantIInv, GrantBehind
<1>5. ASSUME V!Running', claimed' = claimed, V!Accrued <= V!Accrued'
      PROVE  claimed' + V!Claimable' >= claimed + V!Claimable
  <2>1. V!Accrued' \in Nat
    BY <1>4, <1>5
  <2>2. /\ GrantShare(V!Accrued - claimed * Duration)
             <= GrantShare(V!Accrued' - claimed * Duration)
        /\ GrantShare(V!Accrued' - claimed * Duration) \in Nat
    BY <1>1, <1>5, <2>1, GrantMoreAccrued
  <2>3. V!Claimable <= V!Claimable' /\ V!Claimable' \in Nat
    BY <1>1, <1>2, <1>5, <2>2
  <2> QED
    BY <1>1, <1>5, <2>3
<1>6. CASE V!NextBlock
  BY <1>5, <1>6, GrantWaitingEarns
<1>7. ASSUME NEW a \in Parties, NEW q \in 1..gWallet[a], V!Deposit(a, q)
      PROVE  claimed' + V!Claimable' >= claimed + V!Claimable
  <2>1. claimed' = claimed /\ V!Claimable' = V!Claimable
    BY <1>7 DEF V!Claimable, V!Accrued, V!Elapsed, V!Deposit, V!terms, V!store
  <2> QED
    BY <1>1, <2>1
<1>8. ASSUME NEW a \in Parties, V!Fund(a) \/ V!Cancel(a) PROVE FALSE
  BY <1>8 DEF V!Running, V!Fund, V!Cancel
<1>9. ASSUME NEW a \in Parties, V!Claim(a)
      PROVE  claimed' + V!Claimable' >= claimed + V!Claimable
  <2>1. claimed' = claimed + V!Claimable /\ V!Running'
    BY <1>9, GrantClaimStep
  <2>2. V!Accrued' - claimed' * Duration \in Nat
    <3>1. claimed' * Duration = Duration * claimed' /\ Duration * claimed' \in Nat
      BY <1>3, GrantCommutes
    <3> QED
      BY <1>4, <2>1, <3>1
  <2>3. V!Claimable' \in Nat
    BY <1>2, <2>2, GrantShareBounds
  <2> QED
    BY <1>1, <2>1, <2>3
<1>10. ASSUME NEW a \in Parties, V!Revoke(a)
       PROVE  claimed' + V!Claimable' >= claimed + V!Claimable
  <2>1. /\ gStatus = "ACTIVE" /\ gStatus' = "REVOKED" /\ claimed' = claimed
        /\ V!Accrued' = Duration * V!FrozenCap
    BY <1>10, GrantRevokeStep
  <2>2. V!Accrued <= Duration * V!FrozenCap
    BY <2>1, GrantUnvestedBounds DEF GrantIInv
  <2> QED
    BY <1>5, <2>1, <2>2 DEF V!Running
<1>11. CASE UNCHANGED V!vars
  <2>1. claimed' = claimed /\ V!Claimable' = V!Claimable
    BY <1>11 DEF V!Claimable, V!Accrued, V!Elapsed, V!vars, V!terms, V!store
  <2> QED
    BY <1>1, <2>1
<1> QED
  BY <1>6, <1>7, <1>8, <1>9, <1>10, <1>11 DEF V!Next

(* Whatever is deposited, claimed or revoked, in any order: the contract's   *)
(* books are the ledger's, the grant is shared exactly between the two       *)
(* sides, custody covers what is left, and the beneficiary stays on the      *)
(* schedule as deployed.  For every grant, grid, duration, cliff, horizon.   *)
THEOREM VestingOnSchedule == V!Spec => [](V!TypeOK /\ V!Solvent /\ V!OnSchedule)
<1>1. GrantIInv => V!TypeOK /\ V!Solvent /\ V!OnSchedule
  BY GrantIInvOnSchedule DEF GrantIInv
<1> QED
  BY <1>1, GrantInvariantHolds, PTL

(* What the beneficiary has received and could receive now never shrinks,    *)
(* neither by rounding over a claim nor by the cap revoke() freezes.         *)
THEOREM VestingEarnedIsKept == V!Spec => V!EarnedIsKept
<1>1. GrantIInv /\ GrantIInv' /\ [V!Next]_(V!vars)
        => [V!Running => claimed' + V!Claimable' >= claimed + V!Claimable]_(V!vars)
  BY GrantStepKeepsEarned
<1> QED
  BY <1>1, GrantInvariantHolds, PTL DEF V!Spec, V!EarnedIsKept

HIDE GrantOperators

-----------------------------------------------------------------------------
(* Either template, deployed.                                                *)

LEMMA DeployedEscrow == CSpec => DSpec
<1>1. CInit => DInit
  BY DEF CInit
<1>2. [CNext]_all => [DNext]_dvars
  BY DEF CNext, OnlyEscrow, OnlyGrant, all
<1> QED
  BY <1>1, <1>2, PTL DEF CSpec, DSpec

LEMMA DeployedGrant == CSpec => V!Spec
<1>1. CInit => V!Init
  BY DEF CInit
<1>2. [CNext]_all => [V!Next]_(V!vars)
  BY DEF CNext, OnlyEscrow, OnlyGrant, all, vesting, V!vars, V!terms, V!store
<1> QED
  BY <1>1, <1>2, PTL DEF CSpec, V!Spec

(* However the deployment is set up, an escrow in it settles by somebody's   *)
(* right, keeps its custody to one payment and loses no check.               *)
THEOREM DeployedSettlesRightly == CSpec => []SettledRightly
  BY DeployedEscrow, DeliverySafety, PTL

THEOREM DeployedImplementsCustody == CSpec => ImplementsCustody
  BY DeployedEscrow, DeliveryImplementsCustody, PTL

THEOREM DeployedKeepsCheck == CSpec => CheckNotLost
  BY DeployedEscrow, DeliveryKeepsCheck, PTL

(* And a grant in it stays on its schedule and never takes back what has     *)
(* been earned.                                                              *)
THEOREM DeployedGrantOnSchedule == CSpec => []GrantOnSchedule
  BY DeployedGrant, VestingOnSchedule, PTL DEF GrantOnSchedule

THEOREM DeployedGrantEarnedIsKept == CSpec => GrantEarnedIsKept
  BY DeployedGrant, VestingEarnedIsKept, PTL DEF GrantEarnedIsKept
=============================================================================
