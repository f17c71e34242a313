------------------------- MODULE Governance_proofs --------------------------
(* Proofs about the two contracts of Governance: Treasury, for every set of  *)
(* addresses and polls, number of proposals, grid, timelock, window and      *)
(* horizon; PolicyGuard, an instance, for every set of configs and of        *)
(* addresses and every cap; and the deployment of either.                    *)
EXTENDS Governance, Sequences, Amounts_proofs

(* Ids beyond the count name no proposal yet.                                *)
CountedOnly == \A id \in Ids : id > count => proposal[id].status = "NONE"

(* What arm() checked, carried by the proposal from then on: its poll has    *)
(* finalised, and nothing about poll or binding can change any more.         *)
ArmedByItsPoll ==
    \A id \in Ids : proposal[id].status \in {"ARMED", "EXECUTED"} =>
        /\ proposal[id].poll \in Polls
        /\ names[proposal[id].poll] = id
        /\ electorate[proposal[id].poll] = "gov"
        /\ outcome[proposal[id].poll] # "open"
        /\ mode = "guardian" => proposal[id].expected = proposal[id].poll

(* What executeProposal() checked, carried by the proposal from then on.     *)
PaidAfterTimelock ==
    \A id \in Ids : proposal[id].status = "EXECUTED" =>
        /\ outcome[proposal[id].poll] = "won"
        /\ proposal[id].executed \in proposal[id].armed + Timelock
                                       .. proposal[id].armed + Timelock + Window

IInv == TypeOK /\ CountedOnly /\ ArmedByItsPoll /\ PaidAfterTimelock

-----------------------------------------------------------------------------
LEMMA BlankIsTyped == Addr # {} => Blank \in Proposals
  BY DEF Blank, Proposals

LEMMA InitIInv == Init => IInv
<1> SUFFICES ASSUME Init PROVE IInv
  OBVIOUS
<1>1. Blank \in Proposals
  BY BlankIsTyped DEF Init
<1>2. Blank.status = "NONE"
  BY DEF Blank
<1>3. TypeOK
  BY <1>1, TreasuryAssumption DEF Init, TypeOK
<1> QED
  BY <1>2, <1>3 DEF Init, IInv, CountedOnly, ArmedByItsPoll, PaidAfterTimelock

(* What a call that writes one proposal may write, so that the invariant     *)
(* survives: every other proposal's record is untouched.                     *)
Wrote(id, rec) == /\ rec \in Proposals
                  /\ proposal' = [proposal EXCEPT ![id] = rec]

LEMMA WriteFrame ==
    ASSUME TypeOK, NEW id \in Ids, NEW rec, Wrote(id, rec)
    PROVE  /\ proposal' \in [Ids -> Proposals]
           /\ proposal'[id] = rec
           /\ \A i \in Ids : i # id => proposal'[i] = proposal[i]
  BY DEF TypeOK, Wrote

LEMMA StepIInv == IInv /\ [Next]_vars => IInv'
<1> SUFFICES ASSUME IInv, [Next]_vars
             PROVE  IInv'
  OBVIOUS
<1> USE TreasuryAssumption
<1>1. TypeOK /\ CountedOnly /\ ArmedByItsPoll /\ PaidAfterTimelock
  BY DEF IInv
\* Steps that leave proposals, polls and terms alone.
<1>2. ASSUME UNCHANGED <<terms, count, proposal, polls>>, TypeOK'
      PROVE  IInv'
  BY <1>1, <1>2 DEF IInv, CountedOnly, ArmedByItsPoll, PaidAfterTimelock, terms, polls
<1>3. CASE NextBlock
  <2>1. TypeOK'
    BY <1>1, <1>3 DEF NextBlock, TypeOK, terms, polls, ledger
  <2> QED
    BY <1>2, <1>3, <2>1 DEF NextBlock
<1>4. ASSUME NEW a \in Addr, NEW q \in 1..wallet[a], Deposit(a, q)
      PROVE  IInv'
  <2>1. wallet[a] \in Nat /\ wallet[a] - q \in Nat /\ held + q \in Nat /\ received + q \in Nat
    BY <1>1, <1>4 DEF TypeOK
  <2>2. TypeOK'
    BY <1>1, <1>4, <2>1 DEF TypeOK, Deposit, terms, polls
  <2> QED
    BY <1>2, <1>4, <2>2 DEF Deposit
<1>5. ASSUME NEW a \in Addr, NEW b \in Addr, TransferGov(a, b)
      PROVE  IInv'
  <2>1. gov' \in [Addr -> Nat]
    BY <1>1, <1>5 DEF TypeOK, TransferGov
  <2>2. TypeOK'
    BY <1>1, <1>5, <2>1 DEF TypeOK, TransferGov, terms, polls, ledger
  <2> QED
    BY <1>2, <1>5, <2>2 DEF TransferGov
<1>6. ASSUME NEW a \in Addr, NEW to \in Recipients, NEW amount \in Amounts,
             Propose(a, to, amount)
      PROVE  IInv'
  <2> DEFINE id == count + 1
             rec == [Blank EXCEPT !.proposer = a, !.recipient = to,
                                  !.amount = amount, !.status = "PROPOSED"]
  <2>1. id \in Ids /\ count \in Nat /\ count' = id
    <3>1. count < MaxProposals /\ count' = count + 1
      BY <1>6 DEF Propose
    <3>2. count \in 0..MaxProposals
      BY <1>1 DEF TypeOK
    <3> QED
      BY <3>1, <3>2 DEF Ids
  <2>2. rec \in Proposals /\ rec.status = "PROPOSED"
    <3>1. Blank \in Proposals
      BY BlankIsTyped
    <3> QED
      BY <3>1 DEF Proposals
  <2> HIDE DEF rec
  <2>3. Wrote(id, rec)
    BY <1>6, <2>2 DEF Propose, Wrote, rec
  <2>4. /\ proposal' \in [Ids -> Proposals]
        /\ proposal'[id].status = "PROPOSED"
        /\ \A i \in Ids : i # id => proposal'[i] = proposal[i]
    BY <1>1, <2>1, <2>2, <2>3, WriteFrame
  <2>5. UNCHANGED <<guardian, mode, held, wallet, received, gov, height,
                    names, electorate, outcome>>
    BY <1>6 DEF Propose, terms, ledger, polls
  <2>6. count' \in 0..MaxProposals
    BY <2>1 DEF Ids
  <2>7. TypeOK'
    BY <1>1, <2>4, <2>5, <2>6 DEF TypeOK
  <2>8. CountedOnly'
    BY <1>1, <2>1, <2>4 DEF CountedOnly, Ids
  <2>9. ArmedByItsPoll' /\ PaidAfterTimelock'
    BY <1>1, <2>4, <2>5 DEF ArmedByItsPoll, PaidAfterTimelock
  <2> QED
    BY <2>7, <2>8, <2>9 DEF IInv
\* A call that only moves one proposal to a state that nothing is owed to.
<1>7. ASSUME NEW id \in 1..count, NEW rec \in Proposals, Wrote(id, rec),
             rec.status \in {"PROPOSED", "VETOED", "CANCELLED"},
             UNCHANGED <<terms, count, ledger, gov, height, polls>>
      PROVE  IInv'
  <2>1. id \in Ids /\ count \in Nat
    BY <1>1 DEF TypeOK, Ids
  <2>2. /\ proposal' \in [Ids -> Proposals]
        /\ proposal'[id] = rec
        /\ \A i \in Ids : i # id => proposal'[i] = proposal[i]
    BY <1>1, <1>7, <2>1, WriteFrame
  <2>3. TypeOK'
    BY <1>1, <1>7, <2>2 DEF TypeOK, terms, ledger, polls
  <2>4. CountedOnly'
    BY <1>1, <1>7, <2>1, <2>2 DEF CountedOnly, Ids
  <2>5. ArmedByItsPoll' /\ PaidAfterTimelock'
    BY <1>1, <1>7, <2>2 DEF ArmedByItsPoll, PaidAfterTimelock, terms, polls
  <2> QED
    BY <2>3, <2>4, <2>5 DEF IInv
<1>8. ASSUME NEW id \in 1..count, NEW a \in Addr, NEW p \in Polls, ApprovePoll(a, id, p)
      PROVE  IInv'
  <2> DEFINE rec == [proposal[id] EXCEPT !.expected = p]
  <2>1. id \in Ids /\ proposal[id] \in Proposals
    BY <1>1 DEF TypeOK, Ids
  <2>2. rec \in Proposals /\ rec.status = "PROPOSED"
    BY <1>8, <2>1 DEF ApprovePoll, Proposals
  <2>3. Wrote(id, rec)
    BY <1>8, <2>2 DEF ApprovePoll, Wrote
  <2> HIDE DEF rec
  <2> QED
    BY <1>7, <1>8, <2>2, <2>3 DEF ApprovePoll
<1>9. ASSUME NEW id \in 1..count, NEW a \in Addr, Veto(a, id) \/ Cancel(a, id)
      PROVE  IInv'
  <2>1. id \in Ids /\ proposal[id] \in Proposals
    BY <1>1 DEF TypeOK, Ids
  <2>2. PICK s \in {"VETOED", "CANCELLED"} :
             /\ proposal' = [proposal EXCEPT ![id].status = s]
             /\ UNCHANGED <<terms, count, ledger, gov, height, polls>>
    BY <1>9 DEF Veto, Cancel
  <2> DEFINE rec == [proposal[id] EXCEPT !.status = s]
  <2>3. rec \in Proposals /\ rec.status = s
    BY <2>1 DEF Proposals, Dead
  <2>4. Wrote(id, rec)
    BY <2>2, <2>3 DEF Wrote
  <2> HIDE DEF rec
  <2> QED
    BY <1>7, <2>2, <2>3, <2>4
<1>10. ASSUME NEW p \in Polls, Finalize(p)
       PROVE  IInv'
  <2>1. PICK result \in Outcomes :
             /\ outcome' = [outcome EXCEPT ![p] = result]
             /\ \/ /\ Arms(p, result)
                   /\ proposal' = [proposal EXCEPT ![names[p]].status = "ARMED",
                                                   ![names[p]].poll = p,
                                                   ![names[p]].armed = height]
                \/ UNCHANGED proposal
    BY <1>10 DEF Finalize
  <2>2. UNCHANGED <<guardian, mode, count, held, wallet, received, gov, height,
                    names, electorate>>
    BY <1>10 DEF Finalize, terms, ledger
  <2>3. outcome[p] = "open" /\ result # "open"
    BY <1>10 DEF Finalize, Outcomes
  <2>4. /\ outcome' \in [Polls -> Outcomes \cup {"open"}]
        /\ outcome'[p] # "open"
        /\ \A i \in Polls : i # p => outcome'[i] = outcome[i]
    BY <1>1, <2>1, <2>3 DEF TypeOK
  <2>5. CASE UNCHANGED proposal
    <3>1. TypeOK' /\ CountedOnly'
      BY <1>1, <2>2, <2>4, <2>5 DEF TypeOK, CountedOnly
    <3>2. ArmedByItsPoll' /\ PaidAfterTimelock'
      BY <1>1, <2>2, <2>3, <2>4, <2>5 DEF ArmedByItsPoll, PaidAfterTimelock
    <3> QED
      BY <3>1, <3>2 DEF IInv
  <2>6. CASE Arms(p, result) /\ ~UNCHANGED proposal
    <3> DEFINE id == names[p]
               rec == [proposal[id] EXCEPT !.status = "ARMED", !.poll = p, !.armed = height]
    <3>1. id \in Ids /\ proposal[id] \in Proposals /\ height \in Nat /\ count \in Nat
      BY <1>1 DEF TypeOK
    <3>2. /\ rec \in Proposals
          /\ rec.status = "ARMED" /\ rec.poll = p
          /\ rec.expected = proposal[id].expected
      BY <3>1 DEF Proposals
    <3>3. proposal' = [proposal EXCEPT ![id] = rec]
      BY <2>1, <2>6, <3>1 DEF Proposals
    <3>4. /\ electorate[p] = "gov"
          /\ mode = "guardian" => proposal[id].expected = p
          /\ proposal[id].status = "PROPOSED"
      BY <2>6 DEF Arms, GovElectorate, Bound, Awaiting
    <3> HIDE DEF rec
    <3>5. /\ proposal' \in [Ids -> Proposals]
          /\ proposal'[id] = rec
          /\ \A i \in Ids : i # id => proposal'[i] = proposal[i]
      BY <1>1, <3>1, <3>2, <3>3, WriteFrame DEF Wrote
    <3>6. TypeOK'
      BY <1>1, <2>2, <2>4, <3>5 DEF TypeOK
    <3>7. CountedOnly'
      BY <1>1, <2>2, <3>1, <3>4, <3>5 DEF CountedOnly
    <3>8. ArmedByItsPoll'
      BY <1>1, <2>2, <2>3, <2>4, <3>2, <3>4, <3>5 DEF ArmedByItsPoll
    <3>9. PaidAfterTimelock'
      BY <1>1, <2>2, <2>3, <2>4, <3>2, <3>5 DEF PaidAfterTimelock, ArmedByItsPoll
    <3> QED
      BY <3>6, <3>7, <3>8, <3>9 DEF IInv
  <2> QED
    BY <2>1, <2>5, <2>6
<1>11. ASSUME NEW id \in 1..count, ExecuteProposal(id)
       PROVE  IInv'
  <2> DEFINE moved == Moved(id)
             rec == [proposal[id] EXCEPT !.status = "EXECUTED", !.executed = height,
                                         !.paid = Payout(id)]
  <2>1. /\ id \in Ids /\ proposal[id] \in Proposals /\ count \in Nat
        /\ height \in Nat /\ held \in Nat
    BY <1>1 DEF TypeOK, Ids
  <2>2. /\ proposal[id].amount \in Nat /\ proposal[id].recipient \in Addr
        /\ proposal[id].armed \in Nat
    BY <2>1 DEF Proposals
  <2>3. Payout(id) \in Nat
    BY <2>2, FloorToBounds DEF Payout
  <2>4. moved \in Nat
    BY <2>3, LedgerRounds DEF Moved
  <2>5. /\ rec \in Proposals
        /\ rec.status = "EXECUTED" /\ rec.executed = height
        /\ rec.poll = proposal[id].poll /\ rec.expected = proposal[id].expected
        /\ rec.armed = proposal[id].armed
    BY <2>1, <2>3 DEF Proposals, Dead
  <2>6. proposal' = [proposal EXCEPT ![id] = rec]
    BY <1>1, <1>11, <2>1 DEF ExecuteProposal, Terminal, Proposals, TypeOK
  <2>7. /\ proposal[id].status = "ARMED"
        /\ outcome[proposal[id].poll] = "won"
        /\ height >= proposal[id].armed + Timelock
        /\ height <= proposal[id].armed + Timelock + Window
        /\ moved <= held /\ held' = held - moved
        /\ wallet' = [wallet EXCEPT ![proposal[id].recipient] = @ + moved]
        /\ UNCHANGED <<guardian, mode, count, received, gov, height,
                       names, electorate, outcome>>
    BY <1>11 DEF ExecuteProposal, Executable, PollVerified, StrictlyWon, Ready, terms, polls
  <2> HIDE DEF rec, moved
  <2>8. /\ proposal' \in [Ids -> Proposals]
        /\ proposal'[id] = rec
        /\ \A i \in Ids : i # id => proposal'[i] = proposal[i]
    BY <1>1, <2>1, <2>5, <2>6, WriteFrame DEF Wrote
  <2>9. held' \in Nat /\ wallet' \in [Addr -> Nat]
    <3>1. wallet \in [Addr -> Nat]
      BY <1>1 DEF TypeOK
    <3>2. wallet[proposal[id].recipient] + moved \in Nat
      BY <2>2, <2>4, <3>1
    <3>3. wallet' \in [Addr -> Nat]
      BY <2>7, <3>1, <3>2
    <3>4. held' \in Nat
      BY <2>1, <2>4, <2>7
    <3> QED
      BY <3>3, <3>4
  <2>10. TypeOK'
    BY <1>1, <2>7, <2>8, <2>9 DEF TypeOK
  <2>11. CountedOnly'
    BY <1>1, <2>1, <2>7, <2>8 DEF CountedOnly
  <2>12. ArmedByItsPoll'
    BY <1>1, <2>1, <2>5, <2>7, <2>8 DEF ArmedByItsPoll
  <2>13. PaidAfterTimelock'
    <3>1. height \in proposal[id].armed + Timelock .. proposal[id].armed + Timelock + Window
      BY <2>1, <2>2, <2>7
    <3> QED
      BY <1>1, <2>1, <2>5, <2>7, <2>8, <3>1 DEF PaidAfterTimelock
  <2> QED
    BY <2>10, <2>11, <2>12, <2>13 DEF IInv
<1>12. CASE UNCHANGED vars
  <2>1. TypeOK'
    BY <1>1, <1>12 DEF vars, TypeOK, terms, polls, ledger
  <2> QED
    BY <1>2, <1>12, <2>1 DEF vars
<1> QED
  BY <1>3, <1>4, <1>5, <1>6, <1>8, <1>9, <1>10, <1>11, <1>12 DEF Next

-----------------------------------------------------------------------------
(* In every instance nothing is ever paid without the whole mandate: the     *)
(* inductive invariant carries what arm() and executeProposal() checked, and *)
(* the poll, its electorate and its result cannot change in between.         *)
THEOREM TreasuryMandate == Spec => [](TypeOK /\ MandateBehindPayment)
<1>1. Spec => []IInv
  BY InitIInv, StepIInv, PTL DEF Spec
<1>2. IInv => TypeOK /\ MandateBehindPayment
  BY DEF IInv, ArmedByItsPoll, PaidAfterTimelock, MandateBehindPayment
<1> QED
  BY <1>1, <1>2, PTL

(* What a step may do to a proposal that is vetoed, cancelled or paid.       *)
Frozen == \A id \in Ids : proposal[id].status \in Dead => proposal'[id] = proposal[id]

LEMMA StepFrozen == IInv /\ [Next]_vars => Frozen
<1> SUFFICES ASSUME IInv, [Next]_vars, NEW id \in Ids, proposal[id].status \in Dead
             PROVE  proposal'[id] = proposal[id]
  BY DEF Frozen
<1>1. TypeOK /\ CountedOnly
  BY DEF IInv
<1>2. CASE UNCHANGED proposal
  BY <1>2
<1>3. ASSUME NEW a \in Addr, NEW to \in Recipients, NEW amount \in Amounts,
             Propose(a, to, amount)
      PROVE  proposal'[id] = proposal[id]
  <2>1. id <= count
    <3>1. proposal[id].status # "NONE" /\ count \in Nat /\ id \in Nat
      BY <1>1, TreasuryAssumption DEF TypeOK, Dead, Ids
    <3> QED
      BY <1>1, <3>1 DEF CountedOnly
  <2>2. count + 1 # id
    BY <1>1, <2>1 DEF TypeOK
  <2> QED
    BY <1>1, <1>3, <2>2 DEF Propose, TypeOK
<1>4. ASSUME NEW i \in 1..count, NEW a \in Addr, NEW p \in Polls, ApprovePoll(a, i, p)
      PROVE  proposal'[id] = proposal[id]
  BY <1>1, <1>4 DEF ApprovePoll, TypeOK, Dead
<1>5. ASSUME NEW i \in 1..count, NEW a \in Addr, Veto(a, i) \/ Cancel(a, i)
      PROVE  proposal'[id] = proposal[id]
  BY <1>1, <1>5 DEF Veto, Vetoable, Cancel, TypeOK, Dead
<1>6. ASSUME NEW p \in Polls, Finalize(p)
      PROVE  proposal'[id] = proposal[id]
  BY <1>1, <1>6 DEF Finalize, Arms, Awaiting, TypeOK, Dead
<1>7. ASSUME NEW i \in 1..count, ExecuteProposal(i)
      PROVE  proposal'[id] = proposal[id]
  BY <1>1, <1>7 DEF ExecuteProposal, Executable, TypeOK, Dead
<1>8. ASSUME NextBlock \/ (\E a \in Addr : \E q \in 1..wallet[a] : Deposit(a, q))
               \/ (\E a, b \in Addr : TransferGov(a, b)) \/ UNCHANGED vars
      PROVE  UNCHANGED proposal
  BY <1>8 DEF NextBlock, Deposit, TransferGov, vars
<1> QED
  BY <1>2, <1>3, <1>4, <1>5, <1>6, <1>7, <1>8 DEF Next

(* In every instance a dead proposal's record is final: only live proposals  *)
(* are written, and propose() never reuses an id.                            *)
THEOREM TreasuryDeadStaysDead == Spec => DeadStaysDead
  BY InitIInv, StepIInv, StepFrozen, PTL DEF Spec, DeadStaysDead, Frozen

-----------------------------------------------------------------------------
(* Books and ledger.                                                         *)

LEMMA ExecutedIsFinite == IsFiniteSet(Executed)
<1>1. IsFiniteSet(Ids) /\ Executed \in SUBSET Ids
  BY FS_Interval, TreasuryAssumption DEF Ids, Executed
<1> QED
  BY <1>1, FS_Subset

(* One payment: the amount leaves as it is recorded, under a new id.         *)
LEMMA ExecuteBooks ==
    ASSUME IInv, NEW id \in 1..count, ExecuteProposal(id)
    PROVE  /\ id \in Ids /\ id \notin Executed /\ Executed' = Executed \cup {id}
           /\ proposal'[id].paid \in Nat
           /\ received' = received /\ held' = held - proposal'[id].paid
           /\ \A i \in Executed : proposal'[i] = proposal[i]
<1>1. /\ id \in Ids /\ proposal \in [Ids -> Proposals] /\ proposal[id].status = "ARMED"
      /\ proposal[id].amount \in Nat
  <2>1. /\ proposal \in [Ids -> Proposals] /\ count \in 0..MaxProposals
        /\ MaxProposals \in Nat
    BY TreasuryAssumption DEF IInv, TypeOK
  <2>2. id \in Ids
    BY <2>1 DEF Ids
  <2>3. proposal[id].amount \in Nat
    BY <2>1, <2>2 DEF Proposals
  <2>4. proposal[id].status = "ARMED"
    BY DEF ExecuteProposal, Executable
  <2> QED
    BY <2>1, <2>2, <2>3, <2>4
<1>2. Payout(id) \in Nat /\ OnGrid(Payout(id), TickGrid) /\ Moved(id) = Payout(id)
  BY <1>1, TreasuryAssumption, FloorToBounds, FloorToOnGrid, LedgerKeepsGrid DEF Payout, Moved
<1>3. proposal' = [proposal EXCEPT ![id].status = "EXECUTED", ![id].executed = height,
                                   ![id].paid = Payout(id)]
  BY DEF ExecuteProposal, Terminal
<1>4. /\ proposal'[id].status = "EXECUTED" /\ proposal'[id].paid = Payout(id)
      /\ \A i \in Ids : i # id => proposal'[i] = proposal[i]
  BY <1>1, <1>3 DEF Proposals
<1>5. id \notin Executed /\ Executed' = Executed \cup {id}
  BY <1>1, <1>4 DEF Executed
<1> QED
  BY <1>1, <1>2, <1>4, <1>5 DEF ExecuteProposal, Executed

(* Nothing else pays, or touches what was recorded of a payment.             *)
LEMMA OtherBooks ==
    ASSUME IInv, [Next]_vars, ~ \E id \in 1..count : ExecuteProposal(id)
    PROVE  /\ Executed' = Executed
           /\ \A i \in Executed : proposal'[i] = proposal[i]
           /\ received' - held' = received - held
<1>1. \A i \in Executed : proposal'[i] = proposal[i]
  BY StepFrozen DEF Frozen, Executed, Dead
<1>2. /\ proposal \in [Ids -> Proposals] /\ received \in Nat /\ held \in Nat
      /\ count \in 0..MaxProposals /\ names \in [Polls -> Ids]
  BY DEF IInv, TypeOK
<1>3. \A i \in Ids : proposal'[i].status = "EXECUTED" => proposal[i].status = "EXECUTED"
  <2> SUFFICES ASSUME NEW i \in Ids, proposal'[i].status = "EXECUTED"
               PROVE  proposal[i].status = "EXECUTED"
    OBVIOUS
  <2>1. ASSUME NEW a \in Addr, NEW to \in Recipients, NEW amount \in Amounts,
               Propose(a, to, amount)
        PROVE  proposal[i].status = "EXECUTED"
    BY <1>2, <2>1 DEF Propose, Blank
  <2>2. ASSUME NEW id \in 1..count, NEW a \in Addr, NEW p \in Polls, ApprovePoll(a, id, p)
        PROVE  proposal[i].status = "EXECUTED"
    BY <1>2, <2>2 DEF ApprovePoll, Proposals
  <2>3. ASSUME NEW id \in 1..count, NEW a \in Addr, Veto(a, id) \/ Cancel(a, id)
        PROVE  proposal[i].status = "EXECUTED"
    BY <1>2, <2>3 DEF Veto, Cancel, Proposals
  <2>4. ASSUME NEW p \in Polls, Finalize(p)
        PROVE  proposal[i].status = "EXECUTED"
    BY <1>2, <2>4 DEF Finalize, Proposals
  <2>5. ASSUME NextBlock \/ (\E a \in Addr : \E q \in 1..wallet[a] : Deposit(a, q))
                 \/ (\E a, b \in Addr : TransferGov(a, b)) \/ UNCHANGED vars
        PROVE  proposal[i].status = "EXECUTED"
    BY <2>5 DEF NextBlock, Deposit, TransferGov, vars
  <2> QED
    BY <2>1, <2>2, <2>3, <2>4, <2>5 DEF Next
<1>4. Executed' = Executed
  BY <1>1, <1>3 DEF Executed
<1>5. received' - held' = received - held
  <2>1. ASSUME NEW a \in Addr, NEW q \in 1..wallet[a], Deposit(a, q)
        PROVE  received' - held' = received - held
    <3>1. q \in Nat
      BY DEF IInv, TypeOK
    <3> QED
      BY <1>2, <2>1, <3>1 DEF Deposit
  <2>2. CASE UNCHANGED ledger
    BY <2>2 DEF ledger
  <2> QED
    BY <2>1, <2>2 DEF Next, NextBlock, TransferGov, Propose, ApprovePoll, Veto, Cancel,
                      Finalize, vars
<1> QED
  BY <1>1, <1>4, <1>5

LEMMA StepBooks == IInv /\ RecordsMatchLedger /\ [Next]_vars => RecordsMatchLedger'
<1> SUFFICES ASSUME IInv, RecordsMatchLedger, [Next]_vars PROVE RecordsMatchLedger'
  OBVIOUS
<1> DEFINE paid == [i \in Ids |-> proposal[i].paid]
           next == [i \in Ids |-> proposal'[i].paid]
<1>1. /\ IsFiniteSet(Executed) /\ Executed \in SUBSET Ids
      /\ \A i \in Executed : paid[i] \in Int
      /\ received \in Nat /\ held \in Nat
  BY ExecutedIsFinite DEF IInv, TypeOK, Proposals, Executed
<1>2. SumFunctionOnSet(next, Executed) = SumFunctionOnSet(paid, Executed)
  <2>1. \A i \in Executed : next[i] = paid[i]
    BY <1>1, StepFrozen DEF Frozen, Executed, Dead
  <2> HIDE DEF paid, next
  <2> QED
    BY <1>1, <2>1, SumAgrees
<1>3. received - held = SumFunctionOnSet(paid, Executed)
  BY DEF RecordsMatchLedger
<1>4. ASSUME NEW id \in 1..count, ExecuteProposal(id) PROVE RecordsMatchLedger'
  <2>1. /\ id \in Ids /\ id \notin Executed /\ Executed' = Executed \cup {id}
        /\ proposal'[id].paid \in Nat
        /\ received' = received /\ held' = held - proposal'[id].paid
        /\ \A i \in Executed : proposal'[i] = proposal[i]
    BY <1>4, ExecuteBooks
  <2>2. next[id] = proposal'[id].paid /\ \A i \in Executed : next[i] = paid[i]
    BY <1>1, <2>1
  <2> HIDE DEF paid, next
  <2>3. \A i \in Executed \cup {id} : next[i] \in Int
    BY <1>1, <2>1, <2>2
  <2>4. SumFunctionOnSet(next, Executed \cup {id})
    = SumFunctionOnSet(next, Executed) + next[id]
    BY <1>1, <2>1, <2>3, SumAdd
  <2>5. received' - held' = SumFunctionOnSet(next, Executed')
    BY <1>1, <1>2, <1>3, <2>1, <2>2, <2>4
  <2> QED
    BY <2>5 DEF RecordsMatchLedger, next
<1>5. ASSUME ~ \E id \in 1..count : ExecuteProposal(id) PROVE RecordsMatchLedger'
  <2>1. Executed' = Executed /\ received' - held' = received - held
    BY <1>5, OtherBooks
  <2> HIDE DEF paid, next
  <2>2. received' - held' = SumFunctionOnSet(next, Executed')
    BY <1>2, <1>3, <2>1
  <2> QED
    BY <2>2 DEF RecordsMatchLedger, next
<1> QED
  BY <1>4, <1>5

LEMMA InitBooks == Init => RecordsMatchLedger
<1> SUFFICES ASSUME Init PROVE RecordsMatchLedger
  OBVIOUS
<1>1. Executed = {}
  BY DEF Init, Executed, Blank
<1>2. SumFunctionOnSet([id \in Ids |-> proposal[id].paid], {}) = 0
  BY SumEmpty
<1> QED
  BY <1>1, <1>2 DEF Init, RecordsMatchLedger

(* Whatever is proposed, vetoed, armed and paid, in any number: what has     *)
(* left the treasury is the sum of what its EXECUTED records say was paid.   *)
THEOREM TreasuryBooks == Spec => []RecordsMatchLedger
  BY InitIInv, StepIInv, InitBooks, StepBooks, PTL DEF Spec

-----------------------------------------------------------------------------
(* On each block of its window, a proposal with a strict majority behind it  *)
(* passes every check of executeProposal() and of the ledger, whatever its   *)
(* amount and the grid: arm() left nothing that could fail.                  *)
THEOREM TreasuryNeverWedged == Spec => []NeverWedged
<1>1. ASSUME IInv PROVE NeverWedged
  <2> SUFFICES ASSUME NEW id \in 1..count,
                      proposal[id].status = "ARMED",
                      height \in Ready(id)..Ready(id) + Window,
                      outcome[proposal[id].poll] = "won",
                      proposal[id].amount >= TickGrid,
                      held >= FloorTo(proposal[id].amount, TickGrid)
               PROVE  Executable(id)
    BY DEF NeverWedged
  <2>1. /\ id \in Ids /\ proposal[id].amount \in Nat /\ proposal[id].armed \in Nat
        /\ held \in Nat /\ height \in Nat
    BY <1>1, TreasuryAssumption DEF IInv, TypeOK, Ids, Proposals
  <2>2. /\ TickGrid \in Nat \ {0} /\ Timelock \in Nat \ {0} /\ Window \in Nat \ {0}
    BY TreasuryAssumption
  <2>3. /\ Payout(id) \in Nat /\ OnGrid(Payout(id), TickGrid)
        /\ proposal[id].amount - Payout(id) < TickGrid
    BY <2>1, <2>2, FloorToBounds, FloorToOnGrid DEF Payout
  <2>4. Moved(id) = Payout(id)
    BY <2>2, <2>3, LedgerKeepsGrid DEF Moved
  <2>5. Payout(id) > 0
    BY <2>1, <2>2, <2>3
  <2>6. electorate[proposal[id].poll] = "gov"
    BY <1>1, <2>1 DEF IInv, ArmedByItsPoll
  <2>7. height >= Ready(id) /\ height <= Ready(id) + Window /\ proposal[id].armed < height
    BY <2>1, <2>2 DEF Ready
  <2> QED
    BY <2>4, <2>5, <2>6, <2>7 DEF Executable, PollVerified, StrictlyWon, GovElectorate, Payout
<1> QED
  BY <1>1, InitIInv, StepIInv, PTL DEF Spec

-----------------------------------------------------------------------------
(* PolicyGuard.                                                              *)

-----------------------------------------------------------------------------
(* The emitted body.                                                         *)

PolicyDoes == {"notPaused", "bind", "allowed", "notFrozen", "allowedIfAny", "legs"}
PolicySteps == [does : PolicyDoes, local : {"none", "from", "to"}]

(* Where guard() has each of its steps, whatever the mix.                    *)
PolicyRank(s) ==
    CASE s.does = "notPaused" -> 1
      [] s = G!Step("bind", "from") -> 2
      [] s = G!Step("bind", "to") -> IF G!Given(cfg.freeze) THEN 5 ELSE 3
      [] s.does = "allowed" -> 4
      [] s = G!Step("notFrozen", "from") -> 6
      [] s = G!Step("notFrozen", "to") -> 7
      [] s.does = "allowedIfAny" -> 8
      [] s.does = "legs" -> 9

(* A sequence of the steps of T, in this order, from lo to hi.               *)
PolicyOrdered(s, T, lo, hi) ==
    /\ s \in Seq(PolicySteps) /\ G!Range(s) = T
    /\ \A x \in T : PolicyRank(x) \in lo..hi
    /\ \A i, j \in DOMAIN s : i < j => PolicyRank(s[i]) < PolicyRank(s[j])

LEMMA PolicyOrderedConcat ==
    ASSUME NEW s, NEW t, NEW S, NEW T, NEW lo \in Int, NEW mid \in Int, NEW hi \in Int,
           NEW next \in Int, lo <= mid, mid < next, next <= hi,
           PolicyOrdered(s, S, lo, mid), PolicyOrdered(t, T, next, hi)
    PROVE  PolicyOrdered(s \o t, S \cup T, lo, hi)
<1>1. /\ s \in Seq(PolicySteps) /\ t \in Seq(PolicySteps)
      /\ s \o t \in Seq(PolicySteps)
      /\ Len(s) \in Nat /\ Len(t) \in Nat /\ Len(s \o t) = Len(s) + Len(t)
      /\ DOMAIN s = 1..Len(s) /\ DOMAIN t = 1..Len(t)
      /\ DOMAIN (s \o t) = 1..Len(s) + Len(t)
      /\ \A i \in 1..Len(s) : (s \o t)[i] = s[i]
      /\ \A i \in Len(s) + 1..Len(s) + Len(t) : (s \o t)[i] = t[i - Len(s)]
  BY DEF PolicyOrdered
<1> DEFINE u == s \o t
<1> HIDE DEF u
<1>2. G!Range(u) = S \cup T
  <2>1. ASSUME NEW x \in G!Range(u) PROVE x \in S \cup T
    <3>1. PICK i \in 1..Len(s) + Len(t) : x = u[i]
      BY <1>1, <2>1 DEF G!Range, u
    <3>2. CASE i \in 1..Len(s)
      BY <1>1, <3>1, <3>2 DEF PolicyOrdered, G!Range, u
    <3>3. CASE i \notin 1..Len(s)
      <4>1. i - Len(s) \in 1..Len(t) /\ x = t[i - Len(s)]
        BY <1>1, <3>1, <3>3 DEF u
      <4> QED
        BY <1>1, <4>1 DEF PolicyOrdered, G!Range
    <3> QED
      BY <3>2, <3>3
  <2>2. ASSUME NEW x \in S PROVE x \in G!Range(u)
    <3>1. PICK i \in 1..Len(s) : x = s[i]
      BY <1>1, <2>2 DEF PolicyOrdered, G!Range
    <3>2. i \in DOMAIN u /\ x = u[i]
      BY <1>1, <3>1 DEF u
    <3> QED
      BY <3>2 DEF G!Range
  <2>3. ASSUME NEW x \in T PROVE x \in G!Range(u)
    <3>1. PICK i \in 1..Len(t) : x = t[i]
      BY <1>1, <2>3 DEF PolicyOrdered, G!Range
    <3>2. /\ Len(s) + i \in Len(s) + 1..Len(s) + Len(t) /\ (Len(s) + i) - Len(s) = i
          /\ Len(s) + i \in 1..Len(s) + Len(t)
      BY <1>1, <3>1
    <3>3. Len(s) + i \in DOMAIN u /\ x = u[Len(s) + i]
      BY <1>1, <3>1, <3>2 DEF u
    <3> QED
      BY <3>3 DEF G!Range
  <2> QED
    BY <2>1, <2>2, <2>3
<1>3. \A x \in S \cup T : PolicyRank(x) \in lo..hi
  BY DEF PolicyOrdered
<1>4. ASSUME NEW i \in DOMAIN u, NEW j \in DOMAIN u, i < j
      PROVE  PolicyRank(u[i]) < PolicyRank(u[j])
  <2>0. i \in 1..Len(s) + Len(t) /\ j \in 1..Len(s) + Len(t)
    BY <1>1 DEF u
  <2>1. CASE j \in 1..Len(s)
    BY <1>1, <1>4, <2>0, <2>1 DEF PolicyOrdered, u
  <2>2. CASE i \notin 1..Len(s)
    <3>1. /\ i - Len(s) \in 1..Len(t) /\ u[i] = t[i - Len(s)]
          /\ j - Len(s) \in 1..Len(t) /\ u[j] = t[j - Len(s)]
          /\ i - Len(s) < j - Len(s)
      BY <1>1, <1>4, <2>0, <2>2 DEF u
    <3> QED
      BY <1>1, <3>1 DEF PolicyOrdered
  <2>3. CASE i \in 1..Len(s) /\ j \notin 1..Len(s)
    <3>1. /\ u[i] = s[i] /\ i \in DOMAIN s
          /\ j - Len(s) \in DOMAIN t /\ u[j] = t[j - Len(s)]
      BY <1>1, <2>0, <2>3 DEF u
    <3>2. u[i] \in S /\ u[j] \in T
      BY <3>1 DEF PolicyOrdered, G!Range
    <3>3. PolicyRank(u[i]) \in lo..mid /\ PolicyRank(u[j]) \in next..hi
      BY <3>2 DEF PolicyOrdered
    <3> QED
      BY <3>3
  <2> QED
    BY <1>4, <2>0, <2>1, <2>2, <2>3
<1> QED
  BY <1>1, <1>2, <1>3, <1>4 DEF PolicyOrdered, u

LEMMA PolicyOrderedOne ==
    ASSUME NEW x \in PolicySteps, NEW lo \in Int, NEW hi \in Int, PolicyRank(x) \in lo..hi
    PROVE  PolicyOrdered(<<x>>, {x}, lo, hi)
<1>1. <<x>> \in Seq(PolicySteps) /\ DOMAIN <<x>> = {1} /\ <<x>>[1] = x
  OBVIOUS
<1>2. G!Range(<<x>>) = {x}
  BY <1>1 DEF G!Range
<1> QED
  BY <1>1, <1>2 DEF PolicyOrdered

LEMMA PolicyOrderedNone == ASSUME NEW lo, NEW hi PROVE PolicyOrdered(<<>>, {}, lo, hi)
<1>1. <<>> \in Seq(PolicySteps) /\ DOMAIN <<>> = {}
  OBVIOUS
<1> QED
  BY <1>1 DEF PolicyOrdered, G!Range

LEMMA PolicyRankOf ==
    /\ PolicyRank(G!Step("notPaused", "none")) = 1
    /\ PolicyRank(G!Step("bind", "from")) = 2
    /\ PolicyRank(G!Step("bind", "to")) = IF G!Given(cfg.freeze) THEN 5 ELSE 3
    /\ PolicyRank(G!Step("allowed", "from")) = 4
    /\ PolicyRank(G!Step("notFrozen", "from")) = 6
    /\ PolicyRank(G!Step("notFrozen", "to")) = 7
    /\ PolicyRank(G!Step("allowedIfAny", "to")) = 8
    /\ PolicyRank(G!Step("legs", "none")) = 9
BY DEF PolicyRank, G!Step

LEMMA PolicyStepIsStep ==
    ASSUME NEW does \in PolicyDoes, NEW local \in {"none", "from", "to"}
    PROVE  G!Step(does, local) \in PolicySteps
BY DEF G!Step, PolicySteps

PolicyFreezeSteps ==
    {G!Step("bind", "to"), G!Step("notFrozen", "from"), G!Step("notFrozen", "to")}

LEMMA PolicyFreezeOrdered ==
    PolicyOrdered(G!Emit(G!Given(cfg.freeze),
                         <<G!Step("bind", "to"), G!Step("notFrozen", "from"),
                           G!Step("notFrozen", "to")>>),
                  G!Declare(G!Given(cfg.freeze), PolicyFreezeSteps), 5, 7)
<1>1. CASE G!Given(cfg.freeze)
  <2> DEFINE x == G!Step("bind", "to")
             y == G!Step("notFrozen", "from")
             z == G!Step("notFrozen", "to")
  <2>1. x \in PolicySteps /\ y \in PolicySteps /\ z \in PolicySteps
    BY PolicyStepIsStep DEF PolicyDoes
  <2>2. PolicyRank(x) = 5 /\ PolicyRank(y) = 6 /\ PolicyRank(z) = 7
    BY <1>1, PolicyRankOf
  <2>3. /\ G!Emit(G!Given(cfg.freeze), <<x, y, z>>) = <<x, y, z>>
        /\ G!Declare(G!Given(cfg.freeze), PolicyFreezeSteps) = {x, y, z}
    BY <1>1 DEF G!Emit, G!Declare, PolicyFreezeSteps
  <2> HIDE DEF x, y, z
  <2>4. /\ <<x, y, z>> \in Seq(PolicySteps) /\ DOMAIN <<x, y, z>> = 1..3
        /\ <<x, y, z>>[1] = x /\ <<x, y, z>>[2] = y /\ <<x, y, z>>[3] = z
    BY <2>1
  <2>5. G!Range(<<x, y, z>>) = {x, y, z}
    BY <2>4 DEF G!Range
  <2>6. PolicyOrdered(<<x, y, z>>, {x, y, z}, 5, 7)
    BY <2>2, <2>4, <2>5 DEF PolicyOrdered
  <2> QED
    BY <2>3, <2>6 DEF x, y, z
<1>2. CASE ~G!Given(cfg.freeze)
  <2>1. /\ G!Emit(G!Given(cfg.freeze), <<G!Step("bind", "to"), G!Step("notFrozen", "from"),
                                     G!Step("notFrozen", "to")>>) = <<>>
        /\ G!Declare(G!Given(cfg.freeze), PolicyFreezeSteps) = {}
    BY <1>2 DEF G!Emit, G!Declare
  <2>2. <<>> \in Seq(PolicySteps) /\ DOMAIN <<>> = {}
    OBVIOUS
  <2>3. PolicyOrdered(<<>>, {}, 5, 7)
    BY <2>2 DEF PolicyOrdered, G!Range
  <2> QED
    BY <2>1, <2>3
<1> QED
  BY <1>1, <1>2

(* The steps guard() has.                                                    *)
GuardSteps ==
    G!Declare(cfg.pausable, {G!Step("notPaused", "none")})
    \cup G!Declare(G!NeedsFrom, {G!Step("bind", "from")})
    \cup G!Declare(G!AllowTo /\ ~G!Given(cfg.freeze), {G!Step("bind", "to")})
    \cup G!Declare(G!AllowFrom, {G!Step("allowed", "from")})
    \cup G!Declare(G!Given(cfg.freeze), PolicyFreezeSteps)
    \cup G!Declare(G!AllowTo, {G!Step("allowedIfAny", "to")})
    \cup G!Declare(G!Given(cfg.royalty), {G!Step("legs", "none")})

LEMMA GuardOrdered == PolicyOrdered(G!GuardBody, GuardSteps, 1, 9)
<1> DEFINE A == G!Emit(cfg.pausable, <<G!Step("notPaused", "none")>>)
           B == G!Emit(G!NeedsFrom, <<G!Step("bind", "from")>>)
           C == G!Emit(G!AllowTo /\ ~G!Given(cfg.freeze), <<G!Step("bind", "to")>>)
           D == G!Emit(G!AllowFrom, <<G!Step("allowed", "from")>>)
           E == G!Emit(G!Given(cfg.freeze),
                       <<G!Step("bind", "to"), G!Step("notFrozen", "from"),
                         G!Step("notFrozen", "to")>>)
           F == G!Emit(G!AllowTo, <<G!Step("allowedIfAny", "to")>>)
           L == G!Emit(G!Given(cfg.royalty), <<G!Step("legs", "none")>>)
           a == G!Declare(cfg.pausable, {G!Step("notPaused", "none")})
           b == G!Declare(G!NeedsFrom, {G!Step("bind", "from")})
           c == G!Declare(G!AllowTo /\ ~G!Given(cfg.freeze), {G!Step("bind", "to")})
           d == G!Declare(G!AllowFrom, {G!Step("allowed", "from")})
           e == G!Declare(G!Given(cfg.freeze), PolicyFreezeSteps)
           f == G!Declare(G!AllowTo, {G!Step("allowedIfAny", "to")})
           l == G!Declare(G!Given(cfg.royalty), {G!Step("legs", "none")})
<1> HIDE DEF A, B, C, D, E, F, L, a, b, c, d, e, f, l
<1>1. PolicyOrdered(A, a, 1, 1)
  <2>1. G!Step("notPaused", "none") \in PolicySteps
    BY PolicyStepIsStep DEF PolicyDoes
  <2>2. cfg.pausable => PolicyRank(G!Step("notPaused", "none")) \in 1..1
    BY PolicyRankOf
  <2>3. CASE cfg.pausable
    <3>1. A = <<G!Step("notPaused", "none")>> /\ a = {G!Step("notPaused", "none")}
      BY <2>3 DEF G!Emit, G!Declare, A, a
    <3> QED
      BY <2>1, <2>2, <2>3, <3>1, PolicyOrderedOne
  <2>4. CASE ~(cfg.pausable)
    <3>1. A = <<>> /\ a = {}
      BY <2>4 DEF G!Emit, G!Declare, A, a
    <3> QED
      BY <3>1, PolicyOrderedNone
  <2> QED
    BY <2>3, <2>4
<1>2. PolicyOrdered(B, b, 2, 2)
  <2>1. G!Step("bind", "from") \in PolicySteps
    BY PolicyStepIsStep DEF PolicyDoes
  <2>2. G!NeedsFrom => PolicyRank(G!Step("bind", "from")) \in 2..2
    BY PolicyRankOf
  <2>3. CASE G!NeedsFrom
    <3>1. B = <<G!Step("bind", "from")>> /\ b = {G!Step("bind", "from")}
      BY <2>3 DEF G!Emit, G!Declare, B, b
    <3> QED
      BY <2>1, <2>2, <2>3, <3>1, PolicyOrderedOne
  <2>4. CASE ~(G!NeedsFrom)
    <3>1. B = <<>> /\ b = {}
      BY <2>4 DEF G!Emit, G!Declare, B, b
    <3> QED
      BY <3>1, PolicyOrderedNone
  <2> QED
    BY <2>3, <2>4
<1>3. PolicyOrdered(C, c, 3, 3)
  <2>1. G!Step("bind", "to") \in PolicySteps
    BY PolicyStepIsStep DEF PolicyDoes
  <2>2. G!AllowTo /\ ~G!Given(cfg.freeze) => PolicyRank(G!Step("bind", "to")) \in 3..3
    BY PolicyRankOf
  <2>3. CASE G!AllowTo /\ ~G!Given(cfg.freeze)
    <3>1. C = <<G!Step("bind", "to")>> /\ c = {G!Step("bind", "to")}
      BY <2>3 DEF G!Emit, G!Declare, C, c
    <3> QED
      BY <2>1, <2>2, <2>3, <3>1, PolicyOrderedOne
  <2>4. CASE ~(G!AllowTo /\ ~G!Given(cfg.freeze))
    <3>1. C = <<>> /\ c = {}
      BY <2>4 DEF G!Emit, G!Declare, C, c
    <3> QED
      BY <3>1, PolicyOrderedNone
  <2> QED
    BY <2>3, <2>4
<1>4. PolicyOrdered(D, d, 4, 4)
  <2>1. G!Step("allowed", "from") \in PolicySteps
    BY PolicyStepIsStep DEF PolicyDoes
  <2>2. G!AllowFrom => PolicyRank(G!Step("allowed", "from")) \in 4..4
    BY PolicyRankOf
  <2>3. CASE G!AllowFrom
    <3>1. D = <<G!Step("allowed", "from")>> /\ d = {G!Step("allowed", "from")}
      BY <2>3 DEF G!Emit, G!Declare, D, d
    <3> QED
      BY <2>1, <2>2, <2>3, <3>1, PolicyOrderedOne
  <2>4. CASE ~(G!AllowFrom)
    <3>1. D = <<>> /\ d = {}
      BY <2>4 DEF G!Emit, G!Declare, D, d
    <3> QED
      BY <3>1, PolicyOrderedNone
  <2> QED
    BY <2>3, <2>4
<1>5. PolicyOrdered(E, e, 5, 7)
  BY PolicyFreezeOrdered DEF E, e
<1>6. PolicyOrdered(F, f, 8, 8)
  <2>1. G!Step("allowedIfAny", "to") \in PolicySteps
    BY PolicyStepIsStep DEF PolicyDoes
  <2>2. G!AllowTo => PolicyRank(G!Step("allowedIfAny", "to")) \in 8..8
    BY PolicyRankOf
  <2>3. CASE G!AllowTo
    <3>1. F = <<G!Step("allowedIfAny", "to")>> /\ f = {G!Step("allowedIfAny", "to")}
      BY <2>3 DEF G!Emit, G!Declare, F, f
    <3> QED
      BY <2>1, <2>2, <2>3, <3>1, PolicyOrderedOne
  <2>4. CASE ~(G!AllowTo)
    <3>1. F = <<>> /\ f = {}
      BY <2>4 DEF G!Emit, G!Declare, F, f
    <3> QED
      BY <3>1, PolicyOrderedNone
  <2> QED
    BY <2>3, <2>4
<1>7. PolicyOrdered(L, l, 9, 9)
  <2>1. G!Step("legs", "none") \in PolicySteps
    BY PolicyStepIsStep DEF PolicyDoes
  <2>2. G!Given(cfg.royalty) => PolicyRank(G!Step("legs", "none")) \in 9..9
    BY PolicyRankOf
  <2>3. CASE G!Given(cfg.royalty)
    <3>1. L = <<G!Step("legs", "none")>> /\ l = {G!Step("legs", "none")}
      BY <2>3 DEF G!Emit, G!Declare, L, l
    <3> QED
      BY <2>1, <2>2, <2>3, <3>1, PolicyOrderedOne
  <2>4. CASE ~(G!Given(cfg.royalty))
    <3>1. L = <<>> /\ l = {}
      BY <2>4 DEF G!Emit, G!Declare, L, l
    <3> QED
      BY <3>1, PolicyOrderedNone
  <2> QED
    BY <2>3, <2>4
<1>8. G!GuardBody = A \o B \o C \o D \o E \o F \o L
  BY DEF G!GuardBody, A, B, C, D, E, F, L
<1>9. GuardSteps = a \cup b \cup c \cup d \cup e \cup f \cup l
  BY DEF GuardSteps, a, b, c, d, e, f, l
<1>10. PolicyOrdered(A \o B, a \cup b, 1, 2)
  BY <1>1, <1>2, PolicyOrderedConcat
<1>11. PolicyOrdered(A \o B \o C, a \cup b \cup c, 1, 3)
  BY <1>10, <1>3, PolicyOrderedConcat
<1>12. PolicyOrdered(A \o B \o C \o D, a \cup b \cup c \cup d, 1, 4)
  BY <1>11, <1>4, PolicyOrderedConcat
<1>13. PolicyOrdered(A \o B \o C \o D \o E, a \cup b \cup c \cup d \cup e, 1, 7)
  BY <1>12, <1>5, PolicyOrderedConcat
<1>14. PolicyOrdered(A \o B \o C \o D \o E \o F, a \cup b \cup c \cup d \cup e \cup f, 1, 8)
  BY <1>13, <1>6, PolicyOrderedConcat
<1>15. PolicyOrdered(A \o B \o C \o D \o E \o F \o L,
               a \cup b \cup c \cup d \cup e \cup f \cup l, 1, 9)
  BY <1>14, <1>7, PolicyOrderedConcat
<1> QED
  BY <1>8, <1>9, <1>15

-----------------------------------------------------------------------------
(* The inductive invariant.                                                  *)

PolicyKeys == [paused : BOOLEAN, frozen : SUBSET WellFormed, allow : SUBSET WellFormed]

PolicyIInv == /\ raw \in Configs /\ G!Accepts(raw)
              /\ cfg = G!ValidateConfig(raw)
              /\ store \in PolicyKeys
              /\ store = intent
              /\ store.paused => cfg.pausable

LEMMA PolicyValidated ==
    ASSUME PolicyIInv
    PROVE  /\ cfg.pausable = raw.pausable /\ cfg.freeze = raw.freeze
           /\ cfg.allowlist = raw.allowlist /\ cfg.royalty = raw.royalty
           /\ cfg.owner = raw.owner /\ cfg.maxTakeBps = raw.maxTakeBps
           /\ cfg.gates = G!Range(raw.gates)
           /\ cfg.direction = G!ResolveDirection(raw)
           /\ cfg.meta = G!ResolveMeta(raw)
<1>1. /\ {"gates", "direction", "meta", "pausable", "freeze", "allowlist", "royalty",
          "owner", "maxTakeBps"} \subseteq DOMAIN raw
      /\ cfg = G!ValidateConfig(raw)
  BY PolicyAssumption DEF G!Assumption, PolicyIInv, G!IsConfig, G!OptionalKeys
<1> QED
  BY <1>1 DEF G!ValidateConfig

(* An allowlist is checked somewhere, and nothing is checked without one.    *)
LEMMA PolicyDirections ==
    ASSUME PolicyIInv
    PROVE  /\ G!AllowFrom \/ G!AllowTo <=> G!Given(cfg.allowlist)
           /\ G!AllowFrom <=> G!Checked \in {"from", "both"}
           /\ G!AllowTo <=> G!Checked \in {"to", "both"}
<1>1. CASE ~G!Given(raw.allowlist)
  BY <1>1, PolicyValidated DEF G!ResolveDirection, G!AllowFrom, G!AllowTo, G!Checked
<1>2. CASE G!Given(raw.allowlist)
  <2> DEFINE d == G!OrElse(raw.direction, "from")
  <2>1. d \in G!AllowlistDirections
    <3>1. CASE ~G!Given(raw.direction)
      BY <3>1 DEF G!OrElse, G!AllowlistDirections
    <3>2. CASE G!Given(raw.direction)
      <4>1. \A v \in raw.direction : v \in G!AllowlistDirections
        BY DEF PolicyIInv, G!Accepts, G!ValidDirection, G!Holds
      <4>2. G!Value(raw.direction) \in raw.direction
        <5>1. \E v \in raw.direction : TRUE
          BY <3>2 DEF G!Given
        <5> QED
          BY <5>1, Zenon DEF G!Value
      <4> QED
        BY <3>2, <4>1, <4>2 DEF G!OrElse
    <3> QED
      BY <3>1, <3>2
  <2>2. cfg.direction = {d} /\ G!Checked = d
    BY <1>2, PolicyValidated DEF G!ResolveDirection, G!Checked
  <2> HIDE DEF d
  <2> QED
    BY <1>2, <2>1, <2>2, PolicyValidated DEF G!AllowFrom, G!AllowTo, G!AllowlistDirections
<1> QED
  BY <1>1, <1>2

-----------------------------------------------------------------------------
(* What the steps use is declared, and what they read is bound.              *)

LEMMA GuardStepIs ==
    ASSUME NEW s \in GuardSteps
    PROVE  \/ s = G!Step("notPaused", "none") /\ cfg.pausable
           \/ s = G!Step("bind", "from") /\ G!NeedsFrom
           \/ s = G!Step("bind", "to") /\ (G!Given(cfg.freeze) \/ G!AllowTo)
           \/ s = G!Step("allowed", "from") /\ G!AllowFrom
           \/ s = G!Step("notFrozen", "from") /\ G!Given(cfg.freeze)
           \/ s = G!Step("notFrozen", "to") /\ G!Given(cfg.freeze)
           \/ s = G!Step("allowedIfAny", "to") /\ G!AllowTo
           \/ s = G!Step("legs", "none") /\ G!Given(cfg.royalty)
BY DEF GuardSteps, G!Declare, PolicyFreezeSteps

LEMMA GuardStepIn ==
    /\ cfg.pausable => G!Step("notPaused", "none") \in GuardSteps
    /\ G!NeedsFrom => G!Step("bind", "from") \in GuardSteps
    /\ G!Given(cfg.freeze) \/ G!AllowTo => G!Step("bind", "to") \in GuardSteps
    /\ G!AllowFrom => G!Step("allowed", "from") \in GuardSteps
    /\ G!Given(cfg.freeze) => /\ G!Step("notFrozen", "from") \in GuardSteps
                              /\ G!Step("notFrozen", "to") \in GuardSteps
    /\ G!AllowTo => G!Step("allowedIfAny", "to") \in GuardSteps
    /\ G!Given(cfg.royalty) => G!Step("legs", "none") \in GuardSteps
BY DEF GuardSteps, G!Declare, PolicyFreezeSteps

LEMMA PolicyStepUsesIs ==
    /\ G!StepUses(G!Step("notPaused", "none")) = {"requireNotPaused"}
    /\ G!StepUses(G!Step("bind", "from")) = {"fromAddr"}
    /\ G!StepUses(G!Step("bind", "to")) = {"toAddr"}
    /\ G!StepUses(G!Step("allowed", "from")) = {"requireAllowed"}
    /\ G!StepUses(G!Step("notFrozen", "from")) = {"requireNotFrozen"}
    /\ G!StepUses(G!Step("notFrozen", "to")) = {"requireNotFrozen"}
    /\ G!StepUses(G!Step("allowedIfAny", "to")) = {"requireAllowed"}
    /\ G!StepUses(G!Step("legs", "none")) = {"actionType", "LEGS"}
BY DEF G!StepUses, G!Step, G!Uses

LEMMA PolicyDeclaredIs ==
    \A x : x \in G!Declared <=>
        \/ x \in {"OWNER", "onlyOwner"} /\ G!Stateful
        \/ x \in {"FROZEN", "requireNotFrozen"} /\ G!Given(cfg.freeze)
        \/ x \in {"ALLOWED", "requireAllowed"} /\ G!Given(cfg.allowlist)
        \/ x \in {"LEGS", "actionType"} /\ G!Given(cfg.royalty)
        \/ x = "fromAddr" /\ G!NeedsFrom
        \/ x = "toAddr" /\ (G!Given(cfg.freeze) \/ G!AllowTo)
        \/ x \in {"argAddr", "requireAddrArg"} /\ G!AdminAddr
        \/ x = "requireNotPaused" /\ cfg.pausable
BY DEF G!Declared, G!Constants, G!Helpers, G!Declare

LEMMA PolicyStepDeclared ==
    ASSUME PolicyIInv, NEW s \in GuardSteps
    PROVE  G!StepUses(s) \subseteq G!Declared
BY GuardStepIs, PolicyStepUsesIs, PolicyDeclaredIs, PolicyDirections

(* A local is bound by a step of its own, before any step that reads it.     *)
LEMMA PolicyLocals ==
    ASSUME NEW i \in DOMAIN G!GuardBody, NEW local \in {"from", "to"},
           G!GuardBody[i].local = local, G!GuardBody[i] # G!Step("bind", local)
    PROVE  \E j \in 1..i - 1 : G!GuardBody[j] = G!Step("bind", local)
<1>1. /\ DOMAIN G!GuardBody = 1..Len(G!GuardBody) /\ Len(G!GuardBody) \in Nat
      /\ G!Range(G!GuardBody) = GuardSteps
      /\ G!GuardBody[i] \in GuardSteps
      /\ \A k, l \in DOMAIN G!GuardBody :
           k < l => PolicyRank(G!GuardBody[k]) < PolicyRank(G!GuardBody[l])
  BY GuardOrdered DEF PolicyOrdered, G!Range
<1> DEFINE s == G!GuardBody[i]
           b == G!Step("bind", local)
<1>2. b \in GuardSteps /\ PolicyRank(b) < PolicyRank(s)
  <2>1. \/ s = G!Step("allowed", "from") /\ G!AllowFrom /\ local = "from"
        \/ s = G!Step("notFrozen", "from") /\ G!Given(cfg.freeze) /\ local = "from"
        \/ s = G!Step("notFrozen", "to") /\ G!Given(cfg.freeze) /\ local = "to"
        \/ s = G!Step("allowedIfAny", "to") /\ G!AllowTo /\ local = "to"
    BY <1>1, GuardStepIs DEF G!Step
  <2> QED
    BY <2>1, PolicyRankOf, GuardStepIn DEF G!NeedsFrom
<1>3. PICK j \in DOMAIN G!GuardBody : G!GuardBody[j] = b
  BY <1>1, <1>2 DEF G!Range
<1>4. PolicyRank(b) \in Int /\ PolicyRank(s) \in Int
  BY <1>1, <1>2, GuardOrdered DEF PolicyOrdered
<1>5. ~(i <= j)
  <2>1. CASE i = j
    BY <2>1, <1>2, <1>3, <1>4
  <2>2. CASE i < j
    BY <2>2, <1>1, <1>2, <1>3, <1>4
  <2> QED
    BY <1>1, <1>3, <2>1, <2>2
<1> QED
  BY <1>1, <1>3, <1>5

-----------------------------------------------------------------------------
(* What guard() decides.                                                     *)

PolicyStepAllows(s, call) ==
    CASE s.does = "notPaused" -> ~store.paused
      [] s.does = "allowed" -> call[s.local] \in store.allow
      [] s.does
        = "allowedIfAny" -> call[s.local] # G!NoAddr => call[s.local] \in store.allow
      [] s.does = "notFrozen" -> call[s.local] \notin store.frozen
      [] OTHER -> TRUE

LEMMA PolicyPassesIs ==
    ASSUME PolicyIInv, NEW call, NEW i \in DOMAIN G!GuardBody
    PROVE  G!Passes(i, call) <=> PolicyStepAllows(G!GuardBody[i], call)
<1> DEFINE s == G!GuardBody[i]
           bound == \E j \in 1..i - 1 : G!GuardBody[j] = G!Step("bind", s.local)
           arg == IF bound THEN call[s.local] ELSE G!Undefined
<1>1. s \in GuardSteps /\ G!StepUses(s) \subseteq G!Declared
  BY GuardOrdered, PolicyStepDeclared DEF PolicyOrdered, G!Range
<1>2. s.does \in {"allowed", "allowedIfAny", "notFrozen"} => bound
  <2>1. SUFFICES ASSUME s.does \in {"allowed", "allowedIfAny", "notFrozen"} PROVE bound
    OBVIOUS
  <2>2. s.local \in {"from", "to"} /\ s # G!Step("bind", s.local)
    BY <1>1, <2>1, GuardStepIs DEF G!Step
  <2> QED
    BY <2>2, PolicyLocals
<1> HIDE DEF bound
<1>3. G!Passes(i, call) <=>
        /\ G!StepUses(s) \subseteq G!Declared
        /\ CASE s.does = "notPaused" -> ~store.paused
             [] s.does = "allowed" -> arg \in store.allow
             [] s.does = "allowedIfAny" -> arg # G!NoAddr => arg \in store.allow
             [] s.does = "notFrozen" -> arg \notin store.frozen
             [] OTHER -> TRUE
  BY DEF G!Passes, bound
<1>4. bound => arg = call[s.local]
  OBVIOUS
<1> HIDE DEF s, arg
<1>5. CASE bound
  BY <1>1, <1>3, <1>4, <1>5 DEF PolicyStepAllows, s
<1>6. CASE ~bound
  BY <1>1, <1>2, <1>3, <1>6 DEF PolicyStepAllows, s
<1> QED
  BY <1>5, <1>6

LEMMA GuardDenies ==
    ASSUME PolicyIInv, NEW call
    PROVE  /\ G!Guard(call) = {} <=> \E s \in GuardSteps : ~PolicyStepAllows(s, call)
           /\ G!Guard(call) \in {{}, cfg.royalty, {<<>>}}
           /\ G!Guard(call) # {} /\ G!Given(cfg.royalty) /\ call.type \in G!TradeActionTypes
                => G!Guard(call) = cfg.royalty
<1>1. (\E i \in DOMAIN G!GuardBody : ~G!Passes(i, call))
        <=> \E s \in GuardSteps : ~PolicyStepAllows(s, call)
  <2>1. \A s : s \in GuardSteps <=> \E i \in DOMAIN G!GuardBody : s = G!GuardBody[i]
    BY GuardOrdered DEF PolicyOrdered, G!Range
  <2> QED
    BY <2>1, PolicyPassesIs
<1>2. {<<>>} # {}
  OBVIOUS
<1> QED
  BY <1>1, <1>2 DEF G!Guard, G!Given

LEMMA PolicyInvGuardMatches == ASSUME PolicyIInv PROVE G!GuardMatchesPolicy
<1> SUFFICES ASSUME NEW call \in G!Calls PROVE (G!Guard(call) = {}) = G!Denied(call)
  BY DEF G!GuardMatchesPolicy
<1>1. /\ PolicyStepAllows(G!Step("notPaused", "none"), call) <=> ~store.paused
      /\ PolicyStepAllows(G!Step("bind", "from"), call)
      /\ PolicyStepAllows(G!Step("bind", "to"), call)
      /\ PolicyStepAllows(G!Step("allowed", "from"), call) <=> call.from \in store.allow
      /\ PolicyStepAllows(G!Step("notFrozen", "from"), call) <=> call.from \notin store.frozen
      /\ PolicyStepAllows(G!Step("notFrozen", "to"), call) <=> call.to \notin store.frozen
      /\ PolicyStepAllows(G!Step("allowedIfAny", "to"), call)
           <=> (call.to # G!NoAddr => call.to \in store.allow)
      /\ PolicyStepAllows(G!Step("legs", "none"), call)
  BY DEF PolicyStepAllows, G!Step
<1>2. (\E s \in GuardSteps : ~PolicyStepAllows(s, call)) <=>
        \/ cfg.pausable /\ store.paused
        \/ G!Given(cfg.freeze) /\ (call.from \in store.frozen \/ call.to \in store.frozen)
        \/ G!AllowFrom /\ call.from \notin store.allow
        \/ G!AllowTo /\ ~(call.to # G!NoAddr => call.to \in store.allow)
  BY <1>1, GuardStepIs, GuardStepIn
<1>3. G!Denied(call) <=>
        \/ cfg.pausable /\ store.paused
        \/ G!Given(cfg.freeze) /\ (call.from \in store.frozen \/ call.to \in store.frozen)
        \/ G!AllowFrom /\ call.from \notin store.allow
        \/ G!AllowTo /\ ~(call.to # G!NoAddr => call.to \in store.allow)
  BY PolicyValidated, PolicyDirections DEF G!Denied, PolicyIInv
<1>4. G!Guard(call) = {} <=> \E s \in GuardSteps : ~PolicyStepAllows(s, call)
  BY GuardDenies
<1>5. G!Guard(call) = {} <=> G!Denied(call)
  BY <1>2, <1>3, <1>4
<1>6. G!Denied(call) \in BOOLEAN
  BY Zenon DEF G!Denied
<1> QED
  BY <1>5, <1>6

-----------------------------------------------------------------------------
(* What is emitted, and what of it is used.                                  *)

PolicySeeds == {"unpaused", "seedFrozen", "seedAllowed"}

LEMMA PolicyRangeOfConcat ==
    ASSUME NEW s \in Seq(PolicySeeds), NEW t \in Seq(PolicySeeds)
    PROVE  s \o t \in Seq(PolicySeeds) /\ G!Range(s \o t) = G!Range(s) \cup G!Range(t)
<1>1. /\ s \o t \in Seq(PolicySeeds)
      /\ Len(s) \in Nat /\ Len(t) \in Nat
      /\ DOMAIN s = 1..Len(s) /\ DOMAIN t = 1..Len(t)
      /\ DOMAIN (s \o t) = 1..Len(s) + Len(t)
      /\ \A i \in 1..Len(s) : (s \o t)[i] = s[i]
      /\ \A i \in Len(s) + 1..Len(s) + Len(t) : (s \o t)[i] = t[i - Len(s)]
  OBVIOUS
<1> DEFINE u == s \o t
<1> HIDE DEF u
<1>2. ASSUME NEW x \in G!Range(u) PROVE x \in G!Range(s) \cup G!Range(t)
  <2>1. PICK i \in 1..Len(s) + Len(t) : x = u[i]
    BY <1>1, <1>2 DEF G!Range, u
  <2>2. CASE i \in 1..Len(s)
    BY <1>1, <2>1, <2>2 DEF G!Range, u
  <2>3. CASE i \notin 1..Len(s)
    <3>1. i - Len(s) \in 1..Len(t) /\ x = t[i - Len(s)]
      BY <1>1, <2>1, <2>3 DEF u
    <3> QED
      BY <1>1, <3>1 DEF G!Range
  <2> QED
    BY <2>2, <2>3
<1>3. ASSUME NEW x \in G!Range(s) PROVE x \in G!Range(u)
  <2>1. PICK i \in 1..Len(s) : x = s[i]
    BY <1>1, <1>3 DEF G!Range
  <2>2. i \in DOMAIN u /\ x = u[i]
    BY <1>1, <2>1 DEF u
  <2> QED
    BY <2>2 DEF G!Range
<1>4. ASSUME NEW x \in G!Range(t) PROVE x \in G!Range(u)
  <2>1. PICK i \in 1..Len(t) : x = t[i]
    BY <1>1, <1>4 DEF G!Range
  <2>2. /\ Len(s) + i \in Len(s) + 1..Len(s) + Len(t) /\ (Len(s) + i) - Len(s) = i
        /\ Len(s) + i \in 1..Len(s) + Len(t)
    BY <1>1, <2>1
  <2>3. Len(s) + i \in DOMAIN u /\ x = u[Len(s) + i]
    BY <1>1, <2>1, <2>2 DEF u
  <2> QED
    BY <2>3 DEF G!Range
<1> QED
  BY <1>1, <1>2, <1>3, <1>4 DEF u

LEMMA PolicyRangeOfEmit ==
    ASSUME NEW x \in PolicySeeds
    PROVE  <<x>> \in Seq(PolicySeeds) /\ G!Range(<<x>>) = {x}
<1>1. <<x>> \in Seq(PolicySeeds) /\ DOMAIN <<x>> = {1} /\ <<x>>[1] = x
  OBVIOUS
<1> QED
  BY <1>1 DEF G!Range

LEMMA PolicyRangeOfNone == <<>> \in Seq(PolicySeeds) /\ G!Range(<<>>) = {}
<1>1. <<>> \in Seq(PolicySeeds) /\ DOMAIN <<>> = {}
  OBVIOUS
<1> QED
  BY <1>1 DEF G!Range

LEMMA PolicyInitializes ==
    \A x : x \in G!Range(G!Initialize) <=>
        \/ x = "unpaused" /\ cfg.pausable
        \/ x = "seedFrozen" /\ G!Given(cfg.freeze)
        \/ x = "seedAllowed" /\ G!Given(cfg.allowlist)
<1> DEFINE A == G!Emit(cfg.pausable, <<"unpaused">>)
           B == G!Emit(G!Given(cfg.freeze), <<"seedFrozen">>)
           C == G!Emit(G!Given(cfg.allowlist), <<"seedAllowed">>)
<1>1. A \in Seq(PolicySeeds) /\ \A x : x \in G!Range(A) <=> x = "unpaused" /\ cfg.pausable
  <2>1. CASE cfg.pausable
    <3>1. A = <<"unpaused">>
      BY <2>1 DEF G!Emit
    <3>2. <<"unpaused">> \in Seq(PolicySeeds) /\ G!Range(<<"unpaused">>) = {"unpaused"}
      BY PolicyRangeOfEmit DEF PolicySeeds
    <3> QED
      BY <2>1, <3>1, <3>2
  <2>2. CASE ~cfg.pausable
    <3>1. A = <<>>
      BY <2>2 DEF G!Emit
    <3> HIDE DEF A
    <3> QED
      BY <2>2, <3>1, PolicyRangeOfNone
  <2> QED
    BY <2>1, <2>2
<1>2. /\ B \in Seq(PolicySeeds)
      /\ \A x : x \in G!Range(B) <=> x = "seedFrozen" /\ G!Given(cfg.freeze)
  <2>1. CASE G!Given(cfg.freeze)
    <3>1. B = <<"seedFrozen">>
      BY <2>1 DEF G!Emit
    <3>2. /\ <<"seedFrozen">> \in Seq(PolicySeeds)
          /\ G!Range(<<"seedFrozen">>) = {"seedFrozen"}
      BY PolicyRangeOfEmit DEF PolicySeeds
    <3> QED
      BY <2>1, <3>1, <3>2
  <2>2. CASE ~G!Given(cfg.freeze)
    <3>1. B = <<>>
      BY <2>2 DEF G!Emit
    <3> HIDE DEF B
    <3> QED
      BY <2>2, <3>1, PolicyRangeOfNone
  <2> QED
    BY <2>1, <2>2
<1>3. /\ C \in Seq(PolicySeeds)
      /\ \A x : x \in G!Range(C) <=> x = "seedAllowed" /\ G!Given(cfg.allowlist)
  <2>1. CASE G!Given(cfg.allowlist)
    <3>1. C = <<"seedAllowed">>
      BY <2>1 DEF G!Emit
    <3>2. /\ <<"seedAllowed">> \in Seq(PolicySeeds)
          /\ G!Range(<<"seedAllowed">>) = {"seedAllowed"}
      BY PolicyRangeOfEmit DEF PolicySeeds
    <3> QED
      BY <2>1, <3>1, <3>2
  <2>2. CASE ~G!Given(cfg.allowlist)
    <3>1. C = <<>>
      BY <2>2 DEF G!Emit
    <3> HIDE DEF C
    <3> QED
      BY <2>2, <3>1, PolicyRangeOfNone
  <2> QED
    BY <2>1, <2>2
<1>4. G!Initialize = A \o B \o C
  BY DEF G!Initialize
<1> HIDE DEF A, B, C
<1>5. A \o B \in Seq(PolicySeeds) /\ G!Range(A \o B) = G!Range(A) \cup G!Range(B)
  BY <1>1, <1>2, PolicyRangeOfConcat
<1>6. G!Range((A \o B) \o C) = G!Range(A \o B) \cup G!Range(C)
  BY <1>3, <1>5, PolicyRangeOfConcat
<1> QED
  BY <1>1, <1>2, <1>3, <1>4, <1>5, <1>6

LEMMA PolicyCardinalityIs == \A S : G!Cardinality(S) = Cardinality(S)
  BY DEF G!Cardinality, Cardinality

LEMMA PolicyUsesIs ==
    /\ G!Uses["pause"] = {"onlyOwner"} /\ G!Uses["unpause"] = {"onlyOwner"}
    /\ \A m \in {"freeze", "unfreeze", "allow", "disallow"} :
          G!Uses[m] = {"onlyOwner", "argAddr", "requireAddrArg"}
    /\ G!Uses["onlyOwner"] = {"OWNER"} /\ G!Uses["unpaused"] = {}
    /\ G!Uses["seedFrozen"] = {"FROZEN"} /\ G!Uses["seedAllowed"] = {"ALLOWED"}
BY DEF G!Uses

LEMMA PolicyInvEmittedClosed == ASSUME PolicyIInv PROVE G!EmittedClosed
<1> DEFINE entry == UNION ({G!Uses[m] : m \in G!AdminMethods}
                              \cup {G!Uses[s] : s \in G!Range(G!Initialize)}
                              \cup {G!StepUses(s) : s \in G!Range(G!GuardBody)})
<1>1. \A x : x \in entry <=>
                \/ \E m \in G!AdminMethods : x \in G!Uses[m]
                \/ \E s \in G!Range(G!Initialize) : x \in G!Uses[s]
                \/ \E s \in GuardSteps : x \in G!StepUses(s)
  <2>1. G!Range(G!GuardBody) = GuardSteps
    BY GuardOrdered DEF PolicyOrdered
  <2>2. ASSUME NEW x, x \in entry
        PROVE  \/ \E m \in G!AdminMethods : x \in G!Uses[m]
               \/ \E s \in G!Range(G!Initialize) : x \in G!Uses[s]
               \/ \E s \in GuardSteps : x \in G!StepUses(s)
    BY <2>1, <2>2
  <2>3. ASSUME NEW m \in G!AdminMethods, NEW x \in G!Uses[m] PROVE x \in entry
    OBVIOUS
  <2>4. ASSUME NEW s \in G!Range(G!Initialize), NEW x \in G!Uses[s] PROVE x \in entry
    OBVIOUS
  <2>5. ASSUME NEW s \in GuardSteps, NEW x \in G!StepUses(s) PROVE x \in entry
    BY <2>1
  <2> HIDE DEF entry
  <2> TAKE x
  <2>6. CASE x \in entry
    BY <2>2, <2>6
  <2>7. CASE x \notin entry
    BY <2>3, <2>4, <2>5, <2>7
  <2> QED
    BY <2>6, <2>7
<1>2. \A x : (\E m \in G!AdminMethods : x \in G!Uses[m]) <=>
                \/ x = "onlyOwner" /\ G!Stateful
                \/ x \in {"argAddr", "requireAddrArg"} /\ G!AdminAddr
  BY PolicyUsesIs DEF G!AdminMethods, G!Declare, G!Stateful, G!NeedsOwner, G!AdminAddr
<1>3. \A x : (\E s \in G!Range(G!Initialize) : x \in G!Uses[s]) <=>
                \/ x = "FROZEN" /\ G!Given(cfg.freeze)
                \/ x = "ALLOWED" /\ G!Given(cfg.allowlist)
  BY PolicyUsesIs, PolicyInitializes
<1>4. \A x : (\E s \in GuardSteps : x \in G!StepUses(s)) <=>
                \/ x = "requireNotPaused" /\ cfg.pausable
                \/ x = "fromAddr" /\ G!NeedsFrom
                \/ x = "toAddr" /\ (G!Given(cfg.freeze) \/ G!AllowTo)
                \/ x = "requireAllowed" /\ (G!AllowFrom \/ G!AllowTo)
                \/ x = "requireNotFrozen" /\ G!Given(cfg.freeze)
                \/ x \in {"actionType", "LEGS"} /\ G!Given(cfg.royalty)
  <2>1. ASSUME NEW x, NEW s \in GuardSteps, x \in G!StepUses(s)
        PROVE  \/ x = "requireNotPaused" /\ cfg.pausable
               \/ x = "fromAddr" /\ G!NeedsFrom
               \/ x = "toAddr" /\ (G!Given(cfg.freeze) \/ G!AllowTo)
               \/ x = "requireAllowed" /\ (G!AllowFrom \/ G!AllowTo)
               \/ x = "requireNotFrozen" /\ G!Given(cfg.freeze)
               \/ x \in {"actionType", "LEGS"} /\ G!Given(cfg.royalty)
    BY <2>1, GuardStepIs, PolicyStepUsesIs
  <2>2. ASSUME NEW x,
               \/ x = "requireNotPaused" /\ cfg.pausable
               \/ x = "fromAddr" /\ G!NeedsFrom
               \/ x = "toAddr" /\ (G!Given(cfg.freeze) \/ G!AllowTo)
               \/ x = "requireAllowed" /\ (G!AllowFrom \/ G!AllowTo)
               \/ x = "requireNotFrozen" /\ G!Given(cfg.freeze)
               \/ x \in {"actionType", "LEGS"} /\ G!Given(cfg.royalty)
        PROVE  \E s \in GuardSteps : x \in G!StepUses(s)
    BY <2>2, GuardStepIn, PolicyStepUsesIs
  <2> QED
    BY <2>1, <2>2
<1> HIDE DEF entry
<1>5. "onlyOwner" \in entry <=> G!Stateful
  BY <1>1, <1>2, <1>3, <1>4
<1>6. entry \cup (IF "onlyOwner" \in entry THEN G!Uses["onlyOwner"] ELSE {}) = G!Declared
  <2>1. \A x : x \in (IF "onlyOwner" \in entry THEN G!Uses["onlyOwner"] ELSE {})
                <=> x = "OWNER" /\ G!Stateful
    BY <1>5, PolicyUsesIs
  <2>2. \A x : x \in entry <=>
                \/ x = "onlyOwner" /\ G!Stateful
                \/ x \in {"argAddr", "requireAddrArg"} /\ G!AdminAddr
                \/ x = "FROZEN" /\ G!Given(cfg.freeze)
                \/ x = "ALLOWED" /\ G!Given(cfg.allowlist)
                \/ x = "requireNotPaused" /\ cfg.pausable
                \/ x = "fromAddr" /\ G!NeedsFrom
                \/ x = "toAddr" /\ (G!Given(cfg.freeze) \/ G!AllowTo)
                \/ x = "requireAllowed" /\ G!Given(cfg.allowlist)
                \/ x = "requireNotFrozen" /\ G!Given(cfg.freeze)
                \/ x \in {"actionType", "LEGS"} /\ G!Given(cfg.royalty)
    <3> TAKE x
    <3>1. (\E s \in GuardSteps : x \in G!StepUses(s)) <=>
            \/ x = "requireNotPaused" /\ cfg.pausable
            \/ x = "fromAddr" /\ G!NeedsFrom
            \/ x = "toAddr" /\ (G!Given(cfg.freeze) \/ G!AllowTo)
            \/ x = "requireAllowed" /\ G!Given(cfg.allowlist)
            \/ x = "requireNotFrozen" /\ G!Given(cfg.freeze)
            \/ x \in {"actionType", "LEGS"} /\ G!Given(cfg.royalty)
      BY <1>4, PolicyDirections
    <3> DEFINE X == \E m \in G!AdminMethods : x \in G!Uses[m]
               Y == \E s \in G!Range(G!Initialize) : x \in G!Uses[s]
               Z == \E s \in GuardSteps : x \in G!StepUses(s)
    <3>2. x \in entry <=> X \/ Y \/ Z
      BY <1>1
    <3>3. X <=> \/ x = "onlyOwner" /\ G!Stateful
                \/ x \in {"argAddr", "requireAddrArg"} /\ G!AdminAddr
      BY <1>2
    <3>4. Y <=> \/ x = "FROZEN" /\ G!Given(cfg.freeze)
                \/ x = "ALLOWED" /\ G!Given(cfg.allowlist)
      BY <1>3
    <3>5. Z <=> \/ x = "requireNotPaused" /\ cfg.pausable
                \/ x = "fromAddr" /\ G!NeedsFrom
                \/ x = "toAddr" /\ (G!Given(cfg.freeze) \/ G!AllowTo)
                \/ x = "requireAllowed" /\ G!Given(cfg.allowlist)
                \/ x = "requireNotFrozen" /\ G!Given(cfg.freeze)
                \/ x \in {"actionType", "LEGS"} /\ G!Given(cfg.royalty)
      BY <3>1
    <3> HIDE DEF X, Y, Z
    <3> QED
      BY <3>2, <3>3, <3>4, <3>5
  <2>3. \A x : x \in entry \/ (x = "OWNER" /\ G!Stateful) <=> x \in G!Declared
    BY <2>2, PolicyDeclaredIs
  <2>4. \A x : x \in entry \cup (IF "onlyOwner" \in entry THEN G!Uses["onlyOwner"] ELSE {})
                <=> x \in G!Declared
    BY <2>1, <2>3
  <2> DEFINE used == entry \cup (IF "onlyOwner" \in entry THEN G!Uses["onlyOwner"] ELSE {})
  <2>5. used = G!Declared
    <3> HIDE DEF used
    <3> SUFFICES \A x : x \in used <=> x \in G!Declared
      OBVIOUS
    <3> QED
      BY <2>4 DEF used
  <2> QED
    BY <2>5
<1>7. ASSUME NEW local \in {"from", "to"}
      PROVE  LET binds == {i \in DOMAIN G!GuardBody : G!GuardBody[i]
               = G!Step("bind", local)}
                 reads == {i \in DOMAIN G!GuardBody : G!GuardBody[i].local = local} \ binds
             IN  /\ binds = {} <=> reads = {}
                 /\ G!Cardinality(binds) <= 1
                 /\ \A b \in binds, r \in reads : b < r
  <2> DEFINE binds == {i \in DOMAIN G!GuardBody : G!GuardBody[i] = G!Step("bind", local)}
             reads == {i \in DOMAIN G!GuardBody : G!GuardBody[i].local = local} \ binds
  <2>1. /\ DOMAIN G!GuardBody = 1..Len(G!GuardBody) /\ Len(G!GuardBody) \in Nat
        /\ G!Range(G!GuardBody) = GuardSteps
        /\ \A k \in DOMAIN G!GuardBody : PolicyRank(G!GuardBody[k]) \in 1..9
        /\ \A k, l \in DOMAIN G!GuardBody :
           k < l => PolicyRank(G!GuardBody[k]) < PolicyRank(G!GuardBody[l])
    BY GuardOrdered DEF PolicyOrdered, G!Range
  <2>2. \A i, j \in binds : i = j
    BY <2>1
  <2>3. G!Cardinality(binds) <= 1
    <3>1. CASE binds = {}
      BY <3>1, FS_EmptySet, PolicyCardinalityIs
    <3>2. CASE binds # {}
      <4>1. PICK b \in binds : TRUE
        BY <3>2
      <4>2. binds = {b}
        BY <2>2, <4>1
      <4>3. G!Cardinality({b}) = 1
        BY FS_Singleton, PolicyCardinalityIs
      <4> HIDE DEF binds
      <4> QED
        BY <4>2, <4>3
    <3> QED
      BY <3>1, <3>2
  <2>4. ASSUME NEW r \in reads PROVE \E b \in binds : b < r
    <3>1. PICK j \in 1..r - 1 : G!GuardBody[j] = G!Step("bind", local)
      BY PolicyLocals
    <3>2. j \in DOMAIN G!GuardBody /\ j < r
      BY <2>1, <3>1
    <3> QED
      BY <3>1, <3>2
  <2>5. ASSUME NEW b \in binds PROVE reads # {}
    <3>1. \E s \in GuardSteps : s.local = local /\ s # G!Step("bind", local)
      <4>1. G!Step("bind", local) \in GuardSteps
        BY <2>1 DEF G!Range
      <4>2. \/ local = "from" /\ G!NeedsFrom
            \/ local = "to" /\ (G!Given(cfg.freeze) \/ G!AllowTo)
        BY <4>1, GuardStepIs DEF G!Step
      <4>3. /\ G!Step("notFrozen", local).local = local
            /\ G!Step("allowed", local).local = local
            /\ G!Step("allowedIfAny", local).local = local
            /\ G!Step("notFrozen", local) # G!Step("bind", local)
            /\ G!Step("allowed", local) # G!Step("bind", local)
            /\ G!Step("allowedIfAny", local) # G!Step("bind", local)
        BY DEF G!Step
      <4> QED
        BY <4>2, <4>3, GuardStepIn DEF G!NeedsFrom
    <3>2. PICK r \in DOMAIN G!GuardBody : G!GuardBody[r].local = local
                                        /\ G!GuardBody[r] # G!Step("bind", local)
      BY <2>1, <3>1 DEF G!Range
    <3>3. r \in reads
      BY <3>2
    <3> QED
      BY <3>3
  <2>6. \A b \in binds, r \in reads : b < r
    BY <2>2, <2>4
  <2>7. binds = {} <=> reads = {}
    BY <2>4, <2>5
  <2> HIDE DEF binds, reads
  <2>8. /\ binds = {} <=> reads = {}
        /\ G!Cardinality(binds) <= 1
        /\ \A b \in binds, r \in reads : b < r
    BY <2>3, <2>6, <2>7
  <2> QED
    BY <2>8 DEF binds, reads
<1> QED
  BY <1>6, <1>7 DEF G!EmittedClosed, entry

-----------------------------------------------------------------------------
(* What the chain is handed.                                                 *)

LEMMA PolicyRoyaltyIs ==
    ASSUME PolicyIInv, G!Given(raw.royalty)
    PROVE  LET legs == G!Value(raw.royalty)
           IN  /\ raw.royalty = {legs} /\ G!Value({legs}) = legs
               /\ G!GatesTrade(raw)
               /\ \A leg \in G!Range(legs) : G!ValidLeg(leg)
               /\ G!SplitFits(raw, legs)
<1> DEFINE legs == G!Value(raw.royalty)
<1>1. legs \in raw.royalty
  <2>1. \E v \in raw.royalty : TRUE
    BY DEF G!Given
  <2> QED
    BY <2>1, Zenon DEF G!Value
<1>2. \A v, w \in raw.royalty : v = w
  BY PolicyAssumption DEF G!Assumption, PolicyIInv, G!IsConfig, G!OptionalKeys
<1>3. raw.royalty = {legs}
  BY <1>1, <1>2
<1>4. \A v \in raw.royalty : /\ G!GatesTrade(raw)
                             /\ \A leg \in G!Range(v) : G!ValidLeg(leg)
                             /\ G!SplitFits(raw, v)
  BY DEF PolicyIInv, G!Accepts, G!ValidRoyalty, G!Holds
<1>5. G!Value({legs}) = legs
  BY <1>3
<1> QED
  BY <1>1, <1>3, <1>4, <1>5

LEMMA PolicyInvChainAccepts == ASSUME PolicyIInv PROVE G!ChainAccepts
<1>1. G!Range(G!Descriptors.meta) \subseteq G!ChainTexts
  <2>1. G!Descriptors.meta = G!ResolveMeta(raw)
    BY PolicyValidated DEF G!Descriptors
  <2>2. G!Range(G!ResolveMeta(raw)) \subseteq G!MetaTexts
    BY DEF PolicyIInv, G!Accepts, G!ValidMeta
  <2> QED
    BY <2>1, <2>2 DEF G!MetaTexts, G!ChainTexts
<1>2. ASSUME G!Given(raw.royalty)
      PROVE  /\ G!BindHints \cap {"trade", "all"} # {}
             /\ \A call \in G!Calls :
                  call.type \in G!TradeActionTypes /\ G!Guard(call) # {} =>
                  LET paid == G!Value(G!Guard(call))
                  IN  /\ {paid} = raw.royalty
                      /\ \A leg \in G!Range(paid) : G!IsPayoutAddress(leg.to)
                      /\ \A payees \in Settlements :
                            \/ G!ChainTakes(paid, payees)
                            \/ \E leg \in G!Range(paid) : leg.to \notin payees
  <2>1. G!BindHints \cap {"trade", "all"} # {}
    BY <1>2, PolicyRoyaltyIs, PolicyValidated DEF G!BindHints, G!GatesTrade
  <2>2. ASSUME NEW call \in G!Calls, call.type \in G!TradeActionTypes, G!Guard(call) # {}
        PROVE  LET paid == G!Value(G!Guard(call))
               IN  /\ {paid} = raw.royalty
                   /\ \A leg \in G!Range(paid) : G!IsPayoutAddress(leg.to)
                   /\ \A payees \in Settlements :
                         \/ G!ChainTakes(paid, payees)
                         \/ \E leg \in G!Range(paid) : leg.to \notin payees
    <3> DEFINE paid == G!Value(G!Guard(call))
    <3>1. G!Guard(call) = raw.royalty
      BY <1>2, <2>2, GuardDenies, PolicyValidated
    <3>2. /\ {paid} = raw.royalty
          /\ \A leg \in G!Range(paid) : G!ValidLeg(leg)
          /\ G!SplitFits(raw, paid)
      BY <1>2, <3>1, PolicyRoyaltyIs
    <3>3. G!Descriptors.maxTakeBps = raw.maxTakeBps
      BY PolicyValidated DEF G!Descriptors
    <3> HIDE DEF paid
    <3>4. \A leg \in G!Range(paid) : G!IsPayoutAddress(leg.to)
      BY <3>2 DEF G!ValidLeg
    <3>5. /\ G!Sum(paid) <= ProtocolMax
          /\ G!Holds(G!Descriptors.maxTakeBps, LAMBDA max : G!Sum(paid) <= max)
      BY <3>2, <3>3 DEF G!SplitFits, G!Holds
    <3>6. ASSUME NEW payees \in Settlements, \A leg \in G!Range(paid) : leg.to \in payees
          PROVE  G!ChainTakes(paid, payees)
      BY <3>5, <3>6 DEF G!ChainTakes
    <3> QED
      BY <3>2, <3>4, <3>6 DEF paid
  <2> QED
    BY <2>1, <2>2
<1> QED
  BY <1>1, <1>2 DEF G!ChainAccepts

-----------------------------------------------------------------------------
(* The specification keeps the invariant.                                    *)

LEMMA PolicySeededIs ==
    ASSUME raw \in Configs, G!Accepts(raw), cfg = G!ValidateConfig(raw)
    PROVE  G!Seeded = [paused |-> FALSE, frozen |-> G!OrElse(raw.freeze, {}),
                     allow |-> G!OrElse(raw.allowlist, {})]
<1>1. cfg.freeze = raw.freeze /\ cfg.allowlist = raw.allowlist
  BY PolicyAssumption DEF G!Assumption, G!IsConfig, G!OptionalKeys, G!ValidateConfig
<1>2. /\ "seedFrozen" \in G!Range(G!Initialize) <=> G!Given(raw.freeze)
      /\ "seedAllowed" \in G!Range(G!Initialize) <=> G!Given(raw.allowlist)
  BY <1>1, PolicyInitializes
<1> QED
  BY <1>1, <1>2 DEF G!Seeded, G!OrElse

LEMMA PolicyOrElseIn ==
    ASSUME NEW field, NEW default, NEW T, default \in T, \A v \in field : v \in T
    PROVE  G!OrElse(field, default) \in T
<1>1. CASE ~G!Given(field)
  BY <1>1 DEF G!OrElse
<1>2. CASE G!Given(field)
  <2>1. G!Value(field) \in field
    <3>1. \E v \in field : TRUE
      BY <1>2 DEF G!Given
    <3> QED
      BY <3>1, Zenon DEF G!Value
  <2> QED
    BY <1>2, <2>1 DEF G!OrElse
<1> QED
  BY <1>1, <1>2

LEMMA PolicyInitIInv == ASSUME G!Init PROVE PolicyIInv
<1>1. raw \in Configs /\ G!Accepts(raw) /\ cfg = G!ValidateConfig(raw)
  BY DEF G!Init
<1>2. store = [paused |-> FALSE, frozen |-> G!OrElse(raw.freeze, {}),
               allow |-> G!OrElse(raw.allowlist, {})] /\ intent = store
  BY <1>1, PolicySeededIs DEF G!Init
<1>3. /\ \A v \in raw.freeze : v \in SUBSET WellFormed
      /\ \A v \in raw.allowlist : v \in SUBSET WellFormed
  BY <1>1 DEF G!Accepts, G!ValidFreeze, G!ValidAllowlist, G!Holds
<1>4. /\ G!OrElse(raw.freeze, {}) \in SUBSET WellFormed
      /\ G!OrElse(raw.allowlist, {}) \in SUBSET WellFormed
  <2> DEFINE T == SUBSET WellFormed
  <2>1. {} \in T /\ (\A v \in raw.freeze : v \in T) /\ \A v \in raw.allowlist : v \in T
    BY <1>3
  <2> HIDE DEF T
  <2>2. G!OrElse(raw.freeze, {}) \in T
    BY <2>1, PolicyOrElseIn
  <2>3. G!OrElse(raw.allowlist, {}) \in T
    BY <2>1, PolicyOrElseIn
  <2> QED
    BY <2>2, <2>3 DEF T
<1> QED
  BY <1>1, <1>2, <1>4 DEF PolicyIInv, PolicyKeys

LEMMA PolicyAdminIInv ==
    ASSUME PolicyIInv, NEW caller \in Callers, NEW m \in G!AdminMethods,
           NEW a \in Callers \cup {G!NoAddr},
           G!Admin(caller, m, a)
    PROVE  PolicyIInv'
<1>1. /\ {caller} = cfg.owner /\ cfg.owner = raw.owner
      /\ G!RequireAddrArg(m, a)
      /\ store' = G!AdminEffect(m, a)
      /\ intent' = G!Meant(m, a)
      /\ UNCHANGED <<raw, cfg>>
  BY PolicyValidated DEF G!Admin, G!OnlyOwner
<1>2. \/ m \in {"pause", "unpause"} /\ cfg.pausable
      \/ m \in {"freeze", "unfreeze", "allow", "disallow"} /\ a \in Callers
  BY <1>1 DEF G!AdminMethods, G!Declare, G!RequireAddrArg
<1>3. store \in PolicyKeys /\ intent = store /\ Callers \subseteq WellFormed
  BY PolicyAssumption DEF G!Assumption, PolicyIInv
<1>4. /\ store' \in PolicyKeys /\ store' = intent'
      /\ store'.paused => cfg.pausable
  <2>1. CASE m \in {"pause", "unpause"}
    <3>1. /\ {b \in Callers \cup store.frozen : b \in store.frozen} = store.frozen
          /\ {b \in Callers \cup store.allow : b \in store.allow} = store.allow
      OBVIOUS
    <3>2. intent' = [paused |-> m = "pause", frozen |-> store.frozen, allow |-> store.allow]
      BY <1>1, <1>3, <2>1, <3>1 DEF G!Meant
    <3>3. store' = [paused |-> m = "pause", frozen |-> store.frozen, allow |-> store.allow]
      BY <1>1, <1>3, <2>1 DEF G!AdminEffect, PolicyKeys
    <3> QED
      BY <1>2, <1>3, <2>1, <3>2, <3>3 DEF PolicyKeys
  <2>2. CASE m \in {"freeze", "unfreeze"}
    <3> DEFINE f == IF m = "freeze" THEN store.frozen \cup {a} ELSE store.frozen \ {a}
    <3>1. /\ {b \in Callers \cup store.frozen :
                IF b = a THEN m = "freeze" ELSE b \in store.frozen} = f
          /\ {b \in Callers \cup store.allow : b \in store.allow} = store.allow
      BY <1>2, <2>2
    <3>2. intent' = [paused |-> store.paused, frozen |-> f, allow |-> store.allow]
      BY <1>1, <1>3, <2>2, <3>1 DEF G!Meant
    <3>3. store' = [paused |-> store.paused, frozen |-> f, allow |-> store.allow]
      BY <1>1, <1>3, <2>2 DEF G!AdminEffect, PolicyKeys
    <3>4. f \in SUBSET WellFormed
      BY <1>2, <1>3, <2>2 DEF PolicyKeys
    <3> HIDE DEF f
    <3> QED
      BY <1>3, <3>2, <3>3, <3>4 DEF PolicyKeys, PolicyIInv
  <2>3. CASE m \in {"allow", "disallow"}
    <3> DEFINE f == IF m = "allow" THEN store.allow \cup {a} ELSE store.allow \ {a}
    <3>1. /\ {b \in Callers \cup store.allow :
                IF b = a THEN m = "allow" ELSE b \in store.allow} = f
          /\ {b \in Callers \cup store.frozen : b \in store.frozen} = store.frozen
      BY <1>2, <2>3
    <3>2. intent' = [paused |-> store.paused, frozen |-> store.frozen, allow |-> f]
      BY <1>1, <1>3, <2>3, <3>1 DEF G!Meant
    <3>3. store' = [paused |-> store.paused, frozen |-> store.frozen, allow |-> f]
      BY <1>1, <1>3, <2>3 DEF G!AdminEffect, PolicyKeys
    <3>4. f \in SUBSET WellFormed
      BY <1>2, <1>3, <2>3 DEF PolicyKeys
    <3> HIDE DEF f
    <3> QED
      BY <1>3, <3>2, <3>3, <3>4 DEF PolicyKeys, PolicyIInv
  <2> QED
    BY <1>2, <2>1, <2>2, <2>3
<1>5. raw' \in Configs /\ G!Accepts(raw') /\ cfg' = G!ValidateConfig(raw')
  BY <1>1 DEF PolicyIInv
<1> QED
  BY <1>1, <1>4, <1>5 DEF PolicyIInv

LEMMA PolicyStepIInv == ASSUME PolicyIInv, [G!Next]_(G!vars) PROVE PolicyIInv'
<1>1. CASE UNCHANGED G!vars
  BY <1>1 DEF PolicyIInv, G!vars
<1>2. CASE G!Next
  BY <1>2, PolicyAdminIInv DEF G!Next
<1> QED
  BY <1>1, <1>2

LEMMA PolicyInvPolicyTypeOK == ASSUME PolicyIInv PROVE G!TypeOK
<1>1. cfg.gates \subseteq G!BindableClasses
  BY PolicyValidated DEF PolicyIInv, G!Accepts, G!ValidGates
<1> QED
  BY <1>1 DEF PolicyIInv, G!TypeOK, PolicyKeys

LEMMA PolicyAlways == G!Spec => []PolicyIInv
  BY PolicyInitIInv, PolicyStepIInv, PTL DEF G!Spec

(* For every config the validators accept, and after any orders, the guard   *)
(* denies exactly what the config and its owner's orders deny.  Its steps    *)
(* come in one order whatever the mix of features, so that a local is bound  *)
(* before it is read.                                                        *)
THEOREM GuardIsPolicy == G!Spec => [](G!TypeOK /\ G!GuardMatchesPolicy)
  BY PolicyAlways, PolicyInvPolicyTypeOK, PolicyInvGuardMatches, PTL

(* For every such config, what is emitted is closed and has no dead part.    *)
THEOREM GuardIsClosed == G!Spec => []G!EmittedClosed
  BY PolicyAlways, PolicyInvEmittedClosed, PTL

(* For every such config, the chain takes what is emitted.                   *)
THEOREM GuardIsAccepted == G!Spec => []G!ChainAccepts
  BY PolicyAlways, PolicyInvChainAccepts, PTL

-----------------------------------------------------------------------------
(* Either contract, deployed.                                                *)

LEMMA DeployedGovernance ==
    /\ GInit => Init /\ G!Init
    /\ [GNext]_all => [Next]_vars /\ [G!Next]_(G!vars)
<1>1. GInit => Init /\ G!Init
  BY DEF GInit
<1>2. ASSUME OnlyTreasury, Next PROVE [Next]_vars /\ [G!Next]_(G!vars)
  BY <1>2 DEF OnlyTreasury, policy, G!vars
<1>3. ASSUME OnlyPolicy, G!Next PROVE [Next]_vars /\ [G!Next]_(G!vars)
  BY <1>3 DEF OnlyPolicy
<1>4. ASSUME UNCHANGED all PROVE [Next]_vars /\ [G!Next]_(G!vars)
  BY <1>4 DEF all, policy, G!vars
<1> QED
  BY <1>1, <1>2, <1>3, <1>4 DEF GNext

LEMMA DeployedGovernanceSpecs == GSpec => Spec /\ G!Spec
  BY DeployedGovernance, PTL DEF GSpec, Spec, G!Spec

(* No treasury pays without the whole mandate, whatever is deployed.         *)
THEOREM DeployedMandate == GSpec => []MandateBehindPayment
  BY DeployedGovernanceSpecs, TreasuryMandate, PTL

(* The record of a dead proposal is final, whatever is deployed.             *)
THEOREM DeployedDeadStaysDead == GSpec => DeadStaysDead
  BY DeployedGovernanceSpecs, TreasuryDeadStaysDead, PTL

(* What left a deployed treasury is what its records say was paid.           *)
THEOREM DeployedRecords == GSpec => []RecordsMatchLedger
  BY DeployedGovernanceSpecs, TreasuryBooks, PTL

(* A deployed treasury never wedges a mandate.                               *)
THEOREM DeployedNeverWedged == GSpec => []NeverWedged
  BY DeployedGovernanceSpecs, TreasuryNeverWedged, PTL

(* Whatever config it was generated from and whatever orders it was given, a *)
(* deployed guard denies an action exactly when the config and the owner's   *)
(* own orders do.                                                            *)
THEOREM DeployedGuardIsPolicy == GSpec => []GuardMatchesPolicy
<1>1. G!GuardMatchesPolicy => GuardMatchesPolicy
  BY DEF GuardMatchesPolicy
<1> QED
  BY <1>1, DeployedGovernanceSpecs, GuardIsPolicy, PTL

(* For every config accepted, the source emitted declares what it uses, uses *)
(* what it declares, and binds each local once, before it is read.           *)
THEOREM DeployedGuardIsClosed == GSpec => []EmittedClosed
<1>1. G!EmittedClosed => EmittedClosed
  BY DEF EmittedClosed
<1> QED
  BY <1>1, DeployedGovernanceSpecs, GuardIsClosed, PTL

(* For every config accepted, the chain takes the guard's identity and the   *)
(* royalty split of every listing the guard allows.                          *)
THEOREM DeployedGuardIsAccepted == GSpec => []ChainAccepts
<1>1. G!ChainAccepts => ChainAccepts
  BY DEF ChainAccepts
<1> QED
  BY <1>1, DeployedGovernanceSpecs, GuardIsAccepted, PTL
=============================================================================
