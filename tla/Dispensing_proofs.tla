-------------------------- MODULE Dispensing_proofs -------------------------
(* Proofs about the two templates that recognise a payment by what custody   *)
(* has grown by, CardDispenser and Amm (as P), for every value of their      *)
(* constants, and about Dispensing, where a deployment runs one of them.     *)
EXTENDS Dispensing, Amounts_proofs

-----------------------------------------------------------------------------
(* CardDispenser. *)

(* Balances are whole base units, and so is the watermark, which is a        *)
(* balance of an earlier step: what draw() computes from the two is moved by *)
(* the ledger as it stands.                                                  *)
OnTheirGrids == /\ \A t \in Ticks : OnGrid(held[t], Grids[t])
                /\ OnGrid(acctPay, Grids[PayTick])

(* No draw can dispense payTick itself.                                      *)
CardsApart == \A j \in DOMAIN cards : cards[j] # PayTick

(* initialize() has taken a plain unit that is not nothing, and it is a      *)
(* whole number of what its last digit counts.                               *)
UnitPlain == /\ unit.plain /\ unit.value \in Nat \ {0}
             /\ unit.digit \in Nat \ {0} /\ OnGrid(unit.value, unit.digit)

IInv == TypeOK /\ OnTheirGrids /\ CardsApart /\ UnitPlain /\ Watermark

-----------------------------------------------------------------------------
(* A SEND takes a whole number of base units out of one balance, and exactly *)
(* the amount asked when that was one.                                       *)
LEMMA SendFrame ==
    ASSUME TypeOK, OnTheirGrids,
           NEW a \in Addr, NEW t \in Ticks, NEW q \in Nat, Send(a, t, q)
    PROVE  /\ held' \in [Ticks -> Nat]
           /\ wallet' \in [Addr -> [Ticks -> Nat]]
           /\ \A u \in Ticks : OnGrid(held'[u], Grids[u])
           /\ \A u \in Ticks \ {t} : held'[u] = held[u]
           /\ OnGrid(q, Grids[t]) => held'[t] = held[t] - q
<1> DEFINE moved == HalfUp(q, Grids[t])
<1>1. Grids[t] \in Nat \ {0}
  BY DispenserAssumption
<1>2. moved \in Nat /\ OnGrid(moved, Grids[t])
  BY <1>1, LedgerRounds
<1>3. /\ moved <= held[t]
      /\ held' = [held EXCEPT ![t] = @ - moved]
      /\ wallet' = [wallet EXCEPT ![a][t] = @ + moved]
  BY DEF Send
<1>4. OnGrid(q, Grids[t]) => moved = q
  BY <1>1, LedgerKeepsGrid
<1> HIDE DEF moved
<1>5. held' \in [Ticks -> Nat] /\ held'[t] = held[t] - moved
  BY <1>2, <1>3 DEF TypeOK
<1>6. wallet' \in [Addr -> [Ticks -> Nat]]
  BY <1>2, <1>3 DEF TypeOK
<1>7. \A u \in Ticks \ {t} : held'[u] = held[u]
  BY <1>3 DEF TypeOK
<1>8. OnGrid(held'[t], Grids[t])
  <2>1. held[t] \in Nat /\ moved \in 0..held[t] /\ OnGrid(held[t], Grids[t])
    BY <1>2, <1>3 DEF TypeOK, OnTheirGrids
  <2> QED
    BY <1>1, <1>2, <1>5, <2>1, GridDifference
<1> QED
  BY <1>4, <1>5, <1>6, <1>7, <1>8 DEF OnTheirGrids

LEMMA InitIInv == Init => IInv
<1> SUFFICES ASSUME Init PROVE IInv
  OBVIOUS
<1>1. TypeOK
  BY DispenserAssumption DEF Init, TypeOK
<1>2. OnTheirGrids
  BY ZeroOnGrid, DispenserAssumption DEF Init, OnTheirGrids
<1>3. CardsApart
  BY DEF Init, DealableDeck, CardsApart
<1>4. Watermark
  BY DispenserAssumption DEF Init, Watermark
<1>5. UnitPlain
  <2>1. unit \in Units /\ unit.plain /\ unit.value > 0
    BY DEF Init, UsableUnit, PlainDecimal
  <2>2. unit.value \in Nat /\ unit.digit \in Nat \ {0}
    BY <2>1, DispenserAssumption
  <2>3. OnGrid(unit.value, unit.digit)
    BY <2>1, DispenserAssumption
  <2> QED
    BY <2>1, <2>2, <2>3 DEF UnitPlain
<1> QED
  BY <1>1, <1>2, <1>3, <1>4, <1>5 DEF IInv

LEMMA StepIInv == IInv /\ [Next]_vars => IInv'
<1> SUFFICES ASSUME IInv, [Next]_vars
             PROVE  IInv'
  OBVIOUS
<1> USE DispenserAssumption DEF IInv
<1>1. ASSUME NEW a \in Addr, NEW t \in Ticks, NEW q \in 1..wallet[a][t], Deposit(a, t, q)
      PROVE  IInv'
  <2>1. q \in Nat /\ OnGrid(q, Grids[t]) /\ Grids[t] \in Nat \ {0}
    BY <1>1 DEF Deposit, TypeOK
  <2>2. /\ held' = [held EXCEPT ![t] = @ + q]
        /\ wallet' = [wallet EXCEPT ![a][t] = @ - q]
        /\ UNCHANGED <<price, unit, cards, acctPay>>
    BY <1>1 DEF Deposit, terms
  <2>3. TypeOK'
    <3>1. wallet[a][t] \in Nat /\ wallet[a][t] - q \in Nat
      BY DEF TypeOK
    <3>2. wallet' \in [Addr -> [Ticks -> Nat]]
      BY <2>2, <3>1 DEF TypeOK
    <3>3. held \in [Ticks -> Nat]
      BY DEF TypeOK
    <3>4. held[t] + q \in Nat
      BY <2>1, <3>3
    <3>5. held' \in [Ticks -> Nat]
      BY <2>2, <3>3, <3>4
    <3> QED
      BY <2>2, <3>2, <3>5 DEF TypeOK
  <2>4. \A u \in Ticks : held'[u] = IF u = t THEN held[u] + q ELSE held[u]
    BY <2>2 DEF TypeOK
  <2>5. OnGrid(held[t] + q, Grids[t])
    BY <2>1, GridSum DEF TypeOK, OnTheirGrids
  <2>6. OnTheirGrids'
    BY <2>2, <2>4, <2>5 DEF OnTheirGrids
  <2>7. Watermark'
    BY <2>1, <2>2, <2>4 DEF Watermark, TypeOK
  <2> QED
    BY <2>2, <2>3, <2>6, <2>7 DEF CardsApart, UnitPlain
<1>2. ASSUME NEW a \in Addr, Refund(a), UNCHANGED terms
      PROVE  IInv'
  <2> DEFINE g == Grids[PayTick]
  <2>1. /\ held[PayTick] \in Nat /\ acctPay \in 0..held[PayTick] /\ g \in Nat \ {0}
        /\ OnGrid(held[PayTick], g) /\ OnGrid(acctPay, g)
    BY DEF TypeOK, OnTheirGrids, Watermark
  <2>2. Paid \in Nat /\ OnGrid(Paid, g)
    <3> HIDE DEF g
    <3> QED
      BY <2>1, GridDifference DEF Paid
  <2>3. Send(a, PayTick, Paid) /\ acctPay' = acctPay
    BY <1>2, <2>1 DEF Refund, AfterRefund, Paid
  <2>4. /\ held' \in [Ticks -> Nat] /\ wallet' \in [Addr -> [Ticks -> Nat]]
        /\ \A u \in Ticks : OnGrid(held'[u], Grids[u])
        /\ held'[PayTick] = held[PayTick] - Paid
    BY <2>2, <2>3, SendFrame
  <2>5. held'[PayTick] = acctPay
    BY <2>1, <2>4 DEF Paid
  <2> QED
    BY <1>2, <2>1, <2>3, <2>4, <2>5
       DEF TypeOK, OnTheirGrids, CardsApart, UnitPlain, Watermark, terms
<1>3. ASSUME NEW a \in Addr, Dispense(a), UNCHANGED terms
      PROVE  IInv'
  <2>1. PICK j \in DOMAIN cards : Send(a, cards[j], unit.value)
    BY <1>3 DEF Dispense
  <2>2. cards[j] \in Ticks \ {PayTick} /\ unit.value \in Nat
    BY <2>1 DEF TypeOK, CardsApart
  <2>3. /\ held' \in [Ticks -> Nat] /\ wallet' \in [Addr -> [Ticks -> Nat]]
        /\ \A u \in Ticks : OnGrid(held'[u], Grids[u])
        /\ held'[PayTick] = held[PayTick]
    BY <2>1, <2>2, SendFrame
  <2>4. acctPay' = held[PayTick] /\ acctPay' \in Nat
        /\ OnGrid(acctPay', Grids[PayTick])
    BY <1>3 DEF Dispense, TypeOK, OnTheirGrids
  <2>5. TypeOK'
    BY <1>3, <2>3, <2>4 DEF TypeOK, terms
  <2>6. OnTheirGrids'
    BY <2>3, <2>4 DEF OnTheirGrids
  <2>7. Watermark'
    BY <2>3, <2>4 DEF Watermark
  <2> QED
    BY <1>3, <2>5, <2>6, <2>7 DEF CardsApart, UnitPlain, terms
<1>4. ASSUME NEW t \in Ticks, Withdraw(t)
      PROVE  IInv'
  <2>1. held[t] \in Nat /\ OnGrid(held[t], Grids[t]) /\ Owner \in Addr
    BY DEF TypeOK, OnTheirGrids
  <2>2. Send(Owner, t, held[t]) /\ UNCHANGED terms /\ acctPay' = AfterSweep(t)
    BY <1>4 DEF Withdraw
  <2>3. /\ held' \in [Ticks -> Nat] /\ wallet' \in [Addr -> [Ticks -> Nat]]
        /\ \A u \in Ticks : OnGrid(held'[u], Grids[u])
        /\ \A u \in Ticks \ {t} : held'[u] = held[u]
    BY <2>1, <2>2, SendFrame
  <2>4. acctPay' \in Nat /\ OnGrid(acctPay', Grids[PayTick]) /\ acctPay' <= held'[PayTick]
    <3>1. CASE t = PayTick
      BY <2>2, <2>3, <3>1, ZeroOnGrid DEF AfterSweep
    <3>2. CASE t # PayTick
      BY <2>2, <2>3, <3>2 DEF AfterSweep, TypeOK, OnTheirGrids, Watermark
    <3> QED
      BY <3>1, <3>2
  <2> QED
    BY <2>2, <2>3, <2>4 DEF TypeOK, OnTheirGrids, CardsApart, UnitPlain, Watermark, terms
<1>5. CASE UNCHANGED vars
  BY <1>5 DEF vars, terms, TypeOK, OnTheirGrids, CardsApart, UnitPlain, Watermark
<1> QED
  BY <1>1, <1>2, <1>3, <1>4, <1>5 DEF Next, Draw

(* The dispenser's watermark never stands above custody, and every variable  *)
(* keeps its type: draw(), withdraw() and its refunds for any grids at all.  *)
THEOREM DispenserWatermark == Spec => [](TypeOK /\ Watermark)
<1>1. IInv => TypeOK /\ Watermark
  BY DEF IInv
<1> QED
  BY <1>1, InitIInv, StepIInv, PTL DEF Spec

-----------------------------------------------------------------------------
(* What a draw deals.                                                        *)

Copies == [j \in DOMAIN cards |-> DeliverableCopies(cards[j])]

LEMMA CopiesType ==
    ASSUME IInv
    PROVE  /\ DOMAIN cards = 1..Len(cards) /\ Len(cards) \in Nat
           /\ \A j \in DOMAIN cards : /\ cards[j] \in Ticks
                                      /\ DeliverableCopies(cards[j]) \in Nat
                                      /\ Copies[j] = DeliverableCopies(cards[j])
<1>1. cards \in Seq(Ticks)
  BY DispenserAssumption DEF IInv, TypeOK
<1>2. ASSUME NEW t \in Ticks PROVE DeliverableCopies(t) \in Nat
  <2>1. held[t] \in Nat /\ unit.value \in Nat \ {0}
    BY DEF IInv, TypeOK, UnitPlain
  <2>2. held[t] \div unit.value \in Nat
    BY <2>1, QuotientBound
  <2> QED
    BY <2>2 DEF DeliverableCopies
<1> QED
  BY <1>1, <1>2 DEF Copies

(* The walk stops at a card there is a copy of,                              *)
LEMMA PickedInStock ==
    ASSUME IInv, NEW r \in Rolls, NEW j \in DOMAIN cards, Picks(r, j)
    PROVE  DeliverableCopies(cards[j]) > 0
<1> DEFINE S == 1..j - 1
<1>1. j \in Nat \ {0} /\ j <= Len(cards) /\ Len(cards) \in Nat
  BY CopiesType
<1>2. /\ IsFiniteSet(S) /\ j \notin S
      /\ S \cup {j} = 1..j /\ S \cup {j} \subseteq 1..Len(cards)
  <2>1. j - 1 \in Int
    BY <1>1
  <2>2. IsFiniteSet(S)
    BY <2>1, FS_Interval
  <2> QED
    BY <1>1, <2>2
<1>3. \A i \in 1..Len(cards) : Copies[i] \in Nat
  BY CopiesType
<1>4. /\ UpTo(j - 1) = SumFunctionOnSet(Copies, S)
      /\ UpTo(j) = SumFunctionOnSet(Copies, S \cup {j})
  BY <1>2 DEF UpTo, Copies
<1> HIDE DEF S
<1>5. \A i \in S \cup {j} : Copies[i] \in Nat /\ Copies[i] \in Int
  BY <1>2, <1>3
<1>6. UpTo(j) = UpTo(j - 1) + Copies[j]
  <2>1. SumFunctionOnSet(Copies, S \cup {j}) = SumFunctionOnSet(Copies, S) + Copies[j]
    <3>1. \A i \in S \cup {j} : Copies[i] \in Int
      BY <1>5
    <3>2. IsFiniteSet(S) /\ j \notin S
      BY <1>2
    <3> QED
      BY <3>1, <3>2, SumAdd
  <2> QED
    BY <1>4, <2>1
<1>7. UpTo(j - 1) \in Nat
  BY <1>2, <1>4, <1>5, SumNat
<1>8. UpTo(j - 1) <= r /\ r < UpTo(j) /\ r \in Int
  BY DEF Picks, Rolls
<1>9. Copies[j] \in Nat /\ Copies[j] = DeliverableCopies(cards[j])
  BY CopiesType
<1> QED
  BY <1>6, <1>7, <1>8, <1>9

(* and with nothing to deal there is no copy of any.                         *)
LEMMA SoldOut ==
    ASSUME IInv, Total = 0, NEW t \in DOMAIN Info
    PROVE  Info[t] = 0
<1>1. PICK j \in DOMAIN cards : t = cards[j]
  BY DEF Info
<1>2. IsFiniteSet(1..Len(cards)) /\ j \in 1..Len(cards)
  BY CopiesType, FS_Interval
<1>3. \A i \in 1..Len(cards) : Copies[i] \in Nat
  BY CopiesType
<1>4. Copies[j] <= SumFunctionOnSet(Copies, 1..Len(cards))
  BY <1>2, <1>3, SumBound
<1>5. SumFunctionOnSet(Copies, 1..Len(cards)) = 0
  BY DEF Total, UpTo, Copies
<1> QED
  BY <1>1, <1>4, <1>5, CopiesType DEF Info

CardOrMoneyBack ==
    /\ acctPay' > acctPay =>
         /\ Paid >= price
         /\ held'[PayTick] = held[PayTick]
         /\ \E t \in DOMAIN Info :
               /\ Info[t] > 0
               /\ held' = [held EXCEPT ![t] = @ - unit.value]
    /\ \A a \in Addr \ {Owner} :
         wallet'[a][PayTick] > wallet[a][PayTick] =>
            /\ wallet'[a][PayTick] - wallet[a][PayTick] = Paid
            /\ acctPay' = acctPay
            /\ \A t \in DOMAIN Info : Info[t] = 0

LEMMA RefundGivesBack ==
    ASSUME IInv, NEW b \in Addr, Refund(b)
    PROVE  CardOrMoneyBack
<1> DEFINE g == Grids[PayTick]
<1>1. /\ held[PayTick] \in Nat /\ acctPay \in 0..held[PayTick] /\ g \in Nat \ {0}
      /\ OnGrid(held[PayTick], g) /\ OnGrid(acctPay, g)
      /\ wallet \in [Addr -> [Ticks -> Nat]] /\ PayTick \in Ticks
  BY DispenserAssumption DEF IInv, TypeOK, OnTheirGrids, Watermark
<1>2. Paid \in Nat /\ OnGrid(Paid, g)
  <2> HIDE DEF g
  <2> QED
    BY <1>1, GridDifference DEF Paid
<1>3. HalfUp(Paid, g) = Paid
  <2> HIDE DEF g
  <2> QED
    BY <1>1, <1>2, LedgerKeepsGrid
<1>4. acctPay' = acctPay
  BY <1>1 DEF Refund, AfterRefund, Paid
<1>5. wallet' = [wallet EXCEPT ![b][PayTick] = @ + Paid]
  BY <1>3 DEF Refund, Send
<1>6. \A t \in DOMAIN Info : Info[t] = 0
  BY SoldOut DEF Refund
<1>7. \A a \in Addr : wallet'[a][PayTick] = IF a = b THEN wallet[a][PayTick] + Paid
                                             ELSE wallet[a][PayTick]
  BY <1>1, <1>5
<1>8. \A a \in Addr : wallet[a][PayTick] \in Nat
  BY <1>1
<1>9. ASSUME NEW a \in Addr, wallet'[a][PayTick] > wallet[a][PayTick]
      PROVE  wallet'[a][PayTick] - wallet[a][PayTick] = Paid
  BY <1>2, <1>7, <1>8, <1>9
<1> QED
  BY <1>1, <1>4, <1>6, <1>9 DEF CardOrMoneyBack

LEMMA DispenseGivesCard ==
    ASSUME IInv, NEW b \in Addr, Covered, Dispense(b)
    PROVE  CardOrMoneyBack
<1>1. PICK r \in Rolls, j \in DOMAIN cards : Picks(r, j) /\ Send(b, cards[j], unit.value)
  BY DEF Dispense
<1> DEFINE t == cards[j]
<1>2. t \in Ticks \ {PayTick} /\ t \in DOMAIN Info
  BY CopiesType DEF IInv, CardsApart, Info
<1>3. Info[t] > 0 /\ DeliverableCopies(t) > 0
  BY <1>1, <1>2, PickedInStock DEF Info
<1>4. OnGrid(unit.value, Grids[t]) /\ unit.value \in Nat /\ Grids[t] \in Nat \ {0}
  <2>1. /\ unit.value \in Nat /\ unit.digit \in Nat \ {0} /\ Grids[t] \in Nat \ {0}
        /\ OnGrid(unit.value, unit.digit) /\ OnGrid(unit.digit, Grids[t])
    BY <1>2, <1>3, DispenserAssumption DEF DeliverableCopies, Expressible, IInv, UnitPlain
  <2> QED
    BY <2>1, GridOfGrid
<1>5. HalfUp(unit.value, Grids[t]) = unit.value
  BY <1>4, LedgerKeepsGrid
<1>6. /\ held' = [held EXCEPT ![t] = @ - unit.value]
      /\ wallet' = [wallet EXCEPT ![b][t] = @ + unit.value]
  BY <1>1, <1>5 DEF Send
<1>7. held'[PayTick] = held[PayTick]
  BY <1>2, <1>6, DispenserAssumption DEF IInv, TypeOK
<1>8. \A a \in Addr : wallet'[a][PayTick] = wallet[a][PayTick] /\ wallet[a][PayTick] \in Nat
  BY <1>2, <1>6, DispenserAssumption DEF IInv, TypeOK
<1>9. ~\E a \in Addr : wallet'[a][PayTick] > wallet[a][PayTick]
  BY <1>8
<1> QED
  BY <1>2, <1>3, <1>6, <1>7, <1>9 DEF CardOrMoneyBack, Covered

LEMMA StepCardOrMoneyBack == IInv /\ [Next]_vars => CardOrMoneyBack
<1> SUFFICES ASSUME IInv, [Next]_vars PROVE CardOrMoneyBack
  OBVIOUS
<1>1. /\ acctPay \in Nat /\ wallet \in [Addr -> [Ticks -> Nat]] /\ PayTick \in Ticks
      /\ Owner \in Addr
  BY DispenserAssumption DEF IInv, TypeOK
<1>2. ASSUME acctPay' <= acctPay, acctPay' \in Nat,
             \A a \in Addr \ {Owner} : wallet'[a][PayTick] <= wallet[a][PayTick]
                                        /\ wallet'[a][PayTick] \in Nat
      PROVE  CardOrMoneyBack
  <2>1. ~(acctPay' > acctPay)
    BY <1>1, <1>2
  <2>2. ~\E a \in Addr \ {Owner} : wallet'[a][PayTick] > wallet[a][PayTick]
    BY <1>1, <1>2
  <2> QED
    BY <2>1, <2>2 DEF CardOrMoneyBack
<1>3. ASSUME NEW a \in Addr, NEW t \in Ticks, NEW q \in 1..wallet[a][t], Deposit(a, t, q)
      PROVE  CardOrMoneyBack
  <2>1. /\ wallet' = [wallet EXCEPT ![a][t] = @ - q] /\ acctPay' = acctPay
        /\ wallet[a][t] \in Nat /\ q \in 1..wallet[a][t]
    BY <1>1, <1>3 DEF Deposit
  <2>2. \A b \in Addr : /\ wallet'[b][PayTick] <= wallet[b][PayTick]
                        /\ wallet'[b][PayTick] \in Nat
    BY <1>1, <2>1
  <2> QED
    BY <1>1, <1>2, <2>1, <2>2
<1>4. ASSUME NEW a \in Addr, Draw(a) PROVE CardOrMoneyBack
  BY <1>4, RefundGivesBack, DispenseGivesCard DEF Draw
<1>5. ASSUME NEW t \in Ticks, Withdraw(t) PROVE CardOrMoneyBack
  <2> DEFINE moved == HalfUp(held[t], Grids[t])
  <2>1. wallet' = [wallet EXCEPT ![Owner][t] = @ + moved] /\ acctPay' = AfterSweep(t)
    BY <1>5 DEF Withdraw, Send
  <2> HIDE DEF moved
  <2>2. \A b \in Addr \ {Owner} : wallet'[b] = wallet[b]
    BY <1>1, <2>1
  <2>3. acctPay' <= acctPay /\ acctPay' \in Nat
    BY <1>1, <2>1 DEF AfterSweep
  <2> QED
    BY <1>1, <1>2, <2>2, <2>3
<1>6. CASE UNCHANGED vars
  BY <1>1, <1>2, <1>6 DEF vars
<1> QED
  BY <1>3, <1>4, <1>5, <1>6 DEF Next

(* A payment that is kept bought one whole unit of a card in stock; one that *)
(* is not kept went back whole, and only with nothing in stock.  For every   *)
(* deck, and a number below the total drawn in any way.                      *)
THEOREM DispenserCardOrRefund == Spec => CardOrRefund
  BY InitIInv, StepIInv, StepCardOrMoneyBack, PTL DEF Spec, CardOrRefund, CardOrMoneyBack

-----------------------------------------------------------------------------
(* Amm. *)

(* The operators on grids that its instance brings with it are the same.     *)
LEMMA PoolGrids ==
    \A q, g : /\ P!FloorTo(q, g) = FloorTo(q, g)
              /\ P!OnGrid(q, g) = OnGrid(q, g)
              /\ P!HalfUp(q, g) = HalfUp(q, g)
  BY DEF P!FloorTo, P!OnGrid, P!HalfUp, FloorTo, OnGrid, HalfUp

USE PoolGrids

(* The inductive invariant.  Custody covers the books;                       *)
PoolBacked == /\ \A t \in P!Pair : reserve[t] <= poolHeld[t]
              /\ lpInventory <= poolHeld["LP"]

(* before the pool is seeded it keeps nothing, and every LP unit is its own; *)
PoolUnseeded == totalShares = 0 => outside["LP"] = 0 /\ poolHeld["LP"] = lpInventory

(* and once it is, the locked shares and a part of both reserves stay.       *)
PoolSeeded == totalShares > 0 =>
            /\ outside["LP"] + P!Delta("LP") = totalShares - Locked
            /\ totalShares >= Locked
            /\ \A t \in P!Pair : reserve[t] > 0

PoolIInv == P!Assumption /\ P!TypeOK /\ PoolBacked /\ PoolUnseeded /\ PoolSeeded

LEMMA PoolConstants ==
    ASSUME P!Assumption
    PROVE  /\ PoolGrid \in [P!Pair -> Nat \ {0}] /\ PoolSupply \in [P!Pair -> Nat]
           /\ FeeDen \in Nat \ {0} /\ FeeNum \in 1..FeeDen
           /\ Locked \in Nat \ {0} /\ MaxShares \in Nat /\ MaxShares > Locked
           /\ \A t \in P!Ticks : P!GridOf(t) \in Nat \ {0}
           /\ P!Pair = {"A", "B"} /\ P!Ticks = {"A", "B", "LP"}
  BY DEF P!Assumption, P!GridOf, P!Pair, P!Ticks

(* What the figures are, in one place.                                       *)
LEMMA PoolFigures ==
    ASSUME PoolIInv
    PROVE  /\ reserve \in [P!Pair -> Nat] /\ totalShares \in Nat
           /\ lpInventory \in 0..MaxShares /\ MaxShares \in Nat
           /\ poolHeld \in [P!Ticks -> Nat] /\ outside \in [P!Ticks -> Nat]
           /\ \A t \in P!Ticks : P!Delta(t) \in Nat
           /\ \A t \in P!Pair : t \in P!Ticks /\ P!Delta(t) = poolHeld[t] - reserve[t]
           /\ "LP" \in P!Ticks /\ P!Delta("LP") = poolHeld["LP"] - lpInventory
  BY PoolConstants DEF PoolIInv, P!TypeOK, PoolBacked, P!Delta, P!Pair, P!Ticks

-----------------------------------------------------------------------------
(* Whole square roots exist.                                                 *)
IsISqrt(n, r) == r * r <= n /\ (r + 1) * (r + 1) > n

LEMMA ISqrtExists == \A n \in Nat : \E r \in 0..n : IsISqrt(n, r)
<1> DEFINE B == {n \in Nat : \E r \in 0..n : IsISqrt(n, r)}
<1>1. 0 \in B
  BY DEF IsISqrt
<1>2. ASSUME NEW n \in Nat, n \in B PROVE n + 1 \in B
  <2>1. PICK r \in 0..n : r * r <= n /\ (r + 1) * (r + 1) > n
    BY <1>2 DEF IsISqrt
  <2>2. CASE (r + 1) * (r + 1) > n + 1
    <3>1. r \in 0..n + 1 /\ r * r <= n + 1
      BY <2>1
    <3> QED
      BY <2>2, <3>1 DEF IsISqrt
  <2>3. CASE (r + 1) * (r + 1) <= n + 1
    <3>1. (r + 2) * (r + 2) = (r + 1) * (r + 1) + 2 * r + 3
      BY <2>1
    <3>2. (r + 1) * (r + 1) \in Nat /\ r + 1 \in 0..n + 1
      BY <2>1
    <3> DEFINE u == (r + 1) * (r + 1)
               v == (r + 2) * (r + 2)
    <3>3. v > n + 1
      <4>1. u \in Nat /\ u > n /\ v = u + 2 * r + 3 /\ r \in Nat
        BY <2>1, <3>1, <3>2
      <4> HIDE DEF u, v
      <4> QED
        BY <4>1
    <3>4. (r + 1 + 1) * (r + 1 + 1) = v
      BY <2>1
    <3>5. IsISqrt(n + 1, r + 1)
      BY <2>3, <3>3, <3>4 DEF IsISqrt
    <3> QED
      BY <3>2, <3>5
  <2> QED
    BY <2>1, <2>2, <2>3
<1>3. Nat \subseteq B
  <2> HIDE DEF B
  <2> QED
    BY <1>1, <1>2, CountingUp
<1> QED
  BY <1>3

LEMMA PoolISqrtType == ASSUME NEW n \in Nat PROVE P!ISqrt(n) \in Nat
<1>1. \E r \in 0..n : r * r <= n /\ (r + 1) * (r + 1) > n
  BY ISqrtExists DEF IsISqrt
<1>2. P!ISqrt(n) \in 0..n
  BY <1>1, Zenon DEF P!ISqrt
<1> QED
  BY <1>2

-----------------------------------------------------------------------------
(* What a call emits leaves custody as asked: it was cut to the tick's grid. *)
LEMMA PoolEmitFrame ==
    ASSUME PoolIInv, NEW sent \in [P!Ticks -> Nat], NEW burned \in Nat,
           P!Emit(sent, burned),
           \A t \in P!Ticks : OnGrid(sent[t], P!GridOf(t))
    PROVE  /\ poolHeld' \in [P!Ticks -> Nat] /\ outside' \in [P!Ticks -> Nat]
           /\ \A t \in P!Pair : poolHeld'[t] = poolHeld[t] - sent[t]
           /\ poolHeld'["LP"] = poolHeld["LP"] - sent["LP"] - burned
           /\ outside'["LP"] = outside["LP"] + sent["LP"]
<1>1. \A t \in P!Ticks : HalfUp(sent[t], P!GridOf(t)) = sent[t]
  BY PoolConstants, LedgerKeepsGrid DEF PoolIInv
<1> DEFINE gone == [t \in P!Ticks |-> sent[t] + (IF t = "LP" THEN burned ELSE 0)]
<1>2. [t \in P!Ticks |-> HalfUp(sent[t], P!GridOf(t))] = sent
  BY <1>1
<1>3. /\ \A t \in P!Ticks : gone[t] <= poolHeld[t]
      /\ poolHeld' = [t \in P!Ticks |-> poolHeld[t] - gone[t]]
      /\ outside' = [t \in P!Ticks |-> outside[t] + sent[t]]
  BY <1>2 DEF P!Emit
<1>4. \A t \in P!Ticks : /\ gone[t] \in Nat
                         /\ gone[t] = IF t = "LP" THEN sent[t] + burned ELSE sent[t]
  OBVIOUS
<1> HIDE DEF gone
<1> QED
  BY <1>3, <1>4, PoolFigures DEF P!Pair, P!Ticks

(* The unit of the LP tick is its base unit.                                 *)
LEMMA PoolLPGrid == ASSUME NEW q \in Nat PROVE OnGrid(q, P!GridOf("LP"))
  BY DEF OnGrid, FloorTo, P!GridOf

LEMMA PoolInitIInv == P!Assumption /\ P!Init => PoolIInv
  BY PoolConstants
       DEF P!Init, PoolIInv, P!TypeOK, PoolBacked, PoolUnseeded, PoolSeeded, P!Pair, P!Ticks

LEMMA PoolDepositIInv ==
    ASSUME PoolIInv, NEW t \in P!Ticks, NEW q \in 1..outside[t], P!Deposit(t, q)
    PROVE  PoolIInv'
<1>1. /\ poolHeld' = [poolHeld EXCEPT ![t] = @ + q]
      /\ outside' = [outside EXCEPT ![t] = @ - q]
      /\ UNCHANGED <<reserve, totalShares, lpInventory>>
      /\ q \in Nat /\ q <= outside[t]
  BY PoolFigures DEF P!Deposit, P!store
<1>2. poolHeld' \in [P!Ticks -> Nat] /\ outside' \in [P!Ticks -> Nat]
  BY <1>1, PoolFigures
<1>3. \A u \in P!Ticks : poolHeld'[u] >= poolHeld[u] /\ poolHeld'[u] \in Nat
  BY <1>1, <1>2, PoolFigures
<1>4. outside'["LP"] + poolHeld'["LP"] = outside["LP"] + poolHeld["LP"]
  BY <1>1, PoolFigures
<1>5. P!TypeOK'
  BY <1>1, <1>2 DEF PoolIInv, P!TypeOK
<1>6. PoolBacked'
  BY <1>1, <1>3, PoolFigures DEF PoolIInv, PoolBacked
<1>7. PoolUnseeded'
  <2>1. totalShares = 0 => outside[t] = 0 \/ t # "LP"
    BY DEF PoolIInv, PoolUnseeded
  <2> QED
    BY <1>1, <2>1, PoolFigures DEF PoolIInv, PoolUnseeded
<1>8. PoolSeeded'
  <2>1. P!Delta("LP")' = poolHeld'["LP"] - lpInventory
    BY <1>1 DEF P!Delta
  <2> QED
    BY <1>1, <1>2, <1>4, <2>1, PoolFigures DEF PoolIInv, PoolSeeded
<1> QED
  BY <1>1, <1>5, <1>6, <1>7, <1>8 DEF PoolIInv

-----------------------------------------------------------------------------
(* addLiquidity() takes all that custody has grown by into the reserves, and *)
(* hands out no more shares than either side is worth.                       *)
LEMMA PoolScarcerBound ==
    ASSUME PoolIInv, totalShares > 0
    PROVE  /\ P!ScarcerSide \in Nat
           /\ \A t \in P!Pair : P!ScarcerSide * reserve[t] <= P!Delta(t) * totalShares
<1> DEFINE share(t) == (P!Delta(t) * totalShares) \div reserve[t]
           S == {share(t) : t \in P!Pair}
<1>1. ASSUME NEW t \in P!Pair
      PROVE  /\ P!Delta(t) * totalShares \in Nat /\ reserve[t] \in Nat \ {0}
             /\ share(t) \in Nat /\ share(t) * reserve[t] <= P!Delta(t) * totalShares
  <2>1. P!Delta(t) \in Nat /\ totalShares \in Nat /\ reserve[t] \in Nat \ {0}
    BY PoolFigures DEF PoolIInv, PoolSeeded
  <2>2. P!Delta(t) * totalShares \in Nat
    BY <2>1
  <2> QED
    BY <2>1, <2>2, QuotientBound
<1>2. P!ScarcerSide = P!Min(S)
  BY DEF P!ScarcerSide
<1>3. P!Min(S) \in S /\ \A t \in P!Pair : P!Min(S) <= share(t)
  <2>1. S = {share("A"), share("B")}
    BY DEF P!Pair
  <2>2. share("A") \in Nat /\ share("B") \in Nat
    BY <1>1 DEF P!Pair
  <2> HIDE DEF share
  <2>3. \E x \in S : \A y \in S : x <= y
    BY <2>1, <2>2
  <2>4. P!Min(S) \in S /\ \A y \in S : P!Min(S) <= y
    BY <2>3 DEF P!Min
  <2> QED
    BY <2>1, <2>4 DEF P!Pair
<1>4. P!ScarcerSide \in Nat
  BY <1>1, <1>2, <1>3
<1>5. ASSUME NEW t \in P!Pair
      PROVE  P!ScarcerSide * reserve[t] <= P!Delta(t) * totalShares
  <2> DEFINE s == P!ScarcerSide
             w == share(t)
             r == reserve[t]
  <2>1. s \in Nat /\ w \in Nat /\ s <= w /\ r \in Nat
    BY <1>1, <1>2, <1>3, <1>4
  <2>2. w * r <= P!Delta(t) * totalShares /\ P!Delta(t) * totalShares \in Nat
    BY <1>1
  <2> HIDE DEF s, w, r
  <2>3. s * r <= w * r /\ s * r \in Nat /\ w * r \in Nat
    BY <2>1, ProductMonotone
  <2>4. s * r <= P!Delta(t) * totalShares
    BY <2>2, <2>3
  <2> QED
    BY <2>4 DEF s, r
<1> QED
  BY <1>4, <1>5

LEMMA PoolAddStep ==
    ASSUME PoolIInv, P!AddLiquidity
    PROVE  /\ poolHeld' \in [P!Ticks -> Nat] /\ outside' \in [P!Ticks -> Nat]
           /\ \A t \in P!Pair : poolHeld'[t] = poolHeld[t] /\ P!Delta(t) > 0
           /\ reserve' = [t \in P!Pair |-> poolHeld[t]]
           /\ P!Shares \in Nat /\ P!Shares - P!LockedNow > 0
           /\ totalShares' = totalShares + P!Shares
           /\ lpInventory' = lpInventory - (P!Shares - P!LockedNow)
           /\ lpInventory' \in 0..MaxShares
           /\ poolHeld'["LP"] = poolHeld["LP"] - (P!Shares - P!LockedNow)
           /\ outside'["LP"] = outside["LP"] + (P!Shares - P!LockedNow)
<1> DEFINE minted == P!Shares - P!LockedNow
           sent == [t \in P!Ticks |-> IF t = "LP" THEN minted ELSE 0]
<1>1. /\ \A t \in P!Pair : P!Delta(t) > 0
      /\ minted > 0
      /\ lpInventory - Locked >= minted
      /\ reserve' = [t \in P!Pair |-> poolHeld[t]]
      /\ totalShares' = totalShares + P!Shares
      /\ lpInventory' = lpInventory - minted
      /\ P!Emit(sent, 0)
  BY DEF P!AddLiquidity
<1>2. P!Shares \in Nat
  <2>1. CASE totalShares = 0
    <3>1. P!Delta("A") * P!Delta("B") \in Nat
      BY PoolFigures DEF P!Pair
    <3> QED
      BY <2>1, <3>1, PoolISqrtType DEF P!Shares
  <2>2. CASE totalShares > 0
    BY <2>2, PoolScarcerBound DEF P!Shares
  <2> QED
    BY <2>1, <2>2, PoolFigures
<1>3. minted \in Nat /\ Locked \in Nat
  <2>1. Locked \in Nat /\ P!LockedNow \in Nat
    BY PoolConstants DEF PoolIInv, P!LockedNow
  <2> QED
    BY <1>1, <1>2, <2>1
<1>4. sent \in [P!Ticks -> Nat] /\ \A t \in P!Pair : sent[t] = 0
  BY <1>3 DEF P!Pair, P!Ticks
<1>5. sent["LP"] = minted
  BY DEF P!Ticks
<1>6. \A t \in P!Ticks : OnGrid(sent[t], P!GridOf(t))
  <2>1. \A t \in P!Pair : OnGrid(0, P!GridOf(t))
    BY PoolConstants, ZeroOnGrid DEF PoolIInv, P!Pair, P!Ticks
  <2>2. OnGrid(minted, P!GridOf("LP"))
    BY <1>3, PoolLPGrid
  <2> HIDE DEF minted
  <2> QED
    BY <2>1, <2>2 DEF P!Ticks
<1> HIDE DEF sent
<1>7. /\ poolHeld' \in [P!Ticks -> Nat] /\ outside' \in [P!Ticks -> Nat]
      /\ \A t \in P!Pair : poolHeld'[t] = poolHeld[t] - sent[t]
      /\ poolHeld'["LP"] = poolHeld["LP"] - sent["LP"] - 0
      /\ outside'["LP"] = outside["LP"] + sent["LP"]
  BY <1>1, <1>4, <1>6, PoolEmitFrame
<1>8. lpInventory' \in 0..MaxShares
  BY <1>1, <1>3, PoolFigures
<1> HIDE DEF minted
<1>9. /\ \A t \in P!Pair : poolHeld'[t] = poolHeld[t]
      /\ poolHeld'["LP"] = poolHeld["LP"] - minted
      /\ outside'["LP"] = outside["LP"] + minted
  BY <1>3, <1>4, <1>5, <1>7, PoolFigures
<1> QED
  BY <1>1, <1>2, <1>7, <1>8, <1>9 DEF minted

LEMMA PoolAddIInv == ASSUME PoolIInv, P!AddLiquidity PROVE PoolIInv'
<1> DEFINE minted == P!Shares - P!LockedNow
<1>1. /\ poolHeld' \in [P!Ticks -> Nat] /\ outside' \in [P!Ticks -> Nat]
      /\ \A t \in P!Pair : poolHeld'[t] = poolHeld[t] /\ P!Delta(t) > 0
      /\ reserve' = [t \in P!Pair |-> poolHeld[t]]
      /\ P!Shares \in Nat /\ minted > 0
      /\ totalShares' = totalShares + P!Shares
      /\ lpInventory' = lpInventory - minted
      /\ lpInventory' \in 0..MaxShares
      /\ poolHeld'["LP"] = poolHeld["LP"] - minted
      /\ outside'["LP"] = outside["LP"] + minted
  BY PoolAddStep
<1>2. Locked \in Nat \ {0} /\ P!LockedNow = IF totalShares = 0 THEN Locked ELSE 0
  BY PoolConstants DEF PoolIInv, P!LockedNow
<1>3. P!TypeOK'
  BY <1>1, PoolFigures DEF P!TypeOK
<1>4. PoolBacked'
  <2>1. \A t \in P!Pair : reserve'[t] <= poolHeld'[t]
    BY <1>1, PoolFigures
  <2>2. /\ minted \in Nat /\ lpInventory <= poolHeld["LP"]
        /\ lpInventory \in Nat /\ poolHeld["LP"] \in Nat
    BY <1>1, <1>2, PoolFigures DEF PoolIInv, PoolBacked
  <2>3. lpInventory' <= poolHeld'["LP"]
    <3> HIDE DEF minted
    <3> QED
      BY <1>1, <2>2
  <2> QED
    BY <2>1, <2>3 DEF PoolBacked
<1>5. totalShares' > 0
  BY <1>1, <1>2, PoolFigures
<1>6. P!Delta("LP")' = P!Delta("LP")
  BY <1>1, <1>2, PoolFigures DEF P!Delta
<1>7. outside'["LP"] + P!Delta("LP") = totalShares' - Locked
  <2>1. CASE totalShares = 0
    BY <1>1, <1>2, <2>1, PoolFigures DEF PoolIInv, PoolUnseeded
  <2>2. CASE totalShares > 0
    BY <1>1, <1>2, <2>2, PoolFigures DEF PoolIInv, PoolSeeded
  <2> QED
    BY <2>1, <2>2, PoolFigures
<1>8. totalShares' >= Locked
  BY <1>1, <1>2, PoolFigures DEF PoolIInv, PoolSeeded
<1>9. \A t \in P!Pair : reserve'[t] > 0
  BY <1>1, PoolFigures
<1>10. PoolSeeded' /\ PoolUnseeded'
  BY <1>5, <1>6, <1>7, <1>8, <1>9 DEF PoolSeeded, PoolUnseeded
<1> QED
  BY <1>3, <1>4, <1>10 DEF PoolIInv

-----------------------------------------------------------------------------
(* removeLiquidity() pays less than the whole of either reserve, and no more *)
(* of it than the shares it burns are worth.                                 *)
LEMMA PoolSliceBound ==
    ASSUME PoolIInv, totalShares > 0, P!Delta("LP") <= totalShares, NEW t \in P!Pair
    PROVE  /\ P!Slice(t) \in Nat /\ OnGrid(P!Slice(t), PoolGrid[t])
           /\ P!Slice(t) * totalShares <= reserve[t] * P!Delta("LP")
           /\ P!Delta("LP") < totalShares /\ P!Slice(t) < reserve[t]
<1> DEFINE r == reserve[t]
           d == P!Delta("LP")
           n == totalShares
           w == (r * d) \div n
<1>1. /\ r \in Nat \ {0} /\ d \in Nat /\ n \in Nat \ {0} /\ PoolGrid[t] \in Nat \ {0}
      /\ outside["LP"] \in Nat /\ Locked \in Nat \ {0} /\ outside["LP"] + d = n - Locked
  BY PoolFigures, PoolConstants DEF PoolIInv, PoolSeeded
<1> HIDE DEF r, d, n
<1>2. r * d \in Nat /\ r * n \in Nat
  BY <1>1
<1>3. w \in Nat /\ w * n <= r * d
  BY <1>1, <1>2, QuotientBound
<1> HIDE DEF w
<1>4. P!Slice(t) = FloorTo(w, PoolGrid[t])
  BY DEF P!Slice, w, r, d, n
<1>5. P!Slice(t) \in 0..w /\ OnGrid(P!Slice(t), PoolGrid[t])
  BY <1>1, <1>3, <1>4, FloorToBounds, FloorToOnGrid
<1> DEFINE s == P!Slice(t)
<1>6. s \in Nat /\ s <= w
  BY <1>3, <1>5
<1> HIDE DEF s
<1>7. s * n <= w * n /\ s * n \in Nat /\ w * n \in Nat
  BY <1>1, <1>3, <1>6, ProductMonotone
<1>8. s * n <= r * d
  BY <1>2, <1>3, <1>7
<1>9. d < n
  BY <1>1
<1>10. s < r
  <2>1. r * d + r <= r * n
    <3>1. r * (d + 1) <= r * n
      BY <1>1, <1>9, ProductMonotone
    <3>2. r * (d + 1) = r * d + r
      BY <1>1
    <3> QED
      BY <1>2, <3>1, <3>2
  <2> SUFFICES ASSUME r <= s PROVE FALSE
    BY <1>1, <1>6
  <2>2. n * r <= n * s /\ n * r = r * n /\ n * s = s * n
    BY <1>1, <1>6, ProductMonotone
  <2> QED
    BY <1>1, <1>2, <1>7, <1>8, <2>1, <2>2
<1> QED
  BY <1>5, <1>6, <1>8, <1>9, <1>10 DEF r, d, n, s

LEMMA PoolRemoveStep ==
    ASSUME PoolIInv, P!RemoveLiquidity
    PROVE  /\ totalShares > 0
           /\ poolHeld' \in [P!Ticks -> Nat] /\ outside' \in [P!Ticks -> Nat]
           /\ \A t \in P!Pair : /\ poolHeld'[t] = poolHeld[t] - P!Slice(t)
                                /\ reserve'[t] = reserve[t] - P!Slice(t)
                                /\ reserve'[t] \in Nat \ {0}
           /\ reserve' \in [P!Pair -> Nat]
           /\ totalShares' = totalShares - P!Delta("LP") /\ totalShares' \in Nat \ {0}
           /\ lpInventory' = lpInventory
           /\ poolHeld'["LP"] = poolHeld["LP"] - P!Delta("LP")
           /\ outside'["LP"] = outside["LP"]
<1> DEFINE sent == [t \in P!Ticks |-> IF t = "LP" THEN 0 ELSE P!Slice(t)]
<1>1. /\ P!Delta("LP") > 0 /\ P!Delta("LP") <= totalShares
      /\ reserve' = [t \in P!Pair |-> reserve[t] - P!Slice(t)]
      /\ totalShares' = totalShares - P!Delta("LP")
      /\ P!Emit(sent, P!Delta("LP"))
      /\ lpInventory' = lpInventory
  BY DEF P!RemoveLiquidity
<1>2. totalShares > 0
  BY <1>1, PoolFigures
<1>3. \A t \in P!Pair : /\ P!Slice(t) \in Nat /\ OnGrid(P!Slice(t), PoolGrid[t])
                     /\ P!Slice(t) < reserve[t] /\ reserve[t] \in Nat
  BY <1>1, <1>2, PoolSliceBound, PoolFigures
<1>4. P!Delta("LP") < totalShares /\ P!Delta("LP") \in Nat
  <2>1. "A" \in P!Pair
    BY DEF P!Pair
  <2> QED
    BY <1>1, <1>2, <2>1, PoolSliceBound, PoolFigures
<1>5. /\ sent \in [P!Ticks -> Nat] /\ sent["LP"] = 0
      /\ \A t \in P!Pair : sent[t] = P!Slice(t)
  BY <1>3 DEF P!Pair, P!Ticks
<1>6. \A t \in P!Ticks : OnGrid(sent[t], P!GridOf(t))
  <2>1. OnGrid(sent["LP"], P!GridOf("LP"))
    BY <1>5, PoolLPGrid
  <2>2. \A t \in P!Pair : OnGrid(sent[t], P!GridOf(t))
    BY <1>3, <1>5 DEF P!GridOf, P!Pair
  <2> HIDE DEF sent
  <2> QED
    BY <2>1, <2>2 DEF P!Ticks
<1> HIDE DEF sent
<1>7. /\ poolHeld' \in [P!Ticks -> Nat] /\ outside' \in [P!Ticks -> Nat]
      /\ \A t \in P!Pair : poolHeld'[t] = poolHeld[t] - sent[t]
      /\ poolHeld'["LP"] = poolHeld["LP"] - sent["LP"] - P!Delta("LP")
      /\ outside'["LP"] = outside["LP"] + sent["LP"]
  BY <1>1, <1>4, <1>5, <1>6, PoolEmitFrame
<1>8. /\ \A t \in P!Pair : poolHeld'[t] = poolHeld[t] - P!Slice(t)
      /\ poolHeld'["LP"] = poolHeld["LP"] - P!Delta("LP")
      /\ outside'["LP"] = outside["LP"]
  BY <1>4, <1>5, <1>7, PoolFigures
<1>9. /\ \A t \in P!Pair : reserve'[t] = reserve[t] - P!Slice(t) /\ reserve'[t] \in Nat \ {0}
      /\ reserve' \in [P!Pair -> Nat]
  BY <1>1, <1>3
<1>10. totalShares' \in Nat \ {0}
  BY <1>1, <1>4, PoolFigures
<1> QED
  BY <1>1, <1>2, <1>7, <1>8, <1>9, <1>10

LEMMA PoolRemoveIInv == ASSUME PoolIInv, P!RemoveLiquidity PROVE PoolIInv'
<1>1. /\ totalShares > 0
      /\ poolHeld' \in [P!Ticks -> Nat] /\ outside' \in [P!Ticks -> Nat]
      /\ \A t \in P!Pair : /\ poolHeld'[t] = poolHeld[t] - P!Slice(t)
                           /\ reserve'[t] = reserve[t] - P!Slice(t)
                           /\ reserve'[t] \in Nat \ {0}
      /\ reserve' \in [P!Pair -> Nat]
      /\ totalShares' = totalShares - P!Delta("LP") /\ totalShares' \in Nat \ {0}
      /\ lpInventory' = lpInventory
      /\ poolHeld'["LP"] = poolHeld["LP"] - P!Delta("LP")
      /\ outside'["LP"] = outside["LP"]
  BY PoolRemoveStep
<1>2. P!TypeOK'
  BY <1>1, PoolFigures DEF P!TypeOK
<1>3. PoolBacked'
  <2>1. ASSUME NEW t \in P!Pair PROVE reserve'[t] <= poolHeld'[t]
    <3>1. P!Slice(t) = reserve[t] - reserve'[t] /\ P!Slice(t) \in Int
      <4>1. \A t1 \in P!Pair : P!Slice(t1) \in Nat
        BY <1>1, PoolSliceBound, PoolRemoveStep DEF P!RemoveLiquidity
      <4> QED
        BY <1>1, <4>1, PoolFigures
    <3>2. reserve[t] <= poolHeld[t] /\ reserve[t] \in Nat /\ poolHeld[t] \in Nat
      BY PoolFigures DEF PoolIInv, PoolBacked
    <3> QED
      BY <1>1, <3>1, <3>2
  <2>2. poolHeld'["LP"] = lpInventory
    BY <1>1, PoolFigures
  <2> QED
    BY <1>1, <2>1, <2>2, PoolFigures DEF PoolBacked
<1>4. P!Delta("LP")' = 0
  BY <1>1, PoolFigures DEF P!Delta
<1>5. outside["LP"] + P!Delta("LP") = totalShares - Locked /\ Locked \in Nat
  BY <1>1, PoolConstants DEF PoolIInv, PoolSeeded
<1>6. PoolSeeded' /\ PoolUnseeded'
  BY <1>1, <1>4, <1>5, PoolFigures DEF PoolSeeded, PoolUnseeded
<1> QED
  BY <1>2, <1>3, <1>6 DEF PoolIInv

-----------------------------------------------------------------------------
(* swap() pays less than the whole reserve, and what it pays times what the  *)
(* other reserve becomes is no more than what came in times what this was.   *)
LEMMA PoolAmountOutBound ==
    ASSUME PoolIInv, NEW in \in P!Pair, reserve[in] > 0, P!Delta(in) > 0,
           P!AmountOut(in) <= reserve[P!Other(in)]
    PROVE  /\ P!AmountOut(in) \in Nat /\ OnGrid(P!AmountOut(in), PoolGrid[P!Other(in)])
           /\ P!AmountOut(in) * poolHeld[in] <= reserve[P!Other(in)] * P!Delta(in)
<1> DEFINE out == P!Other(in)
           d == P!Delta(in)
           r == reserve[in]
           o == reserve[out]
           p == d * FeeNum
           w == (o * p) \div (r * FeeDen + p)
           y == P!AmountOut(in)
<1>1. out \in P!Pair
  BY DEF P!Other, P!Pair
<1>2. /\ d \in Nat \ {0} /\ r \in Nat \ {0} /\ o \in Nat /\ poolHeld[in] = r + d
      /\ FeeDen \in Nat \ {0} /\ FeeNum \in 1..FeeDen /\ PoolGrid[out] \in Nat \ {0}
  BY <1>1, PoolFigures, PoolConstants DEF PoolIInv
<1>3. y = FloorTo(w, PoolGrid[out])
  BY DEF P!AmountOut
<1>4. y <= o
  OBVIOUS
<1> HIDE DEF out, d, r, o, y
<1>5. PICK k \in Nat : FeeDen = FeeNum + k
  <2>1. FeeDen - FeeNum \in Nat
    BY <1>2
  <2> QED
    BY <1>2, <2>1
<1>6. p \in Nat \ {0} /\ r * FeeDen \in Nat
  BY <1>2
<1> HIDE DEF p
<1>7. o * p \in Nat /\ r * FeeDen + p \in Nat \ {0}
  BY <1>2, <1>6
<1>8. w \in Nat /\ w * (r * FeeDen + p) <= o * p
  BY <1>7, QuotientBound
<1> HIDE DEF w
<1>9. y \in 0..w /\ OnGrid(y, PoolGrid[out])
  BY <1>2, <1>3, <1>8, FloorToBounds, FloorToOnGrid
<1>10. y * (r * FeeDen + p) <= o * p /\ y * (r * FeeDen + p) \in Nat
  <2> DEFINE b == r * FeeDen + p
  <2>1. y \in Nat /\ y <= w /\ b \in Nat
    BY <1>7, <1>8, <1>9
  <2> HIDE DEF b
  <2>2. y * b <= w * b /\ y * b \in Nat /\ w * b \in Nat
    BY <1>8, <2>1, ProductMonotone
  <2>3. w * b <= o * p
    BY <1>8 DEF b
  <2>4. y * b <= o * p
    BY <1>7, <2>2, <2>3
  <2> QED
    BY <2>2, <2>4 DEF b
<1>11. (d * k) * y <= (d * k) * o /\ (d * k) * y \in Nat /\ (d * k) * o \in Nat
  <2>1. d * k \in Nat
    BY <1>2, <1>5
  <2> QED
    BY <1>2, <1>4, <1>8, <1>9, <2>1, ProductMonotone
<1>12. /\ FeeDen * (y * (r + d)) = y * (r * FeeDen + p) + (d * k) * y
       /\ FeeDen * (o * d) = o * p + (d * k) * o
  <2>1. FeeDen \in Int /\ FeeNum \in Int /\ k \in Int /\ y \in Int /\ r \in Int /\ d \in Int
        /\ o \in Int /\ FeeDen = FeeNum + k
    BY <1>2, <1>5, <1>9, <1>8
  <2> QED
    BY <2>1 DEF p
<1>13. FeeDen * (y * (r + d)) <= FeeDen * (o * d)
  BY <1>7, <1>10, <1>11, <1>12
<1>14. y * (r + d) \in Nat /\ o * d \in Nat
  BY <1>2, <1>8, <1>9
<1>15. y * (r + d) <= o * d
  BY <1>2, <1>13, <1>14, ProductCancels
<1> QED
  BY <1>2, <1>8, <1>9, <1>15 DEF y, r, d, o, out

LEMMA PoolSwapStep ==
    ASSUME PoolIInv, NEW in \in P!Pair, NEW minOut \in MinOuts, P!Swap(in, minOut)
    PROVE  /\ P!Other(in) \in P!Pair /\ P!Other(in) # in
           /\ P!AmountOut(in) \in 1..reserve[P!Other(in)] - 1
           /\ P!AmountOut(in) * poolHeld[in] <= reserve[P!Other(in)] * P!Delta(in)
           /\ poolHeld' \in [P!Ticks -> Nat] /\ outside' \in [P!Ticks -> Nat]
           /\ reserve' \in [P!Pair -> Nat]
           /\ reserve'[in] = poolHeld[in] /\ poolHeld'[in] = poolHeld[in] /\ reserve[in] > 0
           /\ P!Delta(in) > 0
           /\ reserve'[P!Other(in)] = reserve[P!Other(in)] - P!AmountOut(in)
           /\ poolHeld'[P!Other(in)] = poolHeld[P!Other(in)] - P!AmountOut(in)
           /\ UNCHANGED <<totalShares, lpInventory>>
           /\ poolHeld'["LP"] = poolHeld["LP"] /\ outside'["LP"] = outside["LP"]
<1> DEFINE out == P!Other(in)
           y == P!AmountOut(in)
           sent == [t \in P!Ticks |-> IF t = out THEN y ELSE 0]
<1>1. /\ reserve[in] > 0 /\ reserve[out] > 0 /\ P!Delta(in) > 0
      /\ y \in 1..reserve[out] - 1
      /\ reserve' = [reserve EXCEPT ![in] = poolHeld[in], ![out] = @ - y]
      /\ P!Emit(sent, 0)
      /\ UNCHANGED <<totalShares, lpInventory>>
  BY DEF P!Swap
<1>2. out \in P!Pair /\ out # in /\ out # "LP" /\ in # "LP"
  BY DEF P!Other, P!Pair
<1>3. reserve[out] \in Nat /\ reserve[in] \in Nat
  BY <1>2, PoolFigures
<1>4. y <= reserve[out] /\ y \in Nat
  BY <1>1, <1>3
<1>5. OnGrid(y, PoolGrid[out]) /\ y * poolHeld[in] <= reserve[out] * P!Delta(in)
  BY <1>1, <1>4, PoolAmountOutBound
<1> HIDE DEF y, out
<1>6. /\ sent \in [P!Ticks -> Nat] /\ sent[out] = y
      /\ \A t \in P!Ticks \ {out} : sent[t] = 0
  BY <1>2, <1>4 DEF P!Ticks
<1>7. \A t \in P!Ticks : OnGrid(sent[t], P!GridOf(t))
  <2>1. OnGrid(sent[out], P!GridOf(out))
    BY <1>2, <1>5, <1>6 DEF P!GridOf
  <2>2. \A t \in P!Ticks \ {out} : OnGrid(sent[t], P!GridOf(t))
    BY <1>6, PoolConstants, ZeroOnGrid DEF PoolIInv
  <2> QED
    BY <2>1, <2>2
<1> HIDE DEF sent
<1>8. /\ poolHeld' \in [P!Ticks -> Nat] /\ outside' \in [P!Ticks -> Nat]
      /\ \A t \in P!Pair : poolHeld'[t] = poolHeld[t] - sent[t]
      /\ poolHeld'["LP"] = poolHeld["LP"] - sent["LP"] - 0
      /\ outside'["LP"] = outside["LP"] + sent["LP"]
  BY <1>1, <1>6, <1>7, PoolEmitFrame
<1>9. /\ poolHeld'[in] = poolHeld[in] /\ poolHeld'[out] = poolHeld[out] - y
      /\ poolHeld'["LP"] = poolHeld["LP"] /\ outside'["LP"] = outside["LP"]
  BY <1>2, <1>6, <1>8, PoolFigures
<1>10. /\ reserve'[in] = poolHeld[in] /\ reserve'[out] = reserve[out] - y
       /\ reserve' \in [P!Pair -> Nat]
  <2>1. poolHeld[in] \in Nat /\ reserve[out] - y \in Nat
    BY <1>3, <1>4, PoolFigures
  <2> QED
    BY <1>1, <1>2, <2>1, PoolFigures
<1> QED
  BY <1>1, <1>2, <1>5, <1>8, <1>9, <1>10 DEF y, out

LEMMA PoolSwapIInv ==
    ASSUME PoolIInv, NEW in \in P!Pair, NEW minOut \in MinOuts, P!Swap(in, minOut)
    PROVE  PoolIInv'
<1> DEFINE out == P!Other(in)
           y == P!AmountOut(in)
<1>1. /\ out \in P!Pair /\ out # in /\ y \in 1..reserve[out] - 1
      /\ poolHeld' \in [P!Ticks -> Nat] /\ outside' \in [P!Ticks -> Nat]
      /\ reserve' \in [P!Pair -> Nat]
      /\ reserve'[in] = poolHeld[in] /\ poolHeld'[in] = poolHeld[in] /\ reserve[in] > 0
      /\ P!Delta(in) > 0
      /\ reserve'[out] = reserve[out] - y
      /\ poolHeld'[out] = poolHeld[out] - y
      /\ UNCHANGED <<totalShares, lpInventory>>
      /\ poolHeld'["LP"] = poolHeld["LP"] /\ outside'["LP"] = outside["LP"]
  BY PoolSwapStep
<1> HIDE DEF out, y
<1>2. \A t \in P!Pair : t = in \/ t = out
  BY <1>1 DEF P!Pair
<1>3. /\ reserve[out] \in Nat /\ poolHeld[out] \in Nat /\ reserve[out] <= poolHeld[out]
      /\ reserve[in] \in Nat /\ poolHeld[in] \in Nat /\ reserve[in] <= poolHeld[in]
  BY <1>1, PoolFigures DEF PoolIInv, PoolBacked
<1>4. P!TypeOK'
  BY <1>1, PoolFigures DEF P!TypeOK
<1>5. PoolBacked'
  <2>1. reserve'[in] <= poolHeld'[in] /\ reserve'[out] <= poolHeld'[out]
    BY <1>1, <1>3
  <2> QED
    BY <1>1, <1>2, <2>1 DEF PoolIInv, PoolBacked
<1>6. P!Delta("LP")' = P!Delta("LP")
  BY <1>1 DEF P!Delta
<1>7. reserve'[in] > 0 /\ reserve'[out] > 0
  BY <1>1, <1>3
<1>8. PoolSeeded' /\ PoolUnseeded'
  BY <1>1, <1>2, <1>6, <1>7 DEF PoolIInv, PoolSeeded, PoolUnseeded
<1> QED
  BY <1>4, <1>5, <1>8 DEF PoolIInv

LEMMA PoolStepIInv == PoolIInv /\ [P!Next]_(P!vars) => PoolIInv'
<1> SUFFICES ASSUME PoolIInv, [P!Next]_(P!vars) PROVE PoolIInv'
  OBVIOUS
<1>1. ASSUME NEW t \in P!Ticks, NEW q \in 1..outside[t], P!Deposit(t, q) PROVE PoolIInv'
  BY <1>1, PoolDepositIInv
<1>2. CASE P!AddLiquidity
  BY <1>2, PoolAddIInv
<1>3. CASE P!RemoveLiquidity
  BY <1>3, PoolRemoveIInv
<1>4. ASSUME NEW in \in P!Pair, NEW minOut \in MinOuts, P!Swap(in, minOut) PROVE PoolIInv'
  BY <1>4, PoolSwapIInv
<1>5. CASE UNCHANGED P!vars
  BY <1>5
       DEF P!vars, P!store, PoolIInv, P!TypeOK, PoolBacked, PoolUnseeded, PoolSeeded,
           P!Delta
<1> QED
  BY <1>1, <1>2, <1>3, <1>4, <1>5 DEF P!Next

(* The pool's books agree with the ledger after any sequence of calls and    *)
(* stray deposits, for any fee, grids and supplies.                          *)
THEOREM PoolKeepsBooks == P!Assumption /\ P!Spec => [](P!TypeOK /\ P!BooksMatchLedger)
<1>1. PoolIInv => P!TypeOK /\ P!BooksMatchLedger
  BY PoolFigures DEF PoolIInv, PoolSeeded, P!BooksMatchLedger
<1> QED
  BY <1>1, PoolInitIInv, PoolStepIInv, PTL DEF P!Spec

-----------------------------------------------------------------------------
(* The value of a share.                                                     *)

(* If either reserve is no less per share, their product is no less per      *)
(* share squared.                                                            *)
LEMMA ProductPerShare ==
    ASSUME NEW p \in Nat, NEW q \in Nat, NEW n \in Nat,
           NEW pp \in Nat, NEW qq \in Nat, NEW nn \in Nat,
           pp * n >= p * nn, qq * n >= q * nn
    PROVE  pp * qq * n * n >= p * q * nn * nn
<1>1. pp * n \in Nat /\ p * nn \in Nat /\ qq * n \in Nat /\ q * nn \in Nat
  OBVIOUS
<1>2. (pp * n) * (qq * n) >= (p * nn) * (q * nn)
  BY <1>1, ProductOfBounds
<1>3. /\ pp * qq * n * n = (pp * n) * (qq * n)
      /\ p * q * nn * nn = (p * nn) * (q * nn)
  OBVIOUS
<1> QED
  BY <1>2, <1>3

PoolValueKept ==
    totalShares > 0 =>
          /\ reserve'["A"] * reserve'["B"] * totalShares * totalShares
               >= reserve["A"] * reserve["B"] * totalShares' * totalShares'
          /\ totalShares' >= Locked
          /\ \A t \in P!Pair : reserve'[t] > 0

(* The reserves and shares of a seeded pool, before a step and after.        *)
LEMMA PoolSeededFigures ==
    ASSUME PoolIInv, PoolIInv', totalShares > 0, totalShares' > 0
    PROVE  /\ totalShares \in Nat /\ totalShares' \in Nat /\ totalShares' >= Locked
           /\ \A t \in P!Pair : reserve[t] \in Nat /\ reserve'[t] \in Nat /\ reserve'[t] > 0
           /\ "A" \in P!Pair /\ "B" \in P!Pair
<1>1. totalShares' \in Nat /\ reserve' \in [P!Pair -> Nat]
  BY DEF PoolIInv, P!TypeOK
<1> QED
  BY <1>1, PoolFigures DEF PoolIInv, PoolSeeded, P!Pair

LEMMA PoolStepValue == PoolIInv /\ [P!Next]_(P!vars) => PoolValueKept
<1> SUFFICES ASSUME PoolIInv, [P!Next]_(P!vars), totalShares > 0
             PROVE  /\ reserve'["A"] * reserve'["B"] * totalShares * totalShares
                         >= reserve["A"] * reserve["B"] * totalShares' * totalShares'
                    /\ totalShares' >= Locked
                    /\ \A t \in P!Pair : reserve'[t] > 0
  BY DEF PoolValueKept
<1> DEFINE n == totalShares
           nn == totalShares'
<1>1. PoolIInv'
  BY PoolStepIInv
<1>2. ASSUME nn > 0, \A t \in P!Pair : reserve'[t] * n >= reserve[t] * nn
      PROVE  /\ reserve'["A"] * reserve'["B"] * n * n
               >= reserve["A"] * reserve["B"] * nn * nn
             /\ nn >= Locked
             /\ \A t \in P!Pair : reserve'[t] > 0
  <2>1. /\ n \in Nat /\ nn \in Nat /\ nn >= Locked
        /\ \A t \in P!Pair : reserve[t] \in Nat /\ reserve'[t] \in Nat /\ reserve'[t] > 0
        /\ "A" \in P!Pair /\ "B" \in P!Pair
    BY <1>1, <1>2, PoolSeededFigures
  <2> HIDE DEF n, nn
  <2> QED
    BY <1>2, <2>1, ProductPerShare
<1>3. CASE UNCHANGED <<reserve, totalShares>>
  <2>1. \A t \in P!Pair : reserve'[t] * n >= reserve[t] * nn
    <3>1. ASSUME NEW t \in P!Pair PROVE reserve[t] * n >= reserve[t] * n
      <4>1. reserve[t] * n \in Nat
        BY PoolFigures
      <4> QED
        BY <4>1
    <3> QED
      BY <1>3, <3>1
  <2> QED
    BY <1>2, <1>3, <2>1
<1>4. CASE P!AddLiquidity
  <2>1. /\ \A t \in P!Pair : reserve'[t] = poolHeld[t]
        /\ nn = n + P!Shares /\ P!Shares \in Nat
    BY <1>4, PoolAddStep
  <2>2. P!Shares = P!ScarcerSide
    BY DEF P!Shares
  <2>3. ASSUME NEW t \in P!Pair PROVE reserve'[t] * n >= reserve[t] * nn
    <3> DEFINE r == reserve[t]
               d == P!Delta(t)
               s == P!Shares
    <3>1. /\ r \in Nat /\ d \in Nat /\ n \in Nat /\ s \in Nat
          /\ reserve'[t] = r + d /\ nn = n + s
      BY <2>1, PoolFigures
    <3>2. s * r <= d * n
      BY <2>2, PoolScarcerBound
    <3> HIDE DEF r, d, s, n, nn
    <3>3. (r + d) * n = r * n + d * n /\ r * (n + s) = r * n + s * r
      BY <3>1
    <3>4. r * n \in Nat /\ d * n \in Nat /\ s * r \in Nat
      BY <3>1
    <3>5. (r + d) * n >= r * (n + s)
      BY <3>2, <3>3, <3>4
    <3> QED
      BY <3>1, <3>5 DEF r
  <2>4. nn > 0
    BY <2>1, PoolFigures
  <2> QED
    BY <1>2, <2>3, <2>4
<1>5. CASE P!RemoveLiquidity
  <2>1. /\ \A t \in P!Pair : reserve'[t] = reserve[t] - P!Slice(t)
        /\ nn = n - P!Delta("LP") /\ nn \in Nat \ {0}
    BY <1>5, PoolRemoveStep
  <2>2. ASSUME NEW t \in P!Pair PROVE reserve'[t] * n >= reserve[t] * nn
    <3> DEFINE r == reserve[t]
               d == P!Delta("LP")
               s == P!Slice(t)
    <3>1. r \in Nat /\ d \in Nat /\ n \in Nat /\ reserve'[t] = r - s /\ nn = n - d
      BY <2>1, PoolFigures
    <3>2. s \in Nat /\ s * n <= r * d
      BY <1>5, PoolSliceBound DEF P!RemoveLiquidity
    <3> HIDE DEF r, d, s, n, nn
    <3>3. (r - s) * n = r * n - s * n /\ r * (n - d) = r * n - r * d
      BY <3>1, <3>2
    <3>4. r * n \in Nat /\ s * n \in Nat /\ r * d \in Nat
      BY <3>1, <3>2
    <3>5. (r - s) * n >= r * (n - d)
      BY <3>2, <3>3, <3>4
    <3> QED
      BY <3>1, <3>5 DEF r
  <2> QED
    BY <1>2, <2>1, <2>2
<1>6. ASSUME NEW in \in P!Pair, NEW minOut \in MinOuts, P!Swap(in, minOut)
      PROVE  /\ reserve'["A"] * reserve'["B"] * n * n
               >= reserve["A"] * reserve["B"] * nn * nn
             /\ nn >= Locked
             /\ \A t \in P!Pair : reserve'[t] > 0
  <2> DEFINE out == P!Other(in)
             y == P!AmountOut(in)
             r == reserve[in]
             o == reserve[out]
             d == P!Delta(in)
  <2>1. /\ out \in P!Pair /\ out # in /\ y \in 1..o - 1
        /\ y * poolHeld[in] <= o * d
        /\ reserve'[in] = poolHeld[in] /\ reserve'[out] = o - y
        /\ nn = n
    BY <1>6, PoolSwapStep
  <2>2. r \in Nat /\ o \in Nat /\ d \in Nat /\ poolHeld[in] = r + d /\ n \in Nat
    BY <2>1, PoolFigures
  <2>3. {in, out} = {"A", "B"}
    BY DEF P!Other, P!Pair
  <2> HIDE DEF out, y, r, o, d
  <2>4. (r + d) * (o - y) >= r * o
    <3>1. y \in Nat
      BY <2>1, <2>2
    <3>2. (r + d) * (o - y) = r * o + o * d - y * (r + d)
      BY <2>2, <3>1
    <3>3. r * o \in Nat /\ o * d \in Nat /\ y * (r + d) \in Nat
      BY <2>2, <3>1
    <3>4. y * (r + d) <= o * d
      BY <2>1, <2>2
    <3> QED
      BY <3>2, <3>3, <3>4
  <2>5. reserve'[in] * reserve'[out] >= reserve[in] * reserve[out]
    BY <2>1, <2>2, <2>4 DEF r, o
  <2>6. /\ nn > 0 /\ nn \in Nat /\ nn >= Locked
        /\ \A t \in P!Pair : reserve[t] \in Nat /\ reserve'[t] \in Nat /\ reserve'[t] > 0
        /\ "A" \in P!Pair /\ "B" \in P!Pair
    BY <1>1, <2>1, PoolSeededFigures
  <2> DEFINE k == reserve["A"] * reserve["B"]
             kk == reserve'["A"] * reserve'["B"]
  <2>7. k \in Nat /\ kk \in Nat
    BY <2>6
  <2>8. kk >= k
    <3>1. CASE in = "A" /\ out = "B"
      BY <2>5, <3>1
    <3>2. CASE in = "B" /\ out = "A"
      <4>1. /\ reserve["B"] * reserve["A"] = reserve["A"] * reserve["B"]
            /\ reserve'["B"] * reserve'["A"] = reserve'["A"] * reserve'["B"]
        BY <2>6
      <4> QED
        BY <2>5, <3>2, <4>1
    <3> QED
      BY <2>3, <3>1, <3>2
  <2>9. kk * n * n >= k * nn * nn
    <3>1. n * k <= n * kk /\ k * n = n * k /\ kk * n = n * kk
          /\ k * n \in Nat /\ kk * n \in Nat
      <4> HIDE DEF n, nn, k, kk
      <4> QED
        BY <2>2, <2>7, <2>8, ProductMonotone
    <3> DEFINE v == k * n
               vv == kk * n
    <3>2. v \in Nat /\ vv \in Nat /\ v <= vv
      BY <3>1
    <3> HIDE DEF v, vv, n, nn, k, kk
    <3>3. /\ n * v <= n * vv /\ v * n = n * v /\ vv * n = n * vv
          /\ v * n \in Nat /\ vv * n \in Nat
      BY <2>2, <3>2, ProductMonotone
    <3>4. vv * n >= v * n
      BY <3>3
    <3> QED
      BY <2>1, <3>4 DEF v, vv
  <2> QED
    BY <2>6, <2>9
<1>7. ASSUME NEW t \in P!Ticks, NEW q \in 1..outside[t], P!Deposit(t, q)
      PROVE  UNCHANGED <<reserve, totalShares>>
  BY <1>7 DEF P!Deposit, P!store
<1>8. CASE UNCHANGED P!vars
  BY <1>3, <1>8 DEF P!vars, P!store
<1> QED
  BY <1>3, <1>4, <1>5, <1>6, <1>7, <1>8 DEF P!Next

(* Nobody's share is diluted, by a swap, a skewed deposit, another's exit or *)
(* rounding: for any fee short of everything and any grids.                  *)
THEOREM PoolKeepsShareValue == P!Assumption /\ P!Spec => P!ShareValueNeverFalls
  BY PoolInitIInv, PoolStepIInv, PoolStepValue, PTL
       DEF P!Spec, P!ShareValueNeverFalls, PoolValueKept

-----------------------------------------------------------------------------
(* Dispensing.  A deployment of one template behaves as that template says.  *)

LEMMA DeployedDispenser == DSpec => Spec
<1>1. DInit => Init
  BY DEF DInit
<1>2. [DNext]_all => [Next]_vars
  BY DEF DNext, OnlyDispenser, OnlyPool, all
<1> QED
  BY <1>1, <1>2, PTL DEF DSpec, Spec

LEMMA DeployedPool == DSpec => P!Spec
<1>1. DInit => P!Init
  BY DEF DInit
<1>2. [DNext]_all => [P!Next]_(P!vars)
  BY DEF DNext, OnlyDispenser, OnlyPool, all, pool, P!vars, P!store
<1> QED
  BY <1>1, <1>2, PTL DEF DSpec, P!Spec

(* However the deployment is set up, a pool in it keeps its books and never  *)
(* dilutes a share.                                                          *)
THEOREM DeployedPoolKeepsBooks == DSpec => []PoolBooksMatchLedger
  BY DeployedPool, PoolKeepsBooks, PoolAssumption, PTL DEF PoolBooksMatchLedger

THEOREM DeployedPoolKeepsShareValue == DSpec => PoolShareValueNeverFalls
  BY DeployedPool, PoolKeepsShareValue, PoolAssumption, PTL DEF PoolShareValueNeverFalls

(* And a dispenser in it never strands its watermark, and deals a card or    *)
(* gives the money back.                                                     *)
THEOREM DeployedDispenserWatermark == DSpec => []Watermark
  BY DeployedDispenser, DispenserWatermark, PTL

THEOREM DeployedDispenserCardOrRefund == DSpec => CardOrRefund
  BY DeployedDispenser, DispenserCardOrRefund, PTL
=============================================================================
