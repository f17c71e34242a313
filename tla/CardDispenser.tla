--------------------------- MODULE CardDispenser ----------------------------
(***************************************************************************)
(* cardDispenser/cardDispenser.js: a buyer pays price in payTick and is    *)
(* sent one unit of a card, drawn in proportion to the copies the contract *)
(* holds of each; when none can be delivered the payment is sent back.     *)
(*                                                                         *)
(* Every tick has a grid of its own: amounts of it are counted in a unit   *)
(* of which Grids of that tick make one base unit.  The draw folds the     *)
(* block hash, the buyer and a counter into a number any of which can      *)
(* change: here it is any number, and the counter is left out.             *)
(***************************************************************************)
EXTENDS Grid, Functions, Sequences

CONSTANTS Addr,
          Owner,        \* the deployer
          PayTick,
          Prices,       \* what initialize() is called with: price,
          Units,        \* unit: its value, what its last digit counts, and
                        \* whether it is spelled plainly,
          Decks,        \* and the sequence of cards
          Grids,        \* the grid of every tick
          Funds         \* what each address holds of every tick at deploy

Ticks == DOMAIN Grids

ASSUME DispenserAssumption == /\ Owner \in Addr
                              /\ PayTick \in Ticks
                              /\ Prices \subseteq Nat
                              /\ Units \subseteq [value : Nat, digit : Nat \ {0},
                                                  plain : BOOLEAN]
                              /\ \A u \in Units : OnGrid(u.value, u.digit)
                              /\ Decks \subseteq Seq(Ticks)
                              /\ Grids \in [Ticks -> Nat \ {0}]
                              /\ Funds \in [Addr -> [Ticks -> Nat]]
                              /\ \A a \in Addr, t \in Ticks :
                                    OnGrid(Funds[a][t], Grids[t])

VARIABLES price, unit, cards,    \* fixed by initialize()
          acctPay,               \* the payTick balance accounted for
          held, wallet           \* the ledger

terms == <<price, unit, cards>>
vars == <<terms, acctPay, held, wallet>>

-----------------------------------------------------------------------------
(* initialize(). *)

DealableDeck(deck) == deck # <<>> /\ \A j \in DOMAIN deck : deck[j] # PayTick

PlainDecimal(u) == u.plain
UsableUnit(u) == PlainDecimal(u) /\ u.value > 0

Init == /\ price \in {p \in Prices : p > 0}
        /\ unit \in {u \in Units : UsableUnit(u)}
        /\ cards \in {deck \in Decks : DealableDeck(deck)}
        /\ acctPay = 0
        /\ held = [t \in Ticks |-> 0]
        /\ wallet = Funds

-----------------------------------------------------------------------------
(* The ledger. *)

Deposit(a, t, q) == /\ OnGrid(q, Grids[t])
                    /\ wallet' = [wallet EXCEPT ![a][t] = @ - q]
                    /\ held' = [held EXCEPT ![t] = @ + q]
                    /\ UNCHANGED <<terms, acctPay>>

Send(a, t, q) == LET moved == HalfUp(q, Grids[t])
                 IN  /\ moved <= held[t]
                     /\ held' = [held EXCEPT ![t] = @ - moved]
                     /\ wallet' = [wallet EXCEPT ![a][t] = @ + moved]

-----------------------------------------------------------------------------
(* The contract's methods. *)

\* floorToDecimals(unit) = unit, as texts: no digit of it may be finer than the
\* card's grid, not even a trailing zero.  The surgery takes an exponent for digits
\* of an integer.
\* mutant: the card's grid is not asked
AnyGrid(t) == TRUE
Expressible(t) == unit.plain => OnGrid(unit.digit, Grids[t])

DeliverableCopies(t) == IF Expressible(t) THEN held[t] \div unit.value ELSE 0

\* The copies in the first n cards.
UpTo(n) == SumFunctionOnSet([j \in DOMAIN cards |-> DeliverableCopies(cards[j])], 1..n)

Total == UpTo(Len(cards))

\* pick(): some number below the total.
Rolls == 0..Total - 1

\* The walk along the cards stops at the j-th on the number r.
Picks(r, j) == UpTo(j - 1) <= r /\ r < UpTo(j)

Paid == held[PayTick] - acctPay

AfterRefund == held[PayTick] - Paid

\* mutant: a sold-out draw reverts
Reverts(a) == FALSE
Refund(a) == /\ Total = 0
             /\ Send(a, PayTick, Paid)
             /\ acctPay' = AfterRefund

Dispense(a) == /\ \E r \in Rolls, j \in DOMAIN cards :
                     Picks(r, j) /\ Send(a, cards[j], unit.value)
               /\ acctPay' = held[PayTick]

\* isAtLeastExact(paid, price)
Covered == Paid >= price

Draw(a) == /\ Covered
           /\ Refund(a) \/ Dispense(a)
           /\ UNCHANGED terms

\* mutant: a sweep of payTick leaves the watermark where it was
Kept(t) == acctPay
AfterSweep(t) == IF t = PayTick THEN 0 ELSE acctPay

Withdraw(t) == /\ held[t] > 0
               /\ Send(Owner, t, held[t])
               /\ acctPay' = AfterSweep(t)
               /\ UNCHANGED terms

\* The stock info() shows.
Info == [t \in {cards[j] : j \in DOMAIN cards} |-> DeliverableCopies(t)]

Next == \/ \E a \in Addr, t \in Ticks : \E q \in 1..wallet[a][t] : Deposit(a, t, q)
        \/ \E a \in Addr : Draw(a)
        \/ \E t \in Ticks : Withdraw(t)

Spec == Init /\ [][Next]_vars

\* Whoever has paid calls draw().
FairSpec == Spec /\ WF_vars(\E a \in Addr : Draw(a))

-----------------------------------------------------------------------------
(* Properties. *)

(* Type of every variable. *)
TypeOK == /\ price \in Prices /\ unit \in Units /\ cards \in Decks
          /\ acctPay \in Nat
          /\ held \in [Ticks -> Nat]
          /\ wallet \in [Addr -> [Ticks -> Nat]]

(* The watermark follows custody down: no sequence of draws, refunds and     *)
(* sweeps leaves it above the balance, where every later payment would be    *)
(* under-measured and a dispenser that is paid would revert for ever.        *)
Watermark == acctPay <= held[PayTick]

(* A payment that is kept bought one whole unit of a card info() showed in   *)
(* stock, and custody lost nothing else; one that is not kept went back to   *)
(* whoever drew, all of it, and only with nothing in stock.                  *)
CardOrRefund ==
    [][/\ acctPay' > acctPay =>
            /\ Paid >= price
            /\ held'[PayTick] = held[PayTick]
            /\ \E t \in DOMAIN Info :
                  /\ Info[t] > 0
                  /\ held' = [held EXCEPT ![t] = @ - unit.value]
       /\ \A a \in Addr \ {Owner} :
            wallet'[a][PayTick] > wallet[a][PayTick] =>
               /\ wallet'[a][PayTick] - wallet[a][PayTick] = Paid
               /\ acctPay' = acctPay
               /\ \A t \in DOMAIN Info : Info[t] = 0]_vars

(* No payment is stranded: once the price is in custody a draw goes through, *)
(* with a card or with the money back.                                       *)
PaidDrawsServed == Paid >= price ~> Paid < price
=============================================================================
