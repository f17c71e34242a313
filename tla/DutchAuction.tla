---------------------------- MODULE DutchAuction ----------------------------
(***************************************************************************)
(* dutchAuction/dutchAuction.js: the asking price falls linearly from      *)
(* startPrice to endPrice over Duration blocks from fund(), and the first  *)
(* buy() that covers it takes the item.  A short payment is sent back to   *)
(* the caller by a buy() that succeeds and sells nothing.                  *)
(*                                                                         *)
(* Prices are counted in a unit of which BidGrid make one base unit of the *)
(* bid tick, item amounts in a unit of which ItemGrid make one base unit   *)
(* of the item tick.                                                       *)
(***************************************************************************)
EXTENDS Grid

CONSTANTS Addr, NoOne,
          ItemAmounts,  \* the values itemAmount is deployed with
          Prices,       \* the values startPrice and endPrice are deployed with
          ItemGrid, BidGrid,
          Duration,     \* durationBlocks
          ItemFunds, BidFunds,   \* what each address holds at deploy
          MaxHeight     \* bound: the last block considered

\* Assumed of the constants wherever the module is instantiated.
Assumption == /\ NoOne \notin Addr
              /\ ItemGrid \in Nat \ {0} /\ BidGrid \in Nat \ {0}
              /\ ItemAmounts \subseteq Nat \ {0}
              /\ Prices \subseteq Nat \ {0}
              /\ Duration \in Nat \ {0}
              /\ ItemFunds \in [Addr -> Nat]
              /\ BidFunds \in [Addr -> Nat]
              /\ \A a \in Addr : /\ OnGrid(ItemFunds[a], ItemGrid)
                                 /\ OnGrid(BidFunds[a], BidGrid)
              /\ MaxHeight \in Nat

VARIABLES seller, itemAmount, startPrice, endPrice,   \* terms
          status, start, soldPrice, buyer,            \* the contract's store
          itemHeld, bidHeld, itemWallet, bidWallet, height,
          sale                  \* ghost: what the selling step delivered

terms == <<seller, itemAmount, startPrice, endPrice>>
store == <<status, start, soldPrice, buyer>>
itemTick == <<itemHeld, itemWallet>>
bidTick == <<bidHeld, bidWallet>>
vars == <<terms, store, itemTick, bidTick, height, sale>>

Init == /\ seller \in Addr
        /\ itemAmount \in ItemAmounts
        /\ startPrice \in Prices /\ endPrice \in Prices /\ startPrice > endPrice
        /\ status = "INIT"
        /\ start = 0
        /\ soldPrice = 0 /\ buyer = NoOne
        /\ itemHeld = 0 /\ itemWallet = ItemFunds
        /\ bidHeld = 0 /\ bidWallet = BidFunds
        /\ height = 0
        /\ sale = [item |-> 0, paid |-> 0]

-----------------------------------------------------------------------------
(* The environment. *)

NextBlock == /\ height < MaxHeight
             /\ height' = height + 1
             /\ UNCHANGED <<terms, store, itemTick, bidTick, sale>>

DepositItem(a, q) == /\ q <= itemWallet[a]
                     /\ OnGrid(q, ItemGrid)
                     /\ itemWallet' = [itemWallet EXCEPT ![a] = @ - q]
                     /\ itemHeld' = itemHeld + q
                     /\ UNCHANGED <<terms, store, bidTick, height, sale>>

DepositBid(a, q) == /\ q <= bidWallet[a]
                    /\ OnGrid(q, BidGrid)
                    /\ bidWallet' = [bidWallet EXCEPT ![a] = @ - q]
                    /\ bidHeld' = bidHeld + q
                    /\ UNCHANGED <<terms, store, itemTick, height, sale>>

SendItem(to, q) ==
    LET moved == HalfUp(q, ItemGrid)
    IN  /\ moved <= itemHeld
        /\ itemHeld' = itemHeld - moved
        /\ itemWallet' = [itemWallet EXCEPT ![to] = @ + moved]

\* The two bid-tick emissions of one EXECUTE: q to a, then r to b.
SendBids(a, q, b, r) ==
    LET toA == HalfUp(q, BidGrid)
        toB == HalfUp(r, BidGrid)
        credited == [bidWallet EXCEPT ![a] = @ + toA]
    IN  /\ toA + toB <= bidHeld
        /\ bidHeld' = bidHeld - toA - toB
        /\ bidWallet' = [credited EXCEPT ![b] = @ + toB]

-----------------------------------------------------------------------------
(* The asking price. *)

\* mutant: the curve is not stopped at the end of the window
RunsOn(elapsed) == startPrice - ((startPrice - endPrice) * elapsed) \div Duration

\* currentPrice(), truncated to a whole unit: buy() truncates it further, to the
\* grid, and that gives the same whether or not the quotient is exact.
CurrentPrice(elapsed) ==
    IF elapsed >= Duration THEN endPrice
    ELSE (startPrice * Duration - (startPrice - endPrice) * elapsed) \div Duration

\* mutant: the price is not brought onto the bid tick's grid
RawPrice == CurrentPrice(height - start)
Price == FloorTo(CurrentPrice(height - start), BidGrid)

-----------------------------------------------------------------------------
(* The contract's methods. *)

Fundable == itemHeld >= itemAmount /\ OnGrid(itemAmount, ItemGrid)

Fund(a) == /\ status = "INIT"
           /\ a = seller
           /\ Fundable
           /\ start' = height
           /\ status' = "ACTIVE"
           /\ UNCHANGED <<terms, soldPrice, buyer, itemTick, bidTick, height, sale>>

Sellable == Price > 0

Excess == bidHeld - Price

\* buy() with enough in custody: item to the caller, price to the seller,
\* change to the caller.
Buy(a) == /\ status = "ACTIVE"
          /\ Sellable
          /\ bidHeld >= Price
          /\ status' = "SOLD"
          /\ soldPrice' = Price
          /\ buyer' = a
          /\ SendItem(a, itemAmount)
          /\ SendBids(seller, Price, a, Excess)
          /\ sale' = [item |-> itemHeld - itemHeld',
                      paid |-> HalfUp(Price, BidGrid)]
          /\ UNCHANGED <<terms, start, height>>

\* buy() with too little: everything held goes back, nothing is sold.
BuyUnderpaid(a) == /\ status = "ACTIVE"
                   /\ Sellable
                   /\ bidHeld < Price
                   /\ bidHeld > 0
                   /\ SendBids(a, bidHeld, a, 0)
                   /\ UNCHANGED <<terms, store, itemTick, height, sale>>

CancelQuantity == IF status = "ACTIVE" THEN itemAmount ELSE itemHeld

\* mutant: the seller may take the item back at any time
AnyStatus == TRUE
Cancellable == status \in {"INIT", "ACTIVE"}

Cancel(a) == /\ Cancellable
             /\ a = seller
             /\ CancelQuantity > 0
             /\ status' = "CANCELLED"
             /\ SendItem(seller, CancelQuantity)
             /\ UNCHANGED <<terms, start, soldPrice, buyer, bidTick, height, sale>>

-----------------------------------------------------------------------------
Next == \/ NextBlock
        \/ \E a \in Addr : \/ \E q \in 1..itemWallet[a] : DepositItem(a, q)
                           \/ \E q \in 1..bidWallet[a] : DepositBid(a, q)
                           \/ Fund(a) \/ Buy(a) \/ BuyUnderpaid(a) \/ Cancel(a)

Spec == Init /\ [][Next]_vars

\* Somebody keeps calling buy().
FairSpec == Spec /\ WF_vars(\E a \in Addr : Buy(a))

-----------------------------------------------------------------------------
(* Type of every variable. *)
TypeOK == /\ seller \in Addr /\ itemAmount \in ItemAmounts
          /\ startPrice \in Prices /\ endPrice \in Prices
          /\ status \in {"INIT", "ACTIVE", "SOLD", "CANCELLED"}
          /\ start \in Nat /\ height \in Nat
          /\ soldPrice \in Nat /\ buyer \in Addr \cup {NoOne}
          /\ itemHeld \in Nat /\ itemWallet \in [Addr -> Nat]
          /\ bidHeld \in Nat /\ bidWallet \in [Addr -> Nat]
          /\ sale \in [item : Nat, paid : Nat]

(* The terms are kept to the end.  A quote only gets better, down to what    *)
(* the grid makes of endPrice and no further: waiting neither makes a        *)
(* deposit that covered the price insufficient nor gives the item away.  A   *)
(* sale moves the whole item and exactly the price recorded, whatever the    *)
(* ledger makes of the emissions.  When bid-tick custody is paid out, all of *)
(* it is: no change and no underpayment stays behind for a later caller.     *)
TermsKept ==
    [][/\ status = "ACTIVE" /\ status' = "ACTIVE"
             => Price' \in FloorTo(endPrice, BidGrid)..Price
       /\ status = "ACTIVE" /\ status' = "SOLD"
             => /\ sale' = [item |-> itemAmount, paid |-> soldPrice']
                /\ soldPrice' >= FloorTo(endPrice, BidGrid)
       /\ bidHeld' < bidHeld => bidHeld' = 0]_vars

(* A delivery against payment of at least one base unit of the bid tick.     *)
Stage == IF status = "INIT" THEN "PREPARING"
         ELSE IF status = "ACTIVE" THEN "LISTED"
         ELSE IF status = "SOLD" THEN "TRADED" ELSE "RETURNED"

DVP == INSTANCE DeliveryVersusPayment
         WITH Reserve <- BidGrid, stage <- Stage, item <- itemAmount,
              delivered <- sale.item, paid <- sale.paid

ImplementsSale == DVP!SaleSpec

(* Once custody covers the asking price of an auction whose floor is worth a *)
(* base unit, the auction ends: no rounding of the price or of the change    *)
(* can make buy() ask the ledger for more than the contract holds.           *)
CoveredSells ==
    (status = "ACTIVE" /\ bidHeld >= Price /\ FloorTo(endPrice, BidGrid) > 0)
        ~> (status \in {"SOLD", "CANCELLED"})

(* README.md of dutchAuction says of endPrice that the auction "never        *)
(* expires into an unsellable state".                                        *)
NeverUnsellable == status = "ACTIVE" => Sellable
=============================================================================
