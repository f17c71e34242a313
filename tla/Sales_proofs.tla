---------------------------- MODULE Sales_proofs ----------------------------
(* Proofs about the three templates that sell something, for every value of  *)
(* their constants: EnglishAuction, DutchAuction (as D) and Crowdsale (as C),*)
(* and about Sales, where a deployment runs one of them.                     *)
EXTENDS Sales, Amounts_proofs

-----------------------------------------------------------------------------
(* EnglishAuction. *)

-----------------------------------------------------------------------------
(* The inductive invariant.                                                  *)

(* Until it is settled the auction has delivered nothing and been paid       *)
(* nothing, and before fund() nobody can have bid.                           *)
NothingYet ==
    /\ status # "SOLD" => sale.item = 0 /\ sale.paid = 0
    /\ status = "INIT" => highBidder = NoOne /\ highBid = 0

(* What fund() checked still holds when settle() relies on it.               *)
Armed == status = "ACTIVE" => /\ OnGrid(itemAmount, ItemGrid)
                              /\ deadline = fundedAt + Window

IInv == TypeOK /\ Outcome /\ Solvent /\ NothingYet /\ Armed

LEMMA Constants ==
    /\ NoOne \notin Addr
    /\ ItemGrid \in Nat \ {0} /\ MinBid \in Nat \ {0} /\ Window \in Nat \ {0}
    /\ ItemAmounts \subseteq Nat \ {0}
    /\ ItemFunds \in [Addr -> Nat] /\ BidFunds \in [Addr -> Nat]
  BY AuctionAssumption

LEMMA InitIInv == Init => IInv
  BY Constants DEF Init, IInv, TypeOK, Outcome, Solvent, NothingYet, Armed

LEMMA NextBlockIInv == ASSUME IInv, NextBlock PROVE IInv'
  BY DEF IInv, TypeOK, Outcome, Solvent, NothingYet, Armed,
         NextBlock, terms, store, itemTick, bidTick, ghosts

LEMMA DepositItemIInv ==
    ASSUME IInv, NEW a \in Addr, NEW q \in 1..itemWallet[a], DepositItem(a, q)
    PROVE  IInv'
<1>1. q \in Nat /\ itemHeld \in Nat /\ itemAmount \in Nat
  BY Constants DEF IInv, TypeOK
<1>2. itemHeld' \in Nat /\ itemHeld <= itemHeld' /\ itemWallet' \in [Addr -> Nat]
  BY <1>1 DEF IInv, TypeOK, DepositItem
<1> QED
  BY <1>1, <1>2 DEF IInv, TypeOK, Outcome, Solvent, NothingYet, Armed,
                    DepositItem, terms, store, bidTick, ghosts

LEMMA DepositBidIInv ==
    ASSUME IInv, NEW a \in Addr, NEW q \in 1..bidWallet[a], DepositBid(a, q)
    PROVE  IInv'
<1>1. q \in Nat /\ bidHeld \in Nat /\ highBid \in Nat
  BY DEF IInv, TypeOK
<1>2. bidHeld' \in Nat /\ bidHeld <= bidHeld' /\ bidWallet' \in [Addr -> Nat]
  BY <1>1 DEF IInv, TypeOK, DepositBid
<1> QED
  BY <1>1, <1>2 DEF IInv, TypeOK, Outcome, Solvent, NothingYet, Armed,
                    DepositBid, terms, store, itemTick, ghosts

LEMMA FundIInv == ASSUME IInv, NEW a \in Addr, Fund(a) PROVE IInv'
<1>1. TypeOK'
  BY Constants DEF IInv, TypeOK, Fund, terms, itemTick, bidTick
<1>2. /\ status = "INIT" /\ status' = "ACTIVE"
      /\ highBidder = NoOne /\ highBidder' = NoOne
      /\ highBid = 0 /\ highBid' = 0
  BY DEF Fund, IInv, NothingYet
<1>3. Outcome'
  BY <1>2, Constants DEF IInv, Outcome, Fund
<1>4. Solvent'
  BY <1>2, Constants DEF IInv, TypeOK, Solvent, Fund, Fundable, terms, itemTick, bidTick
<1>5. NothingYet' /\ Armed'
  BY <1>2 DEF IInv, NothingYet, Armed, Fund, Fundable, terms
<1> QED
  BY <1>1, <1>3, <1>4, <1>5 DEF IInv

(* A bid gives the topped leader exactly the standing bid back, and nobody   *)
(* else anything.                                                            *)
LEMMA RefundFrame ==
    ASSUME IInv, status = "ACTIVE", RefundLeader
    PROVE  /\ bidHeld' \in Nat /\ bidHeld' >= NewBid
           /\ bidWallet' \in [Addr -> Nat]
           /\ \A b \in Addr : bidWallet'[b] - bidWallet[b]
                                = IF b = highBidder THEN highBid ELSE 0
<1>1. /\ bidHeld \in Nat /\ highBid \in Nat /\ bidWallet \in [Addr -> Nat]
      /\ highBidder \in Addr \cup {NoOne} /\ bidHeld >= highBid
  BY DEF IInv, TypeOK, Solvent
<1>2. CASE highBidder = NoOne
  BY <1>1, <1>2, Constants DEF RefundLeader, bidTick, NewBid
<1>3. CASE highBidder # NoOne
  <2>1. /\ highBidder \in Addr
        /\ bidHeld' = bidHeld - highBid
        /\ bidWallet' = [bidWallet EXCEPT ![highBidder] = @ + highBid]
    BY <1>1, <1>3 DEF RefundLeader, SendBid
  <2> QED
    BY <1>1, <2>1 DEF NewBid
<1> QED
  BY <1>2, <1>3

LEMMA BidIInv == ASSUME IInv, NEW a \in Addr, Bid(a) PROVE IInv'
<1>1. /\ bidHeld' \in Nat /\ bidHeld' >= NewBid
      /\ bidWallet' \in [Addr -> Nat]
      /\ \A b \in Addr : bidWallet'[b] - bidWallet[b]
                           = IF b = highBidder THEN highBid ELSE 0
  BY RefundFrame DEF Bid
<1>2. /\ NewBid \in Nat /\ NewBid >= MinBid
      /\ a # highBidder /\ status = "ACTIVE" /\ status' = "ACTIVE"
      /\ highBid' = NewBid /\ highBidder' = a
      /\ bidHeld \in Nat /\ highBid \in Nat
  BY DEF IInv, TypeOK, Bid, NewBid
<1>3. \A b \in Addr : owed'[b] = IF b = a THEN NewBid ELSE 0
  <2> SUFFICES ASSUME NEW b \in Addr PROVE owed'[b] = IF b = a THEN NewBid ELSE 0
    OBVIOUS
  <2>1. owed[b] = IF b = highBidder THEN highBid ELSE 0
    BY <1>2 DEF IInv, Outcome
  <2>2. owed'[b] = owed[b] - (bidWallet'[b] - bidWallet[b]) + (IF b = a THEN NewBid ELSE 0)
    BY DEF Bid
  <2> QED
    BY <1>1, <1>2, <2>1, <2>2
<1>4. owed' \in [Addr -> Int]
  <2>1. owed' = [b \in Addr |-> owed'[b]]
    BY DEF Bid
  <2> QED
    BY <1>2, <1>3, <2>1
<1>5. TypeOK'
  BY <1>1, <1>2, <1>4 DEF IInv, TypeOK, Bid, terms, itemTick
<1>6. Outcome'
  BY <1>2, <1>3 DEF Outcome
<1>7. Solvent'
  BY <1>1, <1>2, Constants DEF IInv, Solvent, Bid, terms, itemTick
<1>8. NothingYet' /\ Armed'
  BY <1>2 DEF IInv, NothingYet, Armed, Bid, terms
<1> QED
  BY <1>5, <1>6, <1>7, <1>8 DEF IInv

(* On its grid, an amount of the item arrives as it was sent.                *)
LEMMA SendItemFrame ==
    ASSUME IInv, NEW to \in Addr, NEW q \in Nat, SendItem(to, q)
    PROVE  /\ itemHeld' \in Nat /\ itemWallet' \in [Addr -> Nat]
           /\ itemWallet'[to] - itemWallet[to] \in Nat
           /\ OnGrid(q, ItemGrid) => itemWallet'[to] - itemWallet[to] = q
<1> DEFINE moved == HalfUp(q, ItemGrid)
<1>1. moved \in Nat /\ (OnGrid(q, ItemGrid) => moved = q)
  BY Constants, LedgerRounds, LedgerKeepsGrid
<1>2. /\ moved <= itemHeld /\ itemHeld' = itemHeld - moved
      /\ itemWallet' = [itemWallet EXCEPT ![to] = @ + moved]
  BY DEF SendItem
<1> HIDE DEF moved
<1> QED
  BY <1>1, <1>2 DEF IInv, TypeOK

LEMMA SellIInv == ASSUME IInv, Settle, Sell PROVE IInv'
<1>1. /\ highBidder \in Addr /\ seller \in Addr /\ status = "ACTIVE"
      /\ itemAmount \in Nat /\ OnGrid(itemAmount, ItemGrid)
      /\ highBid \in Nat /\ highBid >= MinBid
      /\ deadline = fundedAt + Window /\ height >= deadline
  BY Constants DEF IInv, TypeOK, Armed, Solvent, Settle, Sell, Closed
<1>2. /\ itemHeld' \in Nat /\ itemWallet' \in [Addr -> Nat]
      /\ itemWallet'[highBidder] - itemWallet[highBidder] = itemAmount
  BY <1>1, SendItemFrame DEF Sell
<1>3. bidHeld' \in Nat /\ bidWallet' \in [Addr -> Nat]
  BY <1>1 DEF IInv, TypeOK, Sell, SendBid
<1>4. /\ sale' = [to |-> highBidder, item |-> itemAmount, paid |-> highBid, at |-> height]
      /\ status' = "SOLD"
  BY <1>2 DEF Sell
<1>5. \A b \in Addr : owed'[b] = 0
  BY <1>1 DEF IInv, TypeOK, Outcome, Sell
<1>6. TypeOK'
  <2>1. sale' \in [to : Addr \cup {NoOne}, item : Nat, paid : Nat, at : Nat]
    BY <1>1, <1>4 DEF IInv, TypeOK
  <2>2. owed' \in [Addr -> Int]
    BY <1>1 DEF IInv, TypeOK, Sell
  <2>3. status' \in Ended
    BY <1>4 DEF Ended
  <2> QED
    BY <1>2, <1>3, <2>1, <2>2, <2>3 DEF IInv, TypeOK, Settle, terms
<1>7. Outcome'
  BY <1>1, <1>4, <1>5 DEF Outcome, Settle, terms
<1>8. Solvent' /\ NothingYet' /\ Armed'
  BY <1>4 DEF Solvent, NothingYet, Armed
<1> QED
  BY <1>6, <1>7, <1>8 DEF IInv

LEMMA UnsoldIInv == ASSUME IInv, Settle, Unsold PROVE IInv'
<1>1. /\ highBidder = NoOne /\ seller \in Addr /\ status = "ACTIVE"
      /\ itemAmount \in Nat
      /\ deadline = fundedAt + Window /\ height >= deadline
  BY Constants DEF IInv, TypeOK, Armed, Settle, Unsold, Closed
<1>2. itemHeld' \in Nat /\ itemWallet' \in [Addr -> Nat]
  BY <1>1, SendItemFrame DEF Unsold
<1>3. sale' = [sale EXCEPT !.at = height] /\ status' = "UNSOLD"
  BY DEF Unsold
<1>4. TypeOK'
  BY <1>2, <1>3 DEF IInv, TypeOK, Unsold, Settle, terms, bidTick, Ended
<1>5. \A b \in Addr : owed'[b] = 0
  BY <1>1, Constants DEF IInv, Outcome, Unsold
<1>6. Outcome'
  BY <1>1, <1>3, <1>5 DEF IInv, TypeOK, Outcome, Settle
<1>7. Solvent' /\ NothingYet' /\ Armed'
  BY <1>1, <1>3 DEF IInv, TypeOK, Solvent, NothingYet, Armed
<1> QED
  BY <1>4, <1>6, <1>7 DEF IInv

LEMMA CancelIInv == ASSUME IInv, NEW a \in Addr, Cancel(a) PROVE IInv'
<1>1. /\ status \in {"INIT", "ACTIVE"} /\ highBidder = NoOne /\ seller \in Addr
      /\ status' = "CANCELLED"
      /\ itemAmount \in Nat /\ itemHeld \in Nat
  BY Constants DEF IInv, TypeOK, Cancel, Cancellable
<1>2. CancelQuantity \in Nat
  BY <1>1 DEF CancelQuantity
<1>3. itemHeld' \in Nat /\ itemWallet' \in [Addr -> Nat]
  BY <1>1, <1>2, SendItemFrame DEF Cancel
<1>4. TypeOK'
  BY <1>1, <1>3 DEF IInv, TypeOK, Cancel, terms, bidTick, ghosts, Ended
<1>5. Outcome'
  BY <1>1, Constants DEF IInv, Outcome, Cancel, ghosts
<1>6. Solvent' /\ NothingYet' /\ Armed'
  BY <1>1 DEF IInv, Solvent, NothingYet, Armed, Cancel, ghosts
<1> QED
  BY <1>4, <1>5, <1>6 DEF IInv

LEMMA StepIInv == IInv /\ [Next]_vars => IInv'
<1> SUFFICES ASSUME IInv, [Next]_vars PROVE IInv'
  OBVIOUS
<1>1. CASE NextBlock
  BY <1>1, NextBlockIInv
<1>2. ASSUME NEW a \in Addr, NEW q \in 1..itemWallet[a], DepositItem(a, q) PROVE IInv'
  BY <1>2, DepositItemIInv
<1>3. ASSUME NEW a \in Addr, NEW q \in 1..bidWallet[a], DepositBid(a, q) PROVE IInv'
  BY <1>3, DepositBidIInv
<1>4. ASSUME NEW a \in Addr, Fund(a) PROVE IInv'
  BY <1>4, FundIInv
<1>5. ASSUME NEW a \in Addr, Bid(a) PROVE IInv'
  BY <1>5, BidIInv
<1>6. ASSUME NEW a \in Addr, Cancel(a) PROVE IInv'
  BY <1>6, CancelIInv
<1>7. CASE Settle
  BY <1>7, SellIInv, UnsoldIInv DEF Settle
<1>8. CASE UNCHANGED vars
  BY <1>8 DEF IInv, TypeOK, Outcome, Solvent, NothingYet, Armed, vars,
              terms, store, itemTick, bidTick, ghosts
<1> QED
  BY <1>1, <1>2, <1>3, <1>4, <1>5, <1>6, <1>7, <1>8 DEF Next

(* Of all the bids ever accepted only the leader's is outstanding, whatever  *)
(* is deposited or rejected between; a sold auction delivered all of the     *)
(* item against all of the high bid; and custody always covers the next      *)
(* refund and the settlement.                                                *)
THEOREM AuctionOutcome == Spec => [](TypeOK /\ Solvent /\ Outcome)
<1>1. IInv => TypeOK /\ Solvent /\ Outcome
  BY DEF IInv
<1> QED
  BY <1>1, InitIInv, StepIInv, PTL DEF Spec

-----------------------------------------------------------------------------
(* The refinement.                                                           *)

LEMMA InitSale == Init => DVP!SaleInit
  BY Constants DEF Init, DVP!SaleInit, Stage

LEMMA StepSale == IInv /\ [Next]_vars => [DVP!SaleNext]_(DVP!saleVars)
<1> SUFFICES ASSUME IInv, [Next]_vars PROVE [DVP!SaleNext]_(DVP!saleVars)
  OBVIOUS
<1>1. CASE UNCHANGED <<status, itemAmount, sale>>
  BY <1>1 DEF DVP!saleVars, Stage
<1>2. ASSUME NEW a \in Addr, Fund(a) PROVE DVP!SaleNext
  BY <1>2 DEF Fund, Stage, terms, DVP!SaleNext, DVP!List
<1>3. ASSUME NEW a \in Addr, Cancel(a) PROVE DVP!SaleNext
  BY <1>3 DEF Cancel, Cancellable, Stage, terms, ghosts, DVP!SaleNext, DVP!Return
<1>4. CASE Settle /\ Sell
  <2>1. /\ status = "ACTIVE" /\ status' = "SOLD" /\ itemAmount' = itemAmount
        /\ highBid >= MinBid
        /\ highBidder \in Addr
        /\ itemAmount \in Nat /\ OnGrid(itemAmount, ItemGrid)
    BY <1>4, Constants DEF Settle, Sell, terms, IInv, TypeOK, Solvent, Armed
  <2>2. itemWallet'[highBidder] - itemWallet[highBidder] = itemAmount
    BY <1>4, <2>1, SendItemFrame DEF Sell
  <2>3. sale'.item = itemAmount /\ sale'.paid = highBid
    BY <1>4, <2>2 DEF Sell
  <2> QED
    BY <2>1, <2>3 DEF Stage, DVP!SaleNext, DVP!Trade
<1>5. CASE Settle /\ Unsold
  <2>1. /\ status = "ACTIVE" /\ status' = "UNSOLD" /\ itemAmount' = itemAmount
        /\ sale'.item = sale.item /\ sale'.paid = sale.paid
    BY <1>5 DEF Settle, Unsold, terms, IInv, TypeOK
  <2> QED
    BY <2>1 DEF Stage, DVP!SaleNext, DVP!Return
<1>6. CASE NextBlock
  BY <1>1, <1>6 DEF NextBlock, terms, store, ghosts
<1>7. ASSUME NEW a \in Addr, \/ \E q \in 1..itemWallet[a] : DepositItem(a, q)
                             \/ \E q \in 1..bidWallet[a] : DepositBid(a, q)
      PROVE  UNCHANGED <<status, itemAmount, sale>>
  BY <1>7 DEF DepositItem, DepositBid, terms, store, ghosts
<1>8. ASSUME NEW a \in Addr, Bid(a)
      PROVE  UNCHANGED <<status, itemAmount, sale>>
  BY <1>8 DEF Bid, terms
<1>9. CASE UNCHANGED vars
  BY <1>1, <1>9 DEF vars, terms, store, ghosts
<1> QED
  BY <1>1, <1>2, <1>3, <1>4, <1>5, <1>6, <1>7, <1>8, <1>9 DEF Next, Settle

(* Every auction is a delivery against payment: the item is listed, and then *)
(* goes whole to one buyer in the step that pays the seller at least the     *)
(* reserve, or back to the seller; once.                                     *)
THEOREM AuctionImplementsSale == Spec => ImplementsSale
<1>1. Spec => []IInv
  BY InitIInv, StepIInv, PTL DEF Spec
<1> QED
  BY <1>1, InitSale, StepSale, PTL DEF Spec, ImplementsSale, DVP!SaleSpec

-----------------------------------------------------------------------------
(* DutchAuction. *)

(* The operators on grids that an instance brings with it are the same.      *)
LEMMA DutchGrid ==
    \A q, g : /\ D!FloorTo(q, g) = FloorTo(q, g)
              /\ D!OnGrid(q, g) = OnGrid(q, g)
              /\ D!HalfUp(q, g) = HalfUp(q, g)
  BY DEF D!FloorTo, D!OnGrid, D!HalfUp, FloorTo, OnGrid, HalfUp

USE DutchGrid

LEMMA DutchConstants ==
    ASSUME D!Assumption
    PROVE  /\ NoOne \notin Bidders
           /\ ItemGrid \in Nat \ {0} /\ BidGrid \in Nat \ {0}
           /\ ItemAmounts \subseteq Nat \ {0} /\ Prices \subseteq Nat \ {0}
           /\ CurveBlocks \in Nat \ {0}
           /\ DutchItems \in [Bidders -> Nat] /\ DutchBids \in [Bidders -> Nat]
  BY DEF D!Assumption

-----------------------------------------------------------------------------
(* The curve from s down to p, e blocks after fund().                        *)
DutchCurve(s, p, e) ==
    IF e >= CurveBlocks THEN p ELSE (s * CurveBlocks - (s - p) * e) \div CurveBlocks

LEMMA DutchPriceIsCurve ==
    D!Price = FloorTo(DutchCurve(dStartPrice, dEndPrice, dHeight - dStart), BidGrid)
  BY DEF D!Price, D!CurrentPrice, DutchCurve

(* What the curve takes off by block e, times Duration: never more than the  *)
(* whole drop, and more with every block.                                    *)
LEMMA DutchDrop ==
    ASSUME D!Assumption, NEW s \in Nat, NEW p \in Nat, p <= s, NEW e \in Nat,
           e <= CurveBlocks
    PROVE  /\ s * CurveBlocks - (s - p) * e \in Nat
           /\ s * CurveBlocks - (s - p) * e >= CurveBlocks * p
           /\ s * CurveBlocks - (s - p) * (e + 1) <= s * CurveBlocks - (s - p) * e
           /\ s * CurveBlocks - (s - p) * (e + 1) \in Int
<1>1. CurveBlocks \in Nat \ {0}
  BY DutchConstants
<1>2. PICK d \in Nat : s = p + d
  <2>1. s - p \in Nat
    OBVIOUS
  <2> QED
    BY <2>1
<1>3. PICK k \in Nat : CurveBlocks = e + k
  <2>1. CurveBlocks - e \in Nat
    BY <1>1
  <2> QED
    BY <1>1, <2>1
<1>4. s - p = d
  BY <1>2
<1>5. s * CurveBlocks = p * CurveBlocks + d * CurveBlocks
  BY <1>1, <1>2
<1>6. d * CurveBlocks = d * e + d * k /\ d * (e + 1) = d * e + d
  BY <1>3
<1>7. /\ p * CurveBlocks \in Nat /\ d * e \in Nat /\ d * k \in Nat
      /\ p * CurveBlocks = CurveBlocks * p
  BY <1>1
<1> QED
  BY <1>4, <1>5, <1>6, <1>7

LEMMA DutchCurveBounds ==
    ASSUME D!Assumption, NEW s \in Nat, NEW p \in Nat, p <= s, NEW e \in Nat
    PROVE  /\ DutchCurve(s, p, e) \in Nat /\ DutchCurve(s, p, e) >= p
           /\ DutchCurve(s, p, e + 1) <= DutchCurve(s, p, e)
<1>1. CurveBlocks \in Nat \ {0}
  BY DutchConstants
<1> DEFINE n(i) == s * CurveBlocks - (s - p) * i
<1>2. ASSUME NEW i \in Nat, i <= CurveBlocks
      PROVE  n(i) \in Nat /\ n(i) >= CurveBlocks * p /\ n(i + 1) <= n(i)
  BY <1>1, <1>2, DutchDrop
<1>3. (CurveBlocks * p) \div CurveBlocks = p /\ CurveBlocks * p \in Nat
  <2>1. (CurveBlocks * p + 0) \div CurveBlocks = p
    BY <1>1, DivisionIsUnique
  <2> QED
    BY <1>1, <2>1
<1>4. ASSUME NEW i \in Nat, i <= CurveBlocks
      PROVE  n(i) \div CurveBlocks \in Nat /\ n(i) \div CurveBlocks >= p
  <2>1. n(i) \in Nat /\ CurveBlocks * p <= n(i)
    BY <1>2, <1>3, <1>4
  <2> HIDE DEF n
  <2>2. (CurveBlocks * p) \div CurveBlocks <= n(i) \div CurveBlocks
    BY <1>1, <1>3, <2>1, DivisionMonotone
  <2> QED
    BY <1>1, <1>3, <2>1, <2>2, QuotientRemainder
<1>5. ASSUME NEW i \in Nat, i + 1 <= CurveBlocks
      PROVE  n(i + 1) \div CurveBlocks <= n(i) \div CurveBlocks
  <2>1. n(i) \in Nat /\ n(i + 1) \in Nat /\ n(i + 1) <= n(i)
    BY <1>1, <1>2, <1>5
  <2> HIDE DEF n
  <2> QED
    BY <1>1, <2>1, DivisionMonotone
<1>6. DutchCurve(s, p, e) = IF e >= CurveBlocks THEN p ELSE n(e) \div CurveBlocks
  BY DEF DutchCurve
<1>7. DutchCurve(s, p, e + 1)
        = IF e + 1 >= CurveBlocks THEN p ELSE n(e + 1) \div CurveBlocks
  BY DEF DutchCurve
<1> HIDE DEF n
<1>8. CASE e >= CurveBlocks
  BY <1>1, <1>6, <1>7, <1>8
<1>9. CASE e < CurveBlocks
  <2>1. n(e) \div CurveBlocks \in Nat /\ n(e) \div CurveBlocks >= p
    BY <1>1, <1>4, <1>9
  <2>2. CASE e + 1 >= CurveBlocks
    BY <1>6, <1>7, <1>9, <2>1, <2>2
  <2>3. CASE e + 1 < CurveBlocks
    <3>1. n(e + 1) \div CurveBlocks <= n(e) \div CurveBlocks
      BY <1>1, <1>5, <2>3
    <3>2. n(e + 1) \div CurveBlocks \in Nat
      BY <1>1, <1>4, <2>3
    <3>3. /\ DutchCurve(s, p, e) = n(e) \div CurveBlocks
          /\ DutchCurve(s, p, e + 1) = n(e + 1) \div CurveBlocks
      BY <1>1, <1>6, <1>7, <1>9, <2>3
    <3> QED
      BY <2>1, <3>1, <3>2, <3>3
  <2> QED
    BY <1>1, <2>2, <2>3
<1> QED
  BY <1>1, <1>8, <1>9

-----------------------------------------------------------------------------
(* The inductive invariant.  The assumption on the constants is a part of    *)
(* it, the module being one that others instantiate.                         *)

(* What fund() checked still holds when buy() relies on it, and nothing was  *)
(* delivered before buy().                                                   *)
DutchArmed == /\ dEndPrice < dStartPrice
              /\ OnGrid(dBidHeld, BidGrid)
              /\ dStatus = "ACTIVE" => OnGrid(dItemAmount, ItemGrid) /\ dStart <= dHeight
              /\ dStatus # "SOLD" => dSale.item = 0 /\ dSale.paid = 0

DutchIInv == D!Assumption /\ D!TypeOK /\ DutchArmed

LEMMA DutchInitIInv == D!Assumption /\ D!Init => DutchIInv
<1> SUFFICES ASSUME D!Assumption, D!Init PROVE DutchIInv
  OBVIOUS
<1>1. OnGrid(0, BidGrid)
  BY DutchConstants, ZeroOnGrid
<1> QED
  BY <1>1, DutchConstants DEF D!Init, DutchIInv, D!TypeOK, DutchArmed

(* The price of a running auction: on the grid, and no lower than what the   *)
(* grid makes of endPrice.                                                   *)
LEMMA DutchPriceBounds ==
    ASSUME DutchIInv, dStatus = "ACTIVE"
    PROVE  /\ D!Price \in Nat /\ OnGrid(D!Price, BidGrid)
           /\ D!Price >= FloorTo(dEndPrice, BidGrid)
<1>1. /\ dStartPrice \in Nat /\ dEndPrice \in Nat /\ dEndPrice <= dStartPrice
      /\ dHeight - dStart \in Nat /\ BidGrid \in Nat \ {0} /\ D!Assumption
  BY DutchConstants DEF DutchIInv, D!TypeOK, DutchArmed
<1> DEFINE q == DutchCurve(dStartPrice, dEndPrice, dHeight - dStart)
<1>2. q \in Nat /\ dEndPrice <= q
  BY <1>1, DutchCurveBounds
<1>3. D!Price = FloorTo(q, BidGrid)
  BY DutchPriceIsCurve
<1> HIDE DEF q
<1> QED
  BY <1>1, <1>2, <1>3, FloorToBounds, FloorToOnGrid, FloorToMonotone

LEMMA DutchSendItemFrame ==
    ASSUME DutchIInv, NEW to \in Bidders, NEW q \in Nat, D!SendItem(to, q)
    PROVE  /\ dItemHeld' \in Nat /\ dItemWallet' \in [Bidders -> Nat]
           /\ dItemHeld - dItemHeld' \in Nat
           /\ OnGrid(q, ItemGrid) => dItemHeld - dItemHeld' = q
<1> DEFINE moved == HalfUp(q, ItemGrid)
<1>1. moved \in Nat /\ (OnGrid(q, ItemGrid) => moved = q)
  BY DutchConstants, LedgerRounds, LedgerKeepsGrid DEF DutchIInv
<1>2. /\ moved <= dItemHeld /\ dItemHeld' = dItemHeld - moved
      /\ dItemWallet' = [dItemWallet EXCEPT ![to] = @ + moved]
  BY DEF D!SendItem
<1> HIDE DEF moved
<1> QED
  BY <1>1, <1>2 DEF DutchIInv, D!TypeOK

(* Two emissions on the grid that share the balance out leave none of it.    *)
LEMMA DutchSendBidsFrame ==
    ASSUME DutchIInv, NEW a \in Bidders, NEW b \in Bidders, NEW q \in Nat, NEW r \in Nat,
           OnGrid(q, BidGrid), OnGrid(r, BidGrid), q + r = dBidHeld,
           D!SendBids(a, q, b, r)
    PROVE  dBidHeld' = 0 /\ dBidWallet' \in [Bidders -> Nat]
<1>1. HalfUp(q, BidGrid) = q /\ HalfUp(r, BidGrid) = r
  BY DutchConstants, LedgerKeepsGrid DEF DutchIInv
<1> DEFINE credited == [dBidWallet EXCEPT ![a] = @ + q]
<1>2. dBidHeld' = dBidHeld - q - r /\ dBidWallet' = [credited EXCEPT ![b] = @ + r]
  BY <1>1 DEF D!SendBids
<1>3. credited \in [Bidders -> Nat]
  BY DEF DutchIInv, D!TypeOK
<1> HIDE DEF credited
<1>4. dBidWallet' \in [Bidders -> Nat]
  BY <1>2, <1>3
<1> QED
  BY <1>2, <1>4

LEMMA DutchBuyStep ==
    ASSUME DutchIInv, NEW a \in Bidders, D!Buy(a)
    PROVE  /\ dStatus = "ACTIVE" /\ dStatus' = "SOLD" /\ dSoldPrice' = D!Price
           /\ dSale' = [item |-> dItemAmount, paid |-> D!Price]
           /\ dBidHeld' = 0 /\ dBidWallet' \in [Bidders -> Nat]
           /\ dItemHeld' \in Nat /\ dItemWallet' \in [Bidders -> Nat]
<1>1. dStatus = "ACTIVE" /\ dStatus' = "SOLD" /\ dSoldPrice' = D!Price /\ dBidHeld >= D!Price
  BY DEF D!Buy
<1>2. D!Price \in Nat /\ OnGrid(D!Price, BidGrid)
  BY <1>1, DutchPriceBounds
<1>3. /\ dBidHeld \in Nat /\ OnGrid(dBidHeld, BidGrid) /\ BidGrid \in Nat \ {0}
      /\ dSeller \in Bidders /\ dItemAmount \in Nat /\ OnGrid(dItemAmount, ItemGrid)
  BY <1>1, DutchConstants DEF DutchIInv, D!TypeOK, DutchArmed
<1>4. D!Excess \in Nat /\ D!Price + D!Excess = dBidHeld /\ OnGrid(D!Excess, BidGrid)
  <2>1. D!Price \in 0..dBidHeld
    BY <1>1, <1>2, <1>3
  <2>2. OnGrid(dBidHeld - D!Price, BidGrid)
    BY <1>2, <1>3, <2>1, GridDifference
  <2> QED
    BY <1>3, <2>1, <2>2 DEF D!Excess
<1>5. dBidHeld' = 0 /\ dBidWallet' \in [Bidders -> Nat]
  <2>1. D!SendBids(dSeller, D!Price, a, D!Excess)
    BY DEF D!Buy
  <2> QED
    BY <1>2, <1>3, <1>4, <2>1, DutchSendBidsFrame
<1>6. /\ dItemHeld' \in Nat /\ dItemWallet' \in [Bidders -> Nat]
      /\ dItemHeld - dItemHeld' = dItemAmount
  BY <1>3, DutchSendItemFrame DEF D!Buy
<1>7. HalfUp(D!Price, BidGrid) = D!Price
  BY <1>2, <1>3, LedgerKeepsGrid
<1>8. dSale' = [item |-> dItemAmount, paid |-> D!Price]
  BY <1>6, <1>7 DEF D!Buy
<1> QED
  BY <1>1, <1>5, <1>6, <1>8

LEMMA DutchBuyUnderpaidStep ==
    ASSUME DutchIInv, NEW a \in Bidders, D!BuyUnderpaid(a)
    PROVE  dBidHeld' = 0 /\ dBidWallet' \in [Bidders -> Nat]
<1>1. /\ dBidHeld \in Nat /\ OnGrid(dBidHeld, BidGrid) /\ BidGrid \in Nat \ {0}
  BY DutchConstants DEF DutchIInv, D!TypeOK, DutchArmed
<1>2. OnGrid(0, BidGrid) /\ 0 \in Nat /\ dBidHeld + 0 = dBidHeld
  BY <1>1, ZeroOnGrid
<1>3. D!SendBids(a, dBidHeld, a, 0)
  BY DEF D!BuyUnderpaid
<1> QED
  BY <1>1, <1>2, <1>3, DutchSendBidsFrame

LEMMA DutchStepIInv == DutchIInv /\ [D!Next]_(D!vars) => DutchIInv'
<1> SUFFICES ASSUME DutchIInv, [D!Next]_(D!vars) PROVE DutchIInv'
  OBVIOUS
<1>1. D!Assumption' /\ D!Assumption
  BY DEF DutchIInv, D!Assumption
<1>2. OnGrid(0, BidGrid) /\ BidGrid \in Nat \ {0}
  BY <1>1, DutchConstants, ZeroOnGrid
<1>3. CASE D!NextBlock
  BY <1>1, <1>3 DEF DutchIInv, D!TypeOK, DutchArmed, D!NextBlock, D!terms, D!store,
         D!itemTick, D!bidTick
<1>4. ASSUME NEW a \in Bidders, NEW q \in 1..dItemWallet[a], D!DepositItem(a, q)
      PROVE  DutchIInv'
  <2>1. q \in Nat /\ dItemHeld' \in Nat /\ dItemWallet' \in [Bidders -> Nat]
    BY <1>4 DEF DutchIInv, D!TypeOK, D!DepositItem
  <2> QED
    BY <1>1, <1>4, <2>1 DEF DutchIInv, D!TypeOK, DutchArmed, D!DepositItem, D!terms,
           D!store, D!bidTick
<1>5. ASSUME NEW a \in Bidders, NEW q \in 1..dBidWallet[a], D!DepositBid(a, q)
      PROVE  DutchIInv'
  <2>1. /\ q \in Nat /\ dBidHeld \in Nat
        /\ dBidHeld' = dBidHeld + q /\ dBidWallet' \in [Bidders -> Nat]
    BY <1>5 DEF DutchIInv, D!TypeOK, D!DepositBid
  <2>2. OnGrid(dBidHeld', BidGrid)
    BY <1>2, <1>5, <2>1, GridSum DEF DutchIInv, DutchArmed, D!DepositBid
  <2>3. dBidHeld' \in Nat
    BY <2>1
  <2> QED
    BY <1>1, <1>5, <2>1, <2>2, <2>3 DEF DutchIInv, D!TypeOK, DutchArmed, D!DepositBid,
           D!terms, D!store, D!itemTick
<1>6. ASSUME NEW a \in Bidders, D!Fund(a) PROVE DutchIInv'
  BY <1>1, <1>6 DEF DutchIInv, D!TypeOK, DutchArmed, D!Fund, D!Fundable, D!terms,
         D!itemTick, D!bidTick
<1>7. ASSUME NEW a \in Bidders, D!Buy(a) PROVE DutchIInv'
  <2>1. /\ dStatus = "ACTIVE" /\ dStatus' = "SOLD" /\ dSoldPrice' = D!Price
        /\ dSale' = [item |-> dItemAmount, paid |-> D!Price]
        /\ dBidHeld' = 0 /\ dBidWallet' \in [Bidders -> Nat]
        /\ dItemHeld' \in Nat /\ dItemWallet' \in [Bidders -> Nat]
    BY <1>7, DutchBuyStep
  <2>2. D!Price \in Nat /\ dItemAmount \in Nat
    BY <1>1, <2>1, DutchPriceBounds, DutchConstants DEF DutchIInv, D!TypeOK
  <2>3. dSale' \in [item : Nat, paid : Nat]
    BY <2>1, <2>2
  <2> QED
    BY <1>1, <1>2, <1>7, <2>1, <2>2, <2>3 DEF DutchIInv, D!TypeOK, DutchArmed, D!Buy, D!terms
<1>8. ASSUME NEW a \in Bidders, D!BuyUnderpaid(a) PROVE DutchIInv'
  <2>1. dBidHeld' = 0 /\ dBidWallet' \in [Bidders -> Nat]
    BY <1>8, DutchBuyUnderpaidStep
  <2> QED
    BY <1>1, <1>2, <1>8, <2>1
    DEF DutchIInv, D!TypeOK, DutchArmed, D!BuyUnderpaid, D!terms, D!store, D!itemTick
<1>9. ASSUME NEW a \in Bidders, D!Cancel(a) PROVE DutchIInv'
  <2>1. D!CancelQuantity \in Nat /\ dSeller \in Bidders
    BY <1>1, DutchConstants DEF D!CancelQuantity, DutchIInv, D!TypeOK
  <2>2. dItemHeld' \in Nat /\ dItemWallet' \in [Bidders -> Nat]
    BY <1>9, <2>1, DutchSendItemFrame DEF D!Cancel
  <2> QED
    BY <1>1, <1>9, <2>2 DEF DutchIInv, D!TypeOK, DutchArmed, D!Cancel, D!Cancellable,
           D!terms, D!bidTick
<1>10. CASE UNCHANGED D!vars
  BY <1>1, <1>10 DEF DutchIInv, D!TypeOK, DutchArmed, D!vars, D!terms, D!store, D!itemTick,
         D!bidTick
<1> QED
  BY <1>3, <1>4, <1>5, <1>6, <1>7, <1>8, <1>9, <1>10 DEF D!Next

-----------------------------------------------------------------------------
(* One step of a running auction.                                            *)

LEMMA DutchWaitingImproves ==
    ASSUME DutchIInv, dStatus = "ACTIVE", D!NextBlock
    PROVE  D!Price' \in FloorTo(dEndPrice, BidGrid)..D!Price
<1> DEFINE e == dHeight - dStart
           now == DutchCurve(dStartPrice, dEndPrice, e)
           next == DutchCurve(dStartPrice, dEndPrice, e + 1)
<1>1. /\ dStartPrice \in Nat /\ dEndPrice \in Nat /\ dEndPrice <= dStartPrice
      /\ e \in Nat /\ BidGrid \in Nat \ {0} /\ D!Assumption /\ CurveBlocks \in Nat \ {0}
  BY DutchConstants DEF DutchIInv, D!TypeOK, DutchArmed
<1>2. now \in Nat /\ next <= now
  BY <1>1, DutchCurveBounds
<1>3. next \in Nat /\ dEndPrice <= next
  <2>1. e + 1 \in Nat
    BY <1>1
  <2> QED
    BY <1>1, <2>1, DutchCurveBounds
<1>4. D!Price = FloorTo(now, BidGrid)
  BY DutchPriceIsCurve
<1>5. D!Price' = FloorTo(next, BidGrid)
  <2>1. dHeight' - dStart' = e + 1 /\ dStartPrice' = dStartPrice /\ dEndPrice' = dEndPrice
    BY DEF DutchIInv, D!TypeOK, D!NextBlock, D!terms, D!store
  <2> QED
    BY <2>1 DEF D!Price, D!CurrentPrice, DutchCurve
<1> HIDE DEF now, next
<1>6. /\ FloorTo(next, BidGrid) \in Nat /\ FloorTo(now, BidGrid) \in Nat
      /\ FloorTo(dEndPrice, BidGrid) \in Nat
  BY <1>1, <1>2, <1>3, FloorToBounds
<1>7. /\ FloorTo(next, BidGrid) <= FloorTo(now, BidGrid)
      /\ FloorTo(dEndPrice, BidGrid) <= FloorTo(next, BidGrid)
  BY <1>1, <1>2, <1>3, FloorToMonotone
<1> QED
  BY <1>4, <1>5, <1>6, <1>7

DutchKept == /\ dStatus = "ACTIVE" /\ dStatus' = "ACTIVE"
                  => D!Price' \in D!FloorTo(dEndPrice, BidGrid)..D!Price
             /\ dStatus = "ACTIVE" /\ dStatus' = "SOLD"
                  => /\ dSale' = [item |-> dItemAmount, paid |-> dSoldPrice']
                     /\ dSoldPrice' >= D!FloorTo(dEndPrice, BidGrid)
             /\ dBidHeld' < dBidHeld => dBidHeld' = 0

(* While neither the terms nor the block change, neither does the price.     *)
LEMMA DutchSamePrice ==
    ASSUME DutchIInv, UNCHANGED <<D!terms, dStart, dHeight>>, dStatus = "ACTIVE"
    PROVE  D!Price' \in FloorTo(dEndPrice, BidGrid)..D!Price
<1>1. D!Price' = D!Price
  BY DEF D!Price, D!CurrentPrice, D!terms
<1>2. D!Price \in Nat /\ D!Price >= FloorTo(dEndPrice, BidGrid)
  BY DutchPriceBounds
<1>3. FloorTo(dEndPrice, BidGrid) \in Nat
  BY FloorToBounds, DutchConstants DEF DutchIInv, D!TypeOK
<1> QED
  BY <1>1, <1>2, <1>3

LEMMA DutchStepKept == DutchIInv /\ [D!Next]_(D!vars) => DutchKept
<1> SUFFICES ASSUME DutchIInv, [D!Next]_(D!vars) PROVE DutchKept
  OBVIOUS
<1>1. dBidHeld \in Nat
  BY DEF DutchIInv, D!TypeOK
<1>2. CASE D!NextBlock
  BY <1>1, <1>2, DutchWaitingImproves DEF DutchKept, D!NextBlock, D!store, D!bidTick
<1>3. ASSUME NEW a \in Bidders, NEW q \in 1..dItemWallet[a], D!DepositItem(a, q)
      PROVE  DutchKept
  BY <1>1, <1>3, DutchSamePrice DEF DutchKept, D!DepositItem, D!store, D!bidTick
<1>4. ASSUME NEW a \in Bidders, NEW q \in 1..dBidWallet[a], D!DepositBid(a, q)
      PROVE  DutchKept
  <2>1. dBidHeld' >= dBidHeld
    BY <1>1, <1>4 DEF D!DepositBid, DutchIInv, D!TypeOK
  <2>2. dStatus = "ACTIVE" => D!Price' \in FloorTo(dEndPrice, BidGrid)..D!Price
    BY <1>4, DutchSamePrice DEF D!DepositBid, D!store
  <2>3. dStatus' = dStatus /\ dBidHeld' \in Nat
    BY <1>1, <1>4 DEF D!DepositBid, D!store, DutchIInv, D!TypeOK
  <2> QED
    BY <1>1, <2>1, <2>2, <2>3 DEF DutchKept
<1>5. ASSUME NEW a \in Bidders, D!Fund(a) PROVE DutchKept
  BY <1>1, <1>5 DEF DutchKept, D!Fund, D!bidTick
<1>6. ASSUME NEW a \in Bidders, D!Buy(a) PROVE DutchKept
  BY <1>6, DutchBuyStep, DutchPriceBounds DEF DutchKept
<1>7. ASSUME NEW a \in Bidders, D!BuyUnderpaid(a) PROVE DutchKept
  BY <1>7, DutchBuyUnderpaidStep, DutchSamePrice DEF DutchKept, D!BuyUnderpaid, D!store
<1>8. ASSUME NEW a \in Bidders, D!Cancel(a) PROVE DutchKept
  BY <1>1, <1>8 DEF DutchKept, D!Cancel, D!bidTick
<1>9. CASE UNCHANGED D!vars
  BY <1>1, <1>9, DutchSamePrice DEF DutchKept, D!vars, D!store, D!bidTick
<1> QED
  BY <1>2, <1>3, <1>4, <1>5, <1>6, <1>7, <1>8, <1>9 DEF D!Next

(* A quote only gets better, down to what the grid makes of endPrice; a sale *)
(* moves the whole item and exactly the price recorded; and paying out bid   *)
(* custody leaves none of it behind.  For every curve and every grid.        *)
THEOREM DutchKeepsTerms == D!Assumption /\ D!Spec => []D!TypeOK /\ D!TermsKept
<1>1. DutchIInv => D!TypeOK
  BY DEF DutchIInv
<1> QED
  BY <1>1, DutchInitIInv, DutchStepIInv, DutchStepKept, PTL
  DEF D!Spec, D!TermsKept, DutchKept

-----------------------------------------------------------------------------
(* The refinement.                                                           *)

LEMMA DutchInitSale == D!Assumption /\ D!Init => D!DVP!SaleInit
<1> SUFFICES ASSUME D!Assumption, D!Init PROVE D!DVP!SaleInit
  OBVIOUS
<1> QED
  BY DutchConstants DEF D!Init, D!DVP!SaleInit, D!Stage

(* A price on the grid and not zero is worth a base unit at least.           *)
LEMMA DutchPriceWorthSelling ==
    ASSUME DutchIInv, dStatus = "ACTIVE", D!Sellable
    PROVE  D!Price \in Nat /\ D!Price >= BidGrid
<1>1. D!Price \in Nat /\ OnGrid(D!Price, BidGrid) /\ D!Price > 0
  BY DutchPriceBounds DEF D!Sellable
<1>2. BidGrid \in Nat \ {0}
  BY DutchConstants DEF DutchIInv
<1>3. SUFFICES ASSUME D!Price < BidGrid PROVE FALSE
  BY <1>1, <1>2
<1>4. D!Price = 0
  BY <1>1, <1>2, <1>3, SmallOnGrid
<1> QED
  BY <1>1, <1>4

LEMMA DutchStepSale == DutchIInv /\ [D!Next]_(D!vars) => [D!DVP!SaleNext]_(D!DVP!saleVars)
<1> SUFFICES ASSUME DutchIInv, [D!Next]_(D!vars) PROVE [D!DVP!SaleNext]_(D!DVP!saleVars)
  OBVIOUS
<1>1. CASE UNCHANGED <<dStatus, dItemAmount, dSale>>
  BY <1>1 DEF D!DVP!saleVars, D!Stage
<1>2. ASSUME NEW a \in Bidders, D!Fund(a) PROVE D!DVP!SaleNext
  BY <1>2 DEF D!Fund, D!Stage, D!terms, D!DVP!SaleNext, D!DVP!List
<1>3. ASSUME NEW a \in Bidders, D!Cancel(a) PROVE D!DVP!SaleNext
  BY <1>3 DEF D!Cancel, D!Cancellable, D!Stage, D!terms, D!DVP!SaleNext, D!DVP!Return
<1>4. ASSUME NEW a \in Bidders, D!Buy(a) PROVE D!DVP!SaleNext
  <2>1. /\ dStatus = "ACTIVE" /\ dStatus' = "SOLD"
        /\ dSale' = [item |-> dItemAmount, paid |-> D!Price]
    BY <1>4, DutchBuyStep
  <2>2. D!Price >= BidGrid
    BY <1>4, <2>1, DutchPriceWorthSelling DEF D!Buy
  <2>3. dItemAmount' = dItemAmount
    BY <1>4 DEF D!Buy, D!terms
  <2> QED
    BY <2>1, <2>2, <2>3 DEF D!Stage, D!DVP!SaleNext, D!DVP!Trade
<1>5. ASSUME NEW a \in Bidders, \/ \E q \in 1..dItemWallet[a] : D!DepositItem(a, q)
                                \/ \E q \in 1..dBidWallet[a] : D!DepositBid(a, q)
                                \/ D!BuyUnderpaid(a)
      PROVE  UNCHANGED <<dStatus, dItemAmount, dSale>>
  BY <1>5 DEF D!DepositItem, D!DepositBid, D!BuyUnderpaid, D!terms, D!store
<1>6. CASE D!NextBlock \/ UNCHANGED D!vars
  BY <1>1, <1>6 DEF D!NextBlock, D!vars, D!terms, D!store
<1> QED
  BY <1>1, <1>2, <1>3, <1>4, <1>5, <1>6 DEF D!Next

(* A Dutch auction is a delivery against payment of at least one base unit   *)
(* of the bid tick, whatever the curve does to the price.                    *)
THEOREM DutchDeliversAgainstPayment == D!Assumption /\ D!Spec => D!ImplementsSale
<1>1. D!Assumption /\ D!Spec => []DutchIInv
  BY DutchInitIInv, DutchStepIInv, PTL DEF D!Spec
<1> QED
  BY <1>1, DutchInitSale, DutchStepSale, PTL DEF D!Spec, D!ImplementsSale, D!DVP!SaleSpec

-----------------------------------------------------------------------------
(* Crowdsale. *)

HIDE DutchGrid

(* The operators on grids that its instance brings with it are the same.     *)
LEMMA CrowdGrid ==
    \A q, g : /\ C!FloorTo(q, g) = FloorTo(q, g)
              /\ C!HalfUp(q, g) = HalfUp(q, g)
  BY DEF C!FloorTo, C!HalfUp, FloorTo, HalfUp

USE CrowdGrid

(* What the buyers have contributed, and the tokens that buys them.          *)
CrowdSum(f) == SumFunctionOnSet(f, Addr)

CrowdTokensOf(f) == [a \in Addr |-> C!Tokens(f[a])]

LEMMA CrowdSumOfAll ==
    ASSUME NEW f, DOMAIN f = Addr
    PROVE  C!SumFunction(f) = CrowdSum(f)
  BY DEF C!SumFunction, C!FoldFunction, C!SumFunctionOnSet, C!FoldFunctionOnSet,
         C!MapThenFoldSet, CrowdSum, SumFunctionOnSet, FoldFunctionOnSet, MapThenFoldSet

(* The inductive invariant.  While the sale is open everything recorded is   *)
(* in custody and nothing has left it;                                       *)
CrowdOpen == cStatus = "OPEN" => /\ CrowdSum(c) = cRaised
                                 /\ cAccounted <= cPayHeld
                                 /\ cRaised <= HardCap
                                 /\ cSaleHeld = HalfUp(HardCap * Rate, SaleGrid)
                                 /\ \A a \in Addr : cSaleWallet[a] = 0

(* what is owed is covered, in sums over the addresses;                      *)
CrowdCovered == /\ cStatus # "SUCCESS" => CrowdSum(c) <= cPayHeld
                /\ cStatus # "FAILED" => CrowdSum(CrowdTokensOf(c)) <= cSaleHeld
                /\ cStatus = "SUCCESS" /\ ~cWithdrawn => cRaised <= cPayHeld

(* no part of a payment that is kept buys nothing;                           *)
CrowdNothingForFree == \A a \in Addr : c[a] > 0 => C!Tokens(c[a] - 1) < C!Tokens(c[a])

(* and a closed sale is settled by what was bought in it.                    *)
CrowdSettled ==
    cStatus # "OPEN" =>
       /\ (cStatus = "SUCCESS") = (CrowdSum(cBought) >= SoftCap)
       /\ \A a \in Addr :
             cSaleWallet[a] = IF cStatus = "SUCCESS"
                              THEN C!Tokens(cBought[a]) - C!Tokens(c[a]) ELSE 0

CrowdIInv == /\ C!Assumption
             /\ C!TypeOK
             /\ cAccounted = cRaised
             /\ CrowdOpen /\ CrowdCovered /\ CrowdNothingForFree /\ CrowdSettled

LEMMA CrowdConstants ==
    ASSUME C!Assumption
    PROVE  /\ IsFiniteSet(Addr) /\ Owner \in Addr
           /\ Rate \in Nat \ {0} /\ SaleGrid \in Nat \ {0}
           /\ SoftCap \in Nat \ {0} /\ HardCap \in Nat
           /\ SaleBlocks \in Nat \ {0} /\ PayFunds \in [Addr -> Nat]
           /\ SaleMaxHeight \in Nat
  BY DEF C!Assumption, C!IsFiniteSet, IsFiniteSet

-----------------------------------------------------------------------------
(* What a payment buys.                                                      *)

(* Tokens are whole base units of saleTick, of no more than was paid for.    *)
LEMMA CrowdTokensBounds ==
    ASSUME C!Assumption, NEW q \in Nat
    PROVE  /\ q * Rate \in Nat
           /\ C!Tokens(q) \in 0..(q * Rate)
           /\ OnGrid(C!Tokens(q), SaleGrid)
<1>1. Rate \in Nat /\ SaleGrid \in Nat \ {0}
  BY CrowdConstants
<1>2. q * Rate \in Nat
  BY <1>1
<1> QED
  BY <1>1, <1>2, FloorToBounds, FloorToOnGrid DEF C!Tokens

LEMMA CrowdTokensMonotone ==
    ASSUME C!Assumption, NEW p \in Nat, NEW q \in Nat, p <= q
    PROVE  C!Tokens(p) <= C!Tokens(q)
<1>1. Rate \in Nat /\ SaleGrid \in Nat \ {0}
  BY CrowdConstants
<1>2. p * Rate \in Nat /\ q * Rate \in Nat /\ p * Rate <= q * Rate
  BY <1>1, ProductMonotone
<1> QED
  BY <1>1, <1>2, FloorToMonotone DEF C!Tokens

LEMMA CrowdNoTokens == ASSUME C!Assumption PROVE C!Tokens(0) = 0
  BY CrowdTokensBounds, CrowdConstants

(* Accepted(total) is no more than was offered, and held back by one base    *)
(* unit it would buy less.                                                   *)
LEMMA CrowdAcceptedBounds ==
    ASSUME C!Assumption, NEW total \in Nat
    PROVE  /\ C!Accepted(total) \in 0..total
           /\ C!Accepted(total) > 0
                => C!Tokens(C!Accepted(total) - 1) < C!Tokens(C!Accepted(total))
<1> DEFINE t == C!Tokens(total)
           q == C!Accepted(total)
<1>1. Rate \in Nat \ {0} /\ SaleGrid \in Nat \ {0}
  BY CrowdConstants
<1>2. t \in Nat /\ total * Rate \in Nat /\ t <= total * Rate
  BY CrowdTokensBounds
<1>3. CASE t = total * Rate
  <2>1. q = total
    BY <1>3 DEF C!Accepted
  <2>2. ASSUME total > 0 PROVE C!Tokens(total - 1) < t
    <3>1. total - 1 \in Nat
      BY <2>2
    <3>2. C!Tokens(total - 1) \in Nat /\ C!Tokens(total - 1) <= (total - 1) * Rate
      BY <3>1, CrowdTokensBounds
    <3>3. (total - 1) * Rate = total * Rate - Rate
      BY <1>1
    <3> HIDE DEF t
    <3> QED
      BY <1>1, <1>2, <1>3, <3>2, <3>3, <3>1
  <2> QED
    BY <2>1, <2>2
<1>4. CASE t # total * Rate
  <2>1. q = (t + Rate - 1) \div Rate
    BY <1>4 DEF C!Accepted
  <2>2. q \in Nat /\ q * Rate >= t /\ q * Rate < t + Rate
    <3>1. PICK x \in Nat : x = t + Rate - 1
      BY <1>1, <1>2
    <3>2. /\ x = Rate * (x \div Rate) + (x % Rate)
          /\ x % Rate \in 0..Rate - 1 /\ x \div Rate \in Nat
      BY <1>1, QuotientRemainder
    <3>3. q = x \div Rate
      BY <2>1, <3>1
    <3>4. q * Rate = Rate * q /\ q \in Nat
      BY <1>1, <3>2, <3>3
    <3>5. q * Rate \in Nat
      BY <1>1, <3>4
    <3> HIDE DEF t, q
    <3> QED
      BY <1>1, <1>2, <3>1, <3>2, <3>3, <3>4, <3>5
  <2>3. q <= total
    <3>1. SUFFICES ASSUME q >= total + 1 PROVE FALSE
      BY <2>2
    <3>2. (total + 1) * Rate <= q * Rate
      BY <1>1, <2>2, <3>1, ProductMonotone
    <3>3. (total + 1) * Rate = total * Rate + Rate
      BY <1>1
    <3>4. q * Rate \in Nat
      BY <1>1, <2>2
    <3> HIDE DEF t, q
    <3> QED
      BY <1>1, <1>2, <2>2, <3>2, <3>3, <3>4
  <2>4. ASSUME q > 0 PROVE C!Tokens(q - 1) < C!Tokens(q)
    <3>1. q - 1 \in Nat
      BY <2>2, <2>4
    <3>2. C!Tokens(q - 1) \in Nat /\ C!Tokens(q - 1) <= (q - 1) * Rate
      BY <3>1, CrowdTokensBounds
    <3>3. (q - 1) * Rate = q * Rate - Rate
      BY <1>1, <2>2
    <3>4. FloorTo(t, SaleGrid) = t
      BY CrowdTokensBounds DEF OnGrid
    <3>5. q * Rate \in Nat
      BY <1>1, <2>2
    <3>6. t <= C!Tokens(q)
      BY <1>1, <1>2, <2>2, <3>4, <3>5, FloorToMonotone DEF C!Tokens
    <3>7. C!Tokens(q) \in Nat
      BY <2>2, CrowdTokensBounds
    <3> HIDE DEF t, q
    <3> QED
      BY <1>1, <1>2, <2>2, <3>2, <3>3, <3>5, <3>6, <3>7
  <2> QED
    BY <2>2, <2>3, <2>4
<1> QED
  BY <1>3, <1>4

(* All that has been sold is whole base units, of no more than was paid for. *)
LEMMA CrowdTokensOfAll ==
    ASSUME C!Assumption, NEW f \in [Addr -> Nat]
    PROVE  /\ CrowdSum(f) \in Nat /\ CrowdSum(CrowdTokensOf(f)) \in Nat
           /\ OnGrid(CrowdSum(CrowdTokensOf(f)), SaleGrid)
           /\ CrowdSum(CrowdTokensOf(f)) <= Rate * CrowdSum(f)
<1> DEFINE u == CrowdTokensOf(f)
           Good(T) == OnGrid(SumFunctionOnSet(u, T), SaleGrid)
                      /\ SumFunctionOnSet(u, T) <= Rate * SumFunctionOnSet(f, T)
           B == {T \in SUBSET Addr : Good(T)}
<1>1. IsFiniteSet(Addr) /\ Rate \in Nat \ {0} /\ SaleGrid \in Nat \ {0}
  BY CrowdConstants
<1>2. \A a \in Addr : /\ f[a] \in Nat /\ u[a] \in Nat /\ u[a] <= Rate * f[a]
                      /\ OnGrid(u[a], SaleGrid)
  <2> TAKE a \in Addr
  <2>1. f[a] \in Nat /\ u[a] = C!Tokens(f[a])
    BY DEF CrowdTokensOf
  <2>2. f[a] * Rate = Rate * f[a]
    BY <1>1, <2>1
  <2> QED
    BY <2>1, <2>2, CrowdTokensBounds
<1> HIDE DEF u
<1>3. \A T \in SUBSET Addr : SumFunctionOnSet(u, T) \in Nat /\ SumFunctionOnSet(f, T) \in Nat
  <2> TAKE T \in SUBSET Addr
  <2>1. IsFiniteSet(T)
    BY <1>1, FS_Subset
  <2> QED
    BY <1>2, <2>1, SumNat
<1>4. {} \in B
  <2>1. SumFunctionOnSet(u, {}) = 0 /\ SumFunctionOnSet(f, {}) = 0
    BY SumEmpty
  <2>2. OnGrid(0, SaleGrid) /\ 0 <= Rate * 0
    BY <1>1, ZeroOnGrid
  <2> QED
    BY <2>1, <2>2
<1>5. ASSUME NEW T \in SUBSET Addr, NEW x \in Addr, T \in B, x \notin T
      PROVE  T \cup {x} \in B
  <2>1. IsFiniteSet(T)
    BY <1>1, FS_Subset
  <2>2. /\ SumFunctionOnSet(u, T \cup {x}) = SumFunctionOnSet(u, T) + u[x]
        /\ SumFunctionOnSet(f, T \cup {x}) = SumFunctionOnSet(f, T) + f[x]
    <3>1. x \notin T
      BY <1>5
    <3>2. \A a \in T \cup {x} : u[a] \in Int /\ f[a] \in Int
      BY <1>2
    <3> HIDE DEF B
    <3> QED
      BY <2>1, <3>1, <3>2, SumAdd
  <2> DEFINE p == SumFunctionOnSet(u, T)
             q == SumFunctionOnSet(f, T)
             m == u[x]
             n == f[x]
  <2>3. p \in Nat /\ q \in Nat /\ m \in Nat /\ n \in Nat
    BY <1>2, <1>3
  <2>4. OnGrid(p + m, SaleGrid)
    BY <1>1, <1>2, <1>5, <2>3, GridSum
  <2>5. Rate * (q + n) = Rate * q + Rate * n /\ Rate * q \in Nat /\ Rate * n \in Nat
    <3> HIDE DEF p, q, m, n
    <3> QED
      BY <1>1, <2>3
  <2>6. p <= Rate * q /\ m <= Rate * n
    BY <1>2, <1>5, <2>3
  <2>7. p + m <= Rate * (q + n)
    <3> HIDE DEF p, q, m, n
    <3> QED
      BY <2>3, <2>5, <2>6
  <2> QED
    BY <2>2, <2>3, <2>4, <2>7
<1>6. Addr \in B
  <2>1. \A T \in SUBSET Addr, x \in Addr : T \in B /\ x \notin T => T \cup {x} \in B
    BY <1>5
  <2> HIDE DEF B
  <2> QED
    BY <1>1, <1>4, <2>1, SubsetInduction
<1> QED
  BY <1>3, <1>6 DEF u, CrowdSum

(* The inventory minted at deploy covers what any raise within the cap buys. *)
LEMMA CrowdInventoryCovers ==
    ASSUME C!Assumption, NEW f \in [Addr -> Nat], CrowdSum(f) <= HardCap
    PROVE  CrowdSum(CrowdTokensOf(f)) <= HalfUp(HardCap * Rate, SaleGrid)
<1> DEFINE x == HardCap * Rate
           s == CrowdSum(CrowdTokensOf(f))
           low == FloorTo(x, SaleGrid)
           minted == HalfUp(x, SaleGrid)
<1>1. SaleGrid \in Nat \ {0} /\ Rate \in Nat /\ HardCap \in Nat /\ x \in Nat
  BY CrowdConstants
<1>2. /\ CrowdSum(f) \in Nat /\ s \in Nat /\ OnGrid(s, SaleGrid) /\ s <= Rate * CrowdSum(f)
  BY CrowdTokensOfAll
<1>3. Rate * CrowdSum(f) <= x /\ Rate * CrowdSum(f) \in Nat
  BY <1>1, <1>2, ProductMonotone
<1>4. s <= x
  <2> HIDE DEF s, x
  <2> QED
    BY <1>1, <1>2, <1>3
<1>5. s <= low
  <2>1. FloorTo(s, SaleGrid) = s
    BY <1>2 DEF OnGrid
  <2> HIDE DEF s, x
  <2> QED
    BY <1>1, <1>2, <1>4, <2>1, FloorToMonotone
<1>6. low \in 0..x /\ OnGrid(low, SaleGrid)
  BY <1>1, FloorToBounds, FloorToOnGrid
<1>7. minted \in Nat /\ OnGrid(minted, SaleGrid) /\ 2 * minted > 2 * x - SaleGrid
  BY <1>1, LedgerRounds
<1> HIDE DEF s, x, low, minted
<1>8. low <= minted
  <2> SUFFICES ASSUME minted < low PROVE FALSE
    BY <1>6, <1>7
  <2>1. minted \in 0..low /\ low \in Nat /\ low - minted \in Nat /\ low - minted < SaleGrid
    BY <1>1, <1>6, <1>7
  <2>2. OnGrid(low - minted, SaleGrid)
    BY <1>1, <1>6, <1>7, <2>1, GridDifference
  <2>3. low - minted = 0
    BY <1>1, <2>1, <2>2, SmallOnGrid
  <2> QED
    BY <1>6, <1>7, <2>3
<1> QED
  BY <1>2, <1>5, <1>6, <1>7, <1>8 DEF s, minted, x

-----------------------------------------------------------------------------
(* The initial state and the steps.                                          *)

LEMMA CrowdInitIInv == C!Assumption /\ C!Init => CrowdIInv
<1> SUFFICES ASSUME C!Assumption, C!Init PROVE CrowdIInv
  OBVIOUS
<1>1. /\ IsFiniteSet(Addr) /\ SaleGrid \in Nat \ {0} /\ HardCap \in Nat
      /\ SaleMaxHeight \in Nat
      /\ PayFunds \in [Addr -> Nat] /\ HardCap * Rate \in Nat
  BY CrowdConstants
<1>2. c \in [Addr -> Nat] /\ \A a \in Addr : c[a] = 0
  BY DEF C!Init
<1>3. CrowdSum(c) = 0
  BY <1>1, <1>2, SumZero DEF CrowdSum
<1>4. CrowdSum(CrowdTokensOf(c)) <= HalfUp(HardCap * Rate, SaleGrid)
  BY <1>1, <1>2, <1>3, CrowdInventoryCovers
<1>5. HalfUp(HardCap * Rate, SaleGrid) \in Nat
  BY <1>1, LedgerRounds
<1>6. C!TypeOK
  <2>1. cSaleHeld \in Nat
    BY <1>5 DEF C!Init
  <2>2. /\ cSaleWallet \in [Addr -> Nat] /\ cPayWallet \in [Addr -> Nat]
        /\ cBought \in [Addr -> Nat]
    BY <1>1, <1>2 DEF C!Init
  <2>3. /\ cStatus = "OPEN" /\ cRaised \in Nat /\ cAccounted \in Nat
        /\ cWithdrawn \in BOOLEAN
        /\ cPayHeld \in Nat /\ cHeight \in 0..SaleMaxHeight
    <3>1. cStatus = "OPEN" /\ cWithdrawn = FALSE /\ cRaised = 0 /\ cAccounted = 0 /\ cPayHeld = 0
          /\ cHeight = 0
      BY DEF C!Init
    <3>2. cHeight \in 0..SaleMaxHeight
      BY <1>1, <3>1
    <3>3. cWithdrawn \in BOOLEAN
      BY <3>1, Zenon
    <3> QED
      BY <3>1, <3>2, <3>3
  <2> QED
    BY <1>2, <2>1, <2>2, <2>3 DEF C!TypeOK
<1> QED
  BY <1>1, <1>2, <1>3, <1>4, <1>6
     DEF C!Init, CrowdIInv, CrowdOpen, CrowdCovered, CrowdNothingForFree, CrowdSettled

(* What the figures are, in one place.                                       *)
LEMMA CrowdFigures ==
    ASSUME CrowdIInv
    PROVE  /\ IsFiniteSet(Addr)
           /\ cRaised \in Nat /\ cAccounted = cRaised
           /\ cPayHeld \in Nat /\ cSaleHeld \in Nat
           /\ c \in [Addr -> Nat] /\ cBought \in [Addr -> Nat]
           /\ cPayWallet \in [Addr -> Nat] /\ cSaleWallet \in [Addr -> Nat]
           /\ CrowdSum(c) \in Nat /\ CrowdSum(CrowdTokensOf(c)) \in Nat
  BY CrowdConstants, CrowdTokensOfAll DEF CrowdIInv, C!TypeOK

LEMMA CrowdNextBlockIInv == ASSUME CrowdIInv, C!NextBlock PROVE CrowdIInv'
<1>1. UNCHANGED <<cStatus, cRaised, cAccounted, cWithdrawn, c, cBought, cPayHeld, cPayWallet,
                  cSaleHeld, cSaleWallet>>
  BY DEF C!NextBlock, C!store, C!pay, C!sale
<1>2. cHeight' \in 0..SaleMaxHeight
  BY CrowdConstants DEF C!NextBlock, CrowdIInv, C!TypeOK
<1> QED
  BY <1>1, <1>2
       DEF CrowdIInv, C!TypeOK, CrowdOpen, CrowdCovered, CrowdNothingForFree, CrowdSettled,
           CrowdSum, CrowdTokensOf, C!Tokens

LEMMA CrowdDepositIInv ==
    ASSUME CrowdIInv, NEW a \in Addr, NEW q \in 1..cPayWallet[a], C!Deposit(a, q)
    PROVE  CrowdIInv'
<1>1. UNCHANGED <<cStatus, cRaised, cAccounted, cWithdrawn, c, cBought, cSaleHeld, cSaleWallet,
                  cHeight>>
  BY DEF C!Deposit, C!store, C!sale
<1>2. q \in Nat /\ cPayHeld' = cPayHeld + q /\ cPayHeld' \in Nat /\ cPayHeld' >= cPayHeld
  BY CrowdFigures DEF C!Deposit
<1>3. cPayWallet' \in [Addr -> Nat]
  BY CrowdFigures, <1>2 DEF C!Deposit
<1>4. C!TypeOK'
  BY <1>1, <1>2, <1>3 DEF CrowdIInv, C!TypeOK
<1>5. /\ CrowdOpen'
      /\ CrowdNothingForFree' /\ CrowdSettled'
  BY <1>1, <1>2, CrowdFigures
       DEF CrowdIInv, CrowdOpen, CrowdNothingForFree, CrowdSettled, CrowdSum
<1>6. CrowdCovered'
  BY <1>1, <1>2, CrowdFigures DEF CrowdIInv, CrowdCovered, CrowdSum, CrowdTokensOf, C!Tokens
<1> QED
  BY <1>1, <1>4, <1>5, <1>6 DEF CrowdIInv

LEMMA CrowdBuyIInv == ASSUME CrowdIInv, NEW a \in Addr, C!Buy(a) PROVE CrowdIInv'
<1> DEFINE total == c[a] + (cPayHeld - cAccounted)
           kept == C!Accepted(total)
<1>1. /\ UNCHANGED <<cStatus, cWithdrawn, cBought, cSaleHeld, cSaleWallet, cHeight>>
      /\ cStatus = "OPEN"
      /\ cPayHeld - cAccounted > 0
      /\ kept >= c[a]
      /\ cRaised + kept - c[a] <= HardCap
      /\ c' = [c EXCEPT ![a] = kept]
      /\ cRaised' = cRaised + kept - c[a]
      /\ cAccounted' = cPayHeld - (total - kept)
      /\ cPayHeld' = cPayHeld - (total - kept)
      /\ cPayWallet' = [cPayWallet EXCEPT ![a] = @ + (total - kept)]
  BY DEF C!Buy, C!SendPay, C!UnderCap, C!sale
<1>2. total \in Nat
  BY <1>1, CrowdFigures
<1>3. kept \in 0..total /\ (kept > 0 => C!Tokens(kept - 1) < C!Tokens(kept))
  BY <1>2, CrowdAcceptedBounds DEF CrowdIInv
<1>4. /\ c[a] \in Nat /\ CrowdSum(c) = cRaised /\ cRaised <= cPayHeld
      /\ cSaleHeld = HalfUp(HardCap * Rate, SaleGrid)
      /\ \A b \in Addr : cSaleWallet[b] = 0
  BY <1>1, CrowdFigures DEF CrowdIInv, CrowdOpen
<1> HIDE DEF kept
<1>5. c' \in [Addr -> Nat] /\ c'[a] = kept /\ \A b \in Addr \ {a} : c'[b] = c[b]
  BY <1>1, <1>2, <1>3, CrowdFigures
<1>6. CrowdSum(c') = cRaised'
  <2>1. CrowdSum(c') = CrowdSum(c) - c[a] + kept
    BY <1>2, <1>3, <1>5, CrowdFigures, SumUpdate DEF CrowdSum
  <2> QED
    BY <1>1, <1>2, <1>3, <1>4, <2>1, CrowdFigures
<1>7. /\ cPayHeld' \in Nat /\ cRaised' \in Nat
      /\ cAccounted' = cRaised' /\ cAccounted' = cPayHeld'
      /\ cRaised' <= HardCap
  BY <1>1, <1>2, <1>3, <1>4, CrowdFigures
<1>8. CrowdSum(CrowdTokensOf(c')) <= cSaleHeld'
  BY <1>1, <1>4, <1>5, <1>6, <1>7, CrowdInventoryCovers DEF CrowdIInv
<1>9. cPayWallet' \in [Addr -> Nat]
  <2>1. total - kept \in Nat
    BY <1>2, <1>3
  <2> QED
    BY <1>1, <2>1, CrowdFigures
<1>10. C!TypeOK'
  BY <1>1, <1>5, <1>7, <1>9 DEF CrowdIInv, C!TypeOK
<1>11. CrowdNothingForFree'
  <2> SUFFICES ASSUME NEW b \in Addr, c'[b] > 0 PROVE C!Tokens(c'[b] - 1) < C!Tokens(c'[b])
    BY DEF CrowdNothingForFree, C!Tokens
  <2> QED
    BY <1>3, <1>5 DEF CrowdIInv, CrowdNothingForFree
<1>12. CrowdOpen' /\ CrowdSettled'
  BY <1>1, <1>4, <1>6, <1>7, CrowdFigures DEF CrowdOpen, CrowdSettled, CrowdSum
<1>13. CrowdCovered'
  BY <1>1, <1>6, <1>7, <1>8, CrowdFigures
       DEF CrowdCovered, CrowdSum, CrowdTokensOf, C!Tokens
<1> QED
  BY <1>7, <1>10, <1>11, <1>12, <1>13 DEF CrowdIInv

LEMMA CrowdFinalizeIInv == ASSUME CrowdIInv, C!Finalize PROVE CrowdIInv'
<1>1. /\ UNCHANGED <<cRaised, cAccounted, cWithdrawn, c, cPayHeld, cPayWallet, cSaleHeld,
                     cSaleWallet, cHeight>>
      /\ cStatus = "OPEN" /\ cBought' = c
      /\ cStatus' = IF cRaised >= SoftCap THEN "SUCCESS" ELSE "FAILED"
  BY DEF C!Finalize, C!SoftCapMet, C!pay, C!sale
<1>2. /\ CrowdSum(c) = cRaised /\ cRaised <= cPayHeld
      /\ CrowdSum(CrowdTokensOf(c)) <= cSaleHeld
      /\ \A a \in Addr : cSaleWallet[a] = 0
  BY <1>1, CrowdFigures DEF CrowdIInv, CrowdOpen, CrowdCovered
<1>3. C!TypeOK' /\ CrowdNothingForFree'
  BY <1>1 DEF CrowdIInv, C!TypeOK, CrowdNothingForFree, C!Tokens
<1>4. CrowdOpen'
  BY <1>1 DEF CrowdOpen
<1>5. CrowdCovered'
  BY <1>1, <1>2, CrowdFigures DEF CrowdCovered, CrowdSum, CrowdTokensOf, C!Tokens
<1>6. CrowdSettled'
  <2>1. \A a \in Addr : C!Tokens(c[a]) \in Nat
    BY CrowdFigures, CrowdTokensBounds DEF CrowdIInv
  <2>2. (cStatus' = "SUCCESS") = (CrowdSum(cBought') >= SoftCap)
    BY <1>1, <1>2
  <2>3. \A a \in Addr : cSaleWallet'[a] = IF cStatus' = "SUCCESS"
                                         THEN C!Tokens(cBought'[a]) - C!Tokens(c'[a]) ELSE 0
    BY <1>1, <1>2, <2>1
  <2> QED
    BY <2>2, <2>3 DEF CrowdSettled, CrowdSum, C!Tokens
<1> QED
  BY <1>1, <1>3, <1>4, <1>5, <1>6 DEF CrowdIInv

(* A buyer whose contribution is turned into something has none left.        *)
LEMMA CrowdSpentFrame ==
    ASSUME CrowdIInv, NEW a \in Addr, c' = C!Spent(a)
    PROVE  /\ c' \in [Addr -> Nat] /\ c'[a] = 0 /\ \A b \in Addr \ {a} : c'[b] = c[b]
           /\ CrowdSum(c') = CrowdSum(c) - c[a]
           /\ CrowdSum(CrowdTokensOf(c')) = CrowdSum(CrowdTokensOf(c)) - C!Tokens(c[a])
           /\ CrowdSum(c') \in Nat /\ CrowdSum(CrowdTokensOf(c')) \in Nat
           /\ C!Tokens(c[a]) \in Nat
           /\ CrowdNothingForFree'
<1>1. c' \in [Addr -> Nat] /\ c'[a] = 0 /\ \A b \in Addr \ {a} : c'[b] = c[b]
  BY CrowdFigures DEF C!Spent
<1>2. CrowdSum(c') = CrowdSum(c) - c[a]
  <2>1. CrowdSum(c') = CrowdSum(c) - c[a] + 0
    BY <1>1, CrowdFigures, SumUpdate DEF CrowdSum
  <2> QED
    BY <2>1, CrowdFigures
<1>3. /\ \A b \in Addr : CrowdTokensOf(c)[b] \in Nat
      /\ CrowdTokensOf(c)[a] = C!Tokens(c[a]) /\ CrowdTokensOf(c')[a] = 0
      /\ \A b \in Addr \ {a} : CrowdTokensOf(c')[b] = CrowdTokensOf(c)[b]
  BY <1>1, CrowdFigures, CrowdTokensBounds, CrowdNoTokens DEF CrowdTokensOf, CrowdIInv
<1>4. CrowdSum(CrowdTokensOf(c')) = CrowdSum(CrowdTokensOf(c)) - C!Tokens(c[a])
  <2> DEFINE u == CrowdTokensOf(c)
             v == CrowdTokensOf(c')
  <2>1. IsFiniteSet(Addr)
    BY CrowdFigures
  <2>2. /\ \A b \in Addr : u[b] \in Nat /\ u[b] \in Int
        /\ v[a] = 0 /\ u[a] = C!Tokens(c[a])
        /\ \A b \in Addr \ {a} : v[b] = u[b]
    BY <1>3
  <2>3. CrowdSum(u) \in Nat
    BY CrowdFigures
  <2> HIDE DEF u, v
  <2>4. ASSUME NEW x, NEW y, y[a] \in Int, \A b \in Addr : x[b] \in Int,
               \A b \in Addr \ {a} : y[b] = x[b]
        PROVE  CrowdSum(y) = CrowdSum(x) - x[a] + y[a]
    BY <2>1, <2>4, SumUpdate DEF CrowdSum
  <2>5. v[a] \in Int
    BY <2>2
  <2>6. CrowdSum(v) = CrowdSum(u) - u[a] + v[a]
    BY <2>2, <2>4, <2>5
  <2>7. CrowdSum(v) = CrowdSum(u) - C!Tokens(c[a])
    BY <2>2, <2>3, <2>6
  <2> QED
    BY <2>7 DEF u, v
<1>5. CrowdNothingForFree'
  BY <1>1 DEF CrowdIInv, CrowdNothingForFree, C!Tokens
<1> QED
  BY <1>1, <1>2, <1>3, <1>4, <1>5, CrowdTokensOfAll DEF CrowdIInv

LEMMA CrowdClaimIInv == ASSUME CrowdIInv, NEW a \in Addr, C!Claim(a) PROVE CrowdIInv'
<1> DEFINE q == C!Tokens(c[a])
<1>1. /\ UNCHANGED <<cStatus, cRaised, cAccounted, cWithdrawn, cBought, cPayHeld,
                     cPayWallet, cHeight>>
      /\ cStatus = "SUCCESS" /\ c' = C!Spent(a)
      /\ HalfUp(q, SaleGrid) <= cSaleHeld
      /\ cSaleHeld' = cSaleHeld - HalfUp(q, SaleGrid)
      /\ cSaleWallet' = [cSaleWallet EXCEPT ![a] = @ + HalfUp(q, SaleGrid)]
  BY DEF C!Claim, C!SendSale, C!pay
<1>2. q \in Nat /\ HalfUp(q, SaleGrid) = q
  <2>1. q \in Nat /\ OnGrid(q, SaleGrid)
    BY CrowdFigures, CrowdTokensBounds DEF CrowdIInv
  <2>2. SaleGrid \in Nat \ {0}
    BY CrowdConstants DEF CrowdIInv
  <2> HIDE DEF q
  <2> QED
    BY <2>1, <2>2, LedgerKeepsGrid
<1> HIDE DEF q
<1>3. /\ cSaleHeld' \in Nat /\ cSaleHeld' = cSaleHeld - q
      /\ cSaleWallet' \in [Addr -> Nat]
      /\ cSaleWallet'[a] = cSaleWallet[a] + q
      /\ \A b \in Addr \ {a} : cSaleWallet'[b] = cSaleWallet[b]
  BY <1>1, <1>2, CrowdFigures
<1>4. /\ c' \in [Addr -> Nat] /\ c'[a] = 0 /\ \A b \in Addr \ {a} : c'[b] = c[b]
      /\ CrowdSum(CrowdTokensOf(c')) = CrowdSum(CrowdTokensOf(c)) - q
      /\ CrowdSum(c') \in Nat
      /\ CrowdNothingForFree'
  BY <1>1, CrowdSpentFrame DEF q
<1>5. C!TypeOK'
  BY <1>1, <1>3, <1>4 DEF CrowdIInv, C!TypeOK
<1>6. CrowdOpen'
  BY <1>1 DEF CrowdOpen
<1>7. CrowdCovered'
  <2>1. CrowdSum(CrowdTokensOf(c)) <= cSaleHeld
    BY <1>1 DEF CrowdIInv, CrowdCovered
  <2>2. CrowdSum(CrowdTokensOf(c')) <= cSaleHeld'
    BY <1>2, <1>3, <1>4, <2>1, CrowdFigures
  <2> QED
    BY <1>1, <2>2 DEF CrowdIInv, CrowdCovered, CrowdSum, CrowdTokensOf, C!Tokens
<1>8. CrowdSettled'
  <2>1. \A b \in Addr : cSaleWallet[b] = C!Tokens(cBought[b]) - C!Tokens(c[b])
    BY <1>1 DEF CrowdIInv, CrowdSettled
  <2>2. \A b \in Addr : C!Tokens(cBought[b]) \in Nat
    BY CrowdFigures, CrowdTokensBounds DEF CrowdIInv
  <2>3. cSaleWallet'[a] = C!Tokens(cBought[a]) - C!Tokens(c'[a])
    <3>1. C!Tokens(c'[a]) = 0
      BY <1>4, CrowdNoTokens DEF CrowdIInv
    <3>2. cSaleWallet[a] = C!Tokens(cBought[a]) - q
      BY <2>1 DEF q
    <3> QED
      BY <1>2, <1>3, <2>2, <3>1, <3>2, CrowdFigures
  <2>4. \A b \in Addr : cSaleWallet'[b] = C!Tokens(cBought[b]) - C!Tokens(c'[b])
    BY <1>3, <1>4, <2>1, <2>3
  <2> QED
    BY <1>1, <2>4 DEF CrowdIInv, CrowdSettled, CrowdSum, C!Tokens
<1> QED
  BY <1>1, <1>4, <1>5, <1>6, <1>7, <1>8 DEF CrowdIInv

LEMMA CrowdRefundIInv == ASSUME CrowdIInv, NEW a \in Addr, C!Refund(a) PROVE CrowdIInv'
<1>1. /\ UNCHANGED <<cStatus, cRaised, cAccounted, cWithdrawn, cBought, cSaleHeld, cSaleWallet,
                     cHeight>>
      /\ cStatus = "FAILED" /\ c' = C!Spent(a)
      /\ c[a] <= cPayHeld
      /\ cPayHeld' = cPayHeld - c[a]
      /\ cPayWallet' = [cPayWallet EXCEPT ![a] = @ + c[a]]
  BY DEF C!Refund, C!SendPay, C!sale
<1>2. cPayHeld' \in Nat /\ cPayWallet' \in [Addr -> Nat]
  BY <1>1, CrowdFigures
<1>3. /\ c' \in [Addr -> Nat]
      /\ CrowdSum(c') = CrowdSum(c) - c[a]
      /\ CrowdNothingForFree'
  BY <1>1, CrowdSpentFrame
<1>4. C!TypeOK'
  BY <1>1, <1>2, <1>3 DEF CrowdIInv, C!TypeOK
<1>5. CrowdOpen'
  BY <1>1 DEF CrowdOpen
<1>6. CrowdCovered'
  <2>1. CrowdSum(c) <= cPayHeld
    BY <1>1 DEF CrowdIInv, CrowdCovered
  <2>2. CrowdSum(c') <= cPayHeld'
    BY <1>1, <1>3, <2>1, CrowdFigures
  <2> QED
    BY <1>1, <2>2 DEF CrowdCovered, CrowdSum
<1>7. CrowdSettled'
  BY <1>1 DEF CrowdIInv, CrowdSettled, CrowdSum
<1> QED
  BY <1>1, <1>3, <1>4, <1>5, <1>6, <1>7 DEF CrowdIInv

LEMMA CrowdWithdrawIInv == ASSUME CrowdIInv, C!Withdraw PROVE CrowdIInv'
<1>1. /\ UNCHANGED <<cStatus, cRaised, cAccounted, c, cBought, cSaleHeld, cSaleWallet, cHeight>>
      /\ cStatus = "SUCCESS" /\ cWithdrawn' = TRUE
      /\ cRaised <= cPayHeld
      /\ cPayHeld' = cPayHeld - cRaised
      /\ cPayWallet' = [cPayWallet EXCEPT ![Owner] = @ + cRaised]
  BY DEF C!Withdraw, C!SendPay, C!sale
<1>2. cPayHeld' \in Nat /\ cPayWallet' \in [Addr -> Nat]
  BY <1>1, CrowdFigures, CrowdConstants DEF CrowdIInv
<1>3. C!TypeOK'
  BY <1>1, <1>2 DEF CrowdIInv, C!TypeOK
<1>4. CrowdOpen' /\ CrowdSettled' /\ CrowdNothingForFree'
  BY <1>1 DEF CrowdIInv, CrowdOpen, CrowdSettled, CrowdNothingForFree, CrowdSum, C!Tokens
<1>5. CrowdCovered'
  BY <1>1 DEF CrowdIInv, CrowdCovered, CrowdSum, CrowdTokensOf, C!Tokens
<1> QED
  BY <1>1, <1>3, <1>4, <1>5 DEF CrowdIInv

LEMMA CrowdStepIInv == CrowdIInv /\ [C!Next]_(C!vars) => CrowdIInv'
<1> SUFFICES ASSUME CrowdIInv, [C!Next]_(C!vars) PROVE CrowdIInv'
  OBVIOUS
<1>1. CASE C!NextBlock
  BY <1>1, CrowdNextBlockIInv
<1>2. ASSUME NEW a \in Addr, NEW q \in 1..cPayWallet[a], C!Deposit(a, q) PROVE CrowdIInv'
  BY <1>2, CrowdDepositIInv
<1>3. ASSUME NEW a \in Addr, C!Buy(a) PROVE CrowdIInv'
  BY <1>3, CrowdBuyIInv
<1>4. ASSUME NEW a \in Addr, C!Claim(a) PROVE CrowdIInv'
  BY <1>4, CrowdClaimIInv
<1>5. ASSUME NEW a \in Addr, C!Refund(a) PROVE CrowdIInv'
  BY <1>5, CrowdRefundIInv
<1>6. CASE C!Finalize
  BY <1>6, CrowdFinalizeIInv
<1>7. CASE C!Withdraw
  BY <1>7, CrowdWithdrawIInv
<1>8. CASE UNCHANGED C!vars
  BY <1>8
       DEF CrowdIInv, C!TypeOK, CrowdOpen, CrowdCovered, CrowdNothingForFree, CrowdSettled,
           CrowdSum, CrowdTokensOf, C!Tokens,
              C!vars, C!store, C!pay, C!sale
<1> QED
  BY <1>1, <1>2, <1>3, <1>4, <1>5, <1>6, <1>7, <1>8 DEF C!Next

LEMMA CrowdAlways == C!Assumption /\ C!Spec => []CrowdIInv
  BY CrowdInitIInv, CrowdStepIInv, PTL DEF C!Spec

(* Custody covers every refund, every token and the owner's proceeds, in     *)
(* whatever order buyers deposit, buy and collect, and however the ledger    *)
(* rounds the inventory it mints.                                            *)
THEOREM CrowdOwesNoMore == C!Assumption /\ C!Spec => [](C!TypeOK /\ C!OwedIsCovered)
<1>1. CrowdIInv => C!TypeOK /\ C!OwedIsCovered
  <2> SUFFICES ASSUME CrowdIInv PROVE C!TypeOK /\ C!OwedIsCovered
    OBVIOUS
  <2>1. C!SumFunction(c) = CrowdSum(c)
    BY CrowdFigures, CrowdSumOfAll
  <2>2. C!SumFunction([a \in Addr |-> C!Tokens(c[a])]) = CrowdSum(CrowdTokensOf(c))
    BY CrowdSumOfAll DEF CrowdTokensOf
  <2> QED
    BY <2>1, <2>2 DEF CrowdIInv, CrowdCovered, C!OwedIsCovered
<1> QED
  BY <1>1, CrowdAlways, PTL

(* A closed sale settles exactly what was bought in it, and no part of a     *)
(* payment it kept bought nothing.                                           *)
THEOREM CrowdSettles == C!Assumption /\ C!Spec => []C!SettledAsBought
<1>1. CrowdIInv => C!SettledAsBought
  <2> SUFFICES ASSUME CrowdIInv PROVE C!SettledAsBought
    OBVIOUS
  <2>1. C!SumFunction(cBought) = CrowdSum(cBought)
    BY CrowdFigures, CrowdSumOfAll
  <2> QED
    BY <2>1 DEF CrowdIInv, CrowdNothingForFree, CrowdSettled, C!SettledAsBought
<1> QED
  BY <1>1, CrowdAlways, PTL

-----------------------------------------------------------------------------
(* Sales.  A deployment of one template behaves as that template says, and   *)
(* the other two as their Init left them.                                    *)

LEMMA DeployedEnglish == SSpec => Spec
<1>1. SInit => Init
  BY DEF SInit
<1>2. [SNext]_all => [Next]_vars
  BY DEF SNext, OnlyEnglish, OnlyDutch, OnlyCrowd, all, english
<1> QED
  BY <1>1, <1>2, PTL DEF SSpec, Spec

LEMMA DeployedDutch == SSpec => D!Spec
<1>1. SInit => D!Init
  BY DEF SInit
<1>2. [SNext]_all => [D!Next]_(D!vars)
  BY DEF SNext, OnlyEnglish, OnlyDutch, OnlyCrowd, all, dutch,
         D!vars, D!terms, D!store, D!itemTick, D!bidTick
<1> QED
  BY <1>1, <1>2, PTL DEF SSpec, D!Spec

LEMMA DeployedCrowd == SSpec => C!Spec
<1>1. SInit => C!Init
  BY DEF SInit
<1>2. [SNext]_all => [C!Next]_(C!vars)
  BY DEF SNext, OnlyEnglish, OnlyDutch, OnlyCrowd, all, crowd,
         C!vars, C!store, C!pay, C!sale
<1> QED
  BY <1>1, <1>2, PTL DEF SSpec, C!Spec

(* However the deployment is set up, an English auction in it accounts for   *)
(* every bid and implements the delivery against payment, and a Dutch        *)
(* auction keeps its terms and implements it too.                            *)
THEOREM DeployedAuctionOutcome == SSpec => []Outcome
  BY DeployedEnglish, AuctionOutcome, PTL

THEOREM DeployedAuctionImplementsSale == SSpec => ImplementsSale
  BY DeployedEnglish, AuctionImplementsSale, PTL

THEOREM DeployedDutchKeepsTerms == SSpec => DutchTermsKept
  BY DeployedDutch, DutchKeepsTerms, SalesAssumption, PTL DEF DutchTermsKept

THEOREM DeployedDutchImplementsSale == SSpec => DutchImplementsSale
  BY DeployedDutch, DutchDeliversAgainstPayment, SalesAssumption, PTL DEF DutchImplementsSale

(* And custody covers whatever a crowdsale owes, which settles what was      *)
(* bought in it.                                                             *)
THEOREM DeployedCrowdOwes == SSpec => []CrowdOwedIsCovered
  BY DeployedCrowd, CrowdOwesNoMore, SalesAssumption, PTL DEF CrowdOwedIsCovered

THEOREM DeployedCrowdSettles == SSpec => []CrowdSettledAsBought
  BY DeployedCrowd, CrowdSettles, SalesAssumption, PTL DEF CrowdSettledAsBought
=============================================================================
