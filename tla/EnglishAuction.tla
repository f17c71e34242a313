--------------------------- MODULE EnglishAuction ---------------------------
(***************************************************************************)
(* englishAuction/englishAuction.js: ascending bids for one item, the      *)
(* out-bid leader refunded by the bid that tops it, settled by anyone      *)
(* after the deadline.                                                     *)
(*                                                                         *)
(* A bid is a DEPOSIT of the bid tick followed by an EXECUTE of bid(), and *)
(* the DEPOSIT stands when bid() reverts; both are actions here and other  *)
(* calls may come between them.  Item amounts are counted in a unit of     *)
(* which ItemGrid make one base unit of the item tick, bid amounts in base *)
(* units of the bid tick.                                                  *)
(***************************************************************************)
EXTENDS Grid

CONSTANTS Addr, NoOne,
          ItemAmounts,  \* the values itemAmount is deployed with
          ItemGrid,     \* the item tick's grid
          MinBid,       \* minBid, positive
          Window,       \* deadlineBlocks
          ItemFunds,    \* what each address holds of the item tick at deploy
          BidFunds,     \* what each address holds of the bid tick at deploy
          MaxHeight     \* bound: the last block considered

ASSUME AuctionAssumption == /\ NoOne \notin Addr
                            /\ ItemGrid \in Nat \ {0}
                            /\ ItemAmounts \subseteq Nat \ {0}
                            /\ MinBid \in Nat \ {0}
                            /\ Window \in Nat \ {0}
                            /\ ItemFunds \in [Addr -> Nat]
                            /\ \A a \in Addr : OnGrid(ItemFunds[a], ItemGrid)
                            /\ BidFunds \in [Addr -> Nat]
                            /\ MaxHeight \in Nat

VARIABLES seller, itemAmount,     \* terms fixed by initialize()
          status, deadline, highBid, highBidder,
          itemHeld, bidHeld,      \* the contract's two balances
          itemWallet, bidWallet,  \* everyone else's
          height,
          fundedAt,               \* ghost: the block fund() ran in
          owed,                   \* ghost: accepted bids not yet given back
          sale                    \* ghost: what the settling step delivered

terms == <<seller, itemAmount>>
store == <<status, deadline, highBid, highBidder>>
ghosts == <<fundedAt, owed, sale>>
itemTick == <<itemHeld, itemWallet>>
bidTick == <<bidHeld, bidWallet>>
vars == <<terms, store, itemTick, bidTick, height, ghosts>>

Init == /\ seller \in Addr
        /\ itemAmount \in ItemAmounts
        /\ status = "INIT"
        /\ deadline = 0
        /\ highBid = 0
        /\ highBidder = NoOne
        /\ itemHeld = 0 /\ itemWallet = ItemFunds
        /\ bidHeld = 0 /\ bidWallet = BidFunds
        /\ height = 0
        /\ fundedAt = 0
        /\ owed = [a \in Addr |-> 0]
        /\ sale = [to |-> NoOne, item |-> 0, paid |-> 0, at |-> 0]

-----------------------------------------------------------------------------
(* The environment. *)

NextBlock == /\ height < MaxHeight
             /\ height' = height + 1
             /\ UNCHANGED <<terms, store, itemTick, bidTick, ghosts>>

DepositItem(a, q) == /\ q <= itemWallet[a]
                     /\ OnGrid(q, ItemGrid)
                     /\ itemWallet' = [itemWallet EXCEPT ![a] = @ - q]
                     /\ itemHeld' = itemHeld + q
                     /\ UNCHANGED <<terms, store, bidTick, height, ghosts>>

DepositBid(a, q) == /\ q <= bidWallet[a]
                    /\ bidWallet' = [bidWallet EXCEPT ![a] = @ - q]
                    /\ bidHeld' = bidHeld + q
                    /\ UNCHANGED <<terms, store, itemTick, height, ghosts>>

\* A SEND of item units: re-quantised, and refused with the whole EXECUTE when
\* custody does not cover it.
SendItem(to, q) ==
    LET moved == HalfUp(q, ItemGrid)
    IN  /\ moved <= itemHeld
        /\ itemHeld' = itemHeld - moved
        /\ itemWallet' = [itemWallet EXCEPT ![to] = @ + moved]

SendBid(to, q) == /\ q <= bidHeld
                  /\ bidHeld' = bidHeld - q
                  /\ bidWallet' = [bidWallet EXCEPT ![to] = @ + q]

-----------------------------------------------------------------------------
(* The contract's methods. *)

\* mutant: no grid check, so an amount the ledger will re-quantise is armed
AnyAmountFundable == itemHeld >= itemAmount
Fundable == itemHeld >= itemAmount /\ OnGrid(itemAmount, ItemGrid)

Fund(a) == /\ status = "INIT"
           /\ a = seller
           /\ Fundable
           /\ status' = "ACTIVE"
           /\ deadline' = height + Window
           /\ fundedAt' = height
           /\ UNCHANGED <<terms, highBid, highBidder, itemTick, bidTick,
                          height, owed, sale>>

\* mutant: the whole balance is read as the new bid
WholeBidBalance == bidHeld
NewBid == bidHeld - highBid

\* mutant: the topped leader is refunded the new bid
RefundsNewBid == IF highBidder = NoOne THEN UNCHANGED bidTick
                 ELSE SendBid(highBidder, NewBid)
RefundLeader == IF highBidder = NoOne THEN UNCHANGED bidTick
                ELSE SendBid(highBidder, highBid)

Bid(a) == /\ status = "ACTIVE"
          /\ height < deadline
          /\ a # highBidder
          /\ NewBid > 0 /\ NewBid >= MinBid /\ NewBid > highBid
          /\ RefundLeader
          /\ highBid' = NewBid
          /\ highBidder' = a
          /\ owed' = [b \in Addr |-> owed[b]
                        - (bidWallet'[b] - bidWallet[b])
                        + (IF b = a THEN NewBid ELSE 0)]
          /\ UNCHANGED <<terms, status, deadline, itemTick, height, fundedAt, sale>>

Sell == /\ highBidder # NoOne
        /\ status' = "SOLD"
        /\ SendItem(highBidder, itemAmount)
        /\ SendBid(seller, highBid)
        /\ owed' = [owed EXCEPT ![highBidder] = @ - highBid]
        /\ sale' = [to |-> highBidder, item |-> itemWallet'[highBidder] - itemWallet[highBidder],
                    paid |-> highBid, at |-> height]

Unsold == /\ highBidder = NoOne
          /\ status' = "UNSOLD"
          /\ SendItem(seller, itemAmount)
          /\ sale' = [sale EXCEPT !.at = height]
          /\ UNCHANGED <<bidTick, owed>>

Closed == height >= deadline

Settle == /\ status = "ACTIVE"
          /\ Closed
          /\ Sell \/ Unsold
          /\ UNCHANGED <<terms, deadline, highBid, highBidder, height, fundedAt>>

Cancellable == status \in {"INIT", "ACTIVE"} /\ highBidder = NoOne

CancelQuantity == IF status = "ACTIVE" THEN itemAmount ELSE itemHeld

Cancel(a) == /\ Cancellable
             /\ a = seller
             /\ CancelQuantity > 0
             /\ status' = "CANCELLED"
             /\ SendItem(seller, CancelQuantity)
             /\ UNCHANGED <<terms, deadline, highBid, highBidder, bidTick, height, ghosts>>

-----------------------------------------------------------------------------
Next == \/ NextBlock
        \/ \E a \in Addr : \/ \E q \in 1..itemWallet[a] : DepositItem(a, q)
                           \/ \E q \in 1..bidWallet[a] : DepositBid(a, q)
                           \/ Fund(a) \/ Bid(a) \/ Cancel(a)
        \/ Settle

Spec == Init /\ [][Next]_vars

\* Blocks keep coming and somebody (anybody may) keeps calling settle().
FairSpec == Spec /\ WF_vars(NextBlock) /\ WF_vars(Settle)

-----------------------------------------------------------------------------
Ended == {"SOLD", "UNSOLD", "CANCELLED"}

(* Type of every variable. *)
TypeOK == /\ seller \in Addr /\ itemAmount \in ItemAmounts
          /\ status \in {"INIT", "ACTIVE"} \cup Ended
          /\ deadline \in Nat /\ height \in Nat /\ fundedAt \in Nat
          /\ highBid \in Nat /\ highBidder \in Addr \cup {NoOne}
          /\ itemHeld \in Nat /\ itemWallet \in [Addr -> Nat]
          /\ bidHeld \in Nat /\ bidWallet \in [Addr -> Nat]
          /\ owed \in [Addr -> Int]
          /\ sale \in [to : Addr \cup {NoOne}, item : Nat, paid : Nat, at : Nat]

(* While the auction runs the contract holds the item and the standing bid,  *)
(* whatever was deposited, refunded or rejected since: no settle() or        *)
(* refund can fail for lack of custody.                                      *)
Solvent == status = "ACTIVE" => /\ itemHeld >= itemAmount
                                /\ bidHeld >= highBid
                                /\ highBid >= MinBid <=> highBidder # NoOne

(* Of all the bids ever accepted, exactly the leader's is outstanding, and   *)
(* only while the auction runs: whoever was topped has that bid back.  A     *)
(* sold auction delivered the whole itemAmount to the leader and the whole   *)
(* high bid to the seller, and none was settled before the window that       *)
(* opened at fund() had passed.                                              *)
Outcome ==
    /\ \A a \in Addr :
          owed[a] = IF status = "ACTIVE" /\ a = highBidder THEN highBid ELSE 0
    /\ status = "SOLD" => /\ sale.to = highBidder
                          /\ sale.item = itemAmount
                          /\ sale.paid = highBid
                          /\ sale.paid >= MinBid
    /\ status \in {"SOLD", "UNSOLD"} => sale.at >= fundedAt + Window

(* The auction is a delivery against payment: the item changes hands once,   *)
(* in full, against at least the reserve, or returns to the seller.          *)
Stage == IF status = "INIT" THEN "PREPARING"
         ELSE IF status = "ACTIVE" THEN "LISTED"
         ELSE IF status = "SOLD" THEN "TRADED" ELSE "RETURNED"

DVP == INSTANCE DeliveryVersusPayment
         WITH Reserve <- MinBid, stage <- Stage, item <- itemAmount,
              delivered <- sale.item, paid <- sale.paid

ImplementsSale == DVP!SaleSpec

(* An auction whose deadline comes within the horizon ends: no custody       *)
(* shortfall, rounding or stray deposit can leave item and bid locked.       *)
AuctionEnds == (status = "ACTIVE" /\ deadline <= MaxHeight) ~> (status \in Ended)
=============================================================================
