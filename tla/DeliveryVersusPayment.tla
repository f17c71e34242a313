----------------------- MODULE DeliveryVersusPayment ------------------------
(***************************************************************************)
(* What an auction template promises its two sides, whatever the pricing   *)
(* rule: the seller's item is listed, and then it either goes to one buyer *)
(* in full, in the step that pays the seller at least the reserve, or back *)
(* to the seller, who is then paid nothing.  Either way once.              *)
(***************************************************************************)
EXTENDS Integers

CONSTANT Reserve      \* the least a sale pays the seller

VARIABLES stage,      \* "PREPARING", "LISTED", "TRADED" or "RETURNED"
          item,       \* the size of the item
          delivered,  \* how much of the item reached a buyer
          paid        \* how much the seller was paid for it

saleVars == <<stage, item, delivered, paid>>

SaleInit == /\ stage = "PREPARING"
            /\ item \in Nat
            /\ delivered = 0
            /\ paid = 0

List == /\ stage = "PREPARING"
        /\ stage' = "LISTED"
        /\ UNCHANGED <<item, delivered, paid>>

Trade == /\ stage = "LISTED"
         /\ stage' = "TRADED"
         /\ delivered' = item
         /\ paid' >= Reserve
         /\ UNCHANGED item

Return == /\ stage \in {"PREPARING", "LISTED"}
          /\ stage' = "RETURNED"
          /\ UNCHANGED <<item, delivered, paid>>

SaleNext == List \/ Trade \/ Return

SaleSpec == SaleInit /\ [][SaleNext]_saleVars
=============================================================================
