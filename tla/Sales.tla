-------------------------------- MODULE Sales --------------------------------
(***************************************************************************)
(* The three templates that sell something for a price, as one deployment  *)
(* sees them: template names the one that runs, an English auction, a      *)
(* Dutch auction or a crowdsale, and the variables of the other two keep   *)
(* the value their Init gives them.                                        *)
(***************************************************************************)
EXTENDS EnglishAuction

CONSTANTS Bidders, Prices, BidGrid, CurveBlocks, DutchItems, DutchBids, DutchMaxHeight,
          Owner, Rate, SaleGrid, SoftCap, HardCap, SaleBlocks, PayFunds, SaleMaxHeight

VARIABLES template,
          dSeller, dItemAmount, dStartPrice, dEndPrice, dStatus, dStart, dSoldPrice,
          dBuyer, dItemHeld, dBidHeld, dItemWallet, dBidWallet, dHeight, dSale,
          cStatus, cRaised, cAccounted, cWithdrawn, c, cPayHeld, cPayWallet,
          cSaleHeld, cSaleWallet, cHeight, cBought

D == INSTANCE DutchAuction
       WITH Addr <- Bidders, Duration <- CurveBlocks,
            ItemFunds <- DutchItems, BidFunds <- DutchBids, MaxHeight <- DutchMaxHeight,
            seller <- dSeller, itemAmount <- dItemAmount, startPrice <- dStartPrice,
            endPrice <- dEndPrice, status <- dStatus, start <- dStart,
            soldPrice <- dSoldPrice, buyer <- dBuyer, itemHeld <- dItemHeld,
            bidHeld <- dBidHeld, itemWallet <- dItemWallet, bidWallet <- dBidWallet,
            height <- dHeight, sale <- dSale

C == INSTANCE Crowdsale
       WITH Duration <- SaleBlocks, Funds <- PayFunds, MaxHeight <- SaleMaxHeight,
            status <- cStatus, raised <- cRaised, accountedPay <- cAccounted,
            withdrawn <- cWithdrawn, payHeld <- cPayHeld, payWallet <- cPayWallet,
            saleHeld <- cSaleHeld, saleWallet <- cSaleWallet, height <- cHeight,
            bought <- cBought

ASSUME SalesAssumption == D!Assumption /\ C!Assumption

-----------------------------------------------------------------------------
english == vars
dutch == <<dSeller, dItemAmount, dStartPrice, dEndPrice, dStatus, dStart, dSoldPrice,
           dBuyer, dItemHeld, dBidHeld, dItemWallet, dBidWallet, dHeight, dSale>>
crowd == <<cStatus, cRaised, cAccounted, cWithdrawn, c, cPayHeld, cPayWallet,
           cSaleHeld, cSaleWallet, cHeight, cBought>>
all == <<template, english, dutch, crowd>>

OnlyEnglish == template = "english" /\ UNCHANGED <<template, dutch, crowd>>
OnlyDutch == template = "dutch" /\ UNCHANGED <<template, english, crowd>>
OnlyCrowd == template = "crowdsale" /\ UNCHANGED <<template, english, dutch>>

SInit == /\ template \in {"english", "dutch", "crowdsale"}
         /\ Init /\ D!Init /\ C!Init

SNext == \/ OnlyEnglish /\ Next
         \/ OnlyDutch /\ D!Next
         \/ OnlyCrowd /\ C!Next

SSpec == SInit /\ [][SNext]_all

\* The fairness of each template's FairSpec.  A behaviour has one template, and a
\* crowdsale one outcome: fairness of a disjunction whose disjuncts belong to
\* different ones is fairness of each.
SFairness ==
    /\ WF_all(\/ OnlyEnglish /\ NextBlock
              \/ OnlyDutch /\ \E a \in Bidders : D!Buy(a)
              \/ OnlyCrowd /\ C!NextBlock)
    /\ WF_all((OnlyEnglish /\ Settle) \/ (OnlyCrowd /\ C!Finalize))
    /\ WF_all(OnlyCrowd /\ C!Withdraw)
    /\ \A a \in Addr : WF_all(OnlyCrowd /\ (C!Claim(a) \/ C!Refund(a)))

-----------------------------------------------------------------------------
(* The properties of the two instances, by names a run can give. *)

\* The terms of a Dutch auction are kept to the end: see TermsKept there.
DutchTermsKept == D!TermsKept

\* A Dutch auction is a delivery against payment: see ImplementsSale there.
DutchImplementsSale == D!ImplementsSale

\* A covered asking price ends a Dutch auction: see CoveredSells there.
DutchCoveredSells == D!CoveredSells

\* Custody covers whatever a crowdsale owes: see OwedIsCovered there.
CrowdOwedIsCovered == C!OwedIsCovered

\* What a crowdsale keeps and hands out is what was bought: see SettledAsBought there.
CrowdSettledAsBought == C!SettledAsBought

\* Nobody's contribution stays in a crowdsale: see EveryoneServed there.
CrowdEveryoneServed == C!EveryoneServed
=============================================================================
