----------------------------- MODULE Crowdsale ------------------------------
(***************************************************************************)
(* crowdsale/crowdsale.js: buyers pay until a deadline or a hard cap; if   *)
(* the raise meets the soft cap they claim sale tokens and the owner takes *)
(* the proceeds, otherwise they are refunded.  The contract mints its      *)
(* whole inventory to itself at deploy.                                    *)
(*                                                                         *)
(* Payments and caps are counted in base units of payTick.  Sale tokens    *)
(* are counted in a unit of which SaleGrid make one base unit of saleTick; *)
(* one base unit of payTick buys Rate of them.                             *)
(***************************************************************************)
EXTENDS Grid, Functions, FiniteSets

CONSTANTS Addr,
          Owner,
          Rate, SaleGrid,
          SoftCap, HardCap,
          Duration,      \* durationBlocks
          Funds,         \* the payTick each address holds at deploy
          MaxHeight      \* bound: the last block considered

\* Assumed of the constants wherever the module is instantiated.
Assumption == /\ IsFiniteSet(Addr) /\ Owner \in Addr
              /\ Rate \in Nat \ {0} /\ SaleGrid \in Nat \ {0}
              /\ SoftCap \in Nat \ {0}
              /\ HardCap \in Nat /\ HardCap >= SoftCap
              /\ Duration \in Nat \ {0}
              /\ Funds \in [Addr -> Nat]
              /\ MaxHeight \in Nat

VARIABLES status, raised, accountedPay, withdrawn,
          c,                        \* the c:<addr> keys, 0 for none
          payHeld, payWallet, saleHeld, saleWallet,    \* the ledger
          height,
          bought                    \* ghost: c as it was when the sale was finalized

store == <<status, raised, accountedPay, withdrawn, c, bought>>
pay == <<payHeld, payWallet>>
sale == <<saleHeld, saleWallet>>
vars == <<store, pay, sale, height>>

\* initialize() runs at height 0: the deadline is Duration.  The inventory is
\* hardCap * rate, as the ledger rounds it.
Init == /\ status = "OPEN"
        /\ raised = 0 /\ accountedPay = 0
        /\ withdrawn = FALSE
        /\ c = [a \in Addr |-> 0] /\ bought = c
        /\ payHeld = 0 /\ payWallet = Funds
        /\ saleHeld = HalfUp(HardCap * Rate, SaleGrid)
        /\ saleWallet = [a \in Addr |-> 0]
        /\ height = 0

-----------------------------------------------------------------------------
(* The environment. *)

NextBlock == /\ height < MaxHeight
             /\ height' = height + 1
             /\ UNCHANGED <<store, pay, sale>>

Deposit(a, q) == /\ q <= payWallet[a]
                 /\ payWallet' = [payWallet EXCEPT ![a] = @ - q]
                 /\ payHeld' = payHeld + q
                 /\ UNCHANGED <<store, sale, height>>

SendPay(to, q) == /\ q <= payHeld
                  /\ payHeld' = payHeld - q
                  /\ payWallet' = [payWallet EXCEPT ![to] = @ + q]

SendSale(to, q) == LET moved == HalfUp(q, SaleGrid)
                   IN  /\ moved <= saleHeld
                       /\ saleHeld' = saleHeld - moved
                       /\ saleWallet' = [saleWallet EXCEPT ![to] = @ + moved]

-----------------------------------------------------------------------------
(* The contract. *)

\* mutant: the mint is left to the ledger's rounding
RawTokens(paid) == paid * Rate

Tokens(paid) == FloorTo(paid * Rate, SaleGrid)

\* mutant: the whole payment is kept
AllOfIt(total) == total

\* acceptedFor(): tokens / rate, rounded up to the pay grid, when the payment does
\* not buy whole sale units.
Accepted(total) == IF Tokens(total) = total * Rate THEN total
                   ELSE (Tokens(total) + Rate - 1) \div Rate

\* mutant: whoever buys first may overfill the sale
NoCap(q) == TRUE

UnderCap(q) == q <= HardCap

\* buy() is credited with whatever the balance grew by since the last one.
Buy(a) == LET contributed == payHeld - accountedPay
              total == c[a] + contributed
              accepted == Accepted(total)
              change == total - accepted
          IN  /\ status = "OPEN" /\ height < Duration
              /\ contributed > 0
              /\ accepted >= c[a]
              /\ UnderCap(raised + accepted - c[a])
              /\ c' = [c EXCEPT ![a] = accepted]
              /\ raised' = raised + accepted - c[a]
              /\ accountedPay' = payHeld - change
              /\ SendPay(a, change)
              /\ UNCHANGED <<status, withdrawn, bought, sale, height>>


SoftCapMet == raised >= SoftCap

Finalize == /\ status = "OPEN"
            /\ raised >= HardCap \/ height >= Duration
            /\ status' = IF SoftCapMet THEN "SUCCESS" ELSE "FAILED"
            /\ bought' = c
            /\ UNCHANGED <<raised, accountedPay, withdrawn, c, pay, sale, height>>

Spent(a) == [c EXCEPT ![a] = 0]

Claim(a) == /\ status = "SUCCESS"
            /\ c[a] > 0 /\ Tokens(c[a]) > 0
            /\ c' = Spent(a)
            /\ SendSale(a, Tokens(c[a]))
            /\ UNCHANGED <<status, raised, accountedPay, withdrawn, bought, pay, height>>

Refund(a) == /\ status = "FAILED"
             /\ c[a] > 0
             /\ c' = Spent(a)
             /\ SendPay(a, c[a])
             /\ UNCHANGED <<status, raised, accountedPay, withdrawn, bought, sale, height>>

Withdraw == /\ status = "SUCCESS"
            /\ ~withdrawn
            /\ withdrawn' = TRUE
            /\ SendPay(Owner, raised)
            /\ UNCHANGED <<status, raised, accountedPay, c, bought, sale, height>>

Next == \/ NextBlock
        \/ \E a \in Addr : \E q \in 1..payWallet[a] : Deposit(a, q)
        \/ \E a \in Addr : Buy(a) \/ Claim(a) \/ Refund(a)
        \/ Finalize \/ Withdraw

Spec == Init /\ [][Next]_vars

\* Blocks keep coming, anyone may finalize, and whoever is owed something asks.
FairSpec == /\ Spec
            /\ WF_vars(NextBlock) /\ WF_vars(Finalize) /\ WF_vars(Withdraw)
            /\ \A a \in Addr : WF_vars(Claim(a)) /\ WF_vars(Refund(a))

-----------------------------------------------------------------------------
(* Properties. *)

\* Type of every variable.
TypeOK == /\ status \in {"OPEN", "SUCCESS", "FAILED"}
          /\ raised \in Nat /\ accountedPay \in Nat
          /\ withdrawn \in BOOLEAN
          /\ c \in [Addr -> Nat] /\ bought \in [Addr -> Nat]
          /\ payHeld \in Nat /\ payWallet \in [Addr -> Nat]
          /\ saleHeld \in Nat /\ saleWallet \in [Addr -> Nat]
          /\ height \in 0..MaxHeight

\* Whatever the outcome, custody covers everything still owed: every refund of a sale
\* that may yet fail or has, every token of one that may yet succeed or has, and the
\* proceeds the owner has not taken.
OwedIsCovered ==
    /\ status # "SUCCESS" => SumFunction(c) <= payHeld
    /\ status # "FAILED" => SumFunction([a \in Addr |-> Tokens(c[a])]) <= saleHeld
    /\ status = "SUCCESS" /\ ~withdrawn => raised <= payHeld

\* No part of a payment that is kept buys nothing: a buyer who had held one base
\* unit back would have fewer tokens.  A closed sale is a success exactly when the
\* contributions it recorded reach the soft cap, and what a buyer has had of it since
\* is their own contribution's worth.
SettledAsBought ==
    /\ \A a \in Addr : c[a] > 0 => Tokens(c[a] - 1) < Tokens(c[a])
    /\ status # "OPEN" =>
         /\ (status = "SUCCESS") = (SumFunction(bought) >= SoftCap)
         /\ \A a \in Addr :
               saleWallet[a] = IF status = "SUCCESS" THEN Tokens(bought[a]) - Tokens(c[a])
                               ELSE 0

\* Nobody's contribution stays in the contract: a sale anybody bought in is closed,
\* each contribution is turned into tokens or refunded, and the owner of a successful
\* sale has the proceeds.
EveryoneServed ==
    (Duration <= MaxHeight /\ \E a \in Addr : c[a] > 0)
        ~> /\ status # "OPEN"
           /\ \A a \in Addr : c[a] = 0
           /\ status = "SUCCESS" => withdrawn
=============================================================================
