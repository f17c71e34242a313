----------------------------- MODULE StableVault -----------------------------
(***************************************************************************)
(* stableVault/stableVault.js: vaults of one collateral tick against which *)
(* the contract mints its own stable tick, while                           *)
(*    collateral * price * 100 >= debt * MinRatioPct                       *)
(* as far as the tolerance of xchain.math.gte goes, and which anyone may   *)
(* liquidate below that.                                                   *)
(*                                                                         *)
(* MINT is public on XChain and initialize() locks nothing: within the     *)
(* supply cap anybody may mint the stable, and a holder may destroy it.    *)
(*                                                                         *)
(* A DEPOSIT carries no sender: deposit(), repay() and liquidate() credit  *)
(* their caller with whatever the contract holds beyond its books, which   *)
(* may be the leavings of somebody else's reverted call.                   *)
(*                                                                         *)
(* CollGrid and StableGrid of the units the amounts are counted in make    *)
(* one base unit of the collateral and of the stable.  The PRICE oracle is *)
(* external: rounds for this pair and for others finalise at any time, and *)
(* any of them may grow older than maxSnapshotAge.                         *)
(***************************************************************************)
EXTENDS Grid, FiniteSetsExt

CONSTANTS Addr,
          CollGrid, StableGrid,
          MinRatioPct, LiqBonusPct,
          MaxSupply,       \* the cap of the stable's ISSUE, scaled down
          RelTol, AbsTol,  \* of xchain.math.gte: one in RelTol, and AbsTol outright
          Prices,        \* the prices the oracle may publish
          Requests,      \* the amounts asked of borrow() and withdraw()
          Funds          \* the collateral each address holds at deploy

ASSUME VaultAssumption == /\ IsFiniteSet(Addr)
                          /\ CollGrid \in Nat \ {0} /\ StableGrid \in Nat \ {0}
                          /\ MinRatioPct \in Nat /\ MinRatioPct > 100
                          /\ LiqBonusPct \in Nat
                          /\ MaxSupply \in Nat
                          /\ RelTol \in Nat \ {0} /\ AbsTol \in Nat
                          /\ Prices \subseteq Nat \ {0}
                          /\ Requests \subseteq Nat \ {0}
                          /\ Funds \in [Addr -> Nat]
                          /\ \A a \in Addr : OnGrid(Funds[a], CollGrid)

VARIABLES coll, debt,               \* the v:<addr>:coll and v:<addr>:debt keys
          trackedColl, totalDebt,   \* trackedStable is never written: it stays 0
          collHeld, collWallet,     \* the ledger's balances of the collateral
          stableHeld, stableWallet, \* and of the stable
          price,                    \* external: the pair's latest round, 0 for none
          pairFresh, fleetFresh,    \* external: is that round, is the newest round
                                    \* of any pair, within maxSnapshotAge
          outside                   \* ghost: the stable others minted, less what
                                    \* holders destroyed

books == <<coll, debt, trackedColl, totalDebt>>
collTick == <<collHeld, collWallet>>
stableTick == <<stableHeld, stableWallet, outside>>
oracle == <<price, pairFresh, fleetFresh>>
vars == <<books, collTick, stableTick, oracle>>

Init == /\ coll = [a \in Addr |-> 0] /\ debt = [a \in Addr |-> 0]
        /\ trackedColl = 0 /\ totalDebt = 0
        /\ collHeld = 0 /\ collWallet = Funds
        /\ stableHeld = 0 /\ stableWallet = [a \in Addr |-> 0] /\ outside = 0
        /\ price = 0 /\ pairFresh = FALSE /\ fleetFresh = FALSE

-----------------------------------------------------------------------------
(* The environment. *)

PublishRound == /\ price' \in Prices
                /\ pairFresh' = TRUE /\ fleetFresh' = TRUE
                /\ UNCHANGED <<books, collTick, stableTick>>

\* A round of some other pair.
PublishOther == /\ fleetFresh' = TRUE
                /\ UNCHANGED <<price, pairFresh, books, collTick, stableTick>>

\* Time passes: the pair's round goes stale, and the fleet's newest one may.
GoStale == /\ fleetFresh
           /\ pairFresh' = FALSE
           /\ fleetFresh' \in {pairFresh, FALSE}
           /\ UNCHANGED <<price, books, collTick, stableTick>>

DepositColl(a, q) == /\ q <= collWallet[a]
                     /\ OnGrid(q, CollGrid)
                     /\ collWallet' = [collWallet EXCEPT ![a] = @ - q]
                     /\ collHeld' = collHeld + q
                     /\ UNCHANGED <<books, stableTick, oracle>>

DepositStable(a, q) == /\ q <= stableWallet[a]
                       /\ OnGrid(q, StableGrid)
                       /\ stableWallet' = [stableWallet EXCEPT ![a] = @ - q]
                       /\ stableHeld' = stableHeld + q
                       /\ UNCHANGED <<outside, books, collTick, oracle>>

\* Stable changes hands, which is how a liquidator comes by it.
TransferStable(a, b) == /\ a # b /\ stableWallet[a] > 0
                        /\ stableWallet' = [stableWallet EXCEPT
                                              ![a] = 0, ![b] = @ + stableWallet[a]]
                        /\ UNCHANGED <<outside, books, collTick, stableHeld, oracle>>

Total(f) == SumFunctionOnSet(f, Addr)

\* Whoever mints, the ledger keeps the supply within the cap.
WithinCap(q) == stableHeld + Total(stableWallet) + q <= MaxSupply

MintByAnyone(a, q) == /\ OnGrid(q, StableGrid)
                      /\ WithinCap(q)
                      /\ stableWallet' = [stableWallet EXCEPT ![a] = @ + q]
                      /\ outside' = outside + q
                      /\ UNCHANGED <<stableHeld, books, collTick, oracle>>

DestroyByHolder(a, q) == /\ q <= stableWallet[a]
                         /\ OnGrid(q, StableGrid)
                         /\ stableWallet' = [stableWallet EXCEPT ![a] = @ - q]
                         /\ outside' = outside - q
                         /\ UNCHANGED <<stableHeld, books, collTick, oracle>>

\* The emissions, re-quantised by the ledger.  A SEND of nothing moves nothing.
SendColl(to, q) == LET moved == HalfUp(q, CollGrid)
                   IN  /\ moved <= collHeld
                       /\ collHeld' = collHeld - moved
                       /\ collWallet' = [collWallet EXCEPT ![to] = @ + moved]

MintTo(to, q) == LET minted == HalfUp(q, StableGrid)
                 IN  /\ WithinCap(minted)
                     /\ stableWallet' = [stableWallet EXCEPT ![to] = @ + minted]
                     /\ UNCHANGED <<stableHeld, outside>>

BurnAndRefund(to, burned, excess) ==
    LET gone == HalfUp(burned, StableGrid)
        back == HalfUp(excess, StableGrid)
    IN  /\ gone + back <= stableHeld
        /\ stableHeld' = stableHeld - gone - back
        /\ stableWallet' = [stableWallet EXCEPT ![to] = @ + back]
        /\ UNCHANGED outside

-----------------------------------------------------------------------------
(* The oracle policy and the ratio. *)

\* freshPrice(), for the object shape { price, roundNumber, timestamp }.
\* mutant: only the newest round of any pair is looked at
FleetOnly == fleetFresh
BothFresh == fleetFresh /\ pairFresh

FreshPrice == BothFresh /\ price > 0

\* xchain.math.gte: a shortfall within either tolerance passes.
Gte(x, y) == LET gap == y - x
             IN  gap <= AbsTol \/ gap * RelTol <= Max({x, y})

RatioOk(c, d) == d > 0 => Gte(c * price * 100, d * MinRatioPct)

-----------------------------------------------------------------------------
(* The contract's methods. *)

CollDelta == collHeld - trackedColl

StableDelta == stableHeld

Deposit(a) == /\ CollDelta > 0
              /\ coll' = [coll EXCEPT ![a] = @ + CollDelta]
              /\ trackedColl' = trackedColl + CollDelta
              /\ UNCHANGED <<debt, totalDebt, collTick, stableTick, oracle>>

Borrowed(asked) == FloorTo(asked, StableGrid)

Borrow(a, asked) == LET amount == Borrowed(asked)
                    IN  /\ amount > 0
                        /\ FreshPrice
                        /\ RatioOk(coll[a], debt[a] + amount)
                        /\ debt' = [debt EXCEPT ![a] = @ + amount]
                        /\ totalDebt' = totalDebt + amount
                        /\ MintTo(a, amount)
                        /\ UNCHANGED <<coll, trackedColl, collTick, oracle>>

Repay(a) == LET burned == Min({StableDelta, debt[a]})
            IN  /\ StableDelta > 0
                /\ debt' = [debt EXCEPT ![a] = @ - burned]
                /\ totalDebt' = totalDebt - burned
                /\ BurnAndRefund(a, burned, StableDelta - burned)
                /\ UNCHANGED <<coll, trackedColl, collTick, oracle>>

Withdrawn(asked) == FloorTo(asked, CollGrid)

\* mutant: every withdrawal needs the oracle
AlwaysOracle(a, left) == FreshPrice /\ RatioOk(left, debt[a])
LeavesHealthy(a, left) == debt[a] > 0 => FreshPrice /\ RatioOk(left, debt[a])

\* What withdraw() checks, and what the ledger checks of its emission.
Withdrawable(a, amount) == /\ amount > 0
                           /\ coll[a] >= amount
                           /\ LeavesHealthy(a, coll[a] - amount)
                           /\ HalfUp(amount, CollGrid) <= collHeld

Withdraw(a, asked) == LET amount == Withdrawn(asked)
                      IN  /\ Withdrawable(a, amount)
                          /\ coll' = [coll EXCEPT ![a] = @ - amount]
                          /\ trackedColl' = trackedColl - amount
                          /\ SendColl(a, amount)
                          /\ UNCHANGED <<debt, totalDebt, stableTick, oracle>>

\* mutant: the seizure is not brought onto the collateral's grid
SeizeOffGrid(o) == Min({(debt[o] * (100 + LiqBonusPct)) \div (price * 100), coll[o]})
Seize(o) == FloorTo(Min({(debt[o] * (100 + LiqBonusPct)) \div (price * 100), coll[o]}),
                    CollGrid)

\* mutant: a healthy vault may be liquidated
AnyVault(o) == TRUE
UnderRatio(o) == ~RatioOk(coll[o], debt[o])

Liquidate(a, o) ==
    /\ a # o
    /\ debt[o] > 0
    /\ FreshPrice
    /\ UnderRatio(o)
    /\ StableDelta >= debt[o]
    /\ debt' = [debt EXCEPT ![o] = 0]
    /\ coll' = [coll EXCEPT ![o] = @ - Seize(o)]
    /\ totalDebt' = totalDebt - debt[o]
    /\ trackedColl' = trackedColl - Seize(o)
    /\ SendColl(a, Seize(o))
    /\ BurnAndRefund(a, debt[o], StableDelta - debt[o])
    /\ UNCHANGED oracle

-----------------------------------------------------------------------------
Next == \/ PublishRound \/ PublishOther \/ GoStale
        \/ \E a \in Addr : \/ \E q \in 1..collWallet[a] : DepositColl(a, q)
                           \/ \E q \in 1..stableWallet[a] : DepositStable(a, q)
                           \/ \E q \in 1..MaxSupply : MintByAnyone(a, q)
                           \/ \E q \in 1..stableWallet[a] : DestroyByHolder(a, q)
                           \/ \E b \in Addr : TransferStable(a, b) \/ Liquidate(a, b)
                           \/ \E asked \in Requests : Borrow(a, asked) \/ Withdraw(a, asked)
                           \/ Deposit(a) \/ Repay(a)

Spec == Init /\ [][Next]_vars

-----------------------------------------------------------------------------
(* Type of every variable. *)
TypeOK == /\ coll \in [Addr -> Nat] /\ debt \in [Addr -> Nat]
          /\ trackedColl \in Nat /\ totalDebt \in Nat
          /\ collHeld \in Nat /\ collWallet \in [Addr -> Nat]
          /\ stableHeld \in Nat /\ stableWallet \in [Addr -> Nat]
          /\ price \in Prices \cup {0}
          /\ pairFresh \in BOOLEAN /\ fleetFresh \in BOOLEAN /\ outside \in Int

(* The books agree with the ledger after any sequence of calls: the vaults   *)
(* add up to trackedColl and custody covers it, and the contract's loans,    *)
(* burns and refunds make and unmake exactly the stable that they add to and *)
(* take off the debts: whatever supply is not somebody's debt was minted, or *)
(* is missing because it was destroyed, by others.                           *)
BooksMatchLedger == /\ Total(coll) = trackedColl
                    /\ collHeld >= trackedColl
                    /\ Total(debt) = totalDebt
                    /\ stableHeld + Total(stableWallet) = totalDebt + outside

\* What a vault is short of the ratio, and whether gte() sees it.
Shortfall(a) == debt[a] * MinRatioPct - coll[a] * price * 100
Healthy(a) == \/ Shortfall(a) <= AbsTol
              \/ Shortfall(a) * RelTol <= debt[a] * MinRatioPct

(* While the oracle stays put no call, by the owner or by anyone else, takes *)
(* a vault below the ratio by more than the tolerance of gte(), however many *)
(* small steps it is approached in; and while the pair's own round is stale  *)
(* no debt is made and no collateral behind a debt leaves, however fresh the *)
(* rounds of other pairs are.                                                *)
StaysHealthy ==
    [][\A a \in Addr :
         /\ (UNCHANGED oracle /\ Healthy(a)) => Healthy(a)'
         /\ ~pairFresh => /\ debt'[a] <= debt[a]
                          /\ debt[a] > 0 => coll'[a] >= coll[a]]_vars

(* Collateral leaves a vault in debt at another's hand only if the vault is  *)
(* short of the ratio by more than the tolerance, at most the bonus' worth   *)
(* of it, and only together with the whole debt, which is burned out of the  *)
(* stable's supply.                                                          *)
LiquidatedFairly ==
    [][\A a \in Addr :
         (debt[a] > 0 /\ coll'[a] < coll[a] /\ debt'[a] < debt[a])
            => /\ ~Healthy(a)
               /\ debt'[a] = 0
               /\ totalDebt' = totalDebt - debt[a]
               /\ (coll[a] - coll'[a]) * price * 100 <= debt[a] * (100 + LiqBonusPct)]_vars

(* The pool is never short and the oracle never in the way of a vault        *)
(* without debt: its owner can take all of it out, whatever the others did.  *)
ExitOpen == \A a \in Addr : (debt[a] = 0 /\ coll[a] > 0)
                => /\ Withdrawn(coll[a]) = coll[a]
                   /\ Withdrawable(a, coll[a])
=============================================================================
