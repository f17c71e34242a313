-------------------------- MODULE StableVault_proofs --------------------------
(* Proofs about StableVault, for every finite set of addresses, every grid   *)
(* of the two ticks, ratio, bonus, supply cap, tolerance of comparisons, set *)
(* of prices and of requested amounts.                                       *)
EXTENDS StableVault, Amounts_proofs

(* Every figure in the books and in the ledger is a whole number of base     *)
(* units: that is why what the ledger moves is what the books say.           *)
OnGrids == /\ \A a \in Addr : /\ OnGrid(coll[a], CollGrid)
                              /\ OnGrid(collWallet[a], CollGrid)
                              /\ OnGrid(debt[a], StableGrid)
                              /\ OnGrid(stableWallet[a], StableGrid)
           /\ OnGrid(trackedColl, CollGrid) /\ OnGrid(collHeld, CollGrid)
           /\ OnGrid(stableHeld, StableGrid)

IInv == /\ TypeOK
        /\ OnGrids
        /\ BooksMatchLedger

-----------------------------------------------------------------------------
(* The parameters and the types, without the grids of the ledger.            *)
LEMMA Constants ==
    /\ IsFiniteSet(Addr)
    /\ CollGrid \in Nat \ {0} /\ StableGrid \in Nat \ {0}
    /\ MinRatioPct \in Nat /\ MinRatioPct > 100 /\ LiqBonusPct \in Nat
    /\ MaxSupply \in Nat /\ RelTol \in Nat \ {0} /\ AbsTol \in Nat
    /\ Prices \subseteq Nat \ {0} /\ Requests \subseteq Nat \ {0}
    /\ Funds \in [Addr -> Nat]
  BY VaultAssumption

LEMMA FundsOnGrid == \A a \in Addr : OnGrid(Funds[a], CollGrid)
  BY VaultAssumption

(* A total follows the one account that changes, and bounds each of them.    *)
LEMMA TotalMoves ==
    ASSUME NEW f \in [Addr -> Nat], NEW h \in [Addr -> Nat], NEW a \in Addr,
           \A b \in Addr \ {a} : h[b] = f[b]
    PROVE  Total(h) = Total(f) - f[a] + h[a]
<1>1. IsFiniteSet(Addr) /\ (\A b \in Addr : f[b] \in Int) /\ h[a] \in Int
  BY Constants
<1> QED
  BY <1>1, SumUpdate DEF Total

LEMMA TotalBounds ==
    ASSUME NEW f \in [Addr -> Nat]
    PROVE  Total(f) \in Nat /\ \A a \in Addr : f[a] \in 0..Total(f)
<1>1. IsFiniteSet(Addr) /\ \A b \in Addr : f[b] \in Nat
  BY Constants
<1>2. SumFunctionOnSet(f, Addr) \in Nat
  BY <1>1, SumNat
<1>3. ASSUME NEW a \in Addr PROVE f[a] <= SumFunctionOnSet(f, Addr)
  BY <1>1, SumBound
<1> QED
  BY <1>1, <1>2, <1>3 DEF Total

LEMMA TotalOfNone == Total([a \in Addr |-> 0]) = 0
<1> DEFINE f == [a \in Addr |-> 0]
<1>1. \A a \in Addr : f[a] = 0
  OBVIOUS
<1> HIDE DEF f
<1>2. SumFunctionOnSet(f, Addr) = 0
  BY <1>1, Constants, SumZero
<1> QED
  BY <1>2 DEF Total, f

(* One account pays its whole balance to another: the total stands.          *)
LEMMA TotalStands ==
    ASSUME NEW f \in [Addr -> Nat], NEW h \in [Addr -> Nat],
           NEW a \in Addr, NEW b \in Addr, a # b,
           h[a] = 0, h[b] = f[b] + f[a], \A d \in Addr \ {a, b} : h[d] = f[d]
    PROVE  Total(h) = Total(f)
<1> DEFINE g == [f EXCEPT ![a] = 0]
<1>1. /\ g \in [Addr -> Nat] /\ g[a] = 0 /\ g[b] = f[b]
      /\ \A d \in Addr \ {a} : g[d] = f[d]
      /\ \A d \in Addr \ {b} : h[d] = g[d]
  OBVIOUS
<1> HIDE DEF g
<1>2. Total(g) = Total(f) - f[a] + g[a]
  BY <1>1, TotalMoves
<1>3. Total(h) = Total(g) - g[b] + h[b]
  BY <1>1, TotalMoves
<1>4. Total(f) \in Nat /\ Total(g) \in Nat /\ f[a] \in Nat /\ f[b] \in Nat
  BY <1>1, TotalBounds
<1> QED
  BY <1>1, <1>2, <1>3, <1>4

LEMMA SmallerOnGrid ==
    ASSUME NEW p \in Nat, NEW q \in Nat, NEW g \in Nat \ {0}, OnGrid(p, g), OnGrid(q, g)
    PROVE  Min({p, q}) \in Nat /\ Min({p, q}) <= p /\ Min({p, q}) <= q
           /\ OnGrid(Min({p, q}), g)
<1>1. Min({p, q}) = IF p <= q THEN p ELSE q
  BY DEF Min
<1> QED
  BY <1>1

-----------------------------------------------------------------------------
(* Each step keeps the invariant. *)

LEMMA InitIInv == Init => IInv
<1> SUFFICES ASSUME Init PROVE IInv
  OBVIOUS
<1>1. TypeOK
  <2>1. outside \in Int
    BY DEF Init
  <2> QED
    BY <2>1, Constants DEF Init, TypeOK
<1>2. OnGrids
  BY Constants, FundsOnGrid, ZeroOnGrid DEF Init, OnGrids
<1>3. BooksMatchLedger
  BY TotalOfNone DEF Init, BooksMatchLedger
<1> QED
  BY <1>1, <1>2, <1>3 DEF IInv

(* What is known of the figures before a step, free of the grids.            *)
LEMMA Figures ==
    ASSUME IInv
    PROVE  /\ coll \in [Addr -> Nat] /\ debt \in [Addr -> Nat]
           /\ collWallet \in [Addr -> Nat] /\ stableWallet \in [Addr -> Nat]
           /\ trackedColl \in Nat /\ totalDebt \in Nat /\ collHeld \in Nat /\ stableHeld \in Nat
           /\ price \in Nat /\ collHeld >= trackedColl
           /\ Total(coll) = trackedColl /\ Total(debt) = totalDebt
           /\ Total(stableWallet) \in Nat /\ stableHeld + Total(stableWallet) = totalDebt + outside
           /\ outside \in Int
           /\ \A a \in Addr : coll[a] \in 0..trackedColl /\ debt[a] \in 0..totalDebt
<1>1. TypeOK /\ BooksMatchLedger
  BY DEF IInv
<1>2. coll \in [Addr -> Nat] /\ debt \in [Addr -> Nat] /\ stableWallet \in [Addr -> Nat]
  BY <1>1 DEF TypeOK
<1>3. /\ \A a \in Addr : coll[a] \in 0..Total(coll) /\ debt[a] \in 0..Total(debt)
      /\ Total(stableWallet) \in Nat
  BY <1>2, TotalBounds
<1>4. price \in Nat
  BY <1>1, Constants DEF TypeOK
<1> QED
  BY <1>1, <1>2, <1>3, <1>4 DEF TypeOK, BooksMatchLedger

(* The oracle's steps touch neither books nor ledger.                        *)
LEMMA OracleIInv ==
    ASSUME IInv, PublishRound \/ PublishOther \/ GoStale \/ UNCHANGED vars
    PROVE  IInv'
<1>1. UNCHANGED <<coll, debt, trackedColl, totalDebt, collHeld, collWallet, stableHeld,
                  stableWallet, outside>>
  BY DEF PublishRound, PublishOther, GoStale, vars, books, collTick, stableTick
<1>2. price' \in Prices \cup {0} /\ pairFresh' \in BOOLEAN /\ fleetFresh' \in BOOLEAN
  BY DEF IInv, TypeOK, PublishRound, PublishOther, GoStale, vars, oracle
<1>3. TypeOK'
  BY <1>1, <1>2 DEF IInv, TypeOK
<1>4. OnGrids'
  BY <1>1 DEF IInv, OnGrids
<1>5. BooksMatchLedger'
  BY <1>1 DEF IInv, BooksMatchLedger, Total
<1> QED
  BY <1>3, <1>4, <1>5 DEF IInv

(* Collateral on its way in: only the ledger moves.                          *)
LEMMA DepositCollIInv ==
    ASSUME IInv, NEW a \in Addr, NEW q \in 1..collWallet[a], DepositColl(a, q)
    PROVE  IInv'
<1>1. /\ collWallet \in [Addr -> Nat] /\ collHeld \in Nat /\ trackedColl \in Nat
      /\ collHeld >= trackedColl
  BY Figures
<1>2. q \in Nat /\ q \in 0..collWallet[a] /\ collWallet[a] \in Nat
  BY <1>1
<1>3. /\ UNCHANGED <<coll, debt, trackedColl, totalDebt, stableHeld, stableWallet, price,
                     pairFresh, fleetFresh, outside>>
      /\ collWallet' = [collWallet EXCEPT ![a] = @ - q] /\ collHeld' = collHeld + q
      /\ OnGrid(q, CollGrid)
  BY DEF DepositColl, books, stableTick, oracle
<1>4. /\ collWallet' \in [Addr -> Nat] /\ collHeld' \in Nat /\ collHeld' >= trackedColl
      /\ collWallet'[a] = collWallet[a] - q
      /\ \A b \in Addr : b # a => collWallet'[b] = collWallet[b]
  BY <1>1, <1>2, <1>3
<1>5. TypeOK'
  BY <1>3, <1>4 DEF IInv, TypeOK
<1>6. OnGrid(collWallet[a] - q, CollGrid) /\ OnGrid(collHeld + q, CollGrid)
  BY <1>1, <1>2, <1>3, Constants, GridDifference, GridSum DEF IInv, OnGrids
<1>7. OnGrids'
  BY <1>3, <1>4, <1>6 DEF IInv, OnGrids
<1>8. BooksMatchLedger'
  BY <1>3, <1>4 DEF IInv, BooksMatchLedger, Total
<1> QED
  BY <1>5, <1>7, <1>8 DEF IInv

(* deposit(): the vault is credited with what custody holds beyond the books.*)
LEMMA DepositIInv == ASSUME IInv, NEW a \in Addr, Deposit(a) PROVE IInv'
<1>1. /\ coll \in [Addr -> Nat] /\ collHeld \in Nat /\ trackedColl \in Nat
      /\ collHeld >= trackedColl /\ Total(coll) = trackedColl
  BY Figures
<1>2. /\ UNCHANGED <<debt, totalDebt, collHeld, collWallet, stableHeld, stableWallet, price,
                     pairFresh, fleetFresh, outside>>
      /\ coll' = [coll EXCEPT ![a] = @ + (collHeld - trackedColl)]
      /\ trackedColl' = trackedColl + (collHeld - trackedColl)
  BY DEF Deposit, CollDelta, collTick, stableTick, oracle
<1> DEFINE d == collHeld - trackedColl
<1>3. d \in Nat /\ trackedColl \in 0..collHeld
  BY <1>1
<1>4. /\ coll' \in [Addr -> Nat] /\ coll'[a] = coll[a] + d /\ trackedColl' = collHeld
      /\ \A b \in Addr \ {a} : coll'[b] = coll[b]
  BY <1>1, <1>2, <1>3
<1>5. OnGrid(d, CollGrid) /\ OnGrid(coll[a] + d, CollGrid)
  <2>1. OnGrid(d, CollGrid)
    BY <1>1, <1>3, Constants, GridDifference DEF IInv, OnGrids
  <2> HIDE DEF d
  <2> QED
    BY <1>1, <1>3, <2>1, Constants, GridSum DEF IInv, OnGrids
<1>6. Total(coll') = Total(coll) - coll[a] + coll'[a]
  BY <1>1, <1>4, TotalMoves
<1>7. coll[a] \in Nat
  BY <1>1
<1>8. TypeOK'
  BY <1>1, <1>2, <1>4 DEF IInv, TypeOK
<1>9. OnGrids'
  BY <1>2, <1>4, <1>5 DEF IInv, OnGrids
<1>10. BooksMatchLedger'
  <2>1. Total(coll') = trackedColl' /\ collHeld' >= trackedColl'
    BY <1>1, <1>2, <1>4, <1>6, <1>7
  <2> QED
    BY <1>2, <2>1 DEF IInv, BooksMatchLedger, Total
<1> QED
  BY <1>8, <1>9, <1>10 DEF IInv
(* Stable on its way in, and stable that changes hands.                      *)
LEMMA DepositStableIInv ==
    ASSUME IInv, NEW a \in Addr, NEW q \in 1..stableWallet[a], DepositStable(a, q)
    PROVE  IInv'
<1>1. /\ stableWallet \in [Addr -> Nat] /\ stableHeld \in Nat
      /\ Total(stableWallet) \in Nat /\ stableHeld + Total(stableWallet) = totalDebt + outside
      /\ outside \in Int
  BY Figures
<1>2. q \in Nat /\ q \in 0..stableWallet[a] /\ stableWallet[a] \in Nat
  BY <1>1
<1>3. /\ UNCHANGED <<coll, debt, trackedColl, totalDebt, collHeld, collWallet, price,
                     pairFresh, fleetFresh, outside>>
      /\ stableWallet' = [stableWallet EXCEPT ![a] = @ - q] /\ stableHeld' = stableHeld + q
      /\ OnGrid(q, StableGrid)
  BY DEF DepositStable, books, collTick, oracle
<1>4. /\ stableWallet' \in [Addr -> Nat] /\ stableHeld' \in Nat
      /\ stableWallet'[a] = stableWallet[a] - q
      /\ \A b \in Addr \ {a} : stableWallet'[b] = stableWallet[b]
  BY <1>1, <1>2, <1>3
<1>5. Total(stableWallet') = Total(stableWallet) - stableWallet[a] + stableWallet'[a]
  BY <1>1, <1>4, TotalMoves
<1>6. TypeOK'
  BY <1>3, <1>4 DEF IInv, TypeOK
<1>7. OnGrid(stableWallet[a] - q, StableGrid) /\ OnGrid(stableHeld + q, StableGrid)
  BY <1>1, <1>2, <1>3, Constants, GridDifference, GridSum DEF IInv, OnGrids
<1>8. OnGrids'
  BY <1>3, <1>4, <1>7 DEF IInv, OnGrids
<1>9. BooksMatchLedger'
  <2>1. stableHeld' + Total(stableWallet') = totalDebt + outside
    BY <1>1, <1>2, <1>3, <1>4, <1>5
  <2> QED
    BY <1>3, <2>1 DEF IInv, BooksMatchLedger, Total
<1> QED
  BY <1>6, <1>8, <1>9 DEF IInv

(* Stable that others mint, and stable its holder destroys: the supply moves *)
(* with what is kept of both.                                                *)
LEMMA OutsideIInv ==
    ASSUME IInv, NEW a \in Addr, NEW q \in Nat,
           MintByAnyone(a, q) \/ DestroyByHolder(a, q)
    PROVE  IInv'
<1>1. /\ stableWallet \in [Addr -> Nat] /\ stableHeld \in Nat /\ outside \in Int
      /\ Total(stableWallet) \in Nat /\ stableHeld + Total(stableWallet) = totalDebt + outside
      /\ totalDebt \in Nat /\ stableWallet[a] \in Nat /\ OnGrid(stableWallet[a], StableGrid)
  BY Figures DEF IInv, OnGrids
<1>2. /\ UNCHANGED <<coll, debt, trackedColl, totalDebt, collHeld, collWallet, stableHeld,
                     price, pairFresh, fleetFresh>>
      /\ OnGrid(q, StableGrid)
  BY DEF MintByAnyone, DestroyByHolder, books, collTick, oracle
<1>3. PICK n \in Nat : /\ OnGrid(n, StableGrid)
                       /\ stableWallet' = [stableWallet EXCEPT ![a] = n]
                       /\ outside' = outside + n - stableWallet[a]
  <2>1. CASE MintByAnyone(a, q)
    <3>1. stableWallet[a] + q \in Nat /\ OnGrid(stableWallet[a] + q, StableGrid)
      BY <1>1, <1>2, Constants, GridSum
    <3>2. /\ stableWallet' = [stableWallet EXCEPT ![a] = stableWallet[a] + q]
          /\ outside' = outside + (stableWallet[a] + q) - stableWallet[a]
      BY <1>1, <2>1 DEF MintByAnyone
    <3> QED
      BY <3>1, <3>2
  <2>2. CASE DestroyByHolder(a, q)
    <3>1. q \in 0..stableWallet[a]
      BY <1>1, <2>2 DEF DestroyByHolder
    <3>2. stableWallet[a] - q \in Nat /\ OnGrid(stableWallet[a] - q, StableGrid)
      BY <1>1, <1>2, <3>1, Constants, GridDifference
    <3>3. /\ stableWallet' = [stableWallet EXCEPT ![a] = stableWallet[a] - q]
          /\ outside' = outside + (stableWallet[a] - q) - stableWallet[a]
      BY <1>1, <2>2 DEF DestroyByHolder
    <3> QED
      BY <3>2, <3>3
  <2> QED
    BY <2>1, <2>2
<1>4. /\ stableWallet' \in [Addr -> Nat] /\ stableWallet'[a] = n /\ outside' \in Int
      /\ \A b \in Addr \ {a} : stableWallet'[b] = stableWallet[b]
  BY <1>1, <1>3
<1>5. Total(stableWallet') = Total(stableWallet) - stableWallet[a] + stableWallet'[a]
  BY <1>1, <1>4, TotalMoves
<1>6. TypeOK'
  BY <1>2, <1>4 DEF IInv, TypeOK
<1>7. OnGrids'
  BY <1>2, <1>3, <1>4 DEF IInv, OnGrids
<1>8. BooksMatchLedger'
  <2>1. stableHeld + Total(stableWallet') = totalDebt + outside'
    BY <1>1, <1>3, <1>4, <1>5
  <2> QED
    BY <1>2, <2>1 DEF IInv, BooksMatchLedger, Total
<1> QED
  BY <1>6, <1>7, <1>8 DEF IInv

LEMMA TransferIInv ==
    ASSUME IInv, NEW a \in Addr, NEW b \in Addr, TransferStable(a, b)
    PROVE  IInv'
<1>1. stableWallet \in [Addr -> Nat]
  BY Figures
<1>2. /\ UNCHANGED <<coll, debt, trackedColl, totalDebt, collHeld, collWallet, stableHeld,
                     price, pairFresh, fleetFresh, outside>>
      /\ stableWallet' = [stableWallet EXCEPT ![a] = 0, ![b] = @ + stableWallet[a]]
      /\ a # b
  BY DEF TransferStable, books, collTick, oracle
<1>3. /\ stableWallet' \in [Addr -> Nat] /\ stableWallet'[a] = 0
      /\ stableWallet'[b] = stableWallet[b] + stableWallet[a]
      /\ \A d \in Addr \ {a, b} : stableWallet'[d] = stableWallet[d]
  BY <1>1, <1>2
<1>4. Total(stableWallet') = Total(stableWallet)
  BY <1>1, <1>2, <1>3, TotalStands
<1>5. TypeOK'
  BY <1>2, <1>3 DEF IInv, TypeOK
<1>6. OnGrid(stableWallet[b] + stableWallet[a], StableGrid) /\ OnGrid(0, StableGrid)
  BY <1>1, Constants, GridSum, ZeroOnGrid DEF IInv, OnGrids
<1>7. \A d \in Addr : OnGrid(stableWallet'[d], StableGrid)
  BY <1>3, <1>6 DEF IInv, OnGrids
<1>8. OnGrids'
  BY <1>2, <1>7 DEF IInv, OnGrids
<1>9. BooksMatchLedger'
  BY <1>2, <1>4 DEF IInv, BooksMatchLedger, Total
<1> QED
  BY <1>5, <1>8, <1>9 DEF IInv

(* borrow(): the debt recorded is the stable minted.                         *)
LEMMA BorrowIInv ==
    ASSUME IInv, NEW a \in Addr, NEW asked \in Requests, Borrow(a, asked)
    PROVE  IInv'
<1> DEFINE n == Borrowed(asked)
<1>1. /\ debt \in [Addr -> Nat] /\ stableWallet \in [Addr -> Nat]
      /\ stableHeld \in Nat /\ totalDebt \in Nat /\ Total(debt) = totalDebt
      /\ Total(stableWallet) \in Nat /\ stableHeld + Total(stableWallet) = totalDebt + outside
      /\ outside \in Int
  BY Figures
<1>2. n \in Nat /\ OnGrid(n, StableGrid) /\ HalfUp(n, StableGrid) = n
  BY Constants, FloorToBounds, FloorToOnGrid, LedgerKeepsGrid DEF Borrowed
<1>3. /\ UNCHANGED <<coll, trackedColl, collHeld, collWallet, stableHeld, price, pairFresh,
                     fleetFresh, outside>>
      /\ debt' = [debt EXCEPT ![a] = @ + n] /\ totalDebt' = totalDebt + n
      /\ stableWallet' = [stableWallet EXCEPT ![a] = @ + HalfUp(n, StableGrid)]
  BY DEF Borrow, MintTo, collTick, oracle
<1> HIDE DEF n
<1>4. /\ debt' \in [Addr -> Nat] /\ stableWallet' \in [Addr -> Nat] /\ totalDebt' \in Nat
      /\ debt'[a] = debt[a] + n /\ stableWallet'[a] = stableWallet[a] + n
      /\ \A b \in Addr \ {a} : debt'[b] = debt[b] /\ stableWallet'[b] = stableWallet[b]
  BY <1>1, <1>2, <1>3
<1>5. /\ Total(stableWallet') = Total(stableWallet) - stableWallet[a] + stableWallet'[a]
      /\ Total(debt') = Total(debt) - debt[a] + debt'[a]
  BY <1>1, <1>4, TotalMoves
<1>6. TypeOK'
  BY <1>3, <1>4 DEF IInv, TypeOK
<1>7. OnGrid(debt[a] + n, StableGrid) /\ OnGrid(stableWallet[a] + n, StableGrid)
  BY <1>1, <1>2, Constants, GridSum DEF IInv, OnGrids
<1>8. OnGrids'
  BY <1>3, <1>4, <1>7 DEF IInv, OnGrids
<1>9. BooksMatchLedger'
  <2>1. debt[a] \in Nat /\ stableWallet[a] \in Nat
    BY <1>1
  <2>2. Total(debt') = totalDebt' /\ stableHeld + Total(stableWallet') = totalDebt' + outside
    BY <1>1, <1>2, <1>3, <1>4, <1>5, <2>1
  <2> QED
    BY <1>3, <2>2 DEF IInv, BooksMatchLedger, Total
<1> QED
  BY <1>6, <1>8, <1>9 DEF IInv

(* The two emissions of a settled call: what the ledger moves is exactly     *)
(* what the books wrote off, and nothing of the stable is left behind.       *)
LEMMA SendCollEffect ==
    ASSUME IInv, NEW a \in Addr, NEW q \in Nat, OnGrid(q, CollGrid), SendColl(a, q)
    PROVE  /\ q <= collHeld /\ collHeld' = collHeld - q /\ OnGrid(collHeld', CollGrid)
           /\ collWallet' \in [Addr -> Nat]
           /\ \A b \in Addr : OnGrid(collWallet'[b], CollGrid)
<1>1. collHeld \in Nat /\ collWallet \in [Addr -> Nat]
  BY Figures
<1>2. HalfUp(q, CollGrid) = q
  BY Constants, LedgerKeepsGrid
<1>3. /\ q <= collHeld /\ collHeld' = collHeld - q
      /\ collWallet' = [collWallet EXCEPT ![a] = @ + q]
  BY <1>2 DEF SendColl
<1>4. q \in 0..collHeld /\ collWallet[a] \in Nat
  BY <1>1, <1>3
<1>5. OnGrid(collHeld - q, CollGrid) /\ OnGrid(collWallet[a] + q, CollGrid)
  BY <1>1, <1>4, Constants, GridDifference, GridSum DEF IInv, OnGrids
<1>6. /\ collWallet' \in [Addr -> Nat] /\ collWallet'[a] = collWallet[a] + q
      /\ \A b \in Addr \ {a} : collWallet'[b] = collWallet[b]
  BY <1>1, <1>3
<1>7. \A b \in Addr : OnGrid(collWallet'[b], CollGrid)
  BY <1>5, <1>6 DEF IInv, OnGrids
<1> QED
  BY <1>3, <1>5, <1>6, <1>7

LEMMA BurnEffect ==
    ASSUME IInv, NEW a \in Addr, NEW q \in 0..stableHeld, OnGrid(q, StableGrid),
           BurnAndRefund(a, q, stableHeld - q)
    PROVE  /\ stableHeld' = 0 /\ outside' = outside
           /\ stableWallet' \in [Addr -> Nat]
           /\ Total(stableWallet') = Total(stableWallet) + stableHeld - q
           /\ \A b \in Addr : OnGrid(stableWallet'[b], StableGrid)
<1> DEFINE r == stableHeld - q
<1>1. /\ stableHeld \in Nat /\ stableWallet \in [Addr -> Nat] /\ q \in Nat /\ r \in Nat
      /\ Total(stableWallet) \in Nat
  BY Figures
<1>2. OnGrid(r, StableGrid)
  BY <1>1, Constants, GridDifference DEF IInv, OnGrids
<1> HIDE DEF r
<1>3. HalfUp(q, StableGrid) = q /\ HalfUp(r, StableGrid) = r
  BY <1>1, <1>2, Constants, LedgerKeepsGrid
<1>4. /\ stableHeld' = stableHeld - q - r /\ outside' = outside
      /\ stableWallet' = [stableWallet EXCEPT ![a] = @ + r]
  BY <1>3 DEF BurnAndRefund, r
<1>5. /\ stableWallet' \in [Addr -> Nat] /\ stableWallet'[a] = stableWallet[a] + r
      /\ \A b \in Addr \ {a} : stableWallet'[b] = stableWallet[b]
  BY <1>1, <1>4
<1>6. Total(stableWallet') = Total(stableWallet) - stableWallet[a] + stableWallet'[a]
  BY <1>1, <1>5, TotalMoves
<1>7. OnGrid(stableWallet[a] + r, StableGrid) /\ stableWallet[a] \in Nat
  BY <1>1, <1>2, Constants, GridSum DEF IInv, OnGrids
<1>8. \A b \in Addr : OnGrid(stableWallet'[b], StableGrid)
  BY <1>5, <1>7 DEF IInv, OnGrids
<1> QED
  BY <1>1, <1>4, <1>5, <1>6, <1>7, <1>8 DEF r
(* repay(): what is burned is what the debt loses.                           *)
LEMMA RepayIInv == ASSUME IInv, NEW a \in Addr, Repay(a) PROVE IInv'
<1> DEFINE q == Min({stableHeld, debt[a]})
<1>1. /\ debt \in [Addr -> Nat] /\ stableHeld \in Nat /\ totalDebt \in Nat
      /\ Total(debt) = totalDebt /\ debt[a] \in 0..totalDebt
      /\ Total(stableWallet) \in Nat /\ stableHeld + Total(stableWallet) = totalDebt + outside
      /\ outside \in Int
  BY Figures
<1>2. debt[a] \in Nat /\ OnGrid(debt[a], StableGrid) /\ OnGrid(stableHeld, StableGrid)
  BY <1>1 DEF IInv, OnGrids
<1>3. q \in Nat /\ q <= stableHeld /\ q <= debt[a] /\ OnGrid(q, StableGrid)
  BY <1>1, <1>2, Constants, SmallerOnGrid
<1>4. /\ UNCHANGED <<coll, trackedColl, collHeld, collWallet, price, pairFresh, fleetFresh>>
      /\ debt' = [debt EXCEPT ![a] = @ - q] /\ totalDebt' = totalDebt - q
      /\ BurnAndRefund(a, q, stableHeld - q)
  BY DEF Repay, StableDelta, collTick, oracle
<1> HIDE DEF q
<1>5. q \in 0..stableHeld /\ q \in 0..debt[a]
  BY <1>1, <1>2, <1>3
<1>6. /\ stableHeld' = 0 /\ outside' = outside /\ stableWallet' \in [Addr -> Nat]
      /\ Total(stableWallet') = Total(stableWallet) + stableHeld - q
      /\ \A b \in Addr : OnGrid(stableWallet'[b], StableGrid)
  BY <1>3, <1>4, <1>5, BurnEffect
<1>7. /\ debt' \in [Addr -> Nat] /\ debt'[a] = debt[a] - q
      /\ \A b \in Addr \ {a} : debt'[b] = debt[b]
      /\ totalDebt' \in Nat
  BY <1>1, <1>2, <1>4, <1>5
<1>8. Total(debt') = Total(debt) - debt[a] + debt'[a]
  BY <1>1, <1>7, TotalMoves
<1>9. OnGrid(debt[a] - q, StableGrid) /\ OnGrid(0, StableGrid)
  BY <1>2, <1>3, <1>5, Constants, GridDifference, ZeroOnGrid
<1>10. TypeOK'
  BY <1>4, <1>6, <1>7 DEF IInv, TypeOK
<1>11. OnGrids'
  BY <1>4, <1>6, <1>7, <1>9 DEF IInv, OnGrids
<1>12. BooksMatchLedger'
  <2>1. Total(debt') = totalDebt'
    BY <1>1, <1>2, <1>3, <1>4, <1>7, <1>8
  <2>2. stableHeld' + Total(stableWallet') = totalDebt' + outside'
    BY <1>1, <1>3, <1>4, <1>6
  <2> QED
    BY <1>4, <2>1, <2>2 DEF IInv, BooksMatchLedger, Total
<1> QED
  BY <1>10, <1>11, <1>12 DEF IInv

(* Collateral that leaves a vault and the pool together.                     *)
LEMMA CollateralOut ==
    ASSUME IInv, NEW a \in Addr, NEW o \in Addr, NEW q \in 0..coll[o], OnGrid(q, CollGrid),
           coll' = [coll EXCEPT ![o] = @ - q], trackedColl' = trackedColl - q, SendColl(a, q)
    PROVE  /\ coll' \in [Addr -> Nat] /\ trackedColl' \in Nat
           /\ collHeld' \in Nat /\ collHeld' >= trackedColl'
           /\ collWallet' \in [Addr -> Nat]
           /\ \A b \in Addr : OnGrid(coll'[b], CollGrid) /\ OnGrid(collWallet'[b], CollGrid)
           /\ OnGrid(trackedColl', CollGrid) /\ OnGrid(collHeld', CollGrid)
           /\ Total(coll') = trackedColl'
<1>1. /\ coll \in [Addr -> Nat] /\ trackedColl \in Nat /\ collHeld \in Nat
      /\ collHeld >= trackedColl /\ Total(coll) = trackedColl /\ coll[o] \in 0..trackedColl
  BY Figures
<1>2. coll[o] \in Nat /\ q \in Nat /\ q <= coll[o] /\ q \in 0..trackedColl
  BY <1>1
<1>3. /\ q <= collHeld /\ collHeld' = collHeld - q /\ OnGrid(collHeld', CollGrid)
      /\ collWallet' \in [Addr -> Nat]
      /\ \A b \in Addr : OnGrid(collWallet'[b], CollGrid)
  BY <1>2, SendCollEffect
<1>4. /\ coll' \in [Addr -> Nat] /\ coll'[o] = coll[o] - q
      /\ \A b \in Addr \ {o} : coll'[b] = coll[b]
  BY <1>1, <1>2
<1>5. Total(coll') = Total(coll) - coll[o] + coll'[o]
  BY <1>1, <1>4, TotalMoves
<1>6. OnGrid(coll[o] - q, CollGrid) /\ OnGrid(trackedColl - q, CollGrid)
  BY <1>1, <1>2, Constants, GridDifference DEF IInv, OnGrids
<1>7. \A b \in Addr : OnGrid(coll'[b], CollGrid)
  BY <1>4, <1>6 DEF IInv, OnGrids
<1> QED
  BY <1>1, <1>2, <1>3, <1>4, <1>5, <1>6, <1>7

LEMMA WithdrawIInv ==
    ASSUME IInv, NEW a \in Addr, NEW asked \in Requests, Withdraw(a, asked)
    PROVE  IInv'
<1> DEFINE q == Withdrawn(asked)
<1>1. q \in Nat /\ OnGrid(q, CollGrid)
  BY Constants, FloorToBounds, FloorToOnGrid DEF Withdrawn
<1>2. /\ UNCHANGED <<debt, totalDebt, stableHeld, stableWallet, outside, price, pairFresh,
                     fleetFresh>>
      /\ q <= coll[a] /\ coll' = [coll EXCEPT ![a] = @ - q]
      /\ trackedColl' = trackedColl - q /\ SendColl(a, q)
  BY DEF Withdraw, Withdrawable, stableTick, oracle
<1>3. q \in 0..coll[a]
  BY <1>1, <1>2, Figures
<1> HIDE DEF q
<1>4. /\ coll' \in [Addr -> Nat] /\ trackedColl' \in Nat
      /\ collHeld' \in Nat /\ collHeld' >= trackedColl'
      /\ collWallet' \in [Addr -> Nat]
      /\ \A b \in Addr : OnGrid(coll'[b], CollGrid) /\ OnGrid(collWallet'[b], CollGrid)
      /\ OnGrid(trackedColl', CollGrid) /\ OnGrid(collHeld', CollGrid)
      /\ Total(coll') = trackedColl'
  BY <1>1, <1>2, <1>3, CollateralOut
<1>5. TypeOK'
  BY <1>2, <1>4 DEF IInv, TypeOK
<1>6. OnGrids'
  BY <1>2, <1>4 DEF IInv, OnGrids
<1>7. BooksMatchLedger'
  BY <1>2, <1>4 DEF IInv, BooksMatchLedger, Total
<1> QED
  BY <1>5, <1>6, <1>7 DEF IInv

(* What a liquidator seizes: whole base units, of what is there, and worth   *)
(* no more than the debt with its bonus.                                     *)
LEMMA SeizeBounds ==
    ASSUME IInv, NEW o \in Addr, price > 0
    PROVE  /\ Seize(o) \in 0..coll[o] /\ OnGrid(Seize(o), CollGrid)
           /\ Seize(o) * price * 100 <= debt[o] * (100 + LiqBonusPct)
<1> DEFINE x == debt[o] * (100 + LiqBonusPct)
           y == price * 100
           q == x \div y
           m == Min({q, coll[o]})
           s == FloorTo(m, CollGrid)
<1>1. debt[o] \in Nat /\ coll[o] \in Nat /\ price \in Nat \ {0} /\ 100 + LiqBonusPct \in Nat
  BY Figures, Constants
<1>2. x \in Nat /\ y \in Nat \ {0}
  BY <1>1
<1>3. q \in Nat /\ y * q <= x
  <2> HIDE DEF x, y
  <2>1. q \in Nat /\ x % y \in 0..y - 1 /\ x = y * q + (x % y)
    BY <1>2, QuotientRemainder
  <2>2. y * q \in Nat
    BY <1>2, <2>1
  <2> QED
    BY <1>2, <2>1, <2>2
<1>4. m \in Nat /\ m <= q /\ m <= coll[o]
  <2> HIDE DEF q
  <2>1. m = IF q <= coll[o] THEN q ELSE coll[o]
    BY <1>1, <1>3 DEF Min
  <2> QED
    BY <1>1, <1>3, <2>1
<1>5. s \in 0..m /\ OnGrid(s, CollGrid)
  <2> HIDE DEF m
  <2> QED
    BY <1>4, Constants, FloorToBounds, FloorToOnGrid
<1>6. s \in Nat /\ s <= q /\ s \in 0..coll[o]
  <2> HIDE DEF s, m, q
  <2> QED
    BY <1>1, <1>3, <1>4, <1>5
<1>7. y * s <= x
  <2> HIDE DEF s, m, q, x, y
  <2>1. y * s \in Nat /\ y * q \in Nat /\ y * s <= y * q
    BY <1>2, <1>3, <1>6, ProductMonotone
  <2> QED
    BY <1>2, <1>3, <2>1
<1>8. s * price * 100 = y * s
  <2> HIDE DEF s
  <2> QED
    BY <1>1, <1>6
<1>9. Seize(o) = s
  BY DEF Seize
<1> QED
  BY <1>5, <1>6, <1>7, <1>8, <1>9

LEMMA LiquidateIInv ==
    ASSUME IInv, NEW a \in Addr, NEW o \in Addr, Liquidate(a, o)
    PROVE  IInv'
<1>1. /\ debt \in [Addr -> Nat] /\ stableHeld \in Nat /\ totalDebt \in Nat
      /\ Total(debt) = totalDebt /\ debt[o] \in 0..totalDebt
      /\ Total(stableWallet) \in Nat /\ stableHeld + Total(stableWallet) = totalDebt + outside
      /\ outside \in Int
  BY Figures
<1>2. /\ UNCHANGED <<price, pairFresh, fleetFresh>> /\ price > 0
      /\ debt[o] <= stableHeld
      /\ debt' = [debt EXCEPT ![o] = 0] /\ totalDebt' = totalDebt - debt[o]
      /\ coll' = [coll EXCEPT ![o] = @ - Seize(o)] /\ trackedColl' = trackedColl - Seize(o)
      /\ SendColl(a, Seize(o))
      /\ BurnAndRefund(a, debt[o], stableHeld - debt[o])
  BY Figures DEF Liquidate, FreshPrice, StableDelta, oracle
<1>3. debt[o] \in Nat /\ debt[o] \in 0..stableHeld /\ OnGrid(debt[o], StableGrid)
  BY <1>1, <1>2 DEF IInv, OnGrids
<1>4. Seize(o) \in 0..coll[o] /\ OnGrid(Seize(o), CollGrid)
  BY <1>2, SeizeBounds
<1>5. /\ coll' \in [Addr -> Nat] /\ trackedColl' \in Nat
      /\ collHeld' \in Nat /\ collHeld' >= trackedColl'
      /\ collWallet' \in [Addr -> Nat]
      /\ \A b \in Addr : OnGrid(coll'[b], CollGrid) /\ OnGrid(collWallet'[b], CollGrid)
      /\ OnGrid(trackedColl', CollGrid) /\ OnGrid(collHeld', CollGrid)
      /\ Total(coll') = trackedColl'
  BY <1>2, <1>4, CollateralOut
<1>6. /\ stableHeld' = 0 /\ outside' = outside /\ stableWallet' \in [Addr -> Nat]
      /\ Total(stableWallet') = Total(stableWallet) + stableHeld - debt[o]
      /\ \A b \in Addr : OnGrid(stableWallet'[b], StableGrid)
  BY <1>2, <1>3, BurnEffect
<1>7. /\ debt' \in [Addr -> Nat] /\ debt'[o] = 0
      /\ \A b \in Addr \ {o} : debt'[b] = debt[b]
      /\ totalDebt' \in Nat
  BY <1>1, <1>2, <1>3
<1>8. Total(debt') = Total(debt) - debt[o] + debt'[o]
  BY <1>1, <1>7, TotalMoves
<1>9. OnGrid(0, StableGrid)
  BY Constants, ZeroOnGrid
<1>10. TypeOK'
  BY <1>2, <1>5, <1>6, <1>7 DEF IInv, TypeOK
<1>11. OnGrids'
  BY <1>5, <1>6, <1>7, <1>9 DEF IInv, OnGrids
<1>12. BooksMatchLedger'
  <2>1. Total(debt') = totalDebt' /\ stableHeld' + Total(stableWallet') = totalDebt' + outside'
    BY <1>1, <1>2, <1>3, <1>6, <1>7, <1>8
  <2> QED
    BY <1>5, <2>1 DEF BooksMatchLedger, Total
<1> QED
  BY <1>10, <1>11, <1>12 DEF IInv
LEMMA StepIInv == IInv /\ [Next]_vars => IInv'
<1> SUFFICES ASSUME IInv, [Next]_vars PROVE IInv'
  OBVIOUS
<1>1. CASE PublishRound \/ PublishOther \/ GoStale \/ UNCHANGED vars
  BY <1>1, OracleIInv
<1>2. ASSUME NEW a \in Addr,
             \/ \E q \in 1..collWallet[a] : DepositColl(a, q)
             \/ \E q \in 1..stableWallet[a] : DepositStable(a, q)
             \/ \E q \in 1..MaxSupply : MintByAnyone(a, q)
             \/ \E q \in 1..stableWallet[a] : DestroyByHolder(a, q)
             \/ \E b \in Addr : TransferStable(a, b) \/ Liquidate(a, b)
             \/ \E asked \in Requests : Borrow(a, asked) \/ Withdraw(a, asked)
             \/ Deposit(a) \/ Repay(a)
      PROVE  IInv'
  <2>1. \A q \in 1..MaxSupply : q \in Nat
    BY Constants
  <2>2. \A q \in 1..stableWallet[a] : q \in Nat
    BY Figures
  <2> QED
    BY <1>2, <2>1, <2>2, DepositCollIInv, DepositStableIInv, OutsideIInv, TransferIInv,
       LiquidateIInv, BorrowIInv, WithdrawIInv, DepositIInv, RepayIInv
<1> QED
  BY <1>1, <1>2 DEF Next

LEMMA InvariantIInv == Spec => []IInv
  BY InitIInv, StepIInv, PTL DEF Spec

(* After any sequence of calls the vaults add up to what the contract tracks,*)
(* custody covers it, and the contract made no stable that is not owed: the  *)
(* supply differs from the debts by what others minted and destroyed.        *)
THEOREM VaultBooks == Spec => [](TypeOK /\ BooksMatchLedger)
<1>1. IInv => TypeOK /\ BooksMatchLedger
  BY DEF IInv
<1> QED
  BY <1>1, InvariantIInv, PTL

(* withdraw() of the whole of a vault without debt passes every check of the *)
(* contract and of the ledger, whatever the others did and the oracle says.  *)
THEOREM VaultExitOpen == Spec => []ExitOpen
<1>1. ASSUME IInv PROVE ExitOpen
  <2> SUFFICES ASSUME NEW a \in Addr, debt[a] = 0, coll[a] > 0
               PROVE  Withdrawn(coll[a]) = coll[a] /\ Withdrawable(a, coll[a])
    BY DEF ExitOpen
  <2>1. coll[a] \in Nat /\ coll[a] <= collHeld /\ OnGrid(coll[a], CollGrid)
    BY <1>1, Figures DEF IInv, OnGrids
  <2>2. HalfUp(coll[a], CollGrid) = coll[a]
    BY <2>1, Constants, LedgerKeepsGrid
  <2>3. Withdrawn(coll[a]) = coll[a]
    BY <2>1 DEF Withdrawn, OnGrid
  <2>4. Withdrawable(a, coll[a])
    BY <2>1, <2>2 DEF Withdrawable, LeavesHealthy
  <2> QED
    BY <2>3, <2>4
<1> QED
  BY <1>1, InvariantIInv, PTL

-----------------------------------------------------------------------------
(* What a step may do to a vault. *)

\* What StaysHealthy says of one vault and one step.
Kept(a) == /\ (UNCHANGED oracle /\ Healthy(a)) => Healthy(a)'
           /\ ~pairFresh => /\ debt'[a] <= debt[a]
                            /\ debt[a] > 0 => coll'[a] >= coll[a]

\* What LiquidatedFairly says of one vault and one step.
Fair(a) == (debt[a] > 0 /\ coll'[a] < coll[a] /\ debt'[a] < debt[a])
             => /\ ~Healthy(a)
                /\ debt'[a] = 0
                /\ totalDebt' = totalDebt - debt[a]
                /\ (coll[a] - coll'[a]) * price * 100 <= debt[a] * (100 + LiqBonusPct)

(* What a vault is short of may grow only with its debt, or as it loses      *)
(* collateral; a tolerated shortfall of a smaller debt stays tolerated.      *)
LEMMA ToleratedStays ==
    ASSUME NEW s \in Int, NEW t \in Int, NEW x \in Nat, NEW y \in Nat,
           y <= x, t - s <= y - x, s * RelTol <= x
    PROVE  t * RelTol <= y
<1>1. RelTol \in Nat \ {0}
  BY Constants
<1> DEFINE d == s - t
<1>2. d \in Nat /\ t = s - d /\ x - y <= d
  OBVIOUS
<1> HIDE DEF d
<1>3. PICK k \in Nat : RelTol = k + 1
  <2>1. RelTol - 1 \in Nat /\ RelTol = (RelTol - 1) + 1
    BY <1>1
  <2> QED
    BY <2>1
<1>4. k * 0 <= k * d /\ k * d \in Nat /\ k * 0 = 0
  BY <1>2, <1>3, ProductMonotone
<1>5. t * RelTol = s * RelTol - (k * d + d)
  BY <1>2, <1>3
<1>6. s * RelTol \in Int
  BY <1>1
<1> QED
  BY <1>2, <1>4, <1>5, <1>6

(* gte() takes a vault's worth against its debt exactly when it is healthy.  *)
LEMMA RatioIsHealth ==
    ASSUME NEW c \in Nat, NEW d \in Nat, price \in Nat
    PROVE  LET short == d * MinRatioPct - c * price * 100
           IN  /\ short \in Int /\ d * MinRatioPct \in Nat /\ c * price * 100 \in Nat
               /\ RatioOk(c, d) <=> (short <= AbsTol \/ short * RelTol <= d * MinRatioPct)
<1> DEFINE x == c * price * 100
           y == d * MinRatioPct
           gap == y - x
<1>1. RelTol \in Nat \ {0} /\ AbsTol \in Nat /\ MinRatioPct \in Nat
  BY Constants
<1>2. x \in Nat /\ y \in Nat
  BY <1>1
<1>3. d = 0 => y = 0
  BY <1>1
<1>4. RatioOk(c, d) <=> (d > 0 => gap <= AbsTol \/ gap * RelTol <= Max({x, y}))
  BY DEF RatioOk, Gte
<1> HIDE DEF x, y
<1>5. Max({x, y}) = IF x <= y THEN y ELSE x
  BY <1>2 DEF Max
<1>6. gap \in Int /\ (gap > AbsTol => x <= y)
  BY <1>1, <1>2
<1>7. d = 0 => gap <= AbsTol
  BY <1>1, <1>2, <1>3
<1>8. RatioOk(c, d) <=> (gap <= AbsTol \/ gap * RelTol <= y)
  <2> HIDE DEF gap
  <2>1. CASE gap <= AbsTol
    BY <1>4, <2>1
  <2>2. CASE ~(gap <= AbsTol)
    <3>1. Max({x, y}) = y /\ d > 0
      BY <1>1, <1>5, <1>6, <1>7, <2>2
    <3> QED
      BY <1>4, <2>2, <3>1
  <2> QED
    BY <2>1, <2>2
<1> QED
  BY <1>2, <1>6, <1>8 DEF x, y

(* More collateral and less debt never make a vault less healthy.            *)
LEMMA Safer ==
    ASSUME IInv, NEW a \in Addr, coll'[a] \in Nat, debt'[a] \in Nat,
           coll'[a] >= coll[a], debt'[a] <= debt[a]
    PROVE  Kept(a) /\ Fair(a)
<1>1. /\ coll[a] \in Nat /\ debt[a] \in Nat /\ price \in Nat
      /\ MinRatioPct \in Nat /\ AbsTol \in Nat
  BY Figures, Constants
<1>2. ASSUME UNCHANGED oracle, Healthy(a) PROVE Healthy(a)'
  <2>1. price' = price
    BY <1>2 DEF oracle
  <2> DEFINE u == price * 100
             x == MinRatioPct * debt[a]
             y == MinRatioPct * debt'[a]
             s == x - u * coll[a]
             t == y - u * coll'[a]
  <2>2. u \in Nat
    BY <1>1
  <2>3. /\ Shortfall(a) = s /\ Shortfall(a)' = t
        /\ debt[a] * MinRatioPct = x /\ debt'[a] * MinRatioPct = y
    BY <1>1, <2>1 DEF Shortfall
  <2> HIDE DEF u
  <2>4. /\ u * coll[a] <= u * coll'[a] /\ y <= x
        /\ u * coll[a] \in Nat /\ u * coll'[a] \in Nat /\ x \in Nat /\ y \in Nat
    BY <1>1, <2>2, ProductMonotone
  <2>5. s \in Int /\ t \in Int /\ t - s <= y - x
    BY <2>4
  <2>6. s <= AbsTol \/ s * RelTol <= x
    BY <1>2, <2>3 DEF Healthy
  <2> HIDE DEF s, t, x, y
  <2>7. t <= AbsTol \/ t * RelTol <= y
    <3>1. CASE s <= AbsTol
      BY <1>1, <2>4, <2>5, <3>1
    <3>2. CASE s * RelTol <= x
      BY <2>4, <2>5, <3>2, ToleratedStays
    <3> QED
      BY <2>6, <3>1, <3>2
  <2> QED
    BY <2>3, <2>7 DEF Healthy
<1> QED
  BY <1>1, <1>2 DEF Kept, Fair

LEMMA BorrowKept ==
    ASSUME IInv, NEW a \in Addr, NEW b \in Addr, NEW asked \in Requests, Borrow(b, asked)
    PROVE  Kept(a) /\ Fair(a)
<1> DEFINE n == Borrowed(asked)
<1>1. coll \in [Addr -> Nat] /\ debt \in [Addr -> Nat] /\ price \in Nat
  BY Figures
<1>2. n \in Nat
  BY Constants, FloorToBounds DEF Borrowed
<1>3. /\ n > 0 /\ FreshPrice /\ RatioOk(coll[b], debt[b] + n)
      /\ debt' = [debt EXCEPT ![b] = @ + n] /\ coll' = coll /\ price' = price
  BY DEF Borrow, oracle
<1> HIDE DEF n
<1>4. CASE a # b
  BY <1>1, <1>3, <1>4, Safer
<1>5. CASE a = b
  <2>1. debt'[a] = debt[a] + n /\ debt[a] \in Nat /\ coll'[a] = coll[a] /\ coll[a] \in Nat
    BY <1>1, <1>3, <1>5
  <2>2. Healthy(a)'
    <3>1. debt[a] + n \in Nat /\ RatioOk(coll[a], debt[a] + n)
      BY <1>2, <1>3, <1>5, <2>1
    <3> QED
      BY <1>1, <1>3, <2>1, <3>1, RatioIsHealth DEF Healthy, Shortfall
  <2>3. pairFresh
    BY <1>3 DEF FreshPrice, BothFresh
  <2> QED
    BY <2>1, <2>2, <2>3 DEF Kept, Fair
<1> QED
  BY <1>4, <1>5

LEMMA WithdrawKept ==
    ASSUME IInv, NEW a \in Addr, NEW b \in Addr, NEW asked \in Requests, Withdraw(b, asked)
    PROVE  Kept(a) /\ Fair(a)
<1> DEFINE n == Withdrawn(asked)
<1>1. coll \in [Addr -> Nat] /\ debt \in [Addr -> Nat] /\ price \in Nat
  BY Figures
<1>2. n \in Nat
  BY Constants, FloorToBounds DEF Withdrawn
<1>3. /\ n <= coll[b] /\ LeavesHealthy(b, coll[b] - n)
      /\ coll' = [coll EXCEPT ![b] = @ - n] /\ debt' = debt /\ price' = price
  BY DEF Withdraw, Withdrawable, oracle
<1> HIDE DEF n
<1>4. CASE a # b
  BY <1>1, <1>3, <1>4, Safer
<1>5. CASE a = b
  <2>1. /\ debt'[a] = debt[a] /\ debt[a] \in Nat
        /\ coll'[a] = coll[a] - n /\ coll'[a] \in Nat
    BY <1>1, <1>2, <1>3, <1>5
  <2>2. CASE debt[a] > 0
    <3>1. FreshPrice /\ RatioOk(coll'[a], debt[a])
      BY <1>3, <1>5, <2>1, <2>2 DEF LeavesHealthy
    <3>2. Healthy(a)'
      BY <1>1, <1>3, <2>1, <3>1, RatioIsHealth DEF Healthy, Shortfall
    <3> QED
      BY <2>1, <3>1, <3>2 DEF Kept, Fair, FreshPrice, BothFresh
  <2>3. CASE debt[a] = 0
    <3>1. RatioOk(coll'[a], debt[a])
      BY <2>3 DEF RatioOk
    <3>2. Healthy(a)'
      BY <1>1, <1>3, <2>1, <3>1, RatioIsHealth DEF Healthy, Shortfall
    <3> QED
      BY <2>1, <2>3, <3>2 DEF Kept, Fair
  <2> QED
    BY <2>1, <2>2, <2>3
<1> QED
  BY <1>4, <1>5

LEMMA LiquidateKept ==
    ASSUME IInv, NEW a \in Addr, NEW b \in Addr, NEW o \in Addr, Liquidate(b, o)
    PROVE  Kept(a) /\ Fair(a)
<1>1. coll \in [Addr -> Nat] /\ debt \in [Addr -> Nat] /\ price \in Nat
  BY Figures
<1>2. /\ FreshPrice /\ price > 0 /\ UnderRatio(o) /\ price' = price
      /\ debt' = [debt EXCEPT ![o] = 0] /\ coll' = [coll EXCEPT ![o] = @ - Seize(o)]
      /\ totalDebt' = totalDebt - debt[o]
  BY DEF Liquidate, FreshPrice, oracle
<1>3. CASE a # o
  BY <1>1, <1>2, <1>3, Safer
<1>4. CASE a = o
  <2>1. /\ Seize(a) \in 0..coll[a]
        /\ Seize(a) * price * 100 <= debt[a] * (100 + LiqBonusPct)
    BY <1>2, SeizeBounds
  <2>2. /\ debt'[a] = 0 /\ coll'[a] = coll[a] - Seize(a) /\ coll[a] \in Nat
        /\ coll'[a] \in Nat /\ coll[a] - coll'[a] = Seize(a)
    BY <1>1, <1>2, <1>4, <2>1
  <2>3. RatioOk(coll'[a], debt'[a])
    BY <2>2 DEF RatioOk
  <2>4. Healthy(a)'
    BY <1>1, <1>2, <2>2, <2>3, RatioIsHealth DEF Healthy, Shortfall
  <2>5. ~Healthy(a)
    BY <1>1, <1>2, <1>4, RatioIsHealth DEF UnderRatio, Healthy, Shortfall
  <2>6. pairFresh
    BY <1>2 DEF FreshPrice, BothFresh
  <2> QED
    BY <1>2, <1>4, <2>1, <2>2, <2>4, <2>5, <2>6 DEF Kept, Fair
<1> QED
  BY <1>3, <1>4

LEMMA StepKept == IInv /\ [Next]_vars => \A a \in Addr : Kept(a) /\ Fair(a)
<1> SUFFICES ASSUME IInv, [Next]_vars, NEW a \in Addr PROVE Kept(a) /\ Fair(a)
  OBVIOUS
<1>1. /\ coll \in [Addr -> Nat] /\ debt \in [Addr -> Nat]
      /\ collHeld \in Nat /\ trackedColl \in Nat /\ collHeld >= trackedColl
      /\ stableHeld \in Nat
  BY Figures
<1>2. CASE UNCHANGED <<coll, debt>>
  BY <1>1, <1>2, Safer
<1>3. ASSUME NEW b \in Addr, Deposit(b) PROVE Kept(a) /\ Fair(a)
  <2>1. debt' = debt /\ coll' = [coll EXCEPT ![b] = @ + (collHeld - trackedColl)]
    BY <1>3 DEF Deposit, CollDelta
  <2>2. /\ coll'[a] \in Nat /\ coll'[a] >= coll[a]
    BY <1>1, <2>1
  <2> QED
    BY <1>1, <2>1, <2>2, Safer
<1>4. ASSUME NEW b \in Addr, Repay(b) PROVE Kept(a) /\ Fair(a)
  <2> DEFINE q == Min({stableHeld, debt[b]})
  <2>1. coll' = coll /\ debt' = [debt EXCEPT ![b] = @ - q]
    BY <1>4 DEF Repay, StableDelta
  <2>2. q = IF stableHeld <= debt[b] THEN stableHeld ELSE debt[b]
    BY <1>1 DEF Min
  <2> HIDE DEF q
  <2>3. debt'[a] \in Nat /\ debt'[a] <= debt[a]
    BY <1>1, <2>1, <2>2
  <2> QED
    BY <1>1, <2>1, <2>3, Safer
<1> QED
  BY <1>2, <1>3, <1>4, BorrowKept, WithdrawKept, LiquidateKept
     DEF Next, PublishRound, PublishOther, GoStale, DepositColl, DepositStable, TransferStable,
         MintByAnyone, DestroyByHolder, vars, books

(* No call takes a vault below the ratio by more than the tolerance while    *)
(* the oracle stays put, and none uses a stale price.                        *)
THEOREM VaultStaysHealthy == Spec => StaysHealthy
<1>1. IInv /\ [Next]_vars => [\A a \in Addr : Kept(a)]_vars
  BY StepKept
<1> QED
  BY <1>1, InvariantIInv, PTL DEF Spec, StaysHealthy, Kept

(* A liquidation takes an under-ratio vault, its whole debt, and collateral  *)
(* worth the debt and the bonus at most.                                     *)
THEOREM VaultLiquidatedFairly == Spec => LiquidatedFairly
<1>1. IInv /\ [Next]_vars => [\A a \in Addr : Fair(a)]_vars
  BY StepKept
<1> QED
  BY <1>1, InvariantIInv, PTL DEF Spec, LiquidatedFairly, Fair
=============================================================================
