--------------------------- MODULE PriceBet_proofs ---------------------------
(* Proofs about PriceBet, for every set of addresses, stake, grid, window,   *)
(* call budget and preload, and for every history of the oracle.             *)
EXTENDS PriceBet, Amounts_proofs

-----------------------------------------------------------------------------
(* Least and greatest elements. *)

(* A set of natural numbers that has an element has a least one.             *)
LEMMA MinOfNaturals ==
    ASSUME NEW S, S \subseteq Nat, S # {}
    PROVE  Min(S) \in S /\ \A y \in S : Min(S) <= y
<1>1. \E x \in S : \A y \in S : x <= y
  <2> SUFFICES ASSUME \A x \in S : \E y \in S : y < x PROVE FALSE
    OBVIOUS
  <2> DEFINE B == {n \in Nat : \A m \in 0..n : m \notin S}
  <2>1. 0 \in B
    OBVIOUS
  <2>2. ASSUME NEW n \in Nat, n \in B PROVE n + 1 \in B
    <3>1. n + 1 \notin S
      BY <2>2
    <3>2. \A m \in 0..n + 1 : m \in 0..n \/ m = n + 1
      BY <2>2
    <3> QED
      BY <2>2, <3>1, <3>2
  <2>3. Nat \subseteq B
    <3> HIDE DEF B
    <3> QED
      BY <2>1, <2>2, CountingUp
  <2>4. \A n \in Nat : n \notin S
    BY <2>3
  <2> QED
    BY <2>4
<1> QED
  BY <1>1 DEF Min

(* A bounded one has a greatest.                                             *)
LEMMA MaxOfNaturals ==
    ASSUME NEW n \in Nat, NEW S, S \subseteq 0..n, S # {}
    PROVE  Max(S) \in S /\ \A y \in S : y <= Max(S)
<1> DEFINE U == {u \in Nat : \A y \in S : y <= u}
<1>1. n \in U
  OBVIOUS
<1>2. PICK m \in U : \A u \in U : m <= u
  <2> HIDE DEF U
  <2>1. U # {}
    BY <1>1
  <2>2. U \subseteq Nat
    BY DEF U
  <2> QED
    BY <2>1, <2>2, MinOfNaturals
<1>3. m \in S
  <2> SUFFICES ASSUME m \notin S PROVE FALSE
    OBVIOUS
  <2>1. \A y \in S : y <= m - 1 /\ m - 1 \in Nat
    BY <1>2
  <2>2. m - 1 \in U
    BY <2>1
  <2> QED
    BY <1>2, <2>2
<1> QED
  BY <1>2, <1>3 DEF Max

LEMMA MinOfTwo ==
    ASSUME NEW p \in Nat, NEW q \in Nat
    PROVE  Min({p, q}) = IF p <= q THEN p ELSE q
<1>1. Min({p, q}) \in {p, q} /\ \A y \in {p, q} : Min({p, q}) <= y
  BY MinOfNaturals
<1> QED
  BY <1>1

-----------------------------------------------------------------------------
(* The inductive invariant. *)

Terms == /\ kind \in {"round", "timed"}
         /\ side \in {"OVER", "UNDER"}
         /\ amount \in Stakes
         /\ target \in Nat
         /\ height \in 0..MaxHeight

\* A matched bet's pot covers both stakes.
PotCovered == status = "MATCHED" => held >= BothStakes

\* A bet nobody took has no winner.
Untaken == status \in {"INIT", "OPEN"} => winner = Nobody

Taken == {"MATCHED", "PUSH", "SETTLED", "VOID"}

\* The cursor of a timed bet has only left behind rounds that cannot decide it.
CursorSkipsNothing ==
    kind = "timed" /\ status \in Taken =>
        /\ anchor \in 1..cursor
        /\ cursor <= Len(rounds) + 1
        /\ \A r \in anchor..cursor - 1 : ~rounds[r].late

IInv == /\ TypeOK
        /\ Terms
        /\ OnGrid(held, TickGrid)
        /\ PotCovered /\ Untaken
        /\ CursorSkipsNothing
        /\ DecidedByHistory

-----------------------------------------------------------------------------
(* The oracle accessors. *)

Row == Finalized \cup {Gap}

\* The parameters without the addresses.
LEMMA Constants ==
    /\ Stakes \subseteq Nat \ {0} /\ TickGrid \in Nat \ {0} /\ Window \in Nat \ {0}
    /\ MaxReads \in Nat \ {0} /\ Preload \in Nat \ {0}
    /\ Supply \in Nat /\ MaxHeight \in Nat /\ MaxRound \in Nat \ {0}
  BY BetAssumption

LEMMA TipIsNewest ==
    ASSUME rounds \in Seq(Row)
    PROVE  /\ Tip \in 0..Len(rounds)
           /\ \A r \in 1..Len(rounds) : rounds[r] # Gap => r <= Tip
<1> DEFINE S == {r \in 1..Len(rounds) : rounds[r] # Gap} \cup {0}
<1>1. Len(rounds) \in Nat /\ S \subseteq 0..Len(rounds) /\ S # {}
  OBVIOUS
<1>2. Max(S) \in S /\ \A y \in S : y <= Max(S)
  <2> HIDE DEF S
  <2> QED
    BY <1>1, MaxOfNaturals
<1> QED
  BY <1>1, <1>2 DEF Tip

(* A round the window has not passed reads as what became of it.             *)
LEMMA ReadInside ==
    ASSUME rounds \in Seq(Row), NEW r \in Nat, ~Outside(r)
    PROVE  /\ Read(r) = IF r \in 1..Len(rounds) THEN rounds[r] ELSE Gap
           /\ Priced(r) <=> r \in 1..Len(rounds) /\ rounds[r] # Gap
<1>1. Read(r) = IF r \in 1..Len(rounds) THEN rounds[r] ELSE Gap
  BY DEF Outside, Read
<1>2. Gap \notin Finalized
  BY DEF Gap, Finalized
<1>3. r \in 1..Len(rounds) => rounds[r] \in Row
  OBVIOUS
<1> QED
  BY <1>1, <1>2, <1>3 DEF Priced, Row

LEMMA PricedIsInside ==
    ASSUME NEW r, Priced(r)
    PROVE  ~Outside(r)
  BY DEF Priced, Outside, Finalized, Evicted

LEMMA LateIsFinalized ==
    ASSUME NEW x \in Row, x.late
    PROVE  x # Gap /\ x \in Finalized
  BY DEF Row, Gap, Finalized

-----------------------------------------------------------------------------
(* What history decides, and what a call reads of it. *)

\* A timed bet that was accepted looks at rounds that exist.
Anchored == kind = "timed" => anchor \in Nat \ {0}

LEMMA CandidateSet ==
    ASSUME rounds \in Seq(Row), Terms, Anchored
    PROVE  /\ Candidates \subseteq 1..Len(rounds)
           /\ Decided <=> \E r \in Candidates : rounds[r] # Gap
           /\ kind = "timed" => \A r \in Candidates : rounds[r].late
           /\ kind = "timed" => \A r \in anchor..Len(rounds) : rounds[r].late => r \in Candidates
  BY DEF Candidates, Decided, Terms, Anchored

(* More history does not change which round decided, nor its price.          *)
LEMMA HistoryKept ==
    ASSUME rounds \in Seq(Row), Terms, Anchored, Decided,
           rounds' = rounds \/ \E x \in Row : rounds' = Append(rounds, x),
           UNCHANGED <<terms, anchor>>
    PROVE  /\ Decided'
           /\ Min(Candidates') = Min(Candidates)
           /\ rounds'[Min(Candidates)] = rounds[Min(Candidates)]
<1>1. /\ Len(rounds) \in Nat /\ Len(rounds') \in Len(rounds)..Len(rounds) + 1
      /\ \A r \in 1..Len(rounds) : rounds'[r] = rounds[r]
  OBVIOUS
<1>2. /\ Candidates \subseteq 1..Len(rounds) /\ Candidates # {}
  BY CandidateSet DEF Decided
<1>3. Min(Candidates) \in Candidates /\ \A y \in Candidates : Min(Candidates) <= y
  <2>1. Candidates \subseteq Nat
    BY <1>1, <1>2
  <2> QED
    BY <1>2, <2>1, MinOfNaturals
<1>4. /\ Candidates \subseteq Candidates'
      /\ \A r \in Candidates' : r \in Candidates \/ (r > Len(rounds) /\ r \in Nat)
  <2>1. CASE kind = "round"
    <3>1. kind' = "round" /\ target' = target
      BY <2>1 DEF terms
    <3>2. target \in Nat /\ target \in 1..Len(rounds)
      BY <1>2, <2>1 DEF Candidates, Terms
    <3> QED
      BY <1>1, <2>1, <3>1, <3>2 DEF Candidates
  <2>2. CASE kind = "timed"
    <3>1. kind' = "timed" /\ anchor' = anchor /\ anchor \in Nat \ {0}
      BY <2>2 DEF terms, Anchored
    <3>2. Candidates = {r \in anchor..Len(rounds) : rounds[r].late}
      BY <2>2 DEF Candidates
    <3>3. Candidates' = {r \in anchor..Len(rounds') : rounds'[r].late}
      BY <3>1 DEF Candidates
    <3> QED
      BY <1>1, <3>1, <3>2, <3>3
  <2> QED
    BY <2>1, <2>2 DEF Terms
<1>5. Candidates' \subseteq Nat /\ Candidates' # {}
  <2>1. \A r \in Candidates : r \in Nat
    BY <1>1, <1>2
  <2>2. \A r \in Candidates' : r \in Nat
    BY <1>4, <2>1
  <2> QED
    BY <1>2, <1>4, <2>2
<1>6. Min(Candidates') \in Candidates' /\ \A y \in Candidates' : Min(Candidates') <= y
  BY <1>5, MinOfNaturals
<1>7. Min(Candidates') = Min(Candidates)
  <2> DEFINE m == Min(Candidates)
             n == Min(Candidates')
  <2>1. m \in 1..Len(rounds) /\ m \in Candidates' /\ m \in Candidates
    BY <1>2, <1>3, <1>4
  <2>2. n <= m /\ n \in Nat
    BY <1>5, <1>6, <2>1
  <2>3. n \in Candidates
    BY <1>1, <1>4, <1>6, <2>1, <2>2
  <2>4. m <= n
    BY <1>3, <2>3
  <2> QED
    BY <1>1, <2>1, <2>2, <2>4
<1>8. Decided'
  <2>1. PICK r \in Candidates : rounds[r] # Gap
    BY DEF Decided
  <2>2. r \in Candidates' /\ rounds'[r] = rounds[r]
    BY <1>1, <1>2, <1>4, <2>1
  <2> QED
    BY <2>1, <2>2 DEF Decided, Gap
<1>9. Min(Candidates) \in 1..Len(rounds)
  BY <1>2, <1>3
<1> QED
  BY <1>1, <1>7, <1>8, <1>9

(* The rounds a call may read are published, and counted by Cardinality.     *)
LEMMA SpanBounds ==
    ASSUME rounds \in Seq(Row), cursor \in Nat
    PROVE  \E e \in Nat :
             /\ Span = cursor..e
             /\ e <= Tip
             /\ e = Tip \/ e = cursor + MaxReads - 1
             /\ Cardinality(Span) = IF cursor > e THEN 0 ELSE e - cursor + 1
<1> DEFINE e == Min({Tip, cursor + MaxReads - 1})
<1>1. Tip \in Nat /\ cursor + MaxReads - 1 \in Nat /\ MaxReads \in Nat \ {0}
  BY TipIsNewest, Constants
<1>2. e = IF Tip <= cursor + MaxReads - 1 THEN Tip ELSE cursor + MaxReads - 1
  BY <1>1, MinOfTwo
<1>3. Span = cursor..e
  BY DEF Span
<1>4. e \in Nat /\ e <= Tip /\ (e = Tip \/ e = cursor + MaxReads - 1)
  BY <1>1, <1>2
<1>5. Cardinality(cursor..e) = IF cursor > e THEN 0 ELSE e - cursor + 1
  <2> HIDE DEF e
  <2> QED
    BY <1>4, FS_Interval
<1> HIDE DEF e
<1> QED
  BY <1>3, <1>4, <1>5

(* A settle() that stops at a round stops at the one history decides by.     *)
LEMMA HitDecides ==
    ASSUME IInv, kind = "timed", status = "MATCHED",
           \A r \in Walked : ~Outside(r), Hits # {}
    PROVE  /\ Decided
           /\ Min(Candidates) = Min(Hits)
           /\ Read(Min(Hits)) = rounds[Min(Hits)]
           /\ rounds[Min(Hits)] \in Finalized
<1>1. /\ rounds \in Seq(Row) /\ cursor \in Nat /\ anchor \in Nat \ {0} /\ anchor <= cursor
      /\ \A r \in anchor..cursor - 1 : ~rounds[r].late
  BY DEF IInv, TypeOK, CursorSkipsNothing, Taken, Row
<1>2. PICK e \in Nat : Span = cursor..e /\ e <= Tip
  BY <1>1, SpanBounds
<1>3. Tip \in 0..Len(rounds) /\ Len(rounds) \in Nat
  BY <1>1, TipIsNewest
<1>4. Hits \subseteq cursor..e /\ cursor..e \subseteq 1..Len(rounds)
  BY <1>1, <1>2, <1>3 DEF Hits
<1> DEFINE m == Min(Hits)
<1>5. m \in Hits /\ \A y \in Hits : m <= y
  <2>1. Hits \subseteq Nat
    BY <1>1, <1>4
  <2> HIDE DEF m
  <2> QED
    BY <2>1, MinOfNaturals DEF m
<1>6. m \in cursor..e /\ m \in 1..Len(rounds) /\ m \in Nat /\ Qualifies(m)
  BY <1>1, <1>4, <1>5 DEF Hits
<1>7. Walked = cursor..m
  BY DEF Walked
<1> HIDE DEF m
<1>8. \A r \in cursor..m : Read(r) = rounds[r] /\ (Priced(r) <=> rounds[r] # Gap)
  <2> SUFFICES ASSUME NEW r \in cursor..m
               PROVE  Read(r) = rounds[r] /\ (Priced(r) <=> rounds[r] # Gap)
    OBVIOUS
  <2>1. r \in Nat /\ r \in 1..Len(rounds) /\ ~Outside(r)
    BY <1>1, <1>3, <1>6, <1>7
  <2> QED
    BY <1>1, <2>1, ReadInside
<1>9. Read(m) = rounds[m] /\ rounds[m] \in Finalized /\ rounds[m].late
  BY <1>6, <1>8 DEF Qualifies, Priced
<1>10. Candidates = {r \in anchor..Len(rounds) : rounds[r].late}
  BY DEF Candidates
<1>11. m \in Candidates
  BY <1>1, <1>3, <1>6, <1>9, <1>10
<1>12. ASSUME NEW y \in Candidates, y < m PROVE FALSE
  <2>1. y \in anchor..Len(rounds) /\ rounds[y].late /\ y \in cursor..m /\ y \in 1..Len(rounds)
    BY <1>1, <1>3, <1>6, <1>10, <1>12
  <2>2. rounds[y] \in Row
    BY <1>1, <2>1
  <2>3. Qualifies(y)
    BY <1>8, <2>1, <2>2, LateIsFinalized DEF Qualifies
  <2>4. y \in Hits
    BY <1>2, <1>6, <2>1, <2>3, <1>12 DEF Hits
  <2> QED
    BY <1>5, <1>6, <1>12, <2>1, <2>4
<1>13. Min(Candidates) = m
  <2>1. Candidates \subseteq Nat
    BY <1>1, <1>3, <1>10
  <2>2. Min(Candidates) \in Candidates /\ \A y \in Candidates : Min(Candidates) <= y
    BY <1>11, <2>1, MinOfNaturals
  <2> DEFINE n == Min(Candidates)
  <2>3. n \in Candidates /\ n \in Nat /\ n <= m
    BY <1>11, <2>1, <2>2
  <2>4. ~ n < m
    BY <1>12, <2>3
  <2> QED
    BY <1>6, <2>3, <2>4
<1>14. Decided
  BY <1>9, <1>11 DEF Decided, Finalized, Gap
<1> QED
  BY <1>9, <1>13, <1>14 DEF m

(* A call that stops nowhere saw only rounds that cannot decide.             *)
LEMMA MissesDecideNothing ==
    ASSUME IInv, kind = "timed", status = "MATCHED",
           \A r \in Walked : ~Outside(r), Hits = {}
    PROVE  \A r \in Span : r \in 1..Len(rounds) /\ ~rounds[r].late
<1>1. rounds \in Seq(Row) /\ cursor \in Nat \ {0}
  BY DEF IInv, TypeOK, CursorSkipsNothing, Taken, Row
<1>2. PICK e \in Nat : Span = cursor..e /\ e <= Tip
  BY <1>1, SpanBounds
<1>3. Tip \in 0..Len(rounds) /\ Len(rounds) \in Nat
  BY <1>1, TipIsNewest
<1> SUFFICES ASSUME NEW r \in Span PROVE r \in 1..Len(rounds) /\ ~rounds[r].late
  OBVIOUS
<1>4. r \in Nat /\ r \in 1..Len(rounds) /\ ~Outside(r)
  BY <1>1, <1>2, <1>3 DEF Walked
<1>5. Read(r) = rounds[r] /\ (Priced(r) <=> rounds[r] # Gap) /\ ~Qualifies(r)
  BY <1>1, <1>4, ReadInside DEF Hits
<1>6. rounds[r] \in Row
  BY <1>1, <1>4
<1> QED
  BY <1>4, <1>5, <1>6, LateIsFinalized DEF Qualifies

(* What ReclaimTimed and ReclaimRound check leaves history undecided.        *)
LEMMA AllMissUndecided ==
    ASSUME IInv, kind = "timed", status = "MATCHED", AllMiss
    PROVE  ~Decided
<1>1. /\ rounds \in Seq(Row) /\ cursor \in Nat /\ anchor \in Nat \ {0} /\ anchor <= cursor
      /\ \A r \in anchor..cursor - 1 : ~rounds[r].late
  BY DEF IInv, TypeOK, CursorSkipsNothing, Taken, Row
<1>2. PICK e \in Nat : /\ Span = cursor..e /\ e <= Tip
                       /\ Cardinality(Span) = IF cursor > e THEN 0 ELSE e - cursor + 1
  BY <1>1, SpanBounds
<1>3. /\ Tip \in 0..Len(rounds) /\ Len(rounds) \in Nat
      /\ \A r \in 1..Len(rounds) : rounds[r] # Gap => r <= Tip
  BY <1>1, TipIsNewest
<1>4. \A r \in Span : ~rounds[r].late
  BY MissesDecideNothing DEF AllMiss
<1>5. cursor + Cardinality(Span) > Tip
  BY DEF AllMiss
<1>6. ASSUME NEW r \in anchor..Len(rounds), rounds[r].late PROVE FALSE
  <2>1. r \in 1..Len(rounds) /\ rounds[r] \in Row
    BY <1>1, <1>3, <1>6
  <2>2. r <= Tip
    BY <1>3, <1>6, <2>1, LateIsFinalized
  <2>3. r >= cursor
    BY <1>1, <1>6, <2>1
  <2>4. r \in cursor..e
    BY <1>1, <1>2, <1>3, <1>5, <2>1, <2>2, <2>3
  <2> QED
    BY <1>2, <1>4, <1>6, <2>4
<1> QED
  BY <1>6 DEF Decided, Candidates

LEMMA UnpublishedUndecided ==
    ASSUME IInv, kind = "round", Unpublished
    PROVE  ~Decided
<1>1. rounds \in Seq(Row) /\ target \in Nat
  BY DEF IInv, TypeOK, Terms, Row
<1>2. target \in 1..Len(rounds) => rounds[target] = Gap
  BY <1>1, ReadInside DEF Unpublished
<1> QED
  BY <1>2 DEF Decided, Candidates

-----------------------------------------------------------------------------
(* Each step keeps the invariant. *)

LEMMA InitIInv == Init => IInv
<1> SUFFICES ASSUME Init PROVE IInv
  OBVIOUS
<1>1. rounds \in Seq(Finalized \cup {Gap})
  <2>1. PICK n \in 0..MaxRound : rounds \in [1..n -> Finalized \cup {Gap}]
    BY Constants DEF Init, Histories
  <2> QED
    BY <2>1, Constants
<1>2. TypeOK
  BY <1>1, Constants DEF Init, TypeOK
<1>3. Terms
  BY Constants DEF Init, InitRound, InitTimed, Terms
<1>4. OnGrid(held, TickGrid)
  BY Constants, ZeroOnGrid DEF Init
<1> QED
  BY <1>2, <1>3, <1>4 DEF Init, IInv, PotCovered, Untaken, CursorSkipsNothing,
      Taken, DecidedByHistory

(* While the contract's store is left alone, its outcome stays the outcome   *)
(* of a history that only grows.                                             *)
LEMMA OutcomeStands ==
    ASSUME IInv, UNCHANGED <<terms, store, returned, anchor>>,
           rounds' = rounds \/ \E x \in Row : rounds' = Append(rounds, x)
    PROVE  CursorSkipsNothing' /\ DecidedByHistory'
<1>1. /\ rounds \in Seq(Row) /\ Terms /\ cursor \in Nat
      /\ UNCHANGED <<kind, side, amount, target, status, taker, cursor, winner>>
  BY DEF IInv, TypeOK, Row, terms, store
<1>2. /\ Len(rounds) \in Nat /\ Len(rounds') \in Len(rounds)..Len(rounds) + 1
      /\ \A r \in 1..Len(rounds) : rounds'[r] = rounds[r]
  BY <1>1
<1>3. CursorSkipsNothing'
  <2> SUFFICES ASSUME kind = "timed", status \in Taken
               PROVE  /\ anchor \in 1..cursor
                      /\ cursor <= Len(rounds') + 1
                      /\ \A r \in anchor..cursor - 1 : ~rounds'[r].late
    BY <1>1 DEF CursorSkipsNothing, Taken
  <2>1. /\ anchor \in 1..cursor /\ cursor <= Len(rounds) + 1
        /\ \A r \in anchor..cursor - 1 : ~rounds[r].late
    BY DEF IInv, CursorSkipsNothing
  <2>2. \A r \in anchor..cursor - 1 : r \in 1..Len(rounds)
    BY <1>1, <1>2, <2>1
  <2> QED
    BY <1>1, <1>2, <2>1, <2>2
<1>4. CASE status \in {"SETTLED", "PUSH"}
  <2>1. Anchored /\ Decided
    BY <1>1, <1>4 DEF Anchored, IInv, CursorSkipsNothing, Taken, DecidedByHistory
  <2>2. /\ Decided' /\ Min(Candidates') = Min(Candidates)
        /\ rounds'[Min(Candidates)] = rounds[Min(Candidates)]
    BY <1>1, <2>1, HistoryKept
  <2>3. \A price : WinnerAt(price)' = WinnerAt(price)
    BY <1>1 DEF WinnerAt
  <2>4. DecidedByHistory
    BY DEF IInv
  <2> QED
    BY <1>1, <1>3, <1>4, <2>2, <2>3, <2>4 DEF DecidedByHistory
<1>5. CASE status \notin {"SETTLED", "PUSH"}
  BY <1>1, <1>3, <1>5 DEF IInv, DecidedByHistory
<1> QED
  BY <1>4, <1>5

(* A refund returns the whole pot, the maker's base units and the rest.      *)
LEMMA RefundWhole ==
    ASSUME IInv, status = "MATCHED", RefundBoth
    PROVE  /\ held' = 0
           /\ returned' \in Nat \X Nat
           /\ returned'[1] = FloorTo(amount, TickGrid)
           /\ returned'[2] >= amount
<1>1. /\ amount \in Nat /\ held \in Nat /\ TickGrid \in Nat \ {0}
      /\ OnGrid(held, TickGrid) /\ held >= 2 * amount
  BY Constants DEF IInv, TypeOK, Terms, PotCovered, BothStakes
<1> DEFINE f == FloorTo(amount, TickGrid)
<1>2. f \in 0..amount /\ OnGrid(f, TickGrid)
  BY <1>1, FloorToBounds, FloorToOnGrid
<1>3. MakerLeg = f
  BY DEF MakerLeg
<1> HIDE DEF f
<1>4. f \in Nat /\ f \in 0..held /\ held - f \in Nat /\ held - f >= amount
  BY <1>1, <1>2
<1>5. OnGrid(held - f, TickGrid)
  BY <1>1, <1>2, <1>4, GridDifference
<1>6. HalfUp(f, TickGrid) = f /\ HalfUp(held - f, TickGrid) = held - f
  BY <1>1, <1>2, <1>4, <1>5, LedgerKeepsGrid
<1>7. held' = held - f - (held - f) /\ returned' = <<f, held - f>>
  BY <1>3, <1>6 DEF RefundBoth
<1> QED
  BY <1>1, <1>4, <1>7 DEF f

(* Blocks, rounds and deposits.                                              *)
LEMMA EnvironmentIInv ==
    ASSUME IInv, NextBlock \/ Publish \/ \E q \in 1..Supply - held : Deposit(q)
    PROVE  IInv'
<1>1. UNCHANGED <<terms, store, returned, anchor>>
  BY DEF NextBlock, Publish, Deposit, ledger
<1>2. rounds' = rounds \/ \E x \in Row : rounds' = Append(rounds, x)
  BY DEF NextBlock, Publish, Deposit, Row
<1>3. CursorSkipsNothing' /\ DecidedByHistory'
  BY <1>1, <1>2, OutcomeStands
<1>4. /\ held' \in Nat /\ held' >= held /\ OnGrid(held', TickGrid) /\ held \in Nat
  <2>1. held \in Nat /\ OnGrid(held, TickGrid)
    BY DEF IInv, TypeOK
  <2>2. ASSUME NEW q \in 1..Supply - held, Deposit(q)
        PROVE  held' \in Nat /\ held' >= held /\ OnGrid(held', TickGrid)
    <3>1. q \in Nat /\ held' = held + q /\ OnGrid(q, TickGrid)
      BY <2>1, <2>2, Constants DEF Deposit
    <3> QED
      BY <2>1, <3>1, Constants, GridSum
  <2>3. CASE held' = held
    BY <2>1, <2>3
  <2> QED
    BY <2>1, <2>2, <2>3 DEF NextBlock, Publish, ledger
<1>5. rounds' \in Seq(Finalized \cup {Gap})
  <2>1. rounds \in Seq(Row)
    BY DEF IInv, TypeOK, Row
  <2>2. rounds' \in Seq(Row)
    <3>1. CASE rounds' = rounds
      BY <2>1, <3>1
    <3>2. ASSUME NEW x \in Row, rounds' = Append(rounds, x)
          PROVE  rounds' \in Seq(Row)
      BY <2>1, <3>2
    <3> QED
      BY <1>2, <3>1, <3>2
  <2> QED
    BY <2>2 DEF Row
<1>6. height' \in 0..MaxHeight
  BY Constants DEF IInv, Terms, NextBlock, Publish, Deposit, block
<1>7. TypeOK' /\ Terms'
  BY <1>1, <1>4, <1>5, <1>6 DEF IInv, TypeOK, Terms, terms, store
<1>8. PotCovered'
  BY <1>1, <1>4, Constants DEF IInv, Terms, PotCovered, BothStakes, terms, store
<1> QED
  BY <1>1, <1>3, <1>4, <1>7, <1>8 DEF IInv, Untaken, store
(* fund(), and a taker accepting.                                            *)
LEMMA FundIInv == ASSUME IInv, Fund PROVE IInv'
  BY DEF IInv, TypeOK, Terms, PotCovered, Untaken, CursorSkipsNothing, Taken, DecidedByHistory,
      Fund,
         ledger, block, terms

LEMMA AcceptIInv ==
    ASSUME IInv, NEW a \in Addr, AcceptRound(a) \/ AcceptTimed(a)
    PROVE  IInv'
<1>1. PICK from \in Nat :
        /\ Match(a, from)
        /\ kind = "timed" => from \in 1..Len(rounds)
  <2>1. rounds \in Seq(Row)
    BY DEF IInv, TypeOK, Row
  <2>2. CASE AcceptRound(a)
    BY <2>2 DEF AcceptRound
  <2>3. CASE AcceptTimed(a)
    <3>1. Tip \in 1..Len(rounds) /\ Tip \in Nat /\ Len(rounds) \in Nat
      BY <2>1, <2>3, TipIsNewest DEF AcceptTimed
    <3> QED
      BY <2>3, <3>1 DEF AcceptTimed
  <2> QED
    BY <2>2, <2>3
<1>2. /\ status = "OPEN" /\ a # Maker /\ held >= BothStakes
      /\ status' = "MATCHED" /\ taker' = a /\ deadline' = height + Window
      /\ cursor' = from /\ anchor' = from
      /\ UNCHANGED <<kind, side, amount, target, winner, held, returned, height, rounds>>
  BY <1>1 DEF Match, terms, ledger, block
<1>3. Terms' /\ PotCovered' /\ OnGrid(held, TickGrid)'
  BY <1>2 DEF IInv, Terms, PotCovered, BothStakes
<1>4. CursorSkipsNothing'
  <2>1. rounds \in Seq(Row)
    BY DEF IInv, TypeOK, Row
  <2> QED
    BY <1>1, <1>2, <2>1 DEF CursorSkipsNothing, Taken
<1>5. DecidedByHistory'
  BY <1>2 DEF DecidedByHistory
<1>6. winner' = Nobody
  BY <1>2 DEF IInv, Untaken
<1>7. TypeOK'
  <2>1. deadline' \in 0..MaxHeight + Window
    BY <1>2, Constants DEF IInv, Terms
  <2> QED
    BY <1>2, <1>6, <2>1 DEF IInv, TypeOK
<1> QED
  BY <1>2, <1>3, <1>4, <1>5, <1>7 DEF IInv, Untaken

LEMMA CancelIInv == ASSUME IInv, Cancel PROVE IInv'
<1>1. /\ status' = "CANCELLED" /\ held' = 0
      /\ UNCHANGED <<kind, side, amount, target, taker, deadline, cursor, winner, returned,
                     height, rounds, anchor>>
  BY DEF Cancel, terms, block
<1>2. OnGrid(held', TickGrid)
  BY <1>1, Constants, ZeroOnGrid
<1> QED
  BY <1>1, <1>2 DEF IInv, TypeOK, Terms, PotCovered, Untaken, CursorSkipsNothing,
      Taken, DecidedByHistory

(* Paying on a price that history decided.                                   *)
LEMMA PayIInv ==
    ASSUME IInv, status = "MATCHED", Decided,
           NEW price, price = rounds[Min(Candidates)].price, Pay(price)
    PROVE  IInv'
<1>1. UNCHANGED <<kind, side, amount, target, taker, deadline, cursor, height, rounds, anchor>>
  BY DEF Pay, terms, block
<1>2. Decided' /\ Candidates' = Candidates
  BY <1>1 DEF Decided, Candidates, Gap
<1>3. WinnerAt(price)' = WinnerAt(price') /\ rounds'[Min(Candidates')].price = price
  BY <1>1, <1>2 DEF WinnerAt
<1>4. \/ price = "at" /\ status' = "PUSH" /\ RefundBoth /\ winner' = winner
      \/ /\ price # "at" /\ status' = "SETTLED" /\ winner' = WinnerAt(price)
         /\ held' = 0 /\ returned' = returned
  BY DEF Pay
<1>5. held' = 0 /\ returned' \in Nat \X Nat
  BY <1>4, RefundWhole DEF IInv, TypeOK
<1>6. CursorSkipsNothing'
  BY <1>1, <1>4 DEF IInv, CursorSkipsNothing, Taken
<1>7. DecidedByHistory'
  <2>1. WinnerAt(price) = WinnerAt(price)'
    BY <1>1 DEF WinnerAt
  <2> QED
    BY <1>1, <1>2, <1>3, <1>4, <2>1, RefundWhole DEF DecidedByHistory, WinnerAt
<1>8. winner' \in {Maker, taker, Nobody}
  BY <1>4 DEF IInv, TypeOK, WinnerAt
<1>9. OnGrid(held', TickGrid)
  BY <1>5, Constants, ZeroOnGrid
<1>10. status' \in {"PUSH", "SETTLED"}
  BY <1>4
<1> QED
  BY <1>1, <1>5, <1>6, <1>7, <1>8, <1>9, <1>10 DEF IInv, TypeOK, Terms, PotCovered, Untaken
LEMMA RangeSplit ==
    ASSUME NEW a \in Int, NEW b \in Int, NEW c \in Int
    PROVE  \A r \in a..c - 1 : r \in a..b - 1 \/ r \in b..c - 1
  OBVIOUS

LEMMA SettleIInv == ASSUME IInv, Settle PROVE IInv'
<1>1. CASE SettleRound
  <2>1. rounds \in Seq(Row) /\ target \in Nat /\ kind = "round" /\ status = "MATCHED"
    BY <1>1 DEF SettleRound, IInv, TypeOK, Terms, Row
  <2>2. Priced(target) /\ ~Outside(target)
    BY <1>1, PricedIsInside DEF SettleRound
  <2>3. /\ target \in 1..Len(rounds) /\ Read(target) = rounds[target] /\ rounds[target] # Gap
    BY <2>1, <2>2, ReadInside
  <2>4. Candidates = {target} /\ Decided
    BY <2>1, <2>3 DEF Candidates, Decided
  <2>5. Min(Candidates) = target
    BY <2>4 DEF Min
  <2> QED
    BY <1>1, <2>1, <2>3, <2>4, <2>5, PayIInv DEF SettleRound
<1>2. CASE SettleTimed
  BY <1>2, HitDecides, PayIInv DEF SettleTimed
<1>3. CASE AdvanceCursor
  <2>1. /\ rounds \in Seq(Row) /\ cursor \in Nat /\ anchor \in 1..cursor
        /\ cursor <= Len(rounds) + 1 /\ Len(rounds) \in Nat
        /\ \A r \in anchor..cursor - 1 : ~rounds[r].late
    BY <1>3 DEF AdvanceCursor, IInv, TypeOK, CursorSkipsNothing, Taken, Row
  <2>2. PICK e \in Nat : /\ Span = cursor..e /\ e <= Tip
                         /\ Cardinality(Span) = IF cursor > e THEN 0 ELSE e - cursor + 1
    BY <2>1, SpanBounds
  <2>3. Tip \in 0..Len(rounds)
    BY <2>1, TipIsNewest
  <2>4. \A r \in Span : ~rounds[r].late
    BY <1>3, MissesDecideNothing DEF AdvanceCursor
  <2>5. /\ cursor' = cursor + Cardinality(Span) /\ status = "MATCHED" /\ status' = status
        /\ UNCHANGED <<kind, side, amount, target, taker, deadline, winner, held, returned,
                       height, rounds, anchor>>
    BY <1>3 DEF AdvanceCursor, terms, ledger, block
  <2>6. /\ cursor' \in Nat /\ cursor' >= cursor /\ cursor' <= Len(rounds) + 1
        /\ \A r \in cursor..cursor' - 1 : r \in Span
    BY <2>1, <2>2, <2>3, <2>5
  <2>7. CursorSkipsNothing'
    <3>1. \A r \in anchor..cursor' - 1 : r \in anchor..cursor - 1 \/ r \in cursor..cursor' - 1
      <4>1. anchor \in Int /\ cursor \in Int /\ cursor' \in Int
        BY <2>1, <2>6
      <4> QED
        BY <4>1, RangeSplit
    <3>2. \A r \in anchor..cursor' - 1 : ~rounds[r].late
      BY <2>1, <2>4, <2>6, <3>1
    <3>3. anchor \in 1..cursor'
      BY <2>1, <2>6
    <3> QED
      BY <2>5, <2>6, <3>2, <3>3 DEF CursorSkipsNothing
  <2> QED
    BY <2>5, <2>6, <2>7 DEF IInv, TypeOK, Terms, PotCovered, BothStakes, Untaken, DecidedByHistory
<1> QED
  BY <1>1, <1>2, <1>3 DEF Settle

LEMMA ReclaimIInv == ASSUME IInv, NEW a \in Addr, Reclaim(a) PROVE IInv'
<1>1. Void(a)
  BY DEF Reclaim, ReclaimRound, ReclaimTimed
<1>2. /\ status = "MATCHED" /\ status' = "VOID" /\ RefundBoth
      /\ UNCHANGED <<kind, side, amount, target, taker, deadline, cursor, winner, height,
                     rounds, anchor>>
  BY <1>1 DEF Void, terms, block
<1>3. /\ held' = 0 /\ returned' \in Nat \X Nat
      /\ returned'[1] = FloorTo(amount, TickGrid) /\ returned'[2] >= amount
  BY <1>2, RefundWhole
<1>4. OnGrid(held', TickGrid)
  BY <1>3, Constants, ZeroOnGrid
<1> QED
  BY <1>2, <1>3, <1>4 DEF IInv, TypeOK, Terms, PotCovered, Untaken, CursorSkipsNothing, Taken,
                          DecidedByHistory

LEMMA StepIInv == IInv /\ [Next]_vars => IInv'
<1> SUFFICES ASSUME IInv, [Next]_vars PROVE IInv'
  OBVIOUS
<1>1. CASE UNCHANGED vars
  <2>1. UNCHANGED <<kind, side, amount, target, status, taker, deadline, cursor, winner, held,
                    returned, height, rounds, anchor>>
    BY <1>1 DEF vars, terms, store, ledger, block
  <2>2. CursorSkipsNothing' /\ DecidedByHistory'
    BY <2>1, OutcomeStands DEF terms, store
  <2> QED
    BY <2>1, <2>2 DEF IInv, TypeOK, Terms, PotCovered, BothStakes, Untaken
<1>2. CASE Next
  BY <1>2, EnvironmentIInv, FundIInv, CancelIInv, AcceptIInv, ReclaimIInv, SettleIInv DEF Next
<1> QED
  BY <1>1, <1>2

(* Whoever calls settle(), however late and often, the bet is decided by the *)
(* round consensus history names, and a refund gives both parties theirs:    *)
(* the cursor of a timed bet leaves behind only rounds that cannot decide.   *)
THEOREM BetDecidedByHistory == Spec => [](TypeOK /\ DecidedByHistory)
<1>1. IInv => TypeOK /\ DecidedByHistory
  BY DEF IInv
<1> QED
  BY <1>1, InitIInv, StepIInv, PTL DEF Spec

-----------------------------------------------------------------------------
\* What DecidedIsFinal says of one step.
Final == /\ status = "MATCHED" /\ status' = "VOID" => ~Decided
         /\ status = "OPEN" /\ status' = "MATCHED" /\ kind = "round" => ~Decided

LEMMA StepFinal == IInv /\ [Next]_vars => Final
<1> SUFFICES ASSUME IInv, [Next]_vars PROVE Final
  OBVIOUS
<1>1. ASSUME NEW a \in Addr, Reclaim(a) PROVE Final
  <2>1. status = "MATCHED" /\ status' = "VOID"
    BY <1>1 DEF Reclaim, ReclaimRound, ReclaimTimed, Void
  <2>2. ~Decided
    BY <1>1, <2>1, AllMissUndecided, UnpublishedUndecided DEF Reclaim, ReclaimRound, ReclaimTimed
  <2> QED
    BY <2>1, <2>2 DEF Final
<1>2. ASSUME NEW a \in Addr, AcceptRound(a) PROVE Final
  <2>1. status = "OPEN" /\ status' = "MATCHED" /\ ~Decided
    BY <1>2, UnpublishedUndecided DEF AcceptRound, Match
  <2> QED
    BY <2>1 DEF Final
<1>3. ASSUME NEW a \in Addr, AcceptTimed(a) PROVE Final
  BY <1>3 DEF AcceptTimed, Match, Final
<1>4. CASE Settle
  BY <1>4 DEF Settle, SettleRound, SettleTimed, AdvanceCursor, Pay, Final
<1>5. CASE Fund \/ Cancel
  BY <1>5 DEF Fund, Cancel, Final
<1>6. CASE UNCHANGED store
  BY <1>6 DEF store, Final
<1> QED
  BY <1>1, <1>2, <1>3, <1>4, <1>5, <1>6 DEF Next, NextBlock, Publish, Deposit, vars

(* reclaim() never voids a bet history has decided, and nobody takes a bet   *)
(* on a round that is already published.                                     *)
THEOREM BetDecidedIsFinal == Spec => DecidedIsFinal
  BY InitIInv, StepIInv, StepFinal, PTL DEF Spec, DecidedIsFinal, Final
=============================================================================
