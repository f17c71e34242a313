------------------------------ MODULE PriceBet ------------------------------
(***************************************************************************)
(* priceBet/priceBet.js and priceBetTimed/priceBetTimed.js: two parties    *)
(* stake the same amount on which side of a strike an oracle price falls.  *)
(* A "round" bet names the oracle round that decides; a "timed" bet is     *)
(* decided by the first round, from a cursor left by accept(), whose       *)
(* timestamp is at or after settleTime.  Custody is the same in both.      *)
(*                                                                         *)
(* A price is only its side of the strike; a timestamp, of a round or of a *)
(* block, is only whether it has reached settleTime, and neither kind is   *)
(* monotonic.  TickGrid of the units amounts are counted in make one base  *)
(* unit of the tick.                                                       *)
(***************************************************************************)
EXTENDS Grid, FiniteSetsExt, Sequences

CONSTANTS Addr,
          Maker,        \* maker
          Stakes,       \* the values amount is deployed with
          TickGrid,
          Window,       \* deadlineBlocks
          MaxReads,     \* MAX_READS
          Preload,      \* external: rounds of history a node keeps for the VM
          Supply,       \* bound: the units of the tick that may be in the contract
          MaxHeight,    \* bound: the last block considered
          MaxRound      \* bound: the last oracle round considered

ASSUME BetAssumption == /\ Stakes \subseteq Nat \ {0}
                        /\ TickGrid \in Nat \ {0}
                        /\ Window \in Nat \ {0}
                        /\ MaxReads \in Nat \ {0} /\ Preload \in Nat \ {0}
                        /\ Maker \in Addr
                        /\ Supply \in Nat
                        /\ MaxHeight \in Nat /\ MaxRound \in Nat \ {0}

VARIABLES kind, side, amount, target,                 \* terms; target is settleRound
          status, taker, deadline, cursor, winner,    \* the contract's store
          held,             \* the ledger's balance of the contract
          height, late,     \* the block, and whether its time reached settleTime
          rounds,           \* external: what became of each oracle round
          anchor,           \* ghost: the cursor accept() recorded
          returned          \* ghost: what refundBoth() gave the maker and the taker

terms == <<kind, side, amount, target>>
store == <<status, taker, deadline, cursor, winner>>
ledger == <<held, returned>>
block == <<height, late>>
vars == <<terms, store, ledger, block, rounds, anchor>>

Nobody == "nobody"

Finalized == [late : BOOLEAN, price : {"below", "at", "above"}]

\* A skipped or disputed round, and a round below the preload floor: the accessor
\* answers null for the one, a priceless row of timestamp 0 for the other.
Gap == [late |-> FALSE, price |-> "none"]
Evicted == [late |-> FALSE, price |-> "outside"]

-----------------------------------------------------------------------------
(* The oracle accessors. *)

\* The floor is global across pairs: it follows the newest round, gap or not.
Floor == Len(rounds) - Preload + 1

\* getPriceAtRound(): null, the round, or a priceless row marked outsideWindow.
Read(r) == IF r < Floor THEN Evicted
           ELSE IF r \in 1..Len(rounds) THEN rounds[r] ELSE Gap

\* getPrice(): the pair's own newest round, 0 for none.
Tip == Max({r \in 1..Len(rounds) : rounds[r] # Gap} \cup {0})

\* mutant: evicted rounds are stepped over like gaps
NeverOutside(r) == FALSE

Outside(r) == Read(r) = Evicted

\* roundPrice(r) !== null
Priced(r) == Read(r) \in Finalized

Qualifies(r) == Priced(r) /\ Read(r).late

-----------------------------------------------------------------------------
(* Deploying, at any point of the oracle's history. *)

Histories == UNION {[1..n -> Finalized \cup {Gap}] : n \in 0..MaxRound}

\* initialize() of a bet on a round: one the node can still read, or a future one.
InitRound == /\ kind = "round"
             /\ target \in 1..MaxRound
             /\ ~Outside(target)

\* initialize() of a timed bet: settleTime is in the future.
InitTimed == kind = "timed" /\ target = 0

Init == /\ rounds \in Histories
        /\ height = 0 /\ late = FALSE
        /\ InitRound \/ InitTimed
        /\ side \in {"OVER", "UNDER"}
        /\ amount \in Stakes
        /\ status = "INIT"
        /\ taker = Nobody /\ winner = Nobody
        /\ deadline = 0 /\ cursor = 0 /\ anchor = 0
        /\ held = 0 /\ returned = <<0, 0>>

-----------------------------------------------------------------------------
(* The environment. *)

NextBlock == /\ height < MaxHeight
             /\ height' = height + 1
             /\ late' \in BOOLEAN
             /\ UNCHANGED <<terms, store, ledger, rounds, anchor>>

Publish == /\ Len(rounds) < MaxRound
           /\ \E r \in Finalized \cup {Gap} : rounds' = Append(rounds, r)
           /\ UNCHANGED <<terms, store, ledger, block, anchor>>

\* By anyone, of any balance of the tick, which is on the grid.
Deposit(q) == /\ OnGrid(q, TickGrid)
              /\ held' = held + q
              /\ UNCHANGED <<terms, store, block, rounds, anchor, returned>>

-----------------------------------------------------------------------------
(* Funding and matching. *)

Fund == /\ status = "INIT"
        /\ held >= amount
        /\ status' = "OPEN"
        /\ UNCHANGED <<terms, taker, deadline, cursor, winner, ledger, block, rounds, anchor>>

BothStakes == 2 * amount

Match(a, from) == /\ status = "OPEN"
                  /\ a # Maker
                  /\ held >= BothStakes
                  /\ status' = "MATCHED"
                  /\ taker' = a
                  /\ deadline' = height + Window
                  /\ cursor' = from /\ anchor' = from
                  /\ UNCHANGED <<terms, winner, ledger, block, rounds>>

\* The state roundPrice() = null and ~settleRoundOutsideWindow() leave.
Unpublished == ~Priced(target) /\ ~Outside(target)

AcceptRound(a) == /\ kind = "round"
                  /\ Unpublished
                  /\ Match(a, 0)

AcceptTimed(a) == /\ kind = "timed"
                  /\ ~late
                  /\ Tip > 0 /\ ~Outside(Tip)
                  /\ Match(a, Tip)

Cancel == /\ status = "OPEN"
          /\ status' = "CANCELLED"
          /\ held' = 0 /\ UNCHANGED returned
          /\ UNCHANGED <<terms, taker, deadline, cursor, winner, block, rounds, anchor>>

-----------------------------------------------------------------------------
(* Settling. *)

\* mutant: the stake goes back as deployed, off the grid
RawLeg == amount

MakerLeg == FloorTo(amount, TickGrid)

\* refundBoth(): each leg is re-quantised by the ledger, and both must be covered.
RefundBoth == LET first == HalfUp(MakerLeg, TickGrid)
                  rest == HalfUp(held - MakerLeg, TickGrid)
              IN  /\ first + rest <= held
                  /\ held' = held - first - rest
                  /\ returned' = <<first, rest>>

WinnerAt(price) == IF (price = "above") = (side = "OVER") THEN Maker ELSE taker

Pay(price) == /\ IF price = "at"
                 THEN /\ status' = "PUSH"
                      /\ RefundBoth
                      /\ UNCHANGED winner
                 ELSE /\ status' = "SETTLED"
                      /\ winner' = WinnerAt(price)
                      /\ held' = 0 /\ UNCHANGED returned
              /\ UNCHANGED <<terms, taker, deadline, cursor, block, rounds, anchor>>

SettleRound == /\ kind = "round" /\ status = "MATCHED"
               /\ Priced(target)
               /\ Pay(Read(target).price)

\* The rounds one call may read, from the cursor up.
Span == cursor .. Min({Tip, cursor + MaxReads - 1})

Hits == {r \in Span : Qualifies(r)}

\* Those it does read: the walk stops at the first that decides.
Walked == IF Hits = {} THEN Span ELSE cursor .. Min(Hits)

SettleTimed == /\ kind = "timed" /\ status = "MATCHED"
               /\ \A r \in Walked : ~Outside(r)
               /\ Hits # {}
               /\ Pay(Read(Min(Hits)).price)

\* settle() that finds nothing returns PENDING or SCANNING: only the cursor moves.
AdvanceCursor == /\ kind = "timed" /\ status = "MATCHED"
                 /\ \A r \in Walked : ~Outside(r)
                 /\ Hits = {}
                 /\ cursor' = cursor + Cardinality(Span)
                 /\ UNCHANGED <<terms, status, taker, deadline, winner, ledger, block,
                                rounds, anchor>>

Settle == SettleRound \/ SettleTimed \/ AdvanceCursor

\* mutant: the tip speaks for the rounds below it
TipMisses == ~Qualifies(Tip)

\* Every round from the cursor to the tip was read and misses settleTime.
AllMiss == /\ \A r \in Walked : ~Outside(r)
           /\ Hits = {}
           /\ cursor + Cardinality(Span) > Tip

Void(a) == /\ status = "MATCHED"
           /\ a \in {Maker, taker}
           /\ height >= deadline
           /\ status' = "VOID"
           /\ RefundBoth
           /\ UNCHANGED <<terms, taker, deadline, cursor, winner, block, rounds, anchor>>

ReclaimRound(a) == kind = "round" /\ Unpublished /\ Void(a)

ReclaimTimed(a) == kind = "timed" /\ AllMiss /\ Void(a)

Reclaim(a) == ReclaimRound(a) \/ ReclaimTimed(a)

Next == \/ NextBlock \/ Publish
        \/ \E q \in 1..Supply - held : Deposit(q)
        \/ Fund \/ Cancel
        \/ \E a \in Addr : AcceptRound(a) \/ AcceptTimed(a) \/ Reclaim(a)
        \/ Settle

Spec == Init /\ [][Next]_vars

\* Blocks keep coming; anyone may call settle(), and a party with a stake in the
\* pot calls reclaim() when it can.
FairSpec == /\ Spec
            /\ WF_vars(NextBlock)
            /\ WF_vars(Settle)
            /\ WF_vars(\E a \in Addr : Reclaim(a))

-----------------------------------------------------------------------------
(* Properties. *)

\* Type of every variable.
TypeOK == /\ status \in {"INIT", "OPEN", "MATCHED", "CANCELLED", "PUSH", "SETTLED", "VOID"}
          /\ taker \in (Addr \ {Maker}) \cup {Nobody}
          /\ winner \in {Maker, taker, Nobody}
          /\ deadline \in 0..MaxHeight + Window
          /\ cursor \in Nat /\ anchor \in Nat
          /\ held \in Nat
          /\ returned \in Nat \X Nat
          /\ rounds \in Seq(Finalized \cup {Gap})

\* What consensus history alone says of the deciding round, out of the window or not.
Candidates == IF kind = "round" THEN {target} \cap 1..Len(rounds)
              ELSE {r \in anchor..Len(rounds) : rounds[r].late}

Decided == \E r \in Candidates : rounds[r] # Gap

\* The outcome is a function of consensus history: whoever calls settle(), however
\* late and however often, the bet is decided by the agreed round, or the first one
\* from the match on that reaches settleTime, and never by a later one read in its
\* stead.  When nobody wins, the maker has back the stake, to the last base unit it
\* has of the tick, and the taker no less than theirs.
DecidedByHistory ==
    /\ status \in {"SETTLED", "PUSH"} =>
        /\ Decided
        /\ LET price == rounds[Min(Candidates)].price
           IN  IF price = "at" THEN status = "PUSH"
               ELSE status = "SETTLED" /\ winner = WinnerAt(price)
    /\ status \in {"PUSH", "VOID"} => /\ returned[1] = FloorTo(amount, TickGrid)
                                      /\ returned[2] >= amount

\* What history has decided can be neither dodged nor foreseen: reclaim() never voids
\* a decided bet, not even when the round left the window or a later round carries an
\* earlier timestamp, and nobody takes a "round" bet whose round was already
\* published, readable or not.
DecidedIsFinal ==
    [][/\ status = "MATCHED" /\ status' = "VOID" => ~Decided
       /\ status = "OPEN" /\ status' = "MATCHED" /\ kind = "round" => ~Decided]_vars

\* The window has passed the round settle() and reclaim() would read first: neither
\* has an answer any more.
Overtaken == IF kind = "round" THEN Outside(target)
             ELSE cursor <= Tip /\ Outside(cursor)

\* A matched bet does not stay open: unless the oracle window overtakes it, it is
\* settled or voided once its deadline is past.
BetResolves == []~Overtaken
                => (status = "MATCHED" /\ deadline <= MaxHeight ~> status # "MATCHED")

-----------------------------------------------------------------------------
(* Two sentences of priceBetTimed.js that its code does not keep. *)

\* Lines 26-28 and priceBetTimed/README.md:5-7: a timed bet is decided by the first
\* finalized round at or after settleTime (not by the first from the cursor on).
FirstRoundDecides ==
    kind = "timed" /\ status = "SETTLED" =>
        LET qualifying == {r \in 1..Len(rounds) : rounds[r].late}
        IN  winner = WinnerAt(rounds[Min(qualifying)].price)

\* Lines 83-87: PENDING carries the cursor up to the tip, "so a bet anyone settles
\* on before its deadline can never be overtaken by the window".
NeverOvertaken == kind = "timed" /\ status = "MATCHED" /\ cursor > anchor => ~Overtaken
=============================================================================
