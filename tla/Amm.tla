-------------------------------- MODULE Amm ---------------------------------
(***************************************************************************)
(* amm/amm.js: a constant-product pool of two ticks.  Providers deposit    *)
(* both and are sent LP shares, swappers trade one for the other and leave *)
(* a fee behind.                                                           *)
(*                                                                         *)
(* Every method credits its caller with what custody has grown by since    *)
(* the reserves were last written, whoever deposited it, and no method     *)
(* asks who the caller is: the users' balances are one sum per tick.       *)
(*                                                                         *)
(* Amounts are counted in the unit of the LP tick, TickGrid of which make  *)
(* one base unit of a pool tick.  A quotient is cut to that unit, which    *)
(* changes nothing: the template truncates all it computes to a grid.      *)
(***************************************************************************)
EXTENDS Grid, FiniteSetsExt

CONSTANTS TickGrid,        \* of "A" and of "B"
          Supply,          \* how much of each the users hold at deploy
          MinOuts,         \* the slippage bounds asked of swap()
          FeeNum, FeeDen,  \* FEE_NUM, FEE_DEN
          Locked,          \* MINIMUM_LIQUIDITY
          MaxShares        \* LP_MAX_SUPPLY

Pair == {"A", "B"}
Ticks == Pair \cup {"LP"}

\* Assumed of the constants wherever the module is instantiated.
Assumption == /\ TickGrid \in [Pair -> Nat \ {0}]
              /\ Supply \in [Pair -> Nat]
              /\ \A t \in Pair : OnGrid(Supply[t], TickGrid[t])
              /\ MinOuts \subseteq Nat
              /\ FeeDen \in Nat /\ FeeNum \in 1..FeeDen
              /\ Locked \in Nat \ {0}
              /\ MaxShares \in Nat /\ MaxShares > Locked

VARIABLES reserve, totalShares, lpInventory,   \* the contract's keys
          held, outside                        \* the ledger: custody, and the users' sum

store == <<reserve, totalShares, lpInventory>>
vars == <<store, held, outside>>

\* The whole LP supply is minted into custody at deploy, and minting locked.
Init == /\ reserve = [t \in Pair |-> 0]
        /\ totalShares = 0
        /\ lpInventory = MaxShares
        /\ held = [t \in Ticks |-> IF t = "LP" THEN MaxShares ELSE 0]
        /\ outside = [t \in Ticks |-> IF t = "LP" THEN 0 ELSE Supply[t]]

-----------------------------------------------------------------------------
(* The environment. *)

GridOf(t) == IF t = "LP" THEN 1 ELSE TickGrid[t]

Deposit(t, q) == /\ q <= outside[t]
                 /\ OnGrid(q, GridOf(t))
                 /\ held' = [held EXCEPT ![t] = @ + q]
                 /\ outside' = [outside EXCEPT ![t] = @ - q]
                 /\ UNCHANGED store

\* The ledger applies what a call emits: sent[t] to users, and burned LP to nobody.
Emit(sent, burned) ==
    LET moved == [t \in Ticks |-> HalfUp(sent[t], GridOf(t))]
        gone == [t \in Ticks |-> moved[t] + (IF t = "LP" THEN burned ELSE 0)]
    IN  /\ \A t \in Ticks : gone[t] <= held[t]
        /\ held' = [t \in Ticks |-> held[t] - gone[t]]
        /\ outside' = [t \in Ticks |-> outside[t] + moved[t]]

-----------------------------------------------------------------------------
(* The contract's methods. *)

Delta(t) == held[t] - (IF t = "LP" THEN lpInventory ELSE reserve[t])

ISqrt(n) == CHOOSE r \in 0..n : r * r <= n /\ (r + 1) * (r + 1) > n

\* mutant: in proportion to the side there is more of
RicherSide == Max({(Delta(t) * totalShares) \div reserve[t] : t \in Pair})

ScarcerSide == Min({(Delta(t) * totalShares) \div reserve[t] : t \in Pair})

Shares == IF totalShares = 0 THEN ISqrt(Delta("A") * Delta("B")) ELSE ScarcerSide

LockedNow == IF totalShares = 0 THEN Locked ELSE 0

AddLiquidity == LET minted == Shares - LockedNow
                IN  /\ \A t \in Pair : Delta(t) > 0
                    /\ minted > 0
                    /\ lpInventory - Locked >= minted
                    /\ reserve' = [t \in Pair |-> held[t]]
                    /\ totalShares' = totalShares + Shares
                    /\ lpInventory' = lpInventory - minted
                    /\ Emit([t \in Ticks |-> IF t = "LP" THEN minted ELSE 0], 0)

\* mutant: the slice is left to the ledger's rounding
RawSlice(t) == (reserve[t] * Delta("LP")) \div totalShares
Slice(t) == FloorTo((reserve[t] * Delta("LP")) \div totalShares, TickGrid[t])

RemoveLiquidity == /\ Delta("LP") > 0
                   /\ Delta("LP") <= totalShares
                   /\ \A t \in Pair : Slice(t) > 0
                   /\ reserve' = [t \in Pair |-> reserve[t] - Slice(t)]
                   /\ totalShares' = totalShares - Delta("LP")
                   /\ Emit([t \in Ticks |-> IF t = "LP" THEN 0 ELSE Slice(t)], Delta("LP"))
                   /\ UNCHANGED lpInventory

Other(t) == IF t = "A" THEN "B" ELSE "A"

\* What the pool pays for the input: the fee's share of it is not priced.
AmountOut(in) ==
    LET priced == Delta(in) * FeeNum
        out == Other(in)
    IN  FloorTo((reserve[out] * priced) \div (reserve[in] * FeeDen + priced), TickGrid[out])

Swap(in, minOut) ==
    LET out == Other(in)
    IN  /\ reserve[in] > 0 /\ reserve[out] > 0
        /\ Delta(in) > 0
        /\ AmountOut(in) \in 1..reserve[out] - 1
        /\ AmountOut(in) >= minOut
        /\ reserve' = [reserve EXCEPT ![in] = held[in], ![out] = @ - AmountOut(in)]
        /\ Emit([t \in Ticks |-> IF t = out THEN AmountOut(in) ELSE 0], 0)
        /\ UNCHANGED <<totalShares, lpInventory>>

Next == \/ \E t \in Ticks : \E q \in 1..outside[t] : Deposit(t, q)
        \/ AddLiquidity \/ RemoveLiquidity
        \/ \E in \in Pair, minOut \in MinOuts : Swap(in, minOut)

Spec == Init /\ [][Next]_vars

-----------------------------------------------------------------------------
(* Type of every variable. *)
TypeOK == /\ reserve \in [Pair -> Nat]
          /\ totalShares \in Nat /\ lpInventory \in 0..MaxShares
          /\ held \in [Ticks -> Nat] /\ outside \in [Ticks -> Nat]

(* The pool's books agree with the ledger after any sequence of calls and    *)
(* stray deposits: custody covers both reserves, and the LP in users' hands, *)
(* or deposited and not yet burned, is totalShares but for what is locked.   *)
BooksMatchLedger ==
    /\ \A t \in Ticks : Delta(t) >= 0
    /\ totalShares > 0 => outside["LP"] + Delta("LP") = totalShares - Locked

(* Nobody's share is diluted, by a swap, a skewed deposit, another's exit or *)
(* rounding: reserveA * reserveB per share squared never falls.  On a swap   *)
(* this is k non-decreasing.  Nor is a seeded pool ever drained, even by     *)
(* everyone leaving: the locked shares keep a part of both reserves.         *)
ShareValueNeverFalls ==
    [][totalShares > 0 =>
          /\ reserve'["A"] * reserve'["B"] * totalShares * totalShares
               >= reserve["A"] * reserve["B"] * totalShares' * totalShares'
          /\ totalShares' >= Locked
          /\ \A t \in Pair : reserve'[t] > 0]_vars
=============================================================================
