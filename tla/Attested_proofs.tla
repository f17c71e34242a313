-------------------------- MODULE Attested_proofs ---------------------------
(* Proofs about the two templates of Attested: CounterpartyBridge, for every *)
(* set of holders and of sends, grid, radix, supply and page; UrlOracle, an  *)
(* instance, for every set of what a page can say; and the deployment of     *)
(* either.                                                                   *)
EXTENDS Attested, Amounts_proofs

-----------------------------------------------------------------------------
(* CounterpartyBridge. *)

Worths == [i \in 1..Len(feed) |-> Worth(i)]

CreditedTo(a) == {i \in credited : feed[i].from = a}

(* The inductive invariant: what the network has answered is of sends that   *)
(* landed, so that a burn a page names keeps its place in the feed.          *)
IInv == /\ Assumption
        /\ TypeOK
        /\ feed \in Seq(Sends)
        /\ DOMAIN response = Addr
        /\ \A r \in Addr : \/ response[r] \in {Unsent, Open, Failed}
                           \/ response[r].rows \subseteq 1..Len(feed)
        /\ CreditIsBurn

-----------------------------------------------------------------------------
LEMMA Constants ==
    ASSUME Assumption
    PROVE  TickGrid \in Nat \ {0} /\ MaxSupply \in Nat
BY DEF Assumption

(* What a send is worth is a whole number of base units.                     *)
LEMMA WorthIsWhole ==
    ASSUME Assumption, feed \in Seq(Sends)
    PROVE  \A i \in 1..Len(feed) :
             /\ Worths[i] = Worth(i)
             /\ Worth(i) \in Nat /\ OnGrid(Worth(i), TickGrid)
<1>1. SUFFICES ASSUME NEW i \in 1..Len(feed)
               PROVE  Worth(i) \in Nat /\ OnGrid(Worth(i), TickGrid)
  BY DEF Worths
<1>2. feed[i].quantity \in Nat
  <2>1. feed[i] \in Sends
    OBVIOUS
  <2>2. feed[i] \in [from : Addr, quantity : Nat \ {0}, ours : BOOLEAN]
    BY <2>1 DEF Assumption
  <2> QED
    BY <2>2
<1>3. CASE feed[i].ours
  <2>1. Worth(i) = FloorTo(feed[i].quantity, TickGrid)
    BY <1>3 DEF Worth
  <2>2. ASSUME NEW q \in Nat, NEW g \in Nat \ {0}
        PROVE  FloorTo(q, g) \in Nat /\ OnGrid(FloorTo(q, g), g)
    <3>1. FloorTo(q, g) \in 0..q
      BY <2>2, FloorToBounds
    <3>2. OnGrid(FloorTo(q, g), g)
      BY <2>2, FloorToOnGrid
    <3> QED
      BY <2>2, <3>1, <3>2
  <2> QED
    BY <1>2, <2>1, <2>2, Constants
<1>4. CASE ~feed[i].ours
  BY <1>4, Constants, ZeroOnGrid DEF Worth
<1> QED
  BY <1>3, <1>4

LEMMA FeedIsFinite ==
    ASSUME feed \in Seq(Sends), NEW T \in SUBSET (1..Len(feed))
    PROVE  IsFiniteSet(T)
<1>1. IsFiniteSet(1..Len(feed))
  BY FS_Interval
<1> QED
  BY <1>1, FS_Subset

LEMMA BurnedIsSum == \A T : Burned(T) = SumFunctionOnSet(Worths, T)
BY DEF Burned, Worths

LEMMA SumsMakeCredit ==
    ASSUME \A a \in Addr : claimedTotal'[a] = SumFunctionOnSet(Worths', CreditedTo(a)'),
           totalClaimed' = SumFunctionOnSet(Worths', credited'),
           \A a \in Addr : wallet'[a] = claimedTotal'[a],
           totalClaimed' <= MaxSupply
    PROVE  CreditIsBurn'
<1>1. totalClaimed' = Burned(credited)'
  BY DEF Burned, Worths
<1>2. ASSUME NEW a \in Addr
      PROVE  claimedTotal'[a] = Burned({i \in credited : feed[i].from = a})'
  BY DEF Burned, Worths, CreditedTo
<1> QED
  BY <1>1, <1>2 DEF CreditIsBurn

LEMMA InitIInv == Assumption /\ Init => IInv
<1> SUFFICES ASSUME Assumption, Init PROVE IInv
  OBVIOUS
<1>1. feed \in Seq(Sends) /\ Len(feed) = 0 /\ 0 <= MaxSends
  BY DEF Init, Assumption
<1>2. TypeOK
  BY <1>1 DEF Init, TypeOK, Unsent
<1>3. CreditIsBurn
  <2>1. Burned({}) = 0
    BY SumEmpty DEF Burned
  <2>2. \A a \in Addr : {i \in credited : feed[i].from = a} = {}
    BY DEF Init
  <2>3. 0 <= MaxSupply
    BY DEF Assumption
  <2> QED
    BY <2>1, <2>2, <2>3 DEF CreditIsBurn, Init
<1> QED
  BY <1>1, <1>2, <1>3 DEF IInv, Init

(* A send that lands changes the worth of none that landed before.           *)
LEMMA LandIInv == ASSUME IInv, Land PROVE IInv'
<1> USE DEF IInv
<1>1. PICK send \in Sends : feed' = Append(feed, send)
  BY DEF Land
<1>2. /\ Len(feed) \in Nat /\ Len(feed') = Len(feed) + 1
      /\ feed' \in Seq(Sends) /\ Len(feed) < MaxSends /\ MaxSends \in Nat
      /\ \A i \in 1..Len(feed) : feed'[i] = feed[i]
  BY <1>1 DEF Land, Assumption
<1>3. 1..Len(feed) \subseteq 1..Len(feed')
  BY <1>2
<1>4. UNCHANGED <<pending, credited, claimedTotal, totalClaimed, wallet, response>>
  BY DEF Land, books
<1>5. TypeOK'
  <2>1. credited' \subseteq 1..Len(feed')
    BY <1>3, <1>4 DEF TypeOK
  <2> QED
    BY <1>2, <1>4, <2>1 DEF TypeOK
<1>6. \A T \in SUBSET (1..Len(feed)) :
        SumFunctionOnSet(Worths', T) = SumFunctionOnSet(Worths, T)
  <2>1. TAKE T \in SUBSET (1..Len(feed))
  <2>2. \A i \in T : Worths'[i] = Worths[i]
    <3>1. TAKE i \in T
    <3>2. i \in 1..Len(feed) /\ i \in 1..Len(feed') /\ feed'[i] = feed[i]
      BY <1>2, <1>3
    <3> QED
      BY <3>2 DEF Worths, Worth
  <2>3. IsFiniteSet(T)
    BY FeedIsFinite
  <2> QED
    BY <2>2, <2>3, SumAgrees
<1>7. CreditIsBurn'
  <2>1. credited \subseteq 1..Len(feed)
    BY DEF TypeOK
  <2>2. totalClaimed' = SumFunctionOnSet(Worths', credited')
    <3>1. totalClaimed = SumFunctionOnSet(Worths, credited)
      BY BurnedIsSum DEF CreditIsBurn
    <3> QED
      BY <1>4, <1>6, <2>1, <3>1
  <2>3. ASSUME NEW a \in Addr
        PROVE  claimedTotal'[a] = SumFunctionOnSet(Worths', CreditedTo(a)')
    <3>1. CreditedTo(a) \in SUBSET (1..Len(feed))
      BY <2>1 DEF CreditedTo
    <3>2. CreditedTo(a)' = CreditedTo(a)
      BY <1>2, <1>4, <2>1 DEF CreditedTo
    <3>3. claimedTotal[a] = SumFunctionOnSet(Worths, CreditedTo(a))
      BY BurnedIsSum DEF CreditIsBurn, CreditedTo
    <3> QED
      BY <1>4, <1>6, <3>1, <3>2, <3>3
  <2>4. /\ \A a \in Addr : wallet'[a] = claimedTotal'[a]
        /\ totalClaimed' <= MaxSupply
    BY <1>4 DEF CreditIsBurn
  <2> QED
    BY <2>2, <2>3, <2>4, SumsMakeCredit
<1>8. ASSUME NEW r \in Addr
      PROVE  \/ response'[r] \in {Unsent, Open, Failed}
             \/ response'[r].rows \subseteq 1..Len(feed')
  BY <1>3, <1>4
<1> QED
  BY <1>2, <1>4, <1>5, <1>7, <1>8

(* A request, or an answer, moves nothing.                                   *)
LEMMA QuietIInv ==
    ASSUME IInv, UNCHANGED <<books, feed>>, TypeOK', DOMAIN response' = Addr,
           \A r \in Addr : \/ response'[r] \in {Unsent, Open, Failed}
                           \/ response'[r].rows \subseteq 1..Len(feed)
    PROVE  IInv'
<1>1. UNCHANGED <<credited, claimedTotal, totalClaimed, wallet, feed>>
  BY DEF books
<1>2. CreditIsBurn'
  BY <1>1 DEF IInv, CreditIsBurn, Burned, Worth
<1>3. \A r \in Addr : \/ response'[r] \in {Unsent, Open, Failed}
                      \/ response'[r].rows \subseteq 1..Len(feed')
  BY <1>1
<1> QED
  BY <1>1, <1>2, <1>3 DEF IInv

LEMMA RequestClaimIInv == ASSUME IInv, NEW a \in Addr, RequestClaim(a) PROVE IInv'
<1>1. /\ response' = [response EXCEPT ![a] = Open] /\ DOMAIN response = Addr
      /\ pending' = [pending EXCEPT ![a] = a]
      /\ UNCHANGED <<books, feed>>
      /\ UNCHANGED <<credited, claimedTotal, totalClaimed, wallet, feed>>
  BY DEF IInv, RequestClaim, books
<1>2. /\ response'[a] = Open
      /\ \A r \in Addr \ {a} : response'[r] = response[r]
      /\ DOMAIN response' = Addr
  BY <1>1
<1>3. TypeOK'
  <2>1. pending' \in [Addr -> Addr \cup {NoRequest}]
    BY <1>1 DEF IInv, TypeOK
  <2>2. \A r \in Addr : response'[r].status \in {"unsent", "open", "failed", "ok"}
    <3>1. Open.status = "open"
      BY DEF Open
    <3>2. \A r \in Addr : response[r].status \in {"unsent", "open", "failed", "ok"}
      BY DEF IInv, TypeOK
    <3> QED
      BY <1>2, <3>1, <3>2
  <2> QED
    BY <1>1, <2>1, <2>2 DEF IInv, TypeOK
<1>4. \A r \in Addr : \/ response'[r] \in {Unsent, Open, Failed}
                      \/ response'[r].rows \subseteq 1..Len(feed)
  BY <1>2 DEF IInv
<1> QED
  BY <1>1, <1>2, <1>3, <1>4, QuietIInv

LEMMA SettleIInv ==
    ASSUME IInv, NEW r \in Addr, NEW answer, Settle(r, answer),
           answer.status \in {"failed", "ok"},
           answer = Failed \/ answer.rows \subseteq 1..Len(feed)
    PROVE  IInv'
<1>1. /\ response' = [response EXCEPT ![r] = answer] /\ DOMAIN response = Addr
      /\ UNCHANGED <<books, feed>>
      /\ UNCHANGED <<pending, credited, claimedTotal, totalClaimed, wallet, feed>>
  BY DEF IInv, Settle, books
<1>2. /\ response'[r] = answer
      /\ \A b \in Addr \ {r} : response'[b] = response[b]
      /\ DOMAIN response' = Addr
  BY <1>1
<1>3. TypeOK'
  <2>1. \A b \in Addr : response'[b].status \in {"unsent", "open", "failed", "ok"}
    BY <1>2 DEF IInv, TypeOK
  <2> QED
    BY <1>1, <2>1 DEF IInv, TypeOK
<1>4. \A b \in Addr : \/ response'[b] \in {Unsent, Open, Failed}
                      \/ response'[b].rows \subseteq 1..Len(feed)
  BY <1>2 DEF IInv
<1> QED
  BY <1>1, <1>2, <1>3, <1>4, QuietIInv

LEMMA AnswerIInv ==
    ASSUME IInv, NEW r \in Addr, AnswerPage(r) \/ AnswerEmpty(r) \/ AnswerFailure(r)
    PROVE  IInv'
<1>1. \A rows, scientific : /\ Body(rows, scientific).status = "ok"
                           /\ Body(rows, scientific).rows = rows
  BY DEF Body
<1>2. CASE AnswerPage(r)
  <2>1. PICK scientific \in SUBSET Page : Settle(r, Body(Page, scientific))
    BY <1>2 DEF AnswerPage
  <2>2. Page \subseteq 1..Len(feed)
    BY DEF Page
  <2> QED
    BY <1>1, <2>1, <2>2, SettleIInv
<1>3. CASE AnswerEmpty(r)
  <2>1. Settle(r, Body({}, {}))
    BY <1>3 DEF AnswerEmpty
  <2> QED
    BY <1>1, <2>1, SettleIInv
<1>4. CASE AnswerFailure(r)
  <2>1. Settle(r, Failed) /\ Failed.status = "failed"
    BY <1>4 DEF AnswerFailure, Failed
  <2> QED
    BY <2>1, SettleIInv
<1> QED
  BY <1>2, <1>3, <1>4

-----------------------------------------------------------------------------
(* Whatever the answer: the burns onClaim() credits are burns of the claimer *)
(* that landed and were credited to nobody, and their total is what they are *)
(* truly worth, which the ledger sends as it stands.                         *)
LEMMA NewBurnsAreOwed ==
    ASSUME IInv, NEW r \in Addr, NEW a \in Addr, Answered(r), response[r] # Failed
    PROVE  LET burns == NewBurns(response[r], a)
               total == TotalNew(response[r], burns)
           IN  /\ burns \subseteq {i \in 1..Len(feed) : feed[i].from = a} \ credited
               /\ total = SumFunctionOnSet(Worths, burns)
               /\ total \in Nat
               /\ HalfUp(total, TickGrid) = total
<1> DEFINE body == response[r]
           burns == NewBurns(body, a)
           values == [i \in burns |-> FloorToDecimals(body, i)]
<1>1. body.rows \subseteq 1..Len(feed)
  BY DEF IInv, Answered
<1>2. /\ burns \subseteq 1..Len(feed)
      /\ \A i \in burns : /\ feed[i].ours /\ feed[i].from = a
                           /\ i \notin body.scientific /\ i \notin credited
  BY <1>1 DEF NewBurns, ExtractBurnSends, IsPlainDecimal
<1> HIDE DEF burns
<1>3. \A i \in burns : values[i] = Worth(i)
  BY <1>2 DEF FloorToDecimals, AsReported, Worth
<1>4. \A i \in burns : Worths[i] = Worth(i) /\ Worth(i) \in Nat /\ OnGrid(Worth(i), TickGrid)
  BY <1>2, WorthIsWhole DEF IInv
<1>5. IsFiniteSet(burns)
  BY <1>2, FeedIsFinite DEF IInv
<1> HIDE DEF values
<1>6. SumFunctionOnSet(values, burns) = SumFunctionOnSet(Worths, burns)
  <2>1. \A i \in burns : values[i] = Worths[i]
    BY <1>3, <1>4
  <2> QED
    BY <1>5, <2>1, SumAgrees
<1>7. /\ SumFunctionOnSet(Worths, burns) \in Nat
      /\ OnGrid(SumFunctionOnSet(Worths, burns), TickGrid)
  <2>1. \A i \in burns : Worths[i] \in Nat /\ OnGrid(Worths[i], TickGrid)
    BY <1>4
  <2>2. TickGrid \in Nat \ {0}
    BY Constants DEF IInv
  <2> QED
    BY <1>5, <2>1, <2>2, SumOnGrid
<1>8. TotalNew(body, burns) = SumFunctionOnSet(values, burns)
  BY DEF TotalNew, values
<1>9. HalfUp(SumFunctionOnSet(Worths, burns), TickGrid) = SumFunctionOnSet(Worths, burns)
  <2>1. TickGrid \in Nat \ {0}
    BY Constants DEF IInv
  <2> QED
    BY <1>7, <2>1, LedgerKeepsGrid
<1>10. burns \subseteq {i \in 1..Len(feed) : feed[i].from = a} \ credited
  BY <1>2
<1> QED
  BY <1>6, <1>7, <1>8, <1>9, <1>10 DEF burns

(* Credit() with such a total keeps the books.                               *)
LEMMA CreditKeepsBooks ==
    ASSUME IInv, NEW a \in Addr, NEW burns, NEW total \in Nat,
           burns \subseteq {i \in 1..Len(feed) : feed[i].from = a} \ credited,
           total = SumFunctionOnSet(Worths, burns),
           HalfUp(total, TickGrid) = total,
           Credit(a, burns, total), UNCHANGED feed
    PROVE  /\ CreditIsBurn'
           /\ credited' \subseteq 1..Len(feed)
           /\ claimedTotal' \in [Addr -> Nat]
           /\ totalClaimed' \in Nat
           /\ wallet' \in [Addr -> Nat]
<1>1. /\ claimedTotal \in [Addr -> Nat] /\ wallet \in [Addr -> Nat] /\ totalClaimed \in Nat
      /\ credited \subseteq 1..Len(feed) /\ feed \in Seq(Sends)
  BY DEF IInv, TypeOK
<1>2. /\ totalClaimed + total <= MaxSupply
      /\ credited' = credited \cup burns
      /\ totalClaimed' = totalClaimed + total
      /\ claimedTotal' = [claimedTotal EXCEPT ![a] = @ + total]
      /\ wallet' = [wallet EXCEPT ![a] = @ + total]
  BY DEF Credit, WithinSupply, Send
<1>3. /\ claimedTotal' \in [Addr -> Nat] /\ claimedTotal'[a] = claimedTotal[a] + total
      /\ wallet' \in [Addr -> Nat] /\ wallet'[a] = wallet[a] + total
      /\ totalClaimed' \in Nat
      /\ \A b \in Addr \ {a} : claimedTotal'[b] = claimedTotal[b] /\ wallet'[b] = wallet[b]
  BY <1>1, <1>2
<1>4. Worths' = Worths
  BY DEF Worths, Worth
<1>5. \A i \in 1..Len(feed) : Worths[i] \in Int
  BY <1>1, WorthIsWhole DEF IInv
<1>6. ASSUME NEW T \in SUBSET credited
      PROVE  SumFunctionOnSet(Worths, T \cup burns) = SumFunctionOnSet(Worths, T) + total
  <2>1. T \cap burns = {} /\ T \subseteq 1..Len(feed) /\ burns \subseteq 1..Len(feed)
    BY <1>1
  <2>2. IsFiniteSet(T) /\ IsFiniteSet(burns)
    BY <1>1, <2>1, FeedIsFinite
  <2>3. \A i \in T \cup burns : Worths[i] \in Int
    BY <1>5, <2>1
  <2>4. SumFunctionOnSet(Worths, T \cup burns)
          = SumFunctionOnSet(Worths, T) + SumFunctionOnSet(Worths, burns)
    BY <2>1, <2>2, <2>3, SumUnion
  <2> QED
    BY <2>4
<1>7. totalClaimed' = SumFunctionOnSet(Worths', credited')
  <2>1. totalClaimed = SumFunctionOnSet(Worths, credited)
    BY BurnedIsSum DEF IInv, CreditIsBurn
  <2>2. SumFunctionOnSet(Worths, credited \cup burns)
    = SumFunctionOnSet(Worths, credited) + total
    BY <1>6
  <2> QED
    BY <1>2, <1>4, <2>1, <2>2
<1>8. ASSUME NEW b \in Addr
      PROVE  claimedTotal'[b] = SumFunctionOnSet(Worths', CreditedTo(b)')
  <2>1. claimedTotal[b] = SumFunctionOnSet(Worths, CreditedTo(b))
    BY BurnedIsSum DEF IInv, CreditIsBurn, CreditedTo
  <2>2. CreditedTo(b)' = {i \in credited \cup burns : feed[i].from = b}
    BY <1>2 DEF CreditedTo
  <2>3. CASE b = a
    <3>1. CreditedTo(b)' = CreditedTo(b) \cup burns
      BY <2>2, <2>3 DEF CreditedTo
    <3>2. CreditedTo(b) \in SUBSET credited
      BY DEF CreditedTo
    <3>3. SumFunctionOnSet(Worths, CreditedTo(b) \cup burns)
            = SumFunctionOnSet(Worths, CreditedTo(b)) + total
      BY <1>6, <3>2
    <3> QED
      BY <1>3, <1>4, <2>1, <2>3, <3>1, <3>3
  <2>4. CASE b # a
    <3>1. CreditedTo(b)' = CreditedTo(b)
      BY <2>2, <2>4 DEF CreditedTo
    <3> QED
      BY <1>3, <1>4, <2>1, <2>4, <3>1
  <2> QED
    BY <2>3, <2>4
<1>9. /\ \A b \in Addr : wallet'[b] = claimedTotal'[b]
      /\ totalClaimed' <= MaxSupply
  BY <1>2, <1>3 DEF IInv, CreditIsBurn
<1>10. CreditIsBurn'
  BY <1>7, <1>8, <1>9, SumsMakeCredit
<1> QED
  BY <1>1, <1>2, <1>3, <1>10

LEMMA OnClaimIInv ==
    ASSUME IInv, NEW r \in Addr, NEW a \in Addr, OnClaim(r, a) PROVE IInv'
<1>1. /\ Answered(r) /\ UNCHANGED <<response, feed>>
      /\ pending' = [pending EXCEPT ![a] = NoRequest]
  BY DEF OnClaim
<1>2. pending' \in [Addr -> Addr \cup {NoRequest}]
  BY <1>1 DEF IInv, TypeOK
<1>3. CASE UNCHANGED books
  <2>1. TypeOK'
    BY <1>1, <1>2, <1>3 DEF IInv, TypeOK, books
  <2> QED
    BY <1>1, <1>3, <2>1, QuietIInv DEF IInv
<1>4. CASE ~UNCHANGED books
  <2> DEFINE burns == NewBurns(response[r], a)
             total == TotalNew(response[r], burns)
  <2>1. response[r] # Failed /\ Credit(a, burns, total)
    BY <1>4 DEF OnClaim
  <2>2. /\ burns \subseteq {i \in 1..Len(feed) : feed[i].from = a} \ credited
        /\ total = SumFunctionOnSet(Worths, burns)
        /\ total \in Nat
        /\ HalfUp(total, TickGrid) = total
    BY <1>1, <2>1, NewBurnsAreOwed
  <2> HIDE DEF burns, total
  <2>3. /\ CreditIsBurn' /\ credited' \subseteq 1..Len(feed)
        /\ claimedTotal' \in [Addr -> Nat] /\ totalClaimed' \in Nat
        /\ wallet' \in [Addr -> Nat]
    BY <1>1, <2>1, <2>2, CreditKeepsBooks
  <2>4. TypeOK'
    BY <1>1, <1>2, <2>3 DEF IInv, TypeOK
  <2> QED
    BY <1>1, <2>3, <2>4 DEF IInv
<1> QED
  BY <1>3, <1>4

LEMMA StepIInv == IInv /\ [Next]_vars => IInv'
<1> SUFFICES ASSUME IInv, [Next]_vars PROVE IInv'
  OBVIOUS
<1>1. CASE Land
  BY <1>1, LandIInv
<1>2. ASSUME NEW a \in Addr, RequestClaim(a) PROVE IInv'
  BY <1>2, RequestClaimIInv
<1>3. ASSUME NEW r \in Addr, AnswerPage(r) \/ AnswerEmpty(r) \/ AnswerFailure(r)
      PROVE  IInv'
  BY <1>3, AnswerIInv
<1>4. ASSUME NEW r \in Addr, NEW a \in Addr, OnClaim(r, a) PROVE IInv'
  BY <1>4, OnClaimIInv
<1>5. CASE UNCHANGED vars
  <2>1. UNCHANGED <<pending, books, response, feed>>
    BY <1>5 DEF vars
  <2>2. UNCHANGED <<pending, credited, claimedTotal, totalClaimed, wallet, response, feed>>
    BY <2>1 DEF books
  <2>3. TypeOK'
    BY <2>2 DEF IInv, TypeOK
  <2> QED
    BY <2>1, <2>3, QuietIInv DEF IInv
<1> QED
  BY <1>1, <1>2, <1>3, <1>4, <1>5 DEF Next

(* The bridge sends, to each who burned, what they burned, once: see         *)
(* CounterpartyBridge.                                                       *)
THEOREM BridgeCreditIsBurn == Assumption /\ Spec => [](TypeOK /\ CreditIsBurn)
<1>1. IInv => TypeOK /\ CreditIsBurn
  BY DEF IInv
<1> QED
  BY <1>1, InitIInv, StepIInv, PTL DEF Spec

-----------------------------------------------------------------------------
Kept == \A a \in Addr : pending[a] # NoRequest /\ pending'[a] = NoRequest
                         => response[pending[a]] \notin {Unsent, Open}

LEMMA StepChecked == IInv /\ [Next]_vars => Kept
<1> SUFFICES ASSUME IInv, [Next]_vars, NEW b \in Addr,
                    pending[b] # NoRequest, pending'[b] = NoRequest
             PROVE  response[pending[b]] \notin {Unsent, Open}
  BY DEF Kept
<1>1. pending' # pending
  OBVIOUS
<1>2. ASSUME NEW a \in Addr, RequestClaim(a) PROVE FALSE
  <2>1. pending' = [pending EXCEPT ![a] = a] /\ pending[a] = NoRequest
    BY <1>2 DEF RequestClaim
  <2> QED
    BY <2>1 DEF IInv, TypeOK
<1>3. ASSUME NEW r \in Addr, NEW a \in Addr, OnClaim(r, a)
      PROVE  response[pending[b]] \notin {Unsent, Open}
  <2>1. /\ pending' = [pending EXCEPT ![a] = NoRequest]
        /\ r = pending[a] /\ response[r] \notin {Unsent, Open}
    BY <1>3 DEF OnClaim, IsOutstanding, Answered
  <2>2. b = a
    BY <2>1 DEF IInv, TypeOK
  <2> QED
    BY <2>1, <2>2
<1>4. CASE \/ Land
           \/ \E r \in Addr : AnswerPage(r) \/ AnswerEmpty(r) \/ AnswerFailure(r)
           \/ UNCHANGED vars
  BY <1>1, <1>4 DEF Land, AnswerPage, AnswerEmpty, AnswerFailure, Settle, vars
<1> QED
  BY <1>2, <1>3, <1>4 DEF Next

(* Only an answered check leaves pending: see CounterpartyBridge.            *)
THEOREM BridgeKeepsCheck == Assumption /\ Spec => CheckKept
BY InitIInv, StepIInv, StepChecked, PTL DEF Spec, CheckKept, Kept

-----------------------------------------------------------------------------
(* UrlOracle. *)

(* The inductive invariant: an answer that is ok is kept as the network gave *)
(* it, for as long as a callback can still carry it.                         *)
OracleIInv == /\ O!OraclePriceAttested
              /\ DOMAIN answers = O!Requests
              /\ \A r \in O!Requests : answers[r].status = "ok" => answers[r].payload \in attested

LEMMA OracleStepIInv == OracleIInv /\ [O!Next]_(O!vars) => OracleIInv'
<1> SUFFICES ASSUME OracleIInv, [O!Next]_(O!vars) PROVE OracleIInv'
  OBVIOUS
<1> USE DEF OracleIInv, O!OraclePriceAttested, O!Requests
<1>1. CASE O!RequestPrice
  <2>1. /\ answers' = [previous |-> answers["last"], last |-> O!Open]
        /\ UNCHANGED <<price, attested>>
    BY <1>1 DEF O!RequestPrice
  <2>2. /\ DOMAIN answers' = {"previous", "last"}
        /\ answers'["previous"] = answers["last"] /\ answers'["last"] = O!Open
    BY <2>1
  <2>3. O!Open.status # "ok"
    BY DEF O!Open
  <2> QED
    BY <2>1, <2>2, <2>3
<1>2. ASSUME NEW r \in O!Requests, O!Answer(r) PROVE OracleIInv'
  <2>1. CASE answers' = [answers EXCEPT ![r] = O!Failed] /\ UNCHANGED attested
    <3>1. O!Failed.status # "ok" /\ price' = price
      BY <1>2 DEF O!Failed, O!Answer
    <3>2. /\ answers'[r] = O!Failed /\ DOMAIN answers' = O!Requests
          /\ \A s \in O!Requests \ {r} : answers'[s] = answers[s]
      BY <2>1
    <3> QED
      BY <2>1, <3>1, <3>2
  <2>2. ASSUME NEW body \in Bodies,
               answers' = [answers EXCEPT ![r] = [status |-> "ok", payload |-> body]],
               attested' = attested \cup {body}
        PROVE  OracleIInv'
    <3>1. /\ answers'[r].payload = body /\ DOMAIN answers' = O!Requests
          /\ \A s \in O!Requests \ {r} : answers'[s] = answers[s]
      BY <2>2
    <3>2. price' = price
      BY <1>2 DEF O!Answer
    <3> QED
      BY <2>2, <3>1, <3>2
  <2> QED
    BY <1>2, <2>1, <2>2 DEF O!Answer
<1>3. ASSUME NEW r \in O!Requests, O!OnPrice(r) PROVE OracleIInv'
  BY <1>3 DEF O!OnPrice, O!Settled
<1>4. CASE UNCHANGED O!vars
  BY <1>4 DEF O!vars
<1> QED
  BY <1>1, <1>2, <1>3, <1>4 DEF O!Next

LEMMA OracleInitIInv == O!Init => OracleIInv
BY DEF O!Init, OracleIInv, O!OraclePriceAttested, O!Requests, O!Unsent

LEMMA OracleInitTypeOK == O!Init => O!TypeOK
BY DEF O!Init, O!TypeOK, O!Requests, O!Unsent

(* What is attested is a body, and so then is the price read from it.        *)
LEMMA OracleStepTypeOK ==
    ASSUME OracleIInv, O!TypeOK, [O!Next]_(O!vars)
    PROVE  O!TypeOK'
<1> USE DEF OracleIInv, O!TypeOK, O!Requests
<1>1. CASE O!RequestPrice
  <2>1. /\ answers' = [previous |-> answers["last"], last |-> O!Open]
        /\ pendingPrice' = "last" /\ UNCHANGED <<price, attested>>
    BY <1>1 DEF O!RequestPrice
  <2>2. answers'["previous"] = answers["last"] /\ answers'["last"] = O!Open
    BY <2>1
  <2>3. O!Open.status = "open"
    BY DEF O!Open
  <2> QED
    BY <2>1, <2>2, <2>3
<1>2. ASSUME NEW r \in O!Requests, O!Answer(r) PROVE O!TypeOK'
  <2>1. PICK new : /\ answers' = [answers EXCEPT ![r] = new]
                   /\ new.status \in {"failed", "ok"}
                   /\ attested' \subseteq Bodies
    <3>1. O!Failed.status = "failed"
      BY DEF O!Failed
    <3> QED
      BY <1>2, <3>1 DEF O!Answer
  <2>2. answers'[r] = new /\ \A s \in O!Requests \ {r} : answers'[s] = answers[s]
    BY <2>1
  <2>3. UNCHANGED <<price, pendingPrice>>
    BY <1>2 DEF O!Answer
  <2> QED
    BY <2>1, <2>2, <2>3
<1>3. ASSUME NEW r \in O!Requests, O!OnPrice(r) PROVE O!TypeOK'
  BY <1>3 DEF O!OnPrice, O!Settled
<1>4. CASE UNCHANGED O!vars
  BY <1>4 DEF O!vars
<1> QED
  BY <1>1, <1>2, <1>3, <1>4 DEF O!Next

(* The oracle's price is one the network agreed on: see UrlOracle.           *)
THEOREM OraclePriceIsAttested == O!Spec => [](O!TypeOK /\ O!OraclePriceAttested)
<1>1. OracleIInv => O!OraclePriceAttested
  BY DEF OracleIInv
<1>2. O!Init => OracleIInv /\ O!TypeOK
  BY OracleInitIInv, OracleInitTypeOK
<1>3. (OracleIInv /\ O!TypeOK) /\ [O!Next]_(O!vars) => (OracleIInv /\ O!TypeOK)'
  BY OracleStepIInv, OracleStepTypeOK
<1> QED
  BY <1>1, <1>2, <1>3, PTL DEF O!Spec

-----------------------------------------------------------------------------
(* Either template, deployed.                                                *)

LEMMA DeployedBridge == ASpec => Spec
<1>1. AInit => Init
  BY DEF AInit
<1>2. [ANext]_all => [Next]_vars
  BY DEF ANext, OnlyBridge, OnlyOracle, all
<1> QED
  BY <1>1, <1>2, PTL DEF ASpec, Spec

LEMMA DeployedOracle == ASpec => O!Spec
<1>1. AInit => O!Init
  BY DEF AInit
<1>2. [ANext]_all => [O!Next]_(O!vars)
  BY DEF ANext, OnlyBridge, OnlyOracle, all, oracle, O!vars
<1> QED
  BY <1>1, <1>2, PTL DEF ASpec, O!Spec

(* However the deployment is set up, a bridge in it credits each burn to who *)
(* burned, once, and no check is lost on the way.                            *)
THEOREM DeployedCreditIsBurn == ASpec => []CreditIsBurn
  BY DeployedBridge, BridgeCreditIsBurn, BridgeAssumption, PTL

THEOREM DeployedCheckKept == ASpec => CheckKept
  BY DeployedBridge, BridgeKeepsCheck, BridgeAssumption, PTL

(* And an oracle in it holds nothing the network has not agreed on.          *)
THEOREM DeployedPriceIsAttested == ASpec => []OraclePriceAttested
  BY DeployedOracle, OraclePriceIsAttested, PTL DEF OraclePriceAttested
=============================================================================
