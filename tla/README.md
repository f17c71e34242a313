# Formal models of the XChain contract templates

TLA+ models of the contract templates of this repository, checked with TLC on
small instances; their safety properties are proved with TLAPS for every value
of the constants. The templates are small sequential JavaScript programs; what makes
them hard is what surrounds every call: anybody may deposit and call at any
time and in any order, a batch is not atomic, the ledger rounds what a contract
emits, and polls, prices and web attestations arrive late, out of order or
never.

## 1. The system

### 1.1 The environment every template runs in

A contract has string keys (`xchain.state`), a ledger balance per tick, and
methods. The models share this reading of how `src/` uses its host:

- **One EXECUTE is one atomic step.** Its state writes and emissions commit
  together. A failed `require()`, or an emission custody does not cover, makes
  the whole call void: in the models, the action is disabled.
- **A BATCH is not atomic** (`amm/amm.js:58-64`). A DEPOSIT stands when the
  EXECUTE behind it reverts, so depositing is an action of its own, by anyone,
  at any time, and other calls may come in between. Tokens that arrive this way
  are "stray" and many templates credit the next caller with them.
- **Deploying is `Init`.** Roles are arbitrary addresses and may coincide; the
  parameters range over a set in the configuration.
- **Amounts.** The ledger keeps each tick on its decimal grid, and re-quantises
  half up whatever a contract emits (`amm/amm.js:84-99`). Amounts are counted
  here in units *finer* than a base unit, so that being off the grid, half way
  and rounding up all happen (module `Grid`). The 64-digit rounding of
  `xchain.math` is ignored: quotients are exact, or cut to the model's unit
  where the code truncates the result to a coarser grid anyway.
- **Comparisons.** `xchain.math.gt`, `gte`, `lt` and `lte` take values for equal
  that differ by less than 1e-12 of the larger or by 1e-15
  (`patterns/README.md:56-60`). Whatever compares a balance or a payment with
  what is due asks `isAtLeastExact`, alone or beside `gte`, and is exact.
  `stableVault`'s `ratioOk()` is the one comparison whose tolerance lets more
  through, and `StableVault` has that tolerance. The others left to these
  operators either refuse a little more for it (`gt(shares, locked)` and
  `lt(amountOut, reserveOut)` in `amm`, `gt(startPrice, endPrice)` in
  `dutchAuction`), so that the exact model allows every call the code does; or
  compare whole LP units with their sum (`lte(shares, totalShares)`), which
  custody bounds; or are tests for something positive, which are exact on ticks
  of up to 14 decimals (section 5). `xchain.math.min` is taken as exact.
- **Blocks** are a counter, bounded by `MaxHeight`. Block times and oracle
  timestamps are not monotonic.
- **Callbacks** (attestations, polls) are steps of the indexer. A callback
  method is also an ordinary method that any address may call, unless the code
  checks its source. The indexer runs a callback once and does not repeat one
  that reverts.

### 1.2 Components

| component | state | operations | hard part | what makes it correct |
|---|---|---|---|---|
| `escrow` | status, deadline, terms | fund, release, refund, timeout, cancel | stray deposits, coinciding roles, late funding | paid once, whole, to the right party, on an entitled word |
| `escrowDelivery` | + pending request | + requestDelivery, onDelivery | replayed, failed or missing answers racing the manual paths | the network decides a delivery; no answer ever needed to get out |
| `englishAuction` | status, deadline, leader, high bid | fund, bid, settle, cancel | delta accounting of bids, off-grid items | only the leader is owed; delivery against payment; always ends |
| `dutchAuction` | status, start, price, buyer | fund, buy, cancel | price off the grid, underpayments | quotes only improve; a sale moves exactly the price |
| `vesting` | total, claimed, start, status | fund, cancel, claim, revoke | rounding over many claims, revoke between claims | the grant is shared exactly; nothing earned is lost |
| `treasury` | proposals | propose, approvePoll, arm, veto, cancel, executeProposal | polls in any order, ties, stale bindings, one shared balance | no payment without a full mandate |
| `stableVault` | vaults, tracked collateral, total debt | deposit, borrow, repay, withdraw, liquidate | pooled custody, stale price, rounded seizure, tolerant ratio, public MINT | books match ledger and loans match the supply they make; ratios kept to the tolerance; exits open |
| `priceBet` | bet, target round | fund, accept, settle, reclaim, cancel | publication races, skipped and evicted rounds | decided by oracle history alone |
| `priceBetTimed` | + scan cursor | as above | bounded scans, timestamps running backwards, sliding window | the same, whoever scans and when |
| `crowdsale` | status, raised, contributions | buy, finalize, claim, refund, withdraw | change, caps, stray deposits | what is owed is covered; everyone is served |
| `amm` | reserves, shares, LP inventory | addLiquidity, removeLiquidity, swap | two grids, stray deposits, last exit | books match ledger; no dilution; never drained |
| `cardDispenser` | watermark of what is accounted for | initialize, draw, withdraw | last copies, cards on grids of their own, refunds when sold out, sweeps of the pay tick | a payment buys one card in stock or comes back; no payment is stranded |
| `counterpartyBridge` | pending checks, credited burns, totals | requestClaim, onClaim | the same burn on many pages, replays, failures, spellings of a quantity | each burn is credited once and for its worth, and in the end |
| `urlOracle` | last value, pending | requestPrice, onPrice | an unpinned callback anyone may call | the value is one the network agreed on |
| `lib/policy-gen.js`, `lib/policy_gen/` | none; the guard it emits has a pause flag and two lists | config to source text; the guard's `pause`, `freeze`, `allow` and their inverses | features share the emitted locals and helpers | the emitted guard is the policy, complete, and refused by the chain at most for a payee of another network |
| `patterns/` | none | guards to paste | none of its own | not modelled: each is one guard; those the templates carry are modelled there |
| `bin/`, `lib/preflight/` | none | command line, CI gates | process I/O | not modelled |

How they interact: templates do not call each other. Each interacts with users
(EXECUTE), the ledger (DEPOSIT in; SEND, MINT, DESTROY out), and some with a
service that calls back or is read: the attestation network (`escrowDelivery`,
`counterpartyBridge`, `urlOracle`), governance polls (`treasury`) and the PRICE
oracle (`stableVault`, `priceBet`, `priceBetTimed`). The services are external:
they are modelled from how `src/` uses them, as liberally as that use allows.

## 2. The modules

| module | models |
|---|---|
| `Grid` | truncation, grids and the ledger's half-up rounding; used by every module with amounts off the grid |
| `OneShotCustody` | abstract: what an escrow promises about custody |
| `DeliveryVersusPayment` | abstract: what an auction promises its two sides |
| `Escrow` | `escrow/escrow.js` |
| `EscrowDelivery` | `escrowDelivery/escrowDelivery.js`: composes `Escrow` with the attestation network |
| `EnglishAuction`, `DutchAuction` | the auctions; each implements `DeliveryVersusPayment` |
| `Vesting`, `Treasury`, `StableVault`, `Crowdsale`, `Amm`, `CardDispenser` | the template of that name |
| `PriceBet` | both bet templates; `kind` tells them apart, custody and refunds are shared |
| `CounterpartyBridge`, `UrlOracle` | the template of that name, with its external feed and network |
| `PolicyGuard` | the policy generator (`lib/policy-gen.js`, `lib/policy_gen/`) and the guard it emits, deployed |
| `Safekeeping` | one deployment of `EscrowDelivery` or `Vesting`: the templates that keep money for somebody |
| `Sales` | one deployment of `EnglishAuction`, `DutchAuction` or `Crowdsale`: the templates that sell |
| `Dispensing` | one deployment of `CardDispenser` or `Amm`: the templates that credit what custody has grown by |
| `Attested` | one deployment of `CounterpartyBridge` or `UrlOracle`: the templates fed by the attestation network |
| `Governance` | one deployment of `Treasury` or of a `PolicyGuard`: the contracts that rule over what others do |
| `Amounts_proofs` | theorems about `Grid` and about sums over finite sets, which the other proofs share |
| `*_proofs` | theorems about the module of that name and the templates it is made of |
| `MC*` | TLC instances: constants, symmetry |

Templates do not call each other, so a module that puts several together is not
a product of them: its `template` names the one that is deployed, every step is
a step of that one, and the variables of the others keep the value `Init` gave
them (in an instance: one such value). The templates it joins share a design
and a proof library; a property of a template, taken to its deployment, goes by
a name of its own there (`GrantOnSchedule` is `Vesting`'s `OnSchedule`).

Every module is laid out alike: constants and their named assumption, variables
(with the code's own keys first, then the ledger, then ghosts), `Init`, the
environment's actions, one action per method, `Next`, the specification, the
properties. A variable marked *ghost* in its comment is history the code does
not keep (who settled, what the ledger moved, the oracle round at the match);
no guard reads one. A variable marked *external* is state of a service.

Guards and quantities that carry a rule of their own are operators of their
own (`Covers`, `AtDeadline`, `Claimable`, `StrictlyWon`, ...). Next to some of
them stands an alternative marked `mutant`: what a plausible bug would make of
that rule. Using the alternative in its place violates a property of the run;
`PROJECT.json` pairs each property with such an alternative, so that every
property is known to depend on the code.

### How state and actions correspond to the code

- **Escrow.** `status`, `deadline` and the three roles are the contract's keys;
  `held` its balance. `Release`, `Refund`, `Timeout` are `settle()`
  (`escrow.js:195-225`) for their role sets; `Pay` is its end and `cancel()`'s.
  `settlement` and `fundedAt` are ghosts. In `EscrowDelivery`, `Answer` is the
  network, `Callback` the indexer's one injected call, `UserCallback` the same
  method called by anybody. The template carries its own copy of the escrow's
  methods; they read the same and are the same actions.
- **EnglishAuction.** `NewBid` is the balance delta, `RefundLeader` the SEND in
  the same EXECUTE. `owed` is a ghost ledger of bids accepted and not given
  back, computed from the wallets.
- **DutchAuction.** `CurrentPrice` is `currentPrice()`; `Buy` and
  `BuyUnderpaid` are the two ways `buy()` returns.
- **Vesting.** `Accrued` is `vestedAmount()` times the duration, an integer.
- **Treasury.** `Finalize` is a poll finalising together with its callback:
  `arm()` may accept it, revert, or run out of gas. `getPollResult()` shows
  polls finalised in an earlier block only, hence `armed < height` in
  `PollVerified`.
- **StableVault.** `BothFresh` is `freshPrice()`: the pair's round and the
  fleet snapshot age separately. `CollDelta`, `StableDelta` are what custody
  holds beyond the books. `Gte` is `xchain.math.gte` with its two tolerances.
  `initialize()` locks nothing of the stable it issues, and MINT is public
  within `maxSupply` (`stableVault/README.md:112-115,161-164`): `MintByAnyone` and
  `DestroyByHolder` are that, the ghost `outside` their balance, and every
  MINT, the contract's too, is held to `WithinCap`.
- **PriceBet.** `rounds` is the oracle's history: each is a gap or finalised
  with a side of the strike and whether its timestamp reached `settleTime`.
  `Floor` is the preload window, global across pairs. `Span`, `Hits`, `Walked`
  are the bounded scan of `settle()` and of `reclaim()`.
- **Crowdsale.** `Accepted` is `acceptedFor()`; `c` is the `c:<addr>` keys.
- **CardDispenser.** `acctPay` is the key of that name: the pay-tick balance
  already accounted for. `Total` sums the copies that can be delivered, `Picks`
  is the walk of `pick()` along the cards, for any number below the total;
  `Dispense` and `Refund` are the two ways `draw()` returns. Every tick has a
  grid of its own, and a unit a card's grid cannot express weighs nothing: the
  code compares texts, so one spelled with a digit too many (`1.00` for a card
  of no decimals) counts as that, whatever its value (`digit`).
- **CounterpartyBridge.** `feed` is the burn address' history, `Page` what a
  request for the newest rows shows, `response` what the network has settled
  for the last request of each address: a page whose rows may be spelled with
  an exponent, a body without rows, or a failure. `ExtractBurnSends`,
  `IsPlainDecimal` and `FloorToDecimals` are the helpers of those names, and
  `OnClaim(r, a)` is a call by anyone, with any request and any address.
- **UrlOracle.** Two requests are kept apart, the last and the one before;
  `OnPrice` takes either, as the code asks nothing of its caller.
- **PolicyGuard.** A config is a record of optional keys; `Accepts` is
  `validateConfig()` with its helpers, `ValidateConfig` the normalised config.
  `IsPayoutAddress` looks at the checksum and, like the code's
  (`address_validation.js:28-34`), not at the network; the chain does
  (`ChainTakes`), for each set of addresses proceeds may be payable to
  (`Settlements`).
  The emitted source is what it declares (`Constants`, `Helpers`,
  `AdminMethods`) and what it does (`Initialize`, `GuardBody`, in order).
  `Guard` runs that source, where an undeclared name throws and a local read
  before it is bound is undefined; `Admin` is its owner's methods. `intent` is
  a ghost: the policy the config and the owner's orders add up to.
- **Amm.** No method asks who the caller is, so users' balances are one sum per
  tick. `Delta` is the balance beyond the books; `Slice`, `AmountOut`, `Shares`
  are the template's quotients truncated to their grid.

## 3. The runs

Seven runs pass and three refute a sentence of the documentation. Deadlock is
not an error in any of them: contracts end, and horizons are bounded.

| run | instance | properties, and what they show |
|---|---|---|
| `safekeeping` | Escrow with delivery checks: 3 addresses with 1 unit each, agreed amount 2, window 1, 2 requests. Vesting: 2 addresses, grants of 9 and 10 on a grid of 3 over 5 blocks, any cliff | `SettledRightly`: a settled escrow paid at least the amount to the party its outcome names, on that party's word, the deadline counted from funding or an answer showing the marker. `CheckNotLost`: replays clear no pending check. `ImplementsCustody`: refines `OneShotCustody`. `ReclaimWithoutNetwork`: the deadline frees the funds with the network dead. `CheckResolved`: with it alive, a check does not stay pending. `GrantOnSchedule` (books are the ledger's, the grant is shared exactly, nobody is ahead of the schedule), `GrantEarnedIsKept`, `GrantPaidOut` |
| `sales` | English: 3 addresses, 2 bid units each, item of 1 base unit or off the grid. Dutch: 2 addresses, prices 1..6 on a grid of 2. Crowdsale: 2 buyers with 4 units and the owner with 1, caps 4 and 6, 2/3 of a sale unit per pay unit | English: `Outcome` (only the leader is owed; delivered whole, against all of the bid, after the window), `ImplementsSale`, `AuctionEnds`. Dutch: `DutchTermsKept` (quotes only improve, a sale moves what was agreed, no payment stays behind), `DutchImplementsSale`, `DutchCoveredSells`. Crowdsale: `CrowdOwedIsCovered`, `CrowdSettledAsBought`, `CrowdEveryoneServed` |
| `governance` | Treasury: 2 addresses, 2 proposals, 2 polls, amount 3 on a grid of 2. Policy: every mix of rules, and every kind of royalty, gate, owner and identity beside some of them, 2 addresses payable at home and one of them on a chain without bech32, one of another network, a contract, a typo; a settlement on which nobody can be paid | `MandateBehindPayment`, `RecordsMatchLedger`, `NeverWedged`, `DeadStaysDead`; `GuardMatchesPolicy`, `EmittedClosed`, `ChainAccepts` |
| `stable_vault` | 3 users, two of them funded, prices 2 and 3, ratio 151 %, bonus 10 %, supply cap 8, a comparison that forgives one in 151 or 4 outright | `BooksMatchLedger`, `ExitOpen`, `StaysHealthy`, `LiquidatedFairly` |
| `price_bet` | 2 addresses, 3 rounds, 2 kept by the node, 2 read per call | `DecidedByHistory`: the outcome is a function of the oracle's history. `DecidedIsFinal`: nothing that history has decided is matched or voided. `BetResolves` |
| `dispensing` | Dispenser: the owner with 1 unit of the pay tick and a buyer with 3, price 2, units of 1, of 3, and of 3 spelled with a digit too many, cards on grids 1 and 3, one deck with a card twice. Pool: 9 and 12 units on grids 1 and 2, fee 1/4, 8 shares, 1 locked | `Watermark`, `CardOrRefund`, `PaidDrawsServed`; `PoolBooksMatchLedger`, `PoolShareValueNeverFalls` |
| `attested` | Bridge: 2 holders, burns of 5, 5 and 1 units on a grid of 2 and one that is not ours, 3 sends land, pages of 2, supply 8, exponents halve. Oracle: a page that says one of two things | `CreditIsBurn`, `CheckKept`, `BurnCredited`; `OraclePriceAttested` |
| `dutch_doc` | the Dutch instance of `sales` | refutes `NeverUnsellable` |
| `bet_overtaken` | as `price_bet`, 4 rounds | refutes `NeverOvertaken` |
| `bet_first_round` | as `price_bet` | refutes `FirstRoundDecides` |

**Why these bounds.** They are the least at which the cases of interest meet:
three addresses are two parties and a stranger (with coinciding roles, two of
them); a grid of two or three has an exact half, which the ledger rounds up,
and a remainder, which it does not; two requests, polls or proposals let an old
one meet a new one; a node that keeps two rounds of three has evicted one; a
horizon one block past the deadline leaves a block on either side of it (in
`safekeeping` it ends, for the escrow, with the deadline block, at which alone
the reclaim may come, and an escrow funded late is not reclaimable within it).
Funds are such that the agreed amount can be missed, met and exceeded. In the
bridge a page shows two of the three sends that land, so that one is
pushed off it, and two burns of two base units each and their remainders may
together exceed the supply. In `stable_vault` the tolerance is large enough
to let a debt through that the exact ratio refuses (8 against 4 units of
collateral at a price of 3), and the cap small enough that what others mint
may stand in the way of a loan. In `governance` the configs are complete mixes of
the rules that share emitted code (pause, freeze, allowlist with its direction,
royalty); gates, owner and identity meet a few rules only, as the code keeps
them apart. There `Polls` is a symmetry set (nothing orders polls), and in
`stable_vault` the two equally funded users are; neither run has a liveness
property.

**Fairness.** Blocks keep coming (`WF(NextBlock)`), and one party with an
interest keeps calling the method that ends the matter: the buyer `timeout()`,
anyone `settle()` or `buy()`, the beneficiary `claim()`, buyers and owner their
`claim`, `refund` and `withdraw`, whoever paid the dispenser `draw()`. Nothing
else is assumed: not that others stop depositing, not that a service answers,
with two exceptions. `CheckResolved` names that assumption in its statement.
`BurnCredited` is about a holder who keeps calling `requestClaim()`; the network
answers or fails each request and the indexer runs its callback once (`WF`), and
of the requests made for ever some are answered by a page the contract can read
(`SF`, as failures and unreadable pages may come in between without end). Each
liveness property about a deadline is qualified by its lying within the horizon,
since no block comes after `MaxHeight`. In the instances of several templates
the fairness conditions of different templates are joined by a disjunction: a
behaviour has one template, so fairness of the disjunction is fairness of each.
A SEND is assumed to be applied when custody covers it; a tick whose policy
refuses transfers could keep a contract from settling.

### Disagreements with the documentation

1. `dutchAuction/README.md:137-138` says the price "never expires into an
   unsellable state". `buy()` refuses a price the grid floors to zero
   (`dutchAuction.js:228`), and nothing at deploy or `fund()` compares
   `endPrice` with the grid: an auction whose `endPrice` is under one base unit
   can end with `cancel()` only. With a floor worth a base unit the sentence
   holds: `DutchCoveredSells`.
2. `priceBetTimed.js:83-90` says "a bet anyone settles on before its deadline
   can never be overtaken by the window". The cursor moves only inside a call;
   rounds published afterwards can push the floor past it, and then `settle()`
   and `reclaim()` both revert on their first read. What holds is `BetResolves`:
   a bet whose cursor the window never overtakes is settled or voided.
3. `priceBetTimed/README.md:5-7,61` and the header (lines 26-28, 38-41) say the
   first finalised round at or after `settleTime` decides, and that rounds
   before the match can never qualify. `accept()` compares only the block's
   time; with timestamps that are not monotonic (lines 51-54) a qualifying
   round may lie below the cursor. What holds is `DecidedByHistory`: the first
   qualifying round *from the cursor accept() recorded* decides.

## 4. The proofs

Every safety invariant, action property and refinement that a run checks is
also a theorem, for every value of the constants, and so is each template's
`TypeOK`, beside its first theorem; section 3's runs show the same on a small
instance, and that its hypotheses are met there.

| theorem | says |
|---|---|
| `LedgerKeepsGrid`, `LedgerRounds` (`Amounts_proofs`) | an amount on the grid is moved as it is; any other is moved within half a base unit. This is why truncating before emitting keeps books and ledger together |
| `EscrowSafety`, `EscrowImplementsCustody` (`Safekeeping_proofs`) | type correctness, coverage, the right payee paid in full, on an entitled word; refinement of `OneShotCustody` |
| `DeliverySafety`, `DeliveryImplementsCustody`, `DeliveryKeepsCheck` | the same with the attestation path: `SettledRightly`, the refinement, `CheckNotLost` |
| `DeployedGrantOnSchedule`, `DeployedGrantEarnedIsKept` | vesting: `OnSchedule` (with type correctness and solvency on the way) and `EarnedIsKept` |
| `AuctionOutcome`, `AuctionImplementsSale` (`Sales_proofs`) | `Outcome`, with `Solvent`; refinement of `DeliveryVersusPayment` |
| `DeployedDutchKeepsTerms`, `DeployedDutchImplementsSale` | `DutchTermsKept` for every curve; refinement of `DeliveryVersusPayment` |
| `DeployedCrowdOwes`, `DeployedCrowdSettles` | `CrowdOwedIsCovered` and `CrowdSettledAsBought`, for any number of buyers |
| `TreasuryMandate`, `TreasuryDeadStaysDead`, `TreasuryBooks`, `TreasuryNeverWedged` (`Governance_proofs`) | `MandateBehindPayment`, `DeadStaysDead`, `RecordsMatchLedger`, `NeverWedged` |
| `DeployedGuardIsPolicy`, `DeployedGuardIsClosed`, `DeployedGuardIsAccepted` | the emitted guard: `GuardMatchesPolicy`, `EmittedClosed`, `ChainAccepts`, for every config (and, for the last, every set of chains to settle on) |
| `VaultBooks`, `VaultExitOpen`, `VaultStaysHealthy`, `VaultLiquidatedFairly` (`StableVault_proofs`) | the four properties of the run, for every ratio, tolerance and supply cap, whatever others mint and destroy |
| `BetDecidedByHistory`, `BetDecidedIsFinal` (`PriceBet_proofs`) | the outcome is a function of the oracle's history, for every history; nothing decided is voided or matched |
| `DispenserWatermark`, `DispenserCardOrRefund` (`Dispensing_proofs`) | `Watermark`, with type correctness; `CardOrRefund` |
| `DeployedPoolKeepsBooks`, `DeployedPoolKeepsShareValue` | the pool's books, and no dilution, for any fee and grids |
| `BridgeCreditIsBurn`, `BridgeKeepsCheck`, `DeployedPriceIsAttested` (`Attested_proofs`) | `CreditIsBurn`, `CheckKept`; the oracle's price |

**From what.** The theorems hold for every value of the constants that
satisfies the assumptions, which TLC evaluates on each instance: amounts,
grids, rates and windows of the signs the constructors check, the non-values
no addresses or polls, the addresses whose balances are summed a finite set,
the configs records of the shape `validateConfig()` reads. A module that others
instantiate states its assumption as a formula, `Assumption`, and the module
that joins it to a deployment assumes that formula of the instance. A theorem
about a template's own specification and the one about its deployment
(`Deployed...`) are joined by one lemma each: a deployment starts in the
template's `Init`, and a step of it is a step of the template or leaves its
variables alone.

**How.** Each inductive invariant was checked by TLC on the instance of its run
before it was proved, and each proof that a step keeps it has a step per
action. What the invariants add to the properties, and why they must:

- **Sums.** Books are sums over addresses, records, cards or burns.
  `Amounts_proofs` proves of `SumFunctionOnSet` what the templates' proofs
  need: that it is any one value and the sum of the rest (`SumRemove`,
  `SumUpdate`), a bound of each (`SumBound`), additive and on the grid if all
  values are. The induction is over sets, not operators: among the subsets of a
  finite set with a property there is a smallest (`MinimalSubset`), so what
  holds of the empty one and survives an element holds of all
  (`SubsetInduction`).
- **Escrow.** The properties speak of the settled state, but what they need was
  checked earlier, by `fund()`. `IInv` adds what carries it there:
  `FundedIsCovered` (custody still covers the amount) and `DeadlineAnchored`
  (the deadline is the funding block plus the window). Every payment goes
  through `PayEffect`, stated once.
- **EscrowDelivery.** A step of it is a step of `Escrow` or one delivery paid
  (`StepOfEscrow`), so the escrow's lemmas carry over; what is added is that an
  answer once given is final (`StepOfAttestation`) and that a delivered escrow
  is not touched again (`DeliveredIsFinal`).
- **Vesting.** What is paid out of an amount that accrued is `GrantShare`: on the
  grid, at most the amount over the duration and short of it by less than one
  base unit, and monotone. The invariant keeps what was claimed behind what
  accrued (`GrantBehind`), balances whole (`GrantWhole`), the two sides' sums
  together (`GrantBooks`), and the cap `revoke()` froze within a base unit of
  the schedule (`GrantFrozenBehind`), which is what remains of the schedule
  once `total` has been rewritten. `EarnedIsKept` follows action by action:
  waiting and revoking let more accrue, a claim only moves it.
- **EnglishAuction.** `settle()` and the refund of a topped leader must not
  lack custody: `Solvent` carries that from bid to bid. `Armed` carries what
  `fund()` checked of the item's grid, so that the ledger moves what the code
  asks (`LedgerKeepsGrid`), and ties the deadline to the funding block. That
  only the leader is owed follows from `RefundFrame`: a bid gives the topped
  leader exactly the standing bid, and nobody else anything.
- **DutchAuction.** The quotient of the curve falls from block to block and
  stops at `endPrice`, and truncation keeps that order (`DivisionMonotone`,
  `FloorToMonotone`). Bid custody is on its grid throughout (`DutchArmed`), so
  price and change are, and the two emissions of `buy()` leave nothing.
- **Crowdsale.** The inventory minted at deploy covers what any raise within
  the cap buys (`CrowdInventoryCovers`), because the tokens of the parts, each
  rounded down, are no more than the tokens of the whole (`CrowdTokensOfAll`).
  `CrowdCovered` keeps the three debts (refunds, tokens, proceeds) as sums over
  the buyers in each outcome; `CrowdNothingForFree` is what `acceptedFor()`
  ensures of every contribution; `CrowdSettled` remembers what was bought once
  `c` is being cleared.
- **Treasury.** A payment's mandate was checked by `arm()`, in another step and
  possibly many steps earlier. `IInv` strengthens `MandateBehindPayment` with
  `ArmedByItsPoll` (an armed record names its poll, over the right token, bound
  if it had to be), `PaidAfterTimelock`, and `CountedOnly` (records above
  `count` are blank, so that `propose()` reuses none). From there every guard
  of `executeProposal()` is known in its window, which is `NeverWedged`.
- **PolicyGuard.** The emitted body is a concatenation of up to seven optional
  parts. `GuardOrdered` gives its steps as a set (`GuardSteps`) and their order
  by one rank for every mix (`PolicyRank`), joined part by part
  (`PolicyOrderedConcat`); a local is bound once and before it is read because
  the rank says so, not because of the mix. What the guard denies is then a
  disjunction over a set of steps. The invariant is that `cfg` is what
  `validateConfig()` makes of an accepted `raw`, that the guard's keys are the
  intent, and that only a pausable guard is paused.
- **StableVault.** Every figure in the books and the ledger is a whole number
  of base units (`OnGrids`): that is why the ledger moves what the books write
  off, and a seizure cut to the grid still leaves the pool covered. Vaults and
  debts are sums, so that one address' call concerns its own vault only. What
  others mint and destroy moves `outside` and the supply alike
  (`OutsideIInv`). With debt, `Healthy` is what `RatioOk` says
  (`RatioIsHealth`); without any it holds of every vault. A shortfall within
  the tolerance stays within it as debt falls or collateral grows
  (`ToleratedStays`), so no call needs the exact ratio.
- **PriceBet.** `CursorSkipsNothing`: the rounds a timed bet's cursor has left
  behind cannot decide it. With it a call that stops at a round has stopped at
  the one history names, whatever the window has dropped since; and a longer
  history decides the same (`Decided` is kept). `PotCovered` and `Untaken`
  carry the stakes and the blank winner to the settling step.
- **CardDispenser.** The watermark stays below custody because a refund and a
  sweep move whole base units (`OnTheirGrids`) and because no card is the pay
  tick (`CardsApart`). For `CardOrRefund`, a number below the total stops the
  walk at a card there is a copy of, and a total of nothing means there is none.
- **Amm.** `PoolSeeded` keeps the locked shares and a part of both reserves in
  a seeded pool. That no step dilutes is one inequality per method between
  products of reserves and shares (`ProductOfBounds`, `QuotientBound`), and
  whole square roots exist by induction over a set (`CountingUp`).
- **CounterpartyBridge, UrlOracle.** What the network has answered is of sends
  that landed, which keep their place and their worth as the feed grows; a
  burn is credited at most once as `credited` only grows. The oracle's answers
  are kept as they were given for as long as a callback can carry them.

`ExitOpen` and `NeverWedged` say that a call goes through. They are stated with
the whole guard of the action, the ledger's check of its emissions included
(`Withdrawable`, `Executable`), which the action then repeats, and not with
`ENABLED`: what is left of the action assigns its variables.

**Model-checked only.** The nine liveness properties: `ReclaimWithoutNetwork`,
`CheckResolved`, `GrantPaidOut`, `AuctionEnds`, `DutchCoveredSells`,
`CrowdEveryoneServed`, `BetResolves`, `PaidDrawsServed`, `BurnCredited`. They
rest on weak and strong fairness, hence on `ENABLED`, which the prover does not
reason about. The three refutations of section 3 are counterexamples and need
no proof. The theorem modules' induction theorems that take an operator are not
used, as the backends cannot instantiate them; what the proofs need of
induction is stated of sets.

## 5. What is left out

- **Views** (`info()`, `abi`, `meta`) and the validation of constructor
  parameters: the models start from accepted ones.
- **The notation of numbers.** `isAtLeastExact` and `floorToDecimals` work on
  strings; the models have what they compute, not how.
- **Owner withdrawal** from a contract address, which the targeted node
  refuses, and nodes before the activation of the features the templates
  require: the array shape of `getPrice()` in `stableVault`, the freshness
  filter described in `priceBetTimed/README.md:10-52`.
- **Pool ticks finer than the LP tick** in `amm`.
- **Metering**: a call that runs out of gas is a call that reverts; only for
  the poll callback, which is not repeated, does it make a difference, and it
  is modelled there.
- **The dispenser's randomness.** `pick()` folds the block hash, the buyer and
  a counter into a number; the model takes any number below the total, so the
  odds are not modelled and the counter has no part.
- **The generator's wording.** Comments, notes and layout of the emitted source
  and of the bind hints, the base58check and bech32 arithmetic (a string has a
  right checksum or not) and the character grammars beyond the classes they
  tell apart. `MAX_BPS` and the protocol's cap are scaled down.
- **What the generator cannot check.** A leg of the wrong network passes, and so
  does one not payable on the chain a listing settles on; the chain then denies
  the listing. The code says so where it emits its notes
  (`source_emission.js:67-83`). `ChainAccepts` is stated up to that: it names
  the case and excludes every other reason.
- **Ticks of more than 14 decimals.** A positivity test takes up to 1e-15 for
  nothing, so that of a finer tick such dust would stay where it is. Elsewhere
  in the models an amount above nothing passes for one.
- **The peg.** Nothing is claimed of what the stable is worth: stable that others
  mint can repay debts and liquidate like any other, as `stableVault/README.md`
  warns.
- **The bridge's own balance.** No method reads it, so deposits back are left
  out; a burn is named by its place in the feed, which stands for its tx hash,
  and the request bodies are what their rows say. A page is assumed to list a
  transaction once: `onClaim()` marks a row's hash as it sums it up, so this is
  about the API and not about replays, which are modelled.
- The components marked so in the table of section 1.2.

## 6. Plan

Done, in this order: the custody core (`Escrow`, `OneShotCustody`, then
`EscrowDelivery`), the auctions with their abstract specification, the
templates whose arithmetic meets the grid (`Vesting`, `Treasury`,
`StableVault`, `Crowdsale`, `Amm`, `CardDispenser`), the bets, the templates
fed by the attestation network (`CounterpartyBridge`, `UrlOracle`), the policy
generator, the deployments that join them, and the proofs of section 4.

Next:

1. An abstract specification of a request that is answered at most once, which
   `EscrowDelivery`, `CounterpartyBridge` and, as far as it is pinned,
   `UrlOracle` implement.
2. The steps under the liveness properties that need no fairness: that the call
   each of them waits for is enabled, stated with its guard as `ExitOpen` is,
   and that it makes progress (for `BetResolves`, that a scan moves the cursor
   or resolves the bet).
