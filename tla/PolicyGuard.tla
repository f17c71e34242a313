---------------------------- MODULE PolicyGuard -----------------------------
(***************************************************************************)
(* lib/policy-gen.js and lib/policy_gen: a token policy written as a JSON  *)
(* config is validated, normalised and turned into the source of a         *)
(* controller guard, which the indexer runs before every gated action.     *)
(* The first half of the module is the generator; the second runs what it  *)
(* emitted.                                                                *)
(*                                                                         *)
(* A key of the config that may be left out is a set, {} or {its value}.   *)
(* A text is the class its grammar puts it in, and the emitted source is   *)
(* what it declares (constants, helpers, methods) and what it does (the    *)
(* steps of initialize and of guard, in order); its comments and the rest  *)
(* of its wording are left out.  A name nothing declares throws when it is *)
(* used; a local that is not bound yet reads as undefined, as a var does.  *)
(***************************************************************************)
EXTENDS FiniteSetsExt, Functions, Integers, Sequences

CONSTANTS Addr,          \* the addresses a guard sees
          WellFormed,    \* the strings ADDR_RE takes
          Base58Check,   \* those with the checksum of a base58check address
          Bech32,        \* or of a bech32 one, of whatever network
          Settlements,   \* external: for each chain a listing's proceeds may settle
                         \* on, the set of addresses a split can then be paid to
          Configs,       \* external: the configs somebody writes
          MaxBps,        \* MAX_BPS, scaled down
          ProtocolMax    \* PROTOCOL_MAX_TAKE_BPS, likewise

\* The empty string an action's recipient, or an order's argument, may be.
NoAddr == "none"

\* What a config can be, whoever writes it: every key stands in it once at most.
OptionalKeys == {"name", "freeze", "allowlist", "direction", "maxTakeBps", "royalty",
                 "permissions", "owner"}
IsConfig(c) == /\ DOMAIN c = OptionalKeys \cup {"gates", "pausable", "meta"}
               /\ \A key \in OptionalKeys : \A v, w \in c[key] : v = w

\* What an instance assumes of its constants.
Assumption == /\ Addr \subseteq WellFormed
              /\ \A c \in Configs : IsConfig(c)
              /\ \A payees \in Settlements : payees \subseteq Base58Check \cup Bech32
              /\ NoAddr \notin WellFormed
              /\ MaxBps \in Nat /\ ProtocolMax \in 0..MaxBps

VARIABLES raw, cfg,      \* the config as written, and as validateConfig() returns it
          store,         \* the guard contract's keys
          intent         \* ghost: what the config and the owner's orders since add up to

vars == <<raw, cfg, store, intent>>

Given(field) == field # {}
Value(field) == CHOOSE v \in field : TRUE
OrElse(field, default) == IF Given(field) THEN Value(field) ELSE default
Holds(field, P(_)) == \A v \in field : P(v)

-----------------------------------------------------------------------------
(* constants.js *)

ActionClasses == {"transfer", "trade", "burn", "mint", "stake", "ownership"}
BindableClasses == ActionClasses \cup {"all"}
TradeActionTypes == {"ORDER_CREATE", "SWAP_CREATE"}
AllowlistDirections == {"from", "to", "both"}

\* The texts NAME_RE and META_TEXT_RE take, their caps included.
NameTexts == {"plain", "padded", "blank"}
MetaTexts == {"plain", "punctuated"}

-----------------------------------------------------------------------------
(* address_validation.js: the checksum is looked at, and not the network.    *)

IsPayoutAddress(a) == a \in Base58Check \cup Bech32

-----------------------------------------------------------------------------
(* config_validation.js *)

ValidName(c) == Holds(c.name, LAMBDA v : v \in NameTexts)

ValidGates(c) == c.gates # <<>> /\ Range(c.gates) \subseteq BindableClasses

ValidFreeze(c) == Holds(c.freeze, LAMBDA v : v \subseteq WellFormed)

ValidAllowlist(c) == Holds(c.allowlist, LAMBDA v : v # {} /\ v \subseteq WellFormed)

ValidDirection(c) == Holds(c.direction, LAMBDA v : /\ Given(c.allowlist)
                                                   /\ v \in AllowlistDirections)

ValidMaxTake(c) == Holds(c.maxTakeBps, LAMBDA v : v \in 0..MaxBps)

ValidPermissions(c) == Holds(c.permissions, LAMBDA v : v \subseteq {"UPPER_SNAKE"})

\* mutant: any well-formed string will do for a payee
WellFormedLeg(leg) == leg.to \in WellFormed /\ leg.bps \in 1..MaxBps
ValidLeg(leg) == /\ leg.to \in WellFormed
                 /\ IsPayoutAddress(leg.to)
                 /\ leg.bps \in 1..MaxBps

GatesTrade(c) == Range(c.gates) \cap {"trade", "all"} # {}

Sum(legs) == MapThenSumSet(LAMBDA i : legs[i].bps, DOMAIN legs)

SplitFits(c, legs) == /\ Sum(legs) <= MaxBps
                      /\ Sum(legs) <= ProtocolMax
                      /\ Holds(c.maxTakeBps, LAMBDA max : Sum(legs) <= max)

ValidRoyalty(c) == Holds(c.royalty, LAMBDA legs : /\ legs # <<>>
                                                  /\ GatesTrade(c)
                                                  /\ \A leg \in Range(legs) : ValidLeg(leg)
                                                  /\ SplitFits(c, legs))

NeedsOwner(c) == c.pausable \/ Given(c.freeze) \/ Given(c.allowlist)

ValidOwner(c) == /\ Holds(c.owner, LAMBDA v : v \in WellFormed)
                 /\ NeedsOwner(c) => Given(c.owner)

HasRule(c) == NeedsOwner(c) \/ Given(c.royalty)

\* metadata_resolution.js: the name is the header's, trimmed, or one of its own.
Trimmed(text) == IF text \in {"padded", "blank"} THEN "plain" ELSE text

ResolveMeta(c) ==
    [name |-> OrElse(c.meta.name, Trimmed(OrElse(c.name, "plain"))),
     description |-> OrElse(c.meta.description, "plain"),
     version |-> OrElse(c.meta.version, "plain")]

ValidMeta(c) == Range(ResolveMeta(c)) \subseteq MetaTexts

Accepts(c) == /\ ValidName(c) /\ ValidGates(c)
              /\ ValidFreeze(c) /\ ValidAllowlist(c) /\ ValidDirection(c)
              /\ ValidMaxTake(c) /\ ValidRoyalty(c) /\ ValidPermissions(c)
              /\ ValidOwner(c) /\ HasRule(c) /\ ValidMeta(c)

\* Without a direction the allowlist is checked on the sender.
ResolveDirection(c) == IF Given(c.allowlist) THEN {OrElse(c.direction, "from")} ELSE {}

\* What is left of a config that was accepted; gates are bound once each.
ValidateConfig(c) == [c EXCEPT !.gates = Range(c.gates),
                               !.direction = ResolveDirection(c),
                               !.meta = ResolveMeta(c)]

-----------------------------------------------------------------------------
(* source_emission.js *)

Emit(condition, lines) == IF condition THEN lines ELSE <<>>
Declare(condition, names) == IF condition THEN names ELSE {}

Stateful == NeedsOwner(cfg)
AdminAddr == Given(cfg.freeze) \/ Given(cfg.allowlist)
AllowFrom == cfg.direction \cap {"from", "both"} # {}
AllowTo == cfg.direction \cap {"to", "both"} # {}

Constants == Declare(Stateful, {"OWNER"})
        \cup Declare(Given(cfg.freeze), {"FROZEN"})
        \cup Declare(Given(cfg.allowlist), {"ALLOWED"})
        \cup Declare(Given(cfg.royalty), {"LEGS"})

\* mutant: the sender's helper comes with every allowlist
ReadsFrom == Given(cfg.freeze) \/ Given(cfg.allowlist)
NeedsFrom == Given(cfg.freeze) \/ AllowFrom

Helpers == Declare(Given(cfg.royalty), {"actionType"})
      \cup Declare(NeedsFrom, {"fromAddr"})
      \cup Declare(Given(cfg.freeze) \/ AllowTo, {"toAddr"})
      \cup Declare(AdminAddr, {"argAddr", "requireAddrArg"})
      \cup Declare(Stateful, {"onlyOwner"})
      \cup Declare(cfg.pausable, {"requireNotPaused"})
      \cup Declare(Given(cfg.freeze), {"requireNotFrozen"})
      \cup Declare(Given(cfg.allowlist), {"requireAllowed"})

Initialize == Emit(cfg.pausable, <<"unpaused">>)
          \o Emit(Given(cfg.freeze), <<"seedFrozen">>)
          \o Emit(Given(cfg.allowlist), <<"seedAllowed">>)

AdminMethods == Declare(cfg.pausable, {"pause", "unpause"})
           \cup Declare(Given(cfg.freeze), {"freeze", "unfreeze"})
           \cup Declare(Given(cfg.allowlist), {"allow", "disallow"})

\* A step of guard() and the local it binds or reads.
Step(does, local) == [does |-> does, local |-> local]

\* mutant: freeze is left to bind the recipient, after the allowlist has read it
GuardBindsLate ==
       Emit(cfg.pausable, <<Step("notPaused", "none")>>)
    \o Emit(NeedsFrom, <<Step("bind", "from")>>)
    \o Emit(AllowFrom, <<Step("allowed", "from")>>)
    \o Emit(AllowTo, <<Step("allowedIfAny", "to")>>)
    \o Emit(Given(cfg.freeze) \/ AllowTo, <<Step("bind", "to")>>)
    \o Emit(Given(cfg.freeze), <<Step("notFrozen", "from"), Step("notFrozen", "to")>>)
    \o Emit(Given(cfg.royalty), <<Step("legs", "none")>>)

GuardBody ==
       Emit(cfg.pausable, <<Step("notPaused", "none")>>)
    \o Emit(NeedsFrom, <<Step("bind", "from")>>)
    \o Emit(AllowTo /\ ~Given(cfg.freeze), <<Step("bind", "to")>>)
    \o Emit(AllowFrom, <<Step("allowed", "from")>>)
    \o Emit(Given(cfg.freeze), <<Step("bind", "to"),
                                 Step("notFrozen", "from"), Step("notFrozen", "to")>>)
    \o Emit(AllowTo, <<Step("allowedIfAny", "to")>>)
    \o Emit(Given(cfg.royalty), <<Step("legs", "none")>>)

\* The manifest and the identity the chain reads off the export.
Descriptors == [meta |-> cfg.meta, permissions |-> cfg.permissions,
                maxTakeBps |-> cfg.maxTakeBps]

\* bind_hints.js: one bind for each gate.
BindHints == cfg.gates

-----------------------------------------------------------------------------
(* The names a method, a helper or a step uses. *)

Uses == [pause |-> {"onlyOwner"}, unpause |-> {"onlyOwner"},
         freeze |-> {"onlyOwner", "argAddr", "requireAddrArg"},
         unfreeze |-> {"onlyOwner", "argAddr", "requireAddrArg"},
         allow |-> {"onlyOwner", "argAddr", "requireAddrArg"},
         disallow |-> {"onlyOwner", "argAddr", "requireAddrArg"},
         onlyOwner |-> {"OWNER"},
         unpaused |-> {}, seedFrozen |-> {"FROZEN"}, seedAllowed |-> {"ALLOWED"},
         notPaused |-> {"requireNotPaused"}, notFrozen |-> {"requireNotFrozen"},
         allowed |-> {"requireAllowed"}, allowedIfAny |-> {"requireAllowed"},
         legs |-> {"actionType", "LEGS"}]

StepUses(s) == IF s.does # "bind" THEN Uses[s.does]
               ELSE IF s.local = "from" THEN {"fromAddr"} ELSE {"toAddr"}

Declared == Constants \cup Helpers

-----------------------------------------------------------------------------
(* The deployed guard. *)

Undefined == "undefined"

Passes(i, call) ==
    LET step == GuardBody[i]
        bound == \E j \in 1..i - 1 : GuardBody[j] = Step("bind", step.local)
        arg == IF bound THEN call[step.local] ELSE Undefined
    IN  /\ StepUses(step) \subseteq Declared
        /\ CASE step.does = "notPaused" -> ~store.paused
             [] step.does = "allowed" -> arg \in store.allow
             [] step.does = "allowedIfAny" -> arg # NoAddr => arg \in store.allow
             [] step.does = "notFrozen" -> arg \notin store.frozen
             [] OTHER -> TRUE

\* {} when the action is denied, {the legs of its split} when it is allowed.
Guard(call) ==
    IF \E i \in DOMAIN GuardBody : ~Passes(i, call) THEN {}
    ELSE IF Given(cfg.royalty) /\ call.type \in TradeActionTypes THEN cfg.royalty
    ELSE {<<>>}

OnlyOwner(caller) == {caller} = cfg.owner

RequireAddrArg(m, a) == m \notin {"pause", "unpause"} => a # NoAddr

AdminEffect(m, a) ==
    CASE m = "pause" -> [store EXCEPT !.paused = TRUE]
      [] m = "unpause" -> [store EXCEPT !.paused = FALSE]
      [] m = "freeze" -> [store EXCEPT !.frozen = @ \cup {a}]
      [] m = "unfreeze" -> [store EXCEPT !.frozen = @ \ {a}]
      [] m = "allow" -> [store EXCEPT !.allow = @ \cup {a}]
      [] m = "disallow" -> [store EXCEPT !.allow = @ \ {a}]

\* What initialize() leaves in the contract's keys.
Seeded == LET seeds == Range(Initialize)
          IN  [paused |-> FALSE,
               frozen |-> IF "seedFrozen" \in seeds THEN Value(cfg.freeze) ELSE {},
               allow |-> IF "seedAllowed" \in seeds THEN Value(cfg.allowlist) ELSE {}]

\* The config is accepted, generated from, and deployed.
Init == /\ raw \in {c \in Configs : Accepts(c)}
        /\ cfg = ValidateConfig(raw)
        /\ store = Seeded
        /\ intent = [paused |-> FALSE,
                     frozen |-> OrElse(raw.freeze, {}),
                     allow |-> OrElse(raw.allowlist, {})]

\* What an order means, whoever carries it out.
Meant(m, a) == [paused |-> IF m \in {"pause", "unpause"} THEN m = "pause"
                           ELSE intent.paused,
                frozen |-> {b \in Addr \cup intent.frozen :
                              IF b = a /\ m \in {"freeze", "unfreeze"} THEN m = "freeze"
                              ELSE b \in intent.frozen},
                allow |-> {b \in Addr \cup intent.allow :
                              IF b = a /\ m \in {"allow", "disallow"} THEN m = "allow"
                              ELSE b \in intent.allow}]

Admin(caller, m, a) == /\ OnlyOwner(caller)
                       /\ RequireAddrArg(m, a)
                       /\ Uses[m] \cup Uses["onlyOwner"] \subseteq Declared
                       /\ store' = AdminEffect(m, a)
                       /\ intent' = IF {caller} = raw.owner THEN Meant(m, a) ELSE intent
                       /\ UNCHANGED <<raw, cfg>>

Next == \E caller \in Addr, m \in AdminMethods, a \in Addr \cup {NoAddr} :
           Admin(caller, m, a)

Spec == Init /\ [][Next]_vars

-----------------------------------------------------------------------------
(* Properties. *)

(* Type of every variable. *)
TypeOK == /\ raw \in Configs
          /\ cfg.gates \subseteq BindableClasses
          /\ store.paused \in BOOLEAN
          /\ store.frozen \subseteq WellFormed /\ store.allow \subseteq WellFormed

Calls == [type : TradeActionTypes \cup {"SEND"}, from : Addr, to : Addr \cup {NoAddr}]

\* The ends of a move the config has the allowlist checked on.
Checked == IF Given(raw.allowlist) THEN OrElse(raw.direction, "from") ELSE "neither"

Denied(call) ==
    \/ intent.paused
    \/ Given(raw.freeze) /\ {call.from, call.to} \cap intent.frozen # {}
    \/ Checked \in {"from", "both"} /\ call.from \notin intent.allow
    \/ Checked \in {"to", "both"} /\ call.to \notin intent.allow \cup {NoAddr}

(* The emitted guard is the policy: after any orders, whoever gave them, it  *)
(* denies an action exactly when the config and the owner's own orders do,   *)
(* whatever mix of features shares its helpers and its locals.               *)
GuardMatchesPolicy == \A call \in Calls : (Guard(call) = {}) = Denied(call)

(* Nothing emitted is missing and nothing is dead: the constants and helpers *)
(* declared are those the methods, initialize and guard use, and the locals  *)
(* guard binds are those it reads, each bound once and before it is read.    *)
EmittedClosed ==
    /\ LET entry == UNION ({Uses[m] : m \in AdminMethods}
                              \cup {Uses[s] : s \in Range(Initialize)}
                              \cup {StepUses(s) : s \in Range(GuardBody)})
           used == entry \cup IF "onlyOwner" \in entry THEN Uses["onlyOwner"] ELSE {}
       IN  used = Declared
    /\ \A local \in {"from", "to"} :
          LET binds == {i \in DOMAIN GuardBody : GuardBody[i] = Step("bind", local)}
              reads == {i \in DOMAIN GuardBody : GuardBody[i].local = local} \ binds
          IN  /\ binds = {} <=> reads = {}
              /\ Cardinality(binds) <= 1
              /\ \A b \in binds, r \in reads : b < r

\* external: what the chain's grammar lets an identity be
ChainTexts == {"plain", "punctuated"}

\* external: a listing is denied as a whole for one leg that cannot be paid
\* where its proceeds settle, and for a sum over a cap
ChainTakes(legs, payees) ==
    /\ \A leg \in Range(legs) : leg.to \in payees
    /\ Sum(legs) <= ProtocolMax
    /\ Holds(Descriptors.maxTakeBps, LAMBDA max : Sum(legs) <= max)

(* What the generator can see to, the chain takes: the deploy has an         *)
(* identity it accepts, and once the hinted binds are made every listing the *)
(* guard allows pays the split that was asked for, to nothing but real       *)
(* addresses: no typo, no placeholder, no contract.  Its legs are then a     *)
(* reason to deny it only where one of them is an address of the wrong       *)
(* network for the chain the proceeds settle on, which no config tells.      *)
ChainAccepts ==
    /\ Range(Descriptors.meta) \subseteq ChainTexts
    /\ Given(raw.royalty) =>
          /\ BindHints \cap {"trade", "all"} # {}
          /\ \A call \in Calls : call.type \in TradeActionTypes /\ Guard(call) # {} =>
                LET legs == Value(Guard(call))
                IN  /\ {legs} = raw.royalty
                    /\ \A leg \in Range(legs) : IsPayoutAddress(leg.to)
                    /\ \A payees \in Settlements :
                          ChainTakes(legs, payees) \/ \E leg \in Range(legs) : leg.to \notin payees
=============================================================================
