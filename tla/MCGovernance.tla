---------------------------- MODULE MCGovernance -----------------------------
(***************************************************************************)
(* An instance of Governance for TLC.  The variables of the contract that  *)
(* does not run keep one value of their Init.                              *)
(*                                                                         *)
(* Treasury: two polls and two proposals let a poll name, or be bound to,  *)
(* the other's proposal and let two mandates compete for one balance.      *)
(* With a grid of 2, amount 3 is off it by the half that the ledger would  *)
(* round up.                                                               *)
(* Policy: the configs put every mix of rules beside one another, and      *)
(* every kind of royalty, gate, owner and identity beside a few of them;   *)
(* among them are all that the validators refuse.  Of the addresses a1 and *)
(* a2 can be paid on the token's chain and a1 on a proceeds chain without  *)
(* bech32; foreign is an address of another network, to be paid on         *)
(* neither, which the generator cannot tell; the custody of a contract is  *)
(* no payout address, and a typo is not an address at all.                 *)
(***************************************************************************)
EXTENDS Governance, TLC

CONSTANTS a1, a2, custody, typo, foreign

Optional(values) == {{}} \cup {{v} : v \in values}

Plain == [name |-> {}, gates |-> <<"all">>, pausable |-> FALSE, freeze |-> {},
          allowlist |-> {}, direction |-> {}, maxTakeBps |-> {}, royalty |-> {},
          permissions |-> {}, owner |-> {a1},
          meta |-> [name |-> {}, description |-> {}, version |-> {}]]

Leg(to, bps) == [to |-> to, bps |-> bps]

MixedRules ==
    {[Plain EXCEPT !.pausable = pausable, !.freeze = freeze, !.allowlist = allowlist,
                   !.direction = direction, !.royalty = royalty] :
        pausable \in BOOLEAN,
        freeze \in Optional({{}, {a2}, {typo}}),
        allowlist \in Optional({{}, {a1}, {a1, a2}}),
        direction \in Optional({"from", "to", "both", "sideways"}),
        royalty \in Optional({<<Leg(a1, 1)>>})}

Royalties ==
    {[Plain EXCEPT !.gates = gates, !.royalty = royalty, !.maxTakeBps = max,
                   !.pausable = pausable, !.owner = owner] :
        gates \in {<<>>, <<"trade">>, <<"burn", "burn">>, <<"transfer", "all">>, <<"swap">>},
        royalty \in Optional({<<>>, <<Leg(a1, 2)>>, <<Leg(a1, 2), Leg(a1, 2)>>,
                              <<Leg(a1, 3), Leg(a2, 2)>>, <<Leg(custody, 1)>>,
                              <<Leg(foreign, 1)>>, <<Leg(a1, 1), Leg(foreign, 1)>>,
                              <<Leg(typo, 1)>>, <<Leg(a2, 0)>>}),
        max \in Optional({0, 3, 5}),
        pausable \in BOOLEAN,
        owner \in Optional({a2, typo})}

Identities ==
    {[Plain EXCEPT !.pausable = TRUE, !.name = name, !.permissions = permissions,
                   !.meta = [name |-> metaName, description |-> description,
                             version |-> {}]] :
        name \in Optional({"plain", "padded", "blank", "punctuated", "long"}),
        permissions \in Optional({{}, {"UPPER_SNAKE"}, {"lower"}}),
        metaName \in Optional({"punctuated", "padded"}),
        description \in Optional({"plain", "long"})}

\* At home, over the way, and anywhere before CROSS_CHAIN_ROYALTY is active.
MCSettlements == {{a1, a2}, {a1}, {}}

MCConfigs == MixedRules \cup Royalties \cup Identities

-----------------------------------------------------------------------------
MCFunds == (a1 :> 2) @@ (a2 :> 0)
MCGovFunds == (a1 :> 1) @@ (a2 :> 0)
Symmetry == Permutations(Polls)

MCInit ==
    /\ GInit
    /\ template = "treasury" => raw = [Plain EXCEPT !.pausable = TRUE]
    /\ template = "policy" => /\ guardian = a1 /\ mode = "open"
                              /\ names = [p \in Polls |-> 1]
                              /\ electorate = [p \in Polls |-> "gov"]

MCSpec == MCInit /\ [][GNext]_all
=============================================================================
