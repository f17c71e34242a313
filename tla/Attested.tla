------------------------------ MODULE Attested -------------------------------
(***************************************************************************)
(* The two templates that act on what the attestation network reads for    *)
(* them and hold no payment, as one deployment sees them: the Counterparty *)
(* bridge and the url oracle.  template names the one that runs; the       *)
(* other's variables keep the value its Init gives them.                   *)
(***************************************************************************)
EXTENDS CounterpartyBridge

CONSTANT Bodies   \* external: what the oracle's page can say

ASSUME BridgeAssumption == Assumption

VARIABLES template, price, pendingPrice, answers, attested

O == INSTANCE UrlOracle WITH pending <- pendingPrice, response <- answers

-----------------------------------------------------------------------------
oracle == <<price, pendingPrice, answers, attested>>
all == <<template, vars, oracle>>

OnlyBridge == template = "counterpartyBridge" /\ UNCHANGED <<template, oracle>>
OnlyOracle == template = "urlOracle" /\ UNCHANGED <<template, vars>>

AInit == template \in {"counterpartyBridge", "urlOracle"} /\ Init /\ O!Init

ANext == \/ OnlyBridge /\ Next
         \/ OnlyOracle /\ O!Next

ASpec == AInit /\ [][ANext]_all

\* The fairness of the bridge's FairSpec; the oracle's Spec has none.
AFairSpec == /\ ASpec
             /\ \A a \in Addr : /\ WF_all(OnlyBridge /\ RequestClaim(a))
                                /\ WF_all(OnlyBridge /\ AnswerFailure(a))
                                /\ SF_all(OnlyBridge /\ AnswerPlainly(a))
                                /\ WF_all(OnlyBridge /\ OnClaim(a, a))

-----------------------------------------------------------------------------
\* The oracle's price is one the network agreed on: see UrlOracle.
OraclePriceAttested == O!OraclePriceAttested
=============================================================================
