------------------------------ MODULE Safekeeping --------------------------------
(***************************************************************************)
(* The two templates that keep somebody's money until it is somebody's     *)
(* turn to have it, as one deployment sees them: the escrow with delivery  *)
(* checks, and the vesting grant.  template names the one that runs; the   *)
(* other's variables keep the value its Init gives them.                   *)
(***************************************************************************)
EXTENDS EscrowDelivery

CONSTANTS Parties, Grants, TickGrid, Duration, GrantFunds, GrantMaxHeight

VARIABLES template,
          grantor, beneficiary, cliff, revocable, grant, total, claimed, start,
          gStatus, gHeld, gWallet, gHeight, paid, returned

V == INSTANCE Vesting
       WITH Addr <- Parties, Funds <- GrantFunds, MaxHeight <- GrantMaxHeight,
            status <- gStatus, held <- gHeld, wallet <- gWallet, height <- gHeight

ASSUME GrantAssumption == V!Assumption

-----------------------------------------------------------------------------
vesting == <<grantor, beneficiary, cliff, revocable, grant, total, claimed, start,
             gStatus, gHeld, gWallet, gHeight, paid, returned>>
all == <<template, dvars, vesting>>

OnlyEscrow == template = "escrowDelivery" /\ UNCHANGED <<template, vesting>>
OnlyGrant == template = "vesting" /\ UNCHANGED <<template, dvars>>

CInit == template \in {"escrowDelivery", "vesting"} /\ DInit /\ V!Init

CNext == \/ OnlyEscrow /\ DNext
         \/ OnlyGrant /\ V!Next

CSpec == CInit /\ [][CNext]_all

\* The fairness of DFairBuyer and of the grant's FairSpec: a behaviour has one
\* template, so that fairness of a disjunction with a disjunct of each is fairness
\* of the one that runs.
CFairness ==
    /\ WF_all(\/ OnlyEscrow /\ NextBlock /\ UNCHANGED attestation
              \/ OnlyGrant /\ V!NextBlock)
    /\ WF_all(\/ OnlyEscrow /\ \E a \in Addr : DTimeout(a)
              \/ OnlyGrant /\ \E a \in Parties : V!Claim(a))

-----------------------------------------------------------------------------
(* The properties of the grant, by names a run can give. *)

\* What was paid is what the schedule had released: see OnSchedule in Vesting.
GrantOnSchedule == V!OnSchedule

\* What has been earned is never lost: see EarnedIsKept there.
GrantEarnedIsKept == V!EarnedIsKept

\* A grant is paid out to the last base unit: see PaidOut there.
GrantPaidOut == V!PaidOut
=============================================================================
