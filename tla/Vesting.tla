------------------------------ MODULE Vesting -------------------------------
(***************************************************************************)
(* vesting/vesting.js: a grant that vests linearly over Duration blocks    *)
(* from fund(), nothing before the cliff, claimable by the beneficiary and *)
(* revocable, if so deployed, by the grantor.                              *)
(*                                                                         *)
(* Amounts are counted in a unit of which TickGrid make one base unit of   *)
(* the tick.  What has vested is a fraction of such a unit in general:     *)
(* Accrued is the vested amount times Duration, an integer.                *)
(***************************************************************************)
EXTENDS Grid

CONSTANTS Addr,
          Grants,       \* the values total is deployed with
          TickGrid,
          Duration,     \* durationBlocks
          Funds,        \* what each address holds at deploy
          MaxHeight     \* bound: the last block considered

\* What an instance assumes of its constants.
Assumption == /\ Grants \subseteq Nat \ {0}
              /\ TickGrid \in Nat \ {0}
              /\ Duration \in Nat \ {0}
              /\ Funds \in [Addr -> Nat]
              /\ \A a \in Addr : OnGrid(Funds[a], TickGrid)
              /\ MaxHeight \in Nat

VARIABLES grantor, beneficiary, cliff, revocable,    \* terms
          total, claimed, start, status,             \* the contract's store
          held, wallet, height,
          grant,            \* ghost: total as deployed
          paid, returned    \* ghosts: what the ledger moved to either party

terms == <<grantor, beneficiary, cliff, revocable, grant>>
store == <<total, claimed, start, status>>
vars == <<terms, store, held, wallet, height, paid, returned>>

Init == /\ grantor \in Addr /\ beneficiary \in Addr
        /\ cliff \in 0..Duration
        /\ revocable \in BOOLEAN
        /\ grant \in Grants /\ total = grant
        /\ claimed = 0 /\ start = 0
        /\ status = "INIT"
        /\ held = 0 /\ wallet = Funds
        /\ height = 0
        /\ paid = 0 /\ returned = 0

-----------------------------------------------------------------------------
(* The environment. *)

NextBlock == /\ height < MaxHeight
             /\ height' = height + 1
             /\ UNCHANGED <<terms, store, held, wallet, paid, returned>>

Deposit(a, q) == /\ q <= wallet[a]
                 /\ OnGrid(q, TickGrid)
                 /\ wallet' = [wallet EXCEPT ![a] = @ - q]
                 /\ held' = held + q
                 /\ UNCHANGED <<terms, store, height, paid, returned>>

\* A SEND is re-quantised by the ledger and fails, with the whole EXECUTE, when
\* custody does not cover it.
Send(to, q) == LET moved == HalfUp(q, TickGrid)
               IN  /\ moved <= held
                   /\ held' = held - moved
                   /\ wallet' = [wallet EXCEPT ![to] = @ + moved]

-----------------------------------------------------------------------------
(* The schedule. *)

Elapsed == height - start

\* vestedAmount() times Duration.  REVOKED makes it the frozen cap.
Accrued == IF status = "REVOKED" THEN total * Duration
           ELSE IF Elapsed < cliff THEN 0
           ELSE IF Elapsed >= Duration THEN total * Duration
           ELSE total * Elapsed

\* mutant: the payout is not floored onto the grid
ClaimableRaw == (Accrued - claimed * Duration) \div Duration
Claimable == FloorTo((Accrued - claimed * Duration) \div Duration, TickGrid)

Unvested == FloorTo((total * Duration - Accrued) \div Duration, TickGrid)

-----------------------------------------------------------------------------
(* The contract's methods. *)

\* mutant: no grid check
FundableOffGrid == held >= total
Fundable == held >= total /\ OnGrid(total, TickGrid)

Fund(a) == /\ status = "INIT"
           /\ a = grantor
           /\ Fundable
           /\ start' = height
           /\ status' = "ACTIVE"
           /\ UNCHANGED <<terms, total, claimed, held, wallet, height, paid, returned>>

Cancel(a) == /\ status = "INIT"
             /\ a = grantor
             /\ held > 0
             /\ status' = "CANCELLED"
             /\ Send(grantor, held)
             /\ UNCHANGED <<terms, total, claimed, start, height, paid, returned>>

Claim(a) == /\ status \in {"ACTIVE", "REVOKED"}
            /\ a = beneficiary
            /\ Claimable > 0
            /\ claimed' = claimed + Claimable
            /\ Send(beneficiary, Claimable)
            /\ paid' = paid + (held - held')
            /\ UNCHANGED <<terms, total, start, status, height, returned>>

\* mutant: the cap is frozen at what had been claimed
CapAtClaimed == claimed
FrozenCap == total - Unvested

Revoke(a) == /\ status = "ACTIVE"
             /\ revocable
             /\ a = grantor
             /\ Unvested > 0
             /\ total' = FrozenCap
             /\ status' = "REVOKED"
             /\ Send(grantor, Unvested)
             /\ returned' = returned + (held - held')
             /\ UNCHANGED <<terms, claimed, start, height, paid>>

-----------------------------------------------------------------------------
Next == \/ NextBlock
        \/ \E a \in Addr : \/ \E q \in 1..wallet[a] : Deposit(a, q)
                           \/ Fund(a) \/ Cancel(a) \/ Claim(a) \/ Revoke(a)

Spec == Init /\ [][Next]_vars

\* Blocks keep coming and the beneficiary keeps claiming.
FairSpec == /\ Spec
            /\ WF_vars(NextBlock)
            /\ WF_vars(\E a \in Addr : Claim(a))

-----------------------------------------------------------------------------
Running == status \in {"ACTIVE", "REVOKED"}

(* Type of every variable. *)
TypeOK == /\ grantor \in Addr /\ beneficiary \in Addr
          /\ cliff \in 0..Duration /\ revocable \in BOOLEAN
          /\ grant \in Grants /\ total \in Nat /\ claimed \in Nat
          /\ start \in Nat /\ height \in Nat
          /\ status \in {"INIT", "ACTIVE", "REVOKED", "CANCELLED"}
          /\ held \in Nat /\ wallet \in [Addr -> Nat]
          /\ paid \in Nat /\ returned \in Nat

(* Custody always covers what the beneficiary may still claim, so that the   *)
(* grantor's payout and every rounding so far have cost the grant nothing.   *)
Solvent == Running => held >= total - claimed

(* What the contract believes it paid is what the ledger moved, to either    *)
(* side, and the two sides share exactly the grant.  The beneficiary never   *)
(* gets ahead of the schedule as deployed, by as much as one base unit, and  *)
(* nothing before the cliff: whatever was claimed, deposited or revoked in   *)
(* between.                                                                  *)
OnSchedule ==
    /\ Running => paid = claimed /\ total + returned = grant /\ claimed <= total
    /\ (Running /\ claimed > 0)
        => /\ Elapsed >= cliff
           /\ status = "ACTIVE" => claimed * Duration <= Accrued
           /\ Elapsed < Duration
                => claimed * Duration < grant * Elapsed + TickGrid * Duration

(* What the beneficiary has received and could receive now never shrinks:    *)
(* neither by waiting, nor by a claim, nor by the grantor's revoke.          *)
EarnedIsKept == [][Running => claimed' + Claimable' >= claimed + Claimable]_vars

(* A grant whose schedule ends within the horizon is paid out to the last    *)
(* base unit of what was not revoked: no dust is locked.                     *)
PaidOut == (Running /\ start + Duration <= MaxHeight) ~> (Running /\ paid + returned = grant)
=============================================================================
