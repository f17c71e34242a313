--------------------------- MODULE OneShotCustody ---------------------------
(***************************************************************************)
(* What the one-tick settlement templates (escrow, escrowDelivery) promise *)
(* about the tokens in their custody, whatever the roles, deadlines and    *)
(* attestations that decide the outcome: deposits may land at any time,    *)
(* custody is locked only when it covers the agreed amount, and it leaves  *)
(* the contract once, all of it, in the step that closes the contract.     *)
(***************************************************************************)
EXTENDS Integers

CONSTANT MinLock      \* the amount custody must cover before it is locked

VARIABLES phase,      \* "OPEN", "LOCKED" or "CLOSED"
          held,       \* tokens in custody
          out         \* tokens paid out so far

custodyVars == <<phase, held, out>>

CustodyInit == /\ phase = "OPEN"
               /\ held = 0
               /\ out = 0

Receive == /\ held' \in Nat
           /\ held' > held
           /\ UNCHANGED <<phase, out>>

Lock == /\ phase = "OPEN"
        /\ held >= MinLock
        /\ phase' = "LOCKED"
        /\ UNCHANGED <<held, out>>

\* The only way tokens leave: the whole custody, once.
PayOut == /\ phase # "CLOSED"
          /\ held > 0
          /\ phase' = "CLOSED"
          /\ out' = out + held
          /\ held' = 0

CustodyNext == Receive \/ Lock \/ PayOut

CustodySpec == CustodyInit /\ [][CustodyNext]_custodyVars
=============================================================================
