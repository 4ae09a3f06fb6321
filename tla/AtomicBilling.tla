---------------------------- MODULE AtomicBilling ----------------------------
(***************************************************************************)
(* What BillingSession promises, seen from the user's total quota: every   *)
(* request is charged at most once, in one step, and so is its violation   *)
(* fee.  Holds, their adjustments, fallbacks and refunds are invisible.    *)
(* The promise ends when a refund is repeated after its money moved.       *)
(***************************************************************************)
EXTENDS Integers

CONSTANTS Requests, InitBalance

VARIABLES
    balance,    \* what the user may still spend, holds not subtracted
    charged,    \* what each request was charged, -1 while it was not
    fined,      \* the violation fee of each request
    excused     \* the requests whose refund was repeated

avars == <<balance, charged, fined, excused>>

NotCharged == -1

AInit ==
    /\ balance = InitBalance
    /\ charged = [r \in Requests |-> NotCharged]
    /\ fined = [r \in Requests |-> 0]
    /\ excused = {}

\* A request is charged, for good.
Charge(r) ==
    /\ charged[r] = NotCharged
    /\ charged' = [charged EXCEPT ![r] = balance - balance']
    /\ charged'[r] >= 0
    /\ UNCHANGED <<fined, excused>>

\* A request that was not charged is fined instead, once.
Fine(r) ==
    /\ charged[r] = NotCharged /\ fined[r] = 0
    /\ fined' = [fined EXCEPT ![r] = balance - balance']
    /\ fined'[r] > 0
    /\ UNCHANGED <<charged, excused>>

\* Nothing is promised once a refund was repeated.
Excuse == excused' # {}

ANext == (\E r \in Requests : Charge(r) \/ Fine(r)) \/ Excuse

ASpec == AInit /\ [][ANext]_avars
=============================================================================
