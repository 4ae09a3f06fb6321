----------------------------- MODULE MCBilling ------------------------------
\* Small instances of BillingSession for TLC.
EXTENDS BillingSession, TLC

CONSTANTS r1, r2

Base == [pref |-> "wallet_only", quota |-> 2, free |-> FALSE,
         playground |-> FALSE, unlimited |-> FALSE, force |-> FALSE,
         package |-> FALSE, packageFallback |-> FALSE]

\* One profile for each way through NewBillingSession, with both funding
\* sources short of quota for a second request.
MCProfiles ==
    {Base,
     [Base EXCEPT !.pref = "wallet_first", !.unlimited = TRUE],
     [Base EXCEPT !.pref = "subscription_first", !.quota = 0],
     [Base EXCEPT !.pref = "subscription_only"],
     [Base EXCEPT !.pref = "wallet_only", !.force = TRUE],
     [Base EXCEPT !.package = TRUE, !.packageFallback = TRUE, !.quota = 1],
     [Base EXCEPT !.pref = "subscription_first", !.playground = TRUE, !.force = TRUE],
     [Base EXCEPT !.free = TRUE]}

MCSubscriptionOnly == {[Base EXCEPT !.pref = "subscription_only"]}

MCSymmetry == Permutations({r1, r2})
=============================================================================
