-------------------------------- MODULE MCBilling --------------------------------
(* Billing without Redis and the batch updater, as the constants of the .cfg    *)
(* say, and with both of them, on one request, a top-up and a concurrent edit.  *)
EXTENDS Billing

VARIABLE mode

Cached == INSTANCE Billing_proofs WITH
            Requests <- Deferring, Editors <- {"editor"}, TopUps <- {1}, Faults <- {},
            InitialUser <- 5, InitialToken <- 4, Estimates <- {2}, Charges <- {0, 3},
            Trust <- 2, Reserve <- 1, Redis <- TRUE, Batch <- TRUE

BillingInit == (mode = "direct" /\ Init) \/ (mode = "cached" /\ Cached!Init)

BillingNext ==
  /\ \/ mode = "direct" /\ Next
     \/ mode = "cached" /\ Cached!Next
  /\ UNCHANGED mode

BillingSpec == BillingInit /\ [][BillingNext]_<<vars, mode>>

\* Nothing is lost of either balance (postConsumeQuota, ReturnPreConsumedQuota).  Behind
\* the updater, whose swaps and writes interleave with everything else, no change of the
\* user's balance is lost or written twice (batchUpdate).
BalancesMatchUsage ==
  IF mode = "direct" THEN BalanceMatchesUsage ELSE Cached!UserBalanceMatchesUsage

\* Without the updater neither balance is overdrawn by more than what was open at one
\* time (PreConsumeTokenQuota).
DirectOverdraftBounded == mode = "direct" => OverdraftBounded
=================================================================================
