---------------------------- MODULE MCBilling_proofs ----------------------------
(***************************************************************************)
(* The theorems of Billing_proofs, for the two kinds of behaviours that are *)
(* checked together: without Redis and the batch updater, and with both.    *)
(***************************************************************************)
EXTENDS MCBilling, Billing_proofs

LEMMA CachedConstants == Cached!ConstantsOK
<1>1. IsFiniteSet(Deferring)
  BY ConstantsHold, FS_Subset DEF ConstantsOK
<1>2. Cached!IsFiniteSet(Deferring)
  BY <1>1 DEF IsFiniteSet, Cached!IsFiniteSet
<1>. QED BY <1>2, ConstantsHold DEF ConstantsOK, Cached!ConstantsOK

\* The books balance in the behaviours of either mode.
ModeInv ==
  /\ mode \in {"direct", "cached"}
  /\ IF mode = "direct" THEN BooksInv ELSE Cached!BooksInv

LEMMA ModeInit ==
  ASSUME BillingInit
  PROVE  ModeInv
<1>1. CASE mode = "direct" /\ Init
  BY <1>1, BooksInit, ConstantsHold DEF ModeInv
<1>2. CASE mode = "cached" /\ Cached!Init
  BY <1>2, Cached!BooksInit, CachedConstants DEF ModeInv
<1>. QED BY <1>1, <1>2 DEF BillingInit

LEMMA ModeNext ==
  ASSUME ModeInv, [BillingNext]_<<vars, mode>>
  PROVE  ModeInv'
<1>1. mode' = mode
  BY DEF BillingNext
<1>2. CASE mode = "direct"
  <2>1. [Next]_vars
    BY <1>2 DEF BillingNext
  <2>2. BooksInv'
    BY <1>2, <2>1, BooksNext, ConstantsHold DEF ModeInv
  <2>. QED BY <1>1, <1>2, <2>2 DEF ModeInv
<1>3. CASE mode = "cached"
  <2>1. UNCHANGED vars => UNCHANGED Cached!vars
    BY DEF vars, books, redis, worker, Cached!vars, Cached!books, Cached!redis,
       Cached!worker
  <2>2. [Cached!Next]_Cached!vars
    BY <1>3, <2>1 DEF BillingNext
  <2>3. Cached!BooksInv'
    BY <1>3, <2>2, Cached!BooksNext, CachedConstants DEF ModeInv
  <2>. QED BY <1>1, <1>3, <2>3 DEF ModeInv
<1>. QED BY <1>2, <1>3 DEF ModeInv

\* In either mode all that has left the balances when everything is settled is recorded
\* as used or was kept; of the token without the updater, while no administrator writes
\* an older balance back (postConsumeQuota, ReturnPreConsumedQuota, batchUpdate).
THEOREM BalancesAlwaysMatchUsage ==
  ASSUME Editors = {}
  PROVE  BillingSpec => []BalancesMatchUsage
<1>1. BillingInit => ModeInv
  BY ModeInit
<1>2. ModeInv /\ [BillingNext]_<<vars, mode>> => ModeInv'
  BY ModeNext
<1>3. ModeInv => BalancesMatchUsage
  <2>1. SUFFICES ASSUME ModeInv PROVE BalancesMatchUsage
    OBVIOUS
  <2>2. CASE mode = "direct"
    BY <2>1, <2>2, QuietBooks, ConstantsHold DEF ModeInv, BalancesMatchUsage
  <2>3. CASE mode = "cached"
    BY <2>1, <2>3, Cached!QuietBooks, CachedConstants DEF ModeInv, BalancesMatchUsage
  <2>. QED BY <2>1, <2>2, <2>3 DEF ModeInv
<1>. QED BY <1>1, <1>2, <1>3, PTL DEF BillingSpec

\* Without Redis and the updater the balances are overdrawn by no more than what was
\* open at one time can cost, and the token's besides by the refunds to come
\* (preConsumeQuota, PreConsumeTokenQuota).
THEOREM DirectOverdraftStaysBounded ==
  ASSUME Direct, Editors = {}
  PROVE  BillingSpec => []DirectOverdraftBounded
<1>. DEFINE I == mode \in {"direct", "cached"} /\ (mode = "direct" => OverdraftInv)
<1>1. BillingInit => I
  BY OverdraftInit, ConstantsHold DEF BillingInit
<1>2. I /\ [BillingNext]_<<vars, mode>> => I'
  <2>1. SUFFICES ASSUME I, [BillingNext]_<<vars, mode>> PROVE I'
    OBVIOUS
  <2>2. mode' = mode
    BY <2>1 DEF BillingNext
  <2>3. CASE mode = "direct"
    <3>1. [Next]_vars
      BY <2>1, <2>3 DEF BillingNext
    <3>2. OverdraftInv'
      BY <2>1, <2>3, <3>1, OverdraftNext, ConstantsHold
    <3>. QED BY <2>2, <2>3, <3>2
  <2>4. CASE mode = "cached"
    BY <2>2, <2>4
  <2>. QED BY <2>1, <2>3, <2>4
<1>3. I => DirectOverdraftBounded
  BY OverdraftFollows, ConstantsHold DEF DirectOverdraftBounded
<1>. HIDE DEF I
<1>. QED BY <1>1, <1>2, <1>3, PTL DEF BillingSpec
=============================================================================
