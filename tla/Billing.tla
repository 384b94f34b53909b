-------------------------------- MODULE Billing --------------------------------
(***************************************************************************)
(* What the text requests of one user, made with one of the user's tokens,  *)
(* do to the two balances: the token is validated (model/token.go), quota   *)
(* is pre-consumed (relay/controller/helper.go, model/cache.go), the        *)
(* request is sent (relay/controller/text.go) and a goroutine settles or    *)
(* refunds it later (relay/billing, postConsumeQuota).  Balances live in    *)
(* the database, directly or behind the batch updater (model/utils.go), and *)
(* the user's also in Redis.                                                *)
(*                                                                         *)
(* A request makes one attempt after the other, as the relay loops do; each *)
(* of its database and Redis accesses is a step.                            *)
(***************************************************************************)
EXTENDS Integers, FiniteSets, FiniteSetsExt

CONSTANTS
  Requests,      \* the requests; each is made once, at any time
  Deferring,     \* those whose settlement waits for the check of the response
  MaxAttempts,   \* bound: attempts of one request
  Limited,       \* the token has a limit (not UnlimitedQuota)
  InitialUser,   \* the user's quota at the start
  InitialToken,  \* the token's remaining quota at the start
  Estimates,     \* what getPreConsumedQuota can return
  Charges,       \* what an answered attempt can cost
  Trust,         \* 100 in the code: so many estimates are a trusted balance
  Reserve,       \* config.PreConsumedQuota
  Outcomes,      \* what can become of an attempt that is sent
  Faults,        \* statements of the pre-consumption that can fail
  TopUps,        \* amounts AdminTopUp can add, once in a behaviour
  Editors,       \* concurrent UpdateToken calls with status_only
  Redis,         \* common.RedisEnabled
  Batch,         \* config.BatchUpdateEnabled
  Missing        \* a key that is not in Redis; nothing to write for the updater

\* What the configuration and the database make of the constants.
ConstantsOK ==
  /\ IsFiniteSet(Requests) /\ Deferring \subseteq Requests
  /\ MaxAttempts \in Nat \ {0}
  /\ Limited \in BOOLEAN /\ Redis \in BOOLEAN /\ Batch \in BOOLEAN
  /\ InitialUser \in Nat /\ InitialToken \in Nat
  /\ Estimates \subseteq Nat /\ Charges \subseteq Nat /\ TopUps \subseteq Nat
  /\ Trust \in Nat \ {0} /\ Reserve \in Nat
  /\ Outcomes \subseteq {"ok", "failed", "unsent", "noUsage"}
  /\ Faults \subseteq {"token", "user"}
  /\ Batch => Faults = {}   \* the updater's store takes every entry
  /\ Missing \notin Int

ASSUME BillingAssumption == ConstantsOK

VARIABLES
  balance,     \* the database: users.quota, tokens.remain_quota, users.used_quota
  status,      \* the token's status
  buffer,      \* batchUpdateStores of the three balances
  due,         \* the store batchUpdate comes to next
  taken,       \* what it has swapped out of that store and not yet written
  cachedQuota, \* user_quota in Redis
  cachedToken, \* the remaining quota in the token cached in Redis
  pc,          \* where each request is
  attempt,     \* its attempts so far
  pre,         \* what its attempt wants to pre-consume
  held,        \* preConsumedQuota: what its attempt has really pre-consumed
  seen,        \* the value it read last
  tasks,       \* the settling goroutines, by the attempt that started them
  edits,       \* what each editor has read and will write; Missing before it
  granted,     \* topped up so far (history)
  peak,        \* most requests and settlements open when an attempt began (history)
  kept         \* taken by attempts that nothing settles or refunds (history)

books == <<balance, status, buffer, due, taken>>
redis == <<cachedQuota, cachedToken>>
worker == <<pc, attempt, pre, held, seen>>
vars == <<books, redis, worker, tasks, edits, granted, peak, kept>>

Accounts == {"user", "token", "used"}
Ended == {"refused", "served", "gaveUp"}
Enabled == "enabled"
Exhausted == "exhausted"
Idle == [at |-> "idle", delta |-> 0, charge |-> Missing, seen |-> 0]

Init ==
  /\ balance = [user |-> InitialUser, token |-> InitialToken, used |-> 0]
  /\ status = Enabled
  /\ buffer = [k \in Accounts |-> 0] /\ due = "user" /\ taken = Missing
  /\ cachedQuota \in {Missing} \union (IF Redis THEN {InitialUser} ELSE {})
  /\ cachedToken \in {Missing} \union (IF Redis THEN {InitialToken} ELSE {})
  /\ pc = [r \in Requests |-> "new"]
  /\ attempt = [r \in Requests |-> 1]
  /\ pre = [r \in Requests |-> 0] /\ held = [r \in Requests |-> 0]
  /\ seen = [r \in Requests |-> 0]
  /\ tasks = [t \in Requests \X (1 .. MaxAttempts) |-> Idle]
  /\ edits = [e \in Editors |-> Missing]
  /\ granted = 0 /\ peak = 0
  /\ kept = [user |-> 0, token |-> 0]

\* Increase/DecreaseUserQuota, ...TokenQuota and UpdateUserUsedQuota...: an
\* atomic UPDATE, or an entry of the batch updater's store.
Add(account, value) ==
  IF Batch THEN /\ buffer' = [buffer EXCEPT ![account] = @ + value]
                /\ UNCHANGED <<balance, status, due, taken>>
  ELSE /\ balance' = [balance EXCEPT ![account] = @ + value]
       /\ UNCHANGED <<status, buffer, due, taken>>

Goto(r, from, to) == pc[r] = from /\ pc' = [pc EXCEPT ![r] = to]

-----------------------------------------------------------------------------
(* ValidateUserToken *)

Open == {r \in Requests : pc[r] \notin Ended \union {"new"}}
Unsettled == {t \in DOMAIN tasks : tasks[t].at # "idle"}

Spent(remain) == Limited /\ remain <= 0

\* An attempt begins.
Attempt(r) == peak' = Max({peak, Cardinality(Open \union {r}) + Cardinality(Unsettled)})

Enter(r) == Goto(r, pc[r], "ask") /\ Attempt(r)

\* Mutant: a token without remaining quota is let in.
MutantAuthFromRow(r) ==
  /\ ~Redis /\ pc[r] = "new"
  /\ \/ /\ status # Enabled
        /\ Goto(r, "new", "refused") /\ UNCHANGED peak
     \/ status = Enabled /\ Enter(r)
  /\ UNCHANGED <<books, redis, attempt, pre, held, seen, tasks, edits, granted, kept>>

\* Without Redis the row is read; a spent token is going to be marked.
AuthFromRow(r) ==
  /\ ~Redis /\ pc[r] = "new"
  /\ \/ /\ status # Enabled
        /\ Goto(r, "new", "refused") /\ UNCHANGED peak
     \/ /\ status = Enabled /\ Spent(balance["token"])
        /\ Goto(r, "new", "exhaust") /\ UNCHANGED peak
     \/ /\ status = Enabled /\ ~Spent(balance["token"])
        /\ Enter(r)
  /\ UNCHANGED <<books, redis, attempt, pre, held, seen, tasks, edits, granted, kept>>

MarkExhausted(r) ==
  /\ Goto(r, "exhaust", "refused")
  /\ status' = Exhausted
  /\ UNCHANGED <<balance, buffer, due, taken, redis, attempt, pre, held, seen,
                 tasks, edits, granted, peak, kept>>

\* With Redis the cached token decides, and is never marked.
Judge(r, remain) ==
  IF Spent(remain) THEN Goto(r, pc[r], "refused") /\ UNCHANGED peak ELSE Enter(r)

AuthFromCache(r) ==
  /\ Redis /\ pc[r] = "new" /\ cachedToken # Missing
  /\ Judge(r, cachedToken)
  /\ UNCHANGED <<books, redis, attempt, pre, held, seen, tasks, edits, granted, kept>>

AuthReload(r) ==
  /\ Redis /\ cachedToken = Missing
  /\ Goto(r, "new", "keepToken")
  /\ seen' = [seen EXCEPT ![r] = balance["token"]]
  /\ UNCHANGED <<books, redis, attempt, pre, held, tasks, edits, granted, peak, kept>>

KeepToken(r) ==
  /\ pc[r] = "keepToken"
  /\ cachedToken' = seen[r]
  /\ Judge(r, seen[r])
  /\ UNCHANGED <<books, cachedQuota, attempt, pre, held, seen, tasks, edits, granted, kept>>

-----------------------------------------------------------------------------
(* preConsumeQuota and PreConsumeTokenQuota *)

Current(quota) == quota # Missing /\ quota > Reserve

\* CacheGetUserQuota, in the cache, or from the database and then kept.
Ask(r) ==
  \E p \in Estimates :
    /\ pre' = [pre EXCEPT ![r] = p]
    /\ held' = [held EXCEPT ![r] = 0]
    /\ IF Redis /\ Current(cachedQuota)
       THEN Goto(r, "ask", "decide") /\ seen' = [seen EXCEPT ![r] = cachedQuota]
       ELSE /\ Goto(r, "ask", IF Redis THEN "keepQuota" ELSE "decide")
            /\ seen' = [seen EXCEPT ![r] = balance["user"]]
    /\ UNCHANGED <<books, redis, attempt, tasks, edits, granted, peak, kept>>

KeepQuota(r) ==
  /\ Goto(r, "keepQuota", "decide")
  /\ cachedQuota' = seen[r]
  /\ UNCHANGED <<books, cachedToken, attempt, pre, held, seen, tasks, edits, granted, peak, kept>>

\* DECRBY makes a missing key one of 0 first.
CacheDecrease(value) ==
  cachedQuota' = IF ~Redis THEN cachedQuota
                 ELSE (IF cachedQuota = Missing THEN 0 ELSE cachedQuota) - value

Decide(r) ==
  /\ \/ /\ seen[r] < pre[r]
        /\ Goto(r, "decide", "failed") /\ UNCHANGED cachedQuota
     \/ /\ seen[r] >= pre[r]
        /\ Goto(r, "decide", IF pre[r] = 0 \/ seen[r] > Trust * pre[r]
                             THEN "upstream" ELSE "checkToken")
        /\ CacheDecrease(pre[r])
  /\ UNCHANGED <<books, cachedToken, attempt, pre, held, seen, tasks, edits, granted, peak, kept>>

CheckToken(r) ==
  /\ Goto(r, "checkToken", IF Limited /\ balance["token"] < pre[r]
                           THEN "failed" ELSE "checkUser")
  /\ UNCHANGED <<books, redis, attempt, pre, held, seen, tasks, edits, granted, peak, kept>>

CheckUser(r) ==
  /\ Goto(r, "checkUser", IF balance["user"] < pre[r] THEN "failed"
                          ELSE IF Limited THEN "takeToken" ELSE "takeUser")
  /\ UNCHANGED <<books, redis, attempt, pre, held, seen, tasks, edits, granted, peak, kept>>

TakeToken(r) ==
  /\ \/ Goto(r, "takeToken", "takeUser") /\ Add("token", -pre[r])
     \/ "token" \in Faults /\ Goto(r, "takeToken", "failed") /\ UNCHANGED books
  /\ UNCHANGED <<redis, attempt, pre, held, seen, tasks, edits, granted, peak, kept>>

TakeUser(r) ==
  /\ \/ /\ Goto(r, "takeUser", "upstream") /\ Add("user", -pre[r])
        /\ held' = [held EXCEPT ![r] = pre[r]]
        /\ UNCHANGED kept
     \/ /\ "user" \in Faults /\ Goto(r, "takeUser", "failed")
        /\ kept' = [kept EXCEPT !.token = @ + pre[r]]
        /\ UNCHANGED <<books, held>>
  /\ UNCHANGED <<redis, attempt, pre, seen, tasks, edits, granted, peak>>

-----------------------------------------------------------------------------
(* RelayTextHelper after the pre-consumption *)

Spawn(r, delta, charge) ==
  tasks' = [tasks EXCEPT ![<<r, attempt[r]>>] =
              [at |-> "user", delta |-> delta, charge |-> charge, seen |-> 0]]

\* ReturnPreConsumedQuota starts nothing when nothing was pre-consumed.
Refund(r) == IF held[r] = 0 THEN UNCHANGED tasks ELSE Spawn(r, -held[r], Missing)

\* Mutant: the settlement takes the whole charge on top of what is held.
MutantCommit(r, charge) == Spawn(r, charge, charge)

Commit(r, charge) == Spawn(r, charge - held[r], charge)

\* What the attempt holds stays taken.
Keep(r) ==
  /\ kept' = [user |-> kept.user + held[r], token |-> kept.token + held[r]]
  /\ UNCHANGED tasks

\* The early returns before the upstream has answered.
Unsent(r) == "unsent" \in Outcomes /\ Goto(r, "upstream", "failed") /\ Keep(r)

Failed(r) == "failed" \in Outcomes /\ Goto(r, "upstream", "failed") /\ Refund(r)

\* postConsumeQuota returns at once when the adaptor reports no usage.
NoUsage(r) == "noUsage" \in Outcomes /\ Goto(r, "upstream", "served") /\ Keep(r)

Answered(r) ==
  /\ "ok" \in Outcomes /\ r \notin Deferring
  /\ Goto(r, "upstream", "served")
  /\ \E c \in Charges : Commit(r, c)

Defer(r) ==
  /\ "ok" \in Outcomes /\ r \in Deferring
  /\ Goto(r, "upstream", "deferred") /\ UNCHANGED tasks

\* settleDeferredPostConsume, with what the check of the tool calls says.
Accept(r) == Goto(r, "deferred", "served") /\ \E c \in Charges : Commit(r, c)
Reject(r) == Goto(r, "deferred", "failed") /\ Refund(r)

Upstream(r) ==
  /\ \/ Unsent(r) \/ NoUsage(r)
     \/ /\ Failed(r) \/ Answered(r) \/ Defer(r) \/ Accept(r) \/ Reject(r)
        /\ UNCHANGED kept
  /\ UNCHANGED <<books, redis, attempt, pre, held, seen, edits, granted, peak>>

\* The relay loop goes on to the next deployment, or gives up.
Again(r) ==
  /\ attempt[r] < MaxAttempts
  /\ Goto(r, "failed", "ask")
  /\ attempt' = [attempt EXCEPT ![r] = @ + 1]
  /\ Attempt(r)
  /\ UNCHANGED <<books, redis, pre, held, seen, tasks, edits, granted, kept>>

GiveUp(r) ==
  /\ Goto(r, "failed", "gaveUp")
  /\ UNCHANGED <<books, redis, attempt, pre, held, seen, tasks, edits, granted, peak, kept>>

-----------------------------------------------------------------------------
(* PostConsumeTokenQuota and the rest of postConsumeQuota, in a goroutine *)

Proceed(t, from, to) ==
  tasks[t].at = from /\ tasks' = [tasks EXCEPT ![t].at = to]

BookUser(t) ==
  /\ Proceed(t, "user", IF Limited THEN "token"
                        ELSE IF Redis THEN "refresh" ELSE "used")
  /\ Add("user", -tasks[t].delta)
  /\ UNCHANGED <<redis, worker, edits, granted, peak, kept>>

BookToken(t) ==
  /\ Proceed(t, "token", IF Redis THEN "refresh" ELSE "used")
  /\ Add("token", -tasks[t].delta)
  /\ UNCHANGED <<redis, worker, edits, granted, peak, kept>>

\* A refund ends after the two bookings.
EndRefund(t) ==
  /\ tasks[t].at \in {"refresh", "used"} /\ tasks[t].charge = Missing
  /\ tasks' = [tasks EXCEPT ![t] = Idle]
  /\ UNCHANGED <<books, redis, worker, edits, granted, peak, kept>>

\* CacheUpdateUserQuota reads as CacheGetUserQuota does and sets what it read.
\* The SETs of a reload are one here, the last.
RefreshRead(t) ==
  /\ tasks[t].at = "refresh" /\ tasks[t].charge # Missing
  /\ tasks' = [tasks EXCEPT ![t].at = "keep",
                 ![t].seen = IF Current(cachedQuota) THEN cachedQuota ELSE balance["user"]]
  /\ UNCHANGED <<books, redis, worker, edits, granted, peak, kept>>

RefreshKeep(t) ==
  /\ Proceed(t, "keep", "used")
  /\ cachedQuota' = tasks[t].seen
  /\ UNCHANGED <<books, cachedToken, worker, edits, granted, peak, kept>>

BookUsed(t) ==
  /\ tasks[t].at = "used" /\ tasks[t].charge # Missing
  /\ tasks' = [tasks EXCEPT ![t] = Idle]
  /\ Add("used", tasks[t].charge)
  /\ UNCHANGED <<redis, worker, edits, granted, peak, kept>>

-----------------------------------------------------------------------------
(* batchUpdate: one store after the other, swapped out and then written *)

After(account) ==
  CASE account = "user" -> "token" [] account = "token" -> "used" [] OTHER -> "user"

Swap ==
  /\ Batch /\ taken = Missing
  /\ taken' = buffer[due]
  /\ buffer' = [buffer EXCEPT ![due] = 0]
  /\ UNCHANGED <<balance, status, due, redis, worker, tasks, edits, granted, peak, kept>>

Write ==
  /\ taken # Missing
  /\ balance' = [balance EXCEPT ![due] = @ + taken]
  /\ taken' = Missing
  /\ due' = After(due)
  /\ UNCHANGED <<status, buffer, redis, worker, tasks, edits, granted, peak, kept>>

-----------------------------------------------------------------------------
(* AdminTopUp, UpdateToken and Redis *)

TopUp(amount) ==
  /\ granted = 0
  /\ granted' = amount
  /\ Add("user", amount)
  /\ UNCHANGED <<redis, worker, tasks, edits, peak, kept>>

\* With status_only the row is read, its status changed, and written back with
\* the remaining quota that was read.
EditRead(e) ==
  /\ edits[e] = Missing
  /\ ~(status = Exhausted /\ Spent(balance["token"]))
  /\ edits' = [edits EXCEPT ![e] = balance["token"]]
  /\ UNCHANGED <<books, redis, worker, tasks, granted, peak, kept>>

EditWrite(e) ==
  /\ edits[e] # Missing
  /\ status' = Enabled
  /\ balance' = [balance EXCEPT !["token"] = edits[e]]
  /\ edits' = [edits EXCEPT ![e] = Missing]
  /\ UNCHANGED <<buffer, due, taken, redis, worker, tasks, granted, peak, kept>>

ExpireQuota ==
  /\ cachedQuota # Missing /\ cachedQuota' = Missing
  /\ UNCHANGED <<books, cachedToken, worker, tasks, edits, granted, peak, kept>>

ExpireToken ==
  /\ cachedToken # Missing /\ cachedToken' = Missing
  /\ UNCHANGED <<books, cachedQuota, worker, tasks, edits, granted, peak, kept>>

-----------------------------------------------------------------------------
RequestStep(r) ==
  \/ AuthFromRow(r) \/ MarkExhausted(r) \/ AuthFromCache(r) \/ AuthReload(r)
  \/ KeepToken(r) \/ Ask(r) \/ KeepQuota(r) \/ Decide(r) \/ CheckToken(r)
  \/ CheckUser(r) \/ TakeToken(r) \/ TakeUser(r) \/ Upstream(r) \/ Again(r) \/ GiveUp(r)

TaskStep(t) ==
  \/ BookUser(t) \/ BookToken(t) \/ EndRefund(t) \/ RefreshRead(t) \/ RefreshKeep(t)
  \/ BookUsed(t)

Next ==
  \/ \E r \in Requests : RequestStep(r)
  \/ \E t \in DOMAIN tasks : TaskStep(t)
  \/ \E a \in TopUps : TopUp(a)
  \/ \E e \in Editors : EditRead(e) \/ EditWrite(e)
  \/ Swap \/ Write \/ ExpireQuota \/ ExpireToken

Spec == Init /\ [][Next]_vars

-----------------------------------------------------------------------------
(* Properties *)

Quota == Int \union {Missing}

\* Every variable keeps its type; what is held is an estimate or nothing.
TypeOK ==
  /\ balance \in [Accounts -> Int] /\ buffer \in [Accounts -> Int]
  /\ status \in {Enabled, Exhausted}
  /\ due \in Accounts /\ taken \in Quota
  /\ cachedQuota \in Quota /\ cachedToken \in Quota
  /\ pc \in [Requests -> Ended \union {"new", "exhaust", "keepToken", "ask", "keepQuota",
               "decide", "checkToken", "checkUser", "takeToken", "takeUser", "upstream",
               "deferred", "failed"}]
  /\ attempt \in [Requests -> 1 .. MaxAttempts]
  /\ pre \in [Requests -> Estimates \union {0}]
  /\ held \in [Requests -> Estimates \union {0}]
  /\ seen \in [Requests -> Int]
  /\ tasks \in [Requests \X (1 .. MaxAttempts) ->
                  [at : {"idle", "user", "token", "refresh", "keep", "used"},
                   delta : Int, charge : Charges \union {Missing}, seen : Int]]
  /\ edits \in [Editors -> Quota]
  /\ granted \in Nat /\ peak \in Nat
  /\ kept \in [{"user", "token"} -> Nat]

\* Nothing is on its way: every request has ended, every settlement is written.
Quiet ==
  /\ \A r \in Requests : pc[r] \in Ended
  /\ Unsettled = {}
  /\ taken = Missing /\ \A k \in Accounts : buffer[k] = 0

UserMatchesUsage == balance["user"] = InitialUser + granted - balance["used"] - kept.user
TokenMatchesUsage == Limited => balance["token"] = InitialToken - balance["used"] - kept.token

\* When everything has been settled, the user has lost the quota recorded as used
\* and what attempts kept that ended before an answer or without a usage report,
\* no more: refusals, failures, rejected responses and the refunds that race the
\* next attempt have left nothing behind (text.go, billing.go).
UserBalanceMatchesUsage == Quiet => UserMatchesUsage

\* The same of the user and of the token, which in addition loses what it was
\* charged when the charge of the user failed (token.go).
BalanceMatchesUsage == Quiet => UserMatchesUsage /\ TokenMatchesUsage

\* What is less than was pre-consumed and has not been given back to the token yet.
Awaited == {t \in DOMAIN tasks : tasks[t].at \in {"user", "token"} /\ tasks[t].delta < 0}

\* The checks of preConsumeQuota and ValidateUserToken are not atomic with the
\* charge, and a retry does not validate the token again.  Still the user's balance
\* is overdrawn by no more than the requests and settlements that were open at one
\* time can cost together.  The token's is so by what was kept of it besides, and,
\* since a retry does not wait for the refund of the attempt before, by the refunds
\* that are still to come.
Dearest == Max(Charges \union Estimates)
OverdraftBounded ==
  /\ balance["user"] >= 0 - peak * Dearest
  /\ Limited => balance["token"] >= Min({InitialToken, 1}) - kept.token
                                      - (peak + Cardinality(Awaited)) * Dearest

\* A user none of whose requests was served has lost nothing: "we may have to
\* return the pre-consumed quota" (relay/controller/helper.go).
UnservedUserLosesNothing ==
  Quiet /\ (\A r \in Requests : pc[r] # "served") => balance["user"] = InitialUser + granted
=============================================================================
