---------------------------- MODULE DeploymentStore ----------------------------
(***************************************************************************)
(* The persistent state of one deployment: its daily rows in               *)
(* deployment_states and its row in deployment_cooldown_states              *)
(* (fallback/state.go), with the requests and the administrators that       *)
(* change them.                                                            *)
(*                                                                         *)
(* One action is one statement on the database.  Counters are moved by      *)
(* UPDATE ... SET col = col + ?; everything else reads a row, changes a     *)
(* field of the copy and saves all its columns.  Every function asks for    *)
(* today's date anew.  A request costs one token; last_error and updated_at *)
(* are left out, and so is the legacy cooldown column of the daily row,     *)
(* which no code sets any more.                                            *)
(***************************************************************************)
EXTENDS Integers, FiniteSets

CONSTANTS
  Workers,        \* requests and administrators' calls at the same time
  Jobs,           \* administrators' jobs an instance explores
  DayLength,      \* hours of a day
  RefreshHour,    \* quotaRefreshHour
  Limit,          \* tokens at which the deployment is over its daily limit; 0: none
  CooldownLength, \* length of a cooldown
  MaxRequests,    \* bound: requests that arrive
  Horizon,        \* bound: the clock stops here
  NoRow           \* a row that does not exist

Row == [tokens : Nat, requests : Nat, successes : Nat, errors : Nat,
        exhausted : Nat]

NewRow == [tokens |-> 0, requests |-> 0, successes |-> 0, errors |-> 0,
           exhausted |-> 0]

AllJobs == {"clearExhausted", "clearCooldown", "reset"}

ASSUME StoreAssumption ==
  /\ IsFiniteSet(Workers)
  /\ Jobs \subseteq AllJobs
  /\ DayLength \in Nat \ {0} /\ RefreshHour \in 0..DayLength - 1
  /\ Limit \in Nat /\ CooldownLength \in Nat /\ MaxRequests \in Nat
  /\ Horizon \in Nat
  /\ NoRow \notin Row

----------------------------------------------------------------------------
(* Quota periods. *)

\* quotaPeriodDate: before the refresh hour the period is still yesterday's.
MutantDate(t) == t \div DayLength
Date(t) == (t \div DayLength) - IF t % DayLength < RefreshHour THEN 1 ELSE 0

\* nextQuotaRefreshTime.
NextRefresh(t) ==
  (t \div DayLength) * DayLength + RefreshHour
    + IF t % DayLength < RefreshHour THEN 0 ELSE DayLength

Dates == {Date(t) : t \in 0..Horizon}

VARIABLES
  now,       \* the clock
  arrived,   \* requests so far
  row,       \* the daily rows: date -> Row, or NoRow
  cooldown,  \* cooldown_until of the cooldown row; 0 is nil
  pc,        \* what each worker does next
  job,       \* what it does it for
  date,      \* the date of the row it works on
  copy,      \* the row it has read
  until,     \* EndOfToday() as evaluated for MarkDeploymentExhausted
  resets     \* the dates of which a save took tokens back (history)

locals == <<pc, job, date, copy, until>>
vars == <<now, resets, arrived, row, cooldown, locals>>

Stored(d) == row[d] # NoRow

\* Type invariant.
TypeOK ==
  /\ now \in Nat /\ arrived \in 0..MaxRequests
  /\ row \in [Dates -> Row \cup {NoRow}]
  /\ cooldown \in Nat
  /\ pc \in [Workers -> {"idle", "create", "ensured", "upstream", "usage",
                         "success", "error", "verdict", "today", "save",
                         "saveCooldown", "clearCooldownRow"}]
  /\ job \in [Workers -> {"none", "check", "success", "error", "exhaust"}
                            \cup AllJobs]
  /\ date \in [Workers -> Dates]
  /\ copy \in [Workers -> Row]
  /\ until \in [Workers -> Nat]
  /\ resets \subseteq Dates

Init ==
  /\ now = 0 /\ arrived = 0
  /\ row = [d \in Dates |-> NoRow]
  /\ cooldown = 0
  /\ pc = [w \in Workers |-> "idle"]
  /\ job = [w \in Workers |-> "none"]
  /\ date = [w \in Workers |-> Date(0)]
  /\ copy = [w \in Workers |-> NewRow]
  /\ until = [w \in Workers |-> 0]
  /\ resets = {}

Tick == now < Horizon /\ now' = now + 1 /\ UNCHANGED <<resets, arrived, row, cooldown, locals>>

Goto(w, l) == pc' = [pc EXCEPT ![w] = l]

\* The worker is done; what it remembers no longer matters.
Finish(w) ==
  /\ Goto(w, "idle")
  /\ job' = [job EXCEPT ![w] = "none"]
  /\ date' = [date EXCEPT ![w] = Date(0)]
  /\ copy' = [copy EXCEPT ![w] = NewRow]
  /\ until' = [until EXCEPT ![w] = 0]

----------------------------------------------------------------------------
(* EnsureDeploymentState(id, todayString()): SELECT, and when there is no row *)
(* INSERT ... ON CONFLICT DO NOTHING and SELECT again.                     *)

Ensure(w, j) ==
  LET d == Date(now)
  IN /\ job' = [job EXCEPT ![w] = j]
     /\ date' = [date EXCEPT ![w] = d]
     /\ \/ /\ Stored(d)
           /\ copy' = [copy EXCEPT ![w] = row[d]]
           /\ Goto(w, "ensured")
        \/ /\ ~Stored(d)
           /\ Goto(w, "create")
           /\ UNCHANGED copy
     /\ UNCHANGED <<now, resets, row, cooldown, until>>

MutantInserted(d) == NewRow
Inserted(d) == IF Stored(d) THEN row[d] ELSE NewRow

Create(w) ==
  /\ pc[w] = "create"
  /\ row' = [row EXCEPT ![date[w]] = Inserted(date[w])]
  /\ copy' = [copy EXCEPT ![w] = Inserted(date[w])]
  /\ Goto(w, "ensured")
  /\ UNCHANGED <<now, resets, arrived, cooldown, job, date, until>>

----------------------------------------------------------------------------
(* Requests. *)

\* IsDeploymentAvailable reads the daily row ...
BeginRequest(w) ==
  /\ pc[w] = "idle" /\ arrived < MaxRequests
  /\ arrived' = arrived + 1
  /\ Ensure(w, "check")

\* ... and then the cooldown row; it judges the copy it has.
MutantWithinLimit(r) == Limit > 0 => r.tokens <= Limit
WithinLimit(r) == Limit > 0 => r.tokens < Limit

Available(r) == cooldown <= now /\ r.exhausted <= now /\ WithinLimit(r)

Check(w) ==
  /\ pc[w] = "ensured" /\ job[w] = "check"
  /\ \/ Available(copy[w]) /\ Goto(w, "upstream") /\ UNCHANGED <<job, date, copy, until>>
     \/ ~Available(copy[w]) /\ Finish(w)
  /\ UNCHANGED <<now, resets, arrived, row, cooldown>>

\* The upstream answers, and RecordDeploymentSuccess or RecordDeploymentError
\* makes sure of the row of the day.
Answer(w) ==
  /\ pc[w] = "upstream"
  /\ \E j \in {"success", "error"} : Ensure(w, j)
  /\ UNCHANGED arrived

\* The counters are those of the day of each statement, and nothing happens when
\* that day has no row yet.
Add(d, r) == row' = IF Stored(d) THEN [row EXCEPT ![d] = r] ELSE row

Usage(w) ==
  /\ pc[w] = "ensured" /\ job[w] = "success"
  /\ LET d == Date(now)
     IN Add(d, [row[d] EXCEPT !.tokens = @ + 1, !.requests = @ + 1])
  /\ Goto(w, "success")
  /\ UNCHANGED <<now, resets, arrived, cooldown, job, date, copy, until>>

Success(w) ==
  /\ pc[w] = "success"
  /\ LET d == Date(now) IN Add(d, [row[d] EXCEPT !.successes = @ + 1])
  /\ Finish(w)
  /\ UNCHANGED <<now, resets, arrived, cooldown>>

Error(w) ==
  /\ pc[w] = "ensured" /\ job[w] = "error"
  /\ LET d == Date(now)
     IN Add(d, [row[d] EXCEPT !.requests = @ + 1, !.errors = @ + 1])
  /\ Goto(w, "verdict")
  /\ UNCHANGED <<now, resets, arrived, cooldown, job, date, copy, until>>

\* ApplyRelayCooldown: nothing, a cooldown, or, for a quota error, exhaustion
\* until EndOfToday().
Verdict(w) ==
  /\ pc[w] = "verdict"
  /\ \/ Finish(w)
     \/ Goto(w, "saveCooldown") /\ UNCHANGED <<job, date, copy, until>>
     \/ /\ until' = [until EXCEPT ![w] = NextRefresh(now)]
        /\ Goto(w, "today")
        /\ UNCHANGED <<job, date, copy>>
  /\ UNCHANGED <<now, resets, arrived, row, cooldown>>

\* MarkDeploymentExhausted asks for the date after its argument was evaluated.
MarkExhausted(w) ==
  pc[w] = "today" /\ Ensure(w, "exhaust") /\ UNCHANGED arrived

\* saveDeploymentCooldown.
SaveCooldown(w) ==
  /\ pc[w] = "saveCooldown"
  /\ cooldown' = now + CooldownLength
  /\ Finish(w)
  /\ UNCHANGED <<now, resets, arrived, row>>

----------------------------------------------------------------------------
(* Administrators: ClearDeploymentExhausted, ClearDeploymentCooldown and     *)
(* ResetDeploymentState.                                                   *)

BeginJob(w) ==
  pc[w] = "idle" /\ (\E j \in Jobs : Ensure(w, j)) /\ UNCHANGED arrived

\* The row DB.Save writes: the whole copy, with the job's fields changed.
Changed(w) ==
  CASE job[w] = "exhaust"        -> [copy[w] EXCEPT !.exhausted = until[w]]
    [] job[w] = "clearExhausted" -> [copy[w] EXCEPT !.exhausted = 0]
    [] job[w] = "reset"          -> NewRow
    [] OTHER                     -> copy[w]

Save(w) ==
  /\ pc[w] = "ensured"
  /\ job[w] \in Jobs \cup {"exhaust"}
  /\ resets' = IF Changed(w).tokens < row[date[w]].tokens
               THEN resets \cup {date[w]} ELSE resets
  /\ row' = [row EXCEPT ![date[w]] = Changed(w)]
  /\ \/ /\ job[w] \in {"clearCooldown", "reset"}
        /\ Goto(w, "clearCooldownRow")
        /\ UNCHANGED <<job, date, copy, until>>
     \/ job[w] \notin {"clearCooldown", "reset"} /\ Finish(w)
  /\ UNCHANGED <<now, arrived, cooldown>>

\* clearDeploymentCooldownState.
ClearCooldownRow(w) ==
  /\ pc[w] = "clearCooldownRow"
  /\ cooldown' = 0
  /\ Finish(w)
  /\ UNCHANGED <<now, resets, arrived, row>>

Next ==
  \/ Tick
  \/ \E w \in Workers :
       \/ BeginRequest(w) \/ Create(w) \/ Check(w) \/ Answer(w) \/ Usage(w)
       \/ Success(w) \/ Error(w) \/ Verdict(w) \/ MarkExhausted(w)
       \/ SaveCooldown(w) \/ BeginJob(w) \/ Save(w) \/ ClearCooldownRow(w)

Spec == Init /\ [][Next]_vars

----------------------------------------------------------------------------
(* Properties. *)

\* An exhaustion in force ends exactly when the quota period of its row does, so
\* that the two clocks of the code agree and no exhaustion is carried into the
\* next period, wherever the period turns between the evaluation of
\* EndOfToday(), the reading of the row and its saving.
ExhaustionEndsWithPeriod ==
  \A d \in Dates : Stored(d) /\ row[d].exhausted > now =>
    Date(row[d].exhausted - 1) = d /\ Date(row[d].exhausted) = d + 1

\* The daily limit is checked before a request and counted after it: a day's
\* tokens exceed the limit by less than the number of requests at a time, whatever
\* rows are saved over them, unless a save of an older copy, or a reset, took tokens
\* back: each such save lets as many requests in once more.
LimitOvershoot ==
  Limit > 0 =>
    \A d \in Dates \ resets : Stored(d) => row[d].tokens < Limit + Cardinality(Workers)

\* Rows stay and counters only grow, however many workers find the day's row
\* missing and insert it: no statement but a save of the row takes anything back
\* (the ON CONFLICT clause of EnsureDeploymentState).
CountersGrow ==
  [][(\A w \in Workers : ~Save(w)) =>
       \A d \in Dates : Stored(d) =>
         /\ row'[d] # NoRow
         /\ row'[d].tokens >= row[d].tokens
         /\ row'[d].requests >= row[d].requests
         /\ row'[d].successes >= row[d].successes
         /\ row'[d].errors >= row[d].errors]_vars
=============================================================================
