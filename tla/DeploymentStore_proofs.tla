------------------------- MODULE DeploymentStore_proofs -------------------------
(***************************************************************************)
(* Theorems about the stored state of a deployment, for every set of        *)
(* workers, limit, length of a day and refresh hour.                       *)
(***************************************************************************)
EXTENDS DeploymentStore, FiniteSetTheorems, TLAPS

----------------------------------------------------------------------------
(* Quota periods: Date(t) is the number of the period that t lies in, and a  *)
(* period starts at RefreshHour.                                           *)

LEMMA DivisionBounds ==
  ASSUME NEW t \in Int, NEW n \in Nat \ {0}
  PROVE  /\ t \div n \in Int /\ t % n \in 0..n - 1
         /\ t - n * (t \div n) = t % n
OBVIOUS

LEMMA ProductSteps ==
  ASSUME NEW a \in Int, NEW n \in Nat
  PROVE  /\ a * n \in Int
         /\ (a - 1) * n = a * n - n
         /\ (a + 1) * n = a * n + n
BY SMT

LEMMA ProductGrows ==
  ASSUME NEW a \in Int, NEW b \in Int, NEW n \in Nat \ {0}, a < b
  PROVE  a * n + n <= b * n
BY SMTT(30)

LEMMA DateBounds ==
  ASSUME StoreAssumption, NEW t \in Int
  PROVE  /\ Date(t) \in Int
         /\ Date(t) * DayLength + RefreshHour <= t
         /\ t < Date(t) * DayLength + DayLength + RefreshHour
         /\ NextRefresh(t) = Date(t) * DayLength + DayLength + RefreshHour
         /\ NextRefresh(t) \in Int /\ t < NextRefresh(t)
<1>. DEFINE q == t \div DayLength
            m == t % DayLength
<1>1. /\ DayLength \in Nat \ {0} /\ RefreshHour \in 0..DayLength - 1
      /\ q \in Int /\ m \in 0..DayLength - 1 /\ t - DayLength * q = m
  BY DivisionBounds DEF StoreAssumption
<1>3. /\ Date(t) = q - (IF m < RefreshHour THEN 1 ELSE 0)
      /\ NextRefresh(t) = q * DayLength + RefreshHour
                            + (IF m < RefreshHour THEN 0 ELSE DayLength)
  BY DEF Date, NextRefresh
<1>. HIDE DEF q, m
<1>2. /\ q * DayLength \in Int /\ t = q * DayLength + m
      /\ (q - 1) * DayLength = q * DayLength - DayLength
  BY <1>1, ProductSteps
<1>4. CASE m < RefreshHour
  <2>1. Date(t) = q - 1 /\ NextRefresh(t) = q * DayLength + RefreshHour
    BY <1>1, <1>2, <1>3, <1>4
  <2>2. Date(t) * DayLength = q * DayLength - DayLength
    BY <2>1, <1>2
  <2>. QED BY <2>1, <2>2, <1>1, <1>2, <1>4
<1>5. CASE ~(m < RefreshHour)
  <2>1. Date(t) = q /\ NextRefresh(t) = q * DayLength + RefreshHour + DayLength
    BY <1>1, <1>2, <1>3, <1>5
  <2>2. Date(t) * DayLength = q * DayLength
    BY <2>1
  <2>. QED BY <2>1, <2>2, <1>1, <1>2, <1>5
<1>. QED BY <1>4, <1>5

LEMMA DateUnique ==
  ASSUME StoreAssumption, NEW t \in Int, NEW k \in Int,
         k * DayLength + RefreshHour <= t,
         t < k * DayLength + DayLength + RefreshHour
  PROVE  Date(t) = k
<1>1. DayLength \in Nat \ {0} /\ RefreshHour \in Nat
  BY DEF StoreAssumption
<1>2. /\ Date(t) \in Int
      /\ Date(t) * DayLength + RefreshHour <= t
      /\ t < Date(t) * DayLength + DayLength + RefreshHour
  BY DateBounds
<1>3. k * DayLength \in Int /\ Date(t) * DayLength \in Int
  BY <1>1, <1>2, ProductSteps
<1>4. ~(Date(t) < k)
  <2>1. SUFFICES ASSUME Date(t) < k PROVE FALSE
    OBVIOUS
  <2>2. Date(t) * DayLength + DayLength <= k * DayLength
    BY <1>1, <1>2, <2>1, ProductGrows
  <2>. QED BY <1>1, <1>2, <1>3, <2>2
<1>5. ~(k < Date(t))
  <2>1. SUFFICES ASSUME k < Date(t) PROVE FALSE
    OBVIOUS
  <2>2. k * DayLength + DayLength <= Date(t) * DayLength
    BY <1>1, <1>2, <2>1, ProductGrows
  <2>. QED BY <1>1, <1>2, <1>3, <2>2
<1>6. \A d \in Int : ~(d < k) /\ ~(k < d) => d = k
  OBVIOUS
<1>. QED BY <1>2, <1>4, <1>5, <1>6, Zenon

LEMMA DateGrows ==
  ASSUME StoreAssumption, NEW s \in Int, NEW t \in Int, s <= t
  PROVE  Date(s) <= Date(t)
<1>1. DayLength \in Nat \ {0} /\ RefreshHour \in Nat
  BY DEF StoreAssumption
<1>2. /\ Date(s) \in Int /\ Date(t) \in Int
      /\ Date(s) * DayLength + RefreshHour <= s
      /\ t < Date(t) * DayLength + DayLength + RefreshHour
  BY DateBounds
<1>3. Date(s) * DayLength \in Int /\ Date(t) * DayLength \in Int
  BY <1>1, <1>2, ProductSteps
<1>4. ~(Date(t) < Date(s))
  <2>1. SUFFICES ASSUME Date(t) < Date(s) PROVE FALSE
    OBVIOUS
  <2>2. Date(t) * DayLength + DayLength <= Date(s) * DayLength
    BY <1>1, <1>2, <2>1, ProductGrows
  <2>. QED BY <1>1, <1>2, <1>3, <2>2
<1>. QED BY <1>2, <1>4

\* EndOfToday() is the last instant of the period.
LEMMA RefreshEndsPeriod ==
  ASSUME StoreAssumption, NEW t \in Nat
  PROVE  /\ NextRefresh(t) \in Nat /\ t < NextRefresh(t)
         /\ Date(NextRefresh(t) - 1) = Date(t)
         /\ Date(NextRefresh(t)) = Date(t) + 1
<1>. DEFINE d == Date(t)
            n == NextRefresh(t)
<1>1. DayLength \in Nat \ {0} /\ RefreshHour \in Nat
  BY DEF StoreAssumption
<1>2. /\ d \in Int /\ n \in Int /\ t < n
      /\ n = d * DayLength + DayLength + RefreshHour
  BY DateBounds
<1>3. d * DayLength \in Int /\ (d + 1) * DayLength = d * DayLength + DayLength
  BY <1>1, <1>2, ProductSteps
<1>. HIDE DEF d, n
<1>4. Date(n - 1) = d
  <2>1. /\ n - 1 \in Int
        /\ d * DayLength + RefreshHour <= n - 1
        /\ n - 1 < d * DayLength + DayLength + RefreshHour
    BY <1>1, <1>2, <1>3
  <2>. QED BY <1>2, <2>1, DateUnique
<1>5. Date(n) = d + 1
  <2>1. /\ d + 1 \in Int
        /\ (d + 1) * DayLength + RefreshHour <= n
        /\ n < (d + 1) * DayLength + DayLength + RefreshHour
    BY <1>1, <1>2, <1>3
  <2>. QED BY <1>2, <2>1, DateUnique
<1>6. n \in Nat
  BY <1>2
<1>. QED BY <1>2, <1>4, <1>5, <1>6 DEF d, n

----------------------------------------------------------------------------
(* Types. *)

TypeInv == TypeOK /\ now <= Horizon

LocalTypes ==
  /\ pc \in [Workers -> {"idle", "create", "ensured", "upstream", "usage",
                         "success", "error", "verdict", "today", "save",
                         "saveCooldown", "clearCooldownRow"}]
  /\ job \in [Workers -> {"none", "check", "success", "error", "exhaust"}
                            \cup AllJobs]
  /\ date \in [Workers -> Dates]
  /\ copy \in [Workers -> Row]
  /\ until \in [Workers -> Nat]

LEMMA Today ==
  ASSUME StoreAssumption, NEW t \in 0..Horizon
  PROVE  Date(t) \in Dates /\ Date(0) \in Dates /\ Dates \subseteq Int
<1>1. 0 \in 0..Horizon
  BY DEF StoreAssumption
<1>2. \A s \in 0..Horizon : Date(s) \in Int
  BY DateBounds
<1>. QED BY <1>1, <1>2 DEF Dates

LEMMA RowTypes ==
  ASSUME NEW r \in Row
  PROVE  /\ NewRow \in Row
         /\ [r EXCEPT !.tokens = @ + 1, !.requests = @ + 1] \in Row
         /\ [r EXCEPT !.requests = @ + 1, !.errors = @ + 1] \in Row
         /\ [r EXCEPT !.successes = @ + 1] \in Row
         /\ \A n \in Nat : [r EXCEPT !.exhausted = n] \in Row
<1>1. r.tokens + 1 \in Nat /\ r.requests + 1 \in Nat /\ r.errors + 1 \in Nat
  BY DEF Row
<1>2. \A m, n \in Nat : /\ [r EXCEPT !.tokens = m, !.requests = n] \in Row
                         /\ [r EXCEPT !.requests = m, !.errors = n] \in Row
  BY DEF Row
<1>3. [r EXCEPT !.tokens = @ + 1, !.requests = @ + 1] \in Row
  BY <1>1, <1>2
<1>4. [r EXCEPT !.requests = @ + 1, !.errors = @ + 1] \in Row
  BY <1>1, <1>2
<1>5. [r EXCEPT !.successes = @ + 1] \in Row
  BY DEF Row
<1>6. NewRow \in Row /\ \A n \in Nat : [r EXCEPT !.exhausted = n] \in Row
  BY DEF Row, NewRow
<1>. QED BY <1>3, <1>4, <1>5, <1>6

LEMMA FinishTypes ==
  ASSUME StoreAssumption, TypeInv, NEW w \in Workers, Finish(w)
  PROVE  LocalTypes'
<1>1. Date(0) \in Dates /\ NewRow \in Row
  BY Today DEF StoreAssumption, Row, NewRow
<1>. QED BY <1>1 DEF Finish, Goto, TypeInv, TypeOK, LocalTypes

LEMMA EnsureTypes ==
  ASSUME StoreAssumption, TypeInv, NEW w \in Workers,
         NEW j \in {"none", "check", "success", "error", "exhaust"} \cup AllJobs,
         Ensure(w, j), arrived' \in 0..MaxRequests
  PROVE  TypeInv'
<1>1. Date(now) \in Dates
  BY Today DEF StoreAssumption, TypeInv, TypeOK
<1>2. Stored(Date(now)) => row[Date(now)] \in Row
  BY <1>1 DEF TypeInv, TypeOK, Stored
<1>3. pc' \in [Workers -> {"idle", "create", "ensured", "upstream", "usage",
                         "success", "error", "verdict", "today", "save",
                         "saveCooldown", "clearCooldownRow"}]
  BY DEF Ensure, Goto, TypeInv, TypeOK
<1>4. /\ job' \in [Workers -> {"none", "check", "success", "error", "exhaust"}
                            \cup AllJobs]
      /\ date' \in [Workers -> Dates]
  BY <1>1 DEF Ensure, TypeInv, TypeOK
<1>5. copy' \in [Workers -> Row]
  BY <1>2 DEF Ensure, TypeInv, TypeOK
<1>. QED BY <1>3, <1>4, <1>5 DEF Ensure, TypeInv, TypeOK

LEMMA AddTypes ==
  ASSUME StoreAssumption, TypeInv, NEW d \in Dates, NEW r,
         Stored(d) => r \in Row, Add(d, r)
  PROVE  row' \in [Dates -> Row \cup {NoRow}]
BY DEF TypeInv, TypeOK, Stored, Add

LEMMA ChangedTypes ==
  ASSUME StoreAssumption, TypeInv, NEW w \in Workers
  PROVE  Changed(w) \in Row
<1>1. copy[w] \in Row /\ until[w] \in Nat /\ 0 \in Nat
  BY DEF TypeInv, TypeOK
<1>2. CASE job[w] = "exhaust"
  BY <1>1, <1>2, RowTypes DEF Changed
<1>3. CASE job[w] = "clearExhausted"
  BY <1>1, <1>3, RowTypes DEF Changed
<1>4. CASE job[w] = "reset"
  BY <1>1, <1>4, RowTypes DEF Changed
<1>5. CASE job[w] \notin {"exhaust", "clearExhausted", "reset"}
  BY <1>1, <1>5 DEF Changed
<1>. QED BY <1>2, <1>3, <1>4, <1>5

LEMMA TypeInit ==
  ASSUME StoreAssumption, Init
  PROVE  TypeInv
<1>1. Date(0) \in Dates /\ NewRow \in Row
  BY Today DEF StoreAssumption, Row, NewRow
<1>. QED BY <1>1 DEF Init, TypeInv, TypeOK, StoreAssumption

LEMMA TypeStep ==
  ASSUME StoreAssumption, TypeInv, [Next]_vars
  PROVE  TypeInv'
<1>1. CASE UNCHANGED vars
  BY <1>1 DEF vars, locals, TypeInv, TypeOK
<1>2. CASE Tick
  BY <1>2 DEF Tick, locals, TypeInv, TypeOK, StoreAssumption
<1>3. ASSUME NEW w \in Workers, BeginRequest(w)
      PROVE  TypeInv'
  <2>1. arrived' \in 0..MaxRequests /\ Ensure(w, "check")
    BY <1>3 DEF BeginRequest, TypeInv, TypeOK, StoreAssumption
  <2>. QED BY <2>1, EnsureTypes
<1>4. ASSUME NEW w \in Workers, Create(w)
      PROVE  TypeInv'
  <2>1. date[w] \in Dates /\ Inserted(date[w]) \in Row
    BY RowTypes DEF TypeInv, TypeOK, Inserted, Stored, NewRow, Row
  <2>2. row' \in [Dates -> Row \cup {NoRow}] /\ copy' \in [Workers -> Row]
    BY <1>4, <2>1 DEF Create, TypeInv, TypeOK
  <2>. QED BY <1>4, <2>2 DEF Create, Goto, TypeInv, TypeOK
<1>5. ASSUME NEW w \in Workers, Check(w)
      PROVE  TypeInv'
  <2>1. LocalTypes'
    <3>1. CASE Goto(w, "upstream") /\ UNCHANGED <<job, date, copy, until>>
      BY <3>1 DEF Goto, TypeInv, TypeOK, LocalTypes
    <3>2. CASE Finish(w)
      BY <3>2, FinishTypes
    <3>. QED BY <1>5, <3>1, <3>2 DEF Check
  <2>. QED BY <1>5, <2>1 DEF Check, TypeInv, TypeOK, LocalTypes
<1>6. ASSUME NEW w \in Workers, Answer(w)
      PROVE  TypeInv'
  <2>1. PICK j \in {"success", "error"} : Ensure(w, j)
    BY <1>6 DEF Answer
  <2>2. arrived' \in 0..MaxRequests
    BY <1>6 DEF Answer, TypeInv, TypeOK
  <2>. QED BY <2>1, <2>2, EnsureTypes
<1>7. ASSUME NEW w \in Workers, Usage(w)
      PROVE  TypeInv'
  <2>1. Date(now) \in Dates
    BY Today DEF StoreAssumption, TypeInv, TypeOK
  <2>2. Stored(Date(now)) =>
          [row[Date(now)] EXCEPT !.tokens = @ + 1, !.requests = @ + 1] \in Row
    BY <2>1, RowTypes DEF TypeInv, TypeOK, Stored
  <2>3. row' \in [Dates -> Row \cup {NoRow}]
    BY <1>7, <2>1, <2>2, AddTypes DEF Usage
  <2>. QED BY <1>7, <2>3 DEF Usage, Goto, TypeInv, TypeOK
<1>8. ASSUME NEW w \in Workers, Success(w)
      PROVE  TypeInv'
  <2>1. Date(now) \in Dates
    BY Today DEF StoreAssumption, TypeInv, TypeOK
  <2>2. Stored(Date(now)) => [row[Date(now)] EXCEPT !.successes = @ + 1] \in Row
    BY <2>1, RowTypes DEF TypeInv, TypeOK, Stored
  <2>3. row' \in [Dates -> Row \cup {NoRow}] /\ LocalTypes'
    BY <1>8, <2>1, <2>2, AddTypes, FinishTypes DEF Success
  <2>. QED BY <1>8, <2>3 DEF Success, TypeInv, TypeOK, LocalTypes
<1>9. ASSUME NEW w \in Workers, Error(w)
      PROVE  TypeInv'
  <2>1. Date(now) \in Dates
    BY Today DEF StoreAssumption, TypeInv, TypeOK
  <2>2. Stored(Date(now)) =>
          [row[Date(now)] EXCEPT !.requests = @ + 1, !.errors = @ + 1] \in Row
    BY <2>1, RowTypes DEF TypeInv, TypeOK, Stored
  <2>3. row' \in [Dates -> Row \cup {NoRow}]
    BY <1>9, <2>1, <2>2, AddTypes DEF Error
  <2>. QED BY <1>9, <2>3 DEF Error, Goto, TypeInv, TypeOK
<1>10. ASSUME NEW w \in Workers, Verdict(w)
       PROVE  TypeInv'
  <2>1. LocalTypes'
    <3>1. CASE Finish(w)
      BY <3>1, FinishTypes
    <3>2. CASE Goto(w, "saveCooldown") /\ UNCHANGED <<job, date, copy, until>>
      BY <3>2 DEF Goto, TypeInv, TypeOK, LocalTypes
    <3>3. CASE /\ until' = [until EXCEPT ![w] = NextRefresh(now)]
               /\ Goto(w, "today") /\ UNCHANGED <<job, date, copy>>
      <4>1. NextRefresh(now) \in Nat
        BY RefreshEndsPeriod DEF TypeInv, TypeOK
      <4>. QED BY <3>3, <4>1 DEF Goto, TypeInv, TypeOK, LocalTypes
    <3>. QED BY <1>10, <3>1, <3>2, <3>3 DEF Verdict
  <2>. QED BY <1>10, <2>1 DEF Verdict, TypeInv, TypeOK, LocalTypes
<1>11. ASSUME NEW w \in Workers, MarkExhausted(w)
       PROVE  TypeInv'
  <2>1. arrived' \in 0..MaxRequests /\ Ensure(w, "exhaust")
    BY <1>11 DEF MarkExhausted, TypeInv, TypeOK
  <2>. QED BY <2>1, EnsureTypes
<1>12. ASSUME NEW w \in Workers, SaveCooldown(w)
       PROVE  TypeInv'
  <2>1. LocalTypes' /\ cooldown' \in Nat
    BY <1>12, FinishTypes DEF SaveCooldown, TypeInv, TypeOK, StoreAssumption
  <2>. QED BY <1>12, <2>1 DEF SaveCooldown, TypeInv, TypeOK, LocalTypes
<1>13. ASSUME NEW w \in Workers, BeginJob(w)
       PROVE  TypeInv'
  <2>1. PICK j \in Jobs : Ensure(w, j)
    BY <1>13 DEF BeginJob
  <2>2. j \in AllJobs /\ arrived' \in 0..MaxRequests
    BY <1>13 DEF BeginJob, TypeInv, TypeOK, StoreAssumption
  <2>. QED BY <2>1, <2>2, EnsureTypes
<1>14. ASSUME NEW w \in Workers, Save(w)
       PROVE  TypeInv'
  <2>1. date[w] \in Dates /\ Changed(w) \in Row
    BY ChangedTypes DEF TypeInv, TypeOK
  <2>2. row' \in [Dates -> Row \cup {NoRow}] /\ resets' \subseteq Dates
    BY <1>14, <2>1 DEF Save, TypeInv, TypeOK
  <2>3. LocalTypes'
    <3>1. CASE Goto(w, "clearCooldownRow") /\ UNCHANGED <<job, date, copy, until>>
      BY <3>1 DEF Goto, TypeInv, TypeOK, LocalTypes
    <3>2. CASE Finish(w)
      BY <3>2, FinishTypes
    <3>. QED BY <1>14, <3>1, <3>2 DEF Save
  <2>. QED BY <1>14, <2>2, <2>3 DEF Save, TypeInv, TypeOK, LocalTypes
<1>15. ASSUME NEW w \in Workers, ClearCooldownRow(w)
       PROVE  TypeInv'
  <2>1. LocalTypes'
    BY <1>15, FinishTypes DEF ClearCooldownRow
  <2>. QED BY <1>15, <2>1 DEF ClearCooldownRow, TypeInv, TypeOK, LocalTypes
<1>. QED BY <1>1, <1>2, <1>3, <1>4, <1>5, <1>6, <1>7, <1>8, <1>9, <1>10, <1>11,
            <1>12, <1>13, <1>14, <1>15 DEF Next

\* The stored state, the clock and what each worker has in hand keep their types: every
\* row that a worker writes belongs to a day that the clock has reached (TypeOK).
THEOREM TypeCorrect == Spec => []TypeOK
<1>1. Init => TypeInv
  BY TypeInit, StoreAssumption
<1>2. TypeInv /\ [Next]_vars => TypeInv'
  BY TypeStep, StoreAssumption
<1>3. TypeInv => TypeOK
  BY DEF TypeInv
<1>. QED BY <1>1, <1>2, <1>3, PTL DEF Spec

----------------------------------------------------------------------------
(* What a worker's step does to the rows and to what the worker has in hand. *)

WorkerStep(w) ==
  \/ BeginRequest(w) \/ Create(w) \/ Check(w) \/ Answer(w) \/ Usage(w)
  \/ Success(w) \/ Error(w) \/ Verdict(w) \/ MarkExhausted(w)
  \/ SaveCooldown(w) \/ BeginJob(w) \/ Save(w) \/ ClearCooldownRow(w)

\* A row is stored for a day that has come, and stays.
RowsReached ==
  /\ \A d \in Dates : Stored(d) => d <= Date(now)
  /\ \A w \in Workers : date[w] <= Date(now)
  /\ \A w \in Workers : pc[w] = "ensured" => Stored(date[w])

OthersKept(w) ==
  \A v \in Workers \ {w} : /\ pc'[v] = pc[v] /\ job'[v] = job[v] /\ date'[v] = date[v]
                            /\ copy'[v] = copy[v] /\ until'[v] = until[v]

\* no row is deleted, and only a save that resets notes takes tokens back
RowsKept ==
  \A d \in Dates : Stored(d) =>
    /\ row'[d] # NoRow
    /\ d \notin resets' => row[d].tokens <= row'[d].tokens

\* a worker inserts the row of its date only
RowsInserted(w) == \A d \in Dates : row'[d] # NoRow => Stored(d) \/ d = date[w]

\* an exhaustion is kept, cleared, or written by the worker's save
ExhaustionWritten(w) ==
  \A d \in Dates : row'[d] # NoRow =>
    \/ Stored(d) /\ row'[d].exhausted = row[d].exhausted
    \/ row'[d].exhausted = 0
    \/ pc[w] = "ensured" /\ d = date[w] /\ row'[d].exhausted = Changed(w).exhausted

\* the copy is what the row was when the worker read it
ReadsRow(w) ==
  pc'[w] = "ensured" => row'[date'[w]] # NoRow /\ copy'[w] = row'[date'[w]]

RefreshRemembered(w) ==
  /\ pc'[w] = "today" => until'[w] = NextRefresh(now)
  /\ pc'[w] \in {"create", "ensured"} /\ job'[w] = "exhaust" =>
       \/ pc[w] = "today" /\ until'[w] = until[w] /\ date'[w] = Date(now)
       \/ /\ pc[w] = "create" /\ job[w] = "exhaust"
          /\ until'[w] = until[w] /\ date'[w] = date[w]

Shape(w) ==
  /\ now' = now /\ resets \subseteq resets'
  /\ date'[w] \in {date[w], Date(now), Date(0)}
  /\ OthersKept(w) /\ RowsKept /\ RowsInserted(w) /\ ExhaustionWritten(w)
  /\ ReadsRow(w) /\ RefreshRemembered(w)

\* Steps that leave the rows alone.
LEMMA RowsUntouched ==
  ASSUME StoreAssumption, TypeInv, NEW w \in Workers, row' = row
  PROVE  RowsKept /\ RowsInserted(w) /\ ExhaustionWritten(w)
<1>1. \A d \in Dates : Stored(d) => row[d].tokens \in Nat
  BY DEF TypeInv, TypeOK, Stored, Row
<1>. QED BY <1>1 DEF RowsKept, RowsInserted, ExhaustionWritten, Stored

LEMMA FinishShape ==
  ASSUME StoreAssumption, TypeInv, NEW w \in Workers, Finish(w)
  PROVE  /\ OthersKept(w) /\ ReadsRow(w) /\ RefreshRemembered(w)
         /\ date'[w] = Date(0) /\ pc'[w] = "idle" /\ job'[w] = "none"
BY DEF Finish, Goto, TypeInv, TypeOK, OthersKept, ReadsRow, RefreshRemembered

LEMMA GotoShape ==
  ASSUME StoreAssumption, TypeInv, NEW w \in Workers,
         NEW l \in {"upstream", "success", "verdict", "saveCooldown", "clearCooldownRow"},
         Goto(w, l), UNCHANGED <<job, date, copy, until>>
  PROVE  /\ OthersKept(w) /\ ReadsRow(w) /\ RefreshRemembered(w)
         /\ date'[w] = date[w] /\ pc'[w] = l /\ job'[w] = job[w]
BY DEF Goto, TypeInv, TypeOK, OthersKept, ReadsRow, RefreshRemembered

LEMMA EnsureShape ==
  ASSUME StoreAssumption, TypeInv, NEW w \in Workers, NEW j, Ensure(w, j),
         j = "exhaust" => pc[w] = "today"
  PROVE  /\ Shape(w) /\ date'[w] = Date(now) /\ job'[w] = j /\ row' = row
         /\ \/ Stored(Date(now)) /\ pc'[w] = "ensured" /\ copy'[w] = row[Date(now)]
            \/ ~Stored(Date(now)) /\ pc'[w] = "create"
<1>1. Date(now) \in Dates
  BY Today DEF StoreAssumption, TypeInv, TypeOK
<1>2. RowsKept /\ RowsInserted(w) /\ ExhaustionWritten(w)
  BY RowsUntouched DEF Ensure
<1>3. /\ OthersKept(w) /\ now' = now /\ resets' = resets /\ row' = row
      /\ date'[w] = Date(now) /\ job'[w] = j /\ until'[w] = until[w]
  BY DEF Ensure, Goto, TypeInv, TypeOK, OthersKept
<1>4. \/ Stored(Date(now)) /\ pc'[w] = "ensured" /\ copy'[w] = row[Date(now)]
      \/ ~Stored(Date(now)) /\ pc'[w] = "create"
  BY DEF Ensure, Goto, TypeInv, TypeOK
<1>5. ReadsRow(w)
  BY <1>3, <1>4 DEF ReadsRow, Stored
<1>6. RefreshRemembered(w)
  BY <1>3, <1>4 DEF RefreshRemembered
<1>. QED BY <1>2, <1>3, <1>4, <1>5, <1>6 DEF Shape

\* Steps that add to a row.
LEMMA AddShape ==
  ASSUME StoreAssumption, TypeInv, NEW w \in Workers, NEW d \in Dates, NEW r, Add(d, r),
         Stored(d) => /\ r \in Row /\ row[d].tokens <= r.tokens
                      /\ r.exhausted = row[d].exhausted
  PROVE  RowsKept /\ RowsInserted(w) /\ ExhaustionWritten(w)
<1>1. \A e \in Dates : Stored(e) => row[e].tokens \in Nat
  BY DEF TypeInv, TypeOK, Stored, Row
<1>2. NoRow \notin Row
  BY DEF StoreAssumption
<1>3. CASE ~Stored(d)
  BY <1>3, RowsUntouched DEF Add
<1>4. CASE Stored(d)
  <2>1. row' = [row EXCEPT ![d] = r]
    BY <1>4 DEF Add
  <2>2. row'[d] = r /\ \A e \in Dates \ {d} : row'[e] = row[e]
    BY <2>1 DEF TypeInv, TypeOK
  <2>3. RowsKept
    <3>1. r \in Row /\ r # NoRow /\ row[d].tokens <= r.tokens
      BY <1>2, <1>4
    <3>2. \A e \in Dates \ {d} : Stored(e) => row'[e] # NoRow /\ row[e].tokens <= row'[e].tokens
      BY <1>1, <2>2 DEF Stored
    <3>. QED BY <2>2, <3>1, <3>2 DEF RowsKept
  <2>4. RowsInserted(w) /\ ExhaustionWritten(w)
    BY <1>4, <2>2 DEF RowsInserted, ExhaustionWritten, Stored
  <2>. QED BY <2>3, <2>4
<1>. QED BY <1>3, <1>4

LEMMA CountedRow ==
  ASSUME NEW r \in Row
  PROVE  /\ r.tokens \in Nat
         /\ [r EXCEPT !.tokens = @ + 1, !.requests = @ + 1].tokens = r.tokens + 1
         /\ [r EXCEPT !.tokens = @ + 1, !.requests = @ + 1].exhausted = r.exhausted
         /\ [r EXCEPT !.requests = @ + 1, !.errors = @ + 1].tokens = r.tokens
         /\ [r EXCEPT !.requests = @ + 1, !.errors = @ + 1].exhausted = r.exhausted
         /\ [r EXCEPT !.successes = @ + 1].tokens = r.tokens
         /\ [r EXCEPT !.successes = @ + 1].exhausted = r.exhausted
BY DEF Row

LEMMA StepShape ==
  ASSUME StoreAssumption, TypeInv, RowsReached, NEW w \in Workers, WorkerStep(w)
  PROVE  Shape(w)
<1>. /\ Date(now) \in Dates /\ date[w] \in Dates
     /\ \A d \in Dates : Stored(d) => row[d] \in Row
  BY Today DEF StoreAssumption, TypeInv, TypeOK, Stored
<1>1. CASE BeginRequest(w)
  BY <1>1, EnsureShape DEF BeginRequest
<1>2. CASE Create(w)
  <2>1. /\ row'[date[w]] = Inserted(date[w]) /\ \A d \in Dates \ {date[w]} : row'[d] = row[d]
        /\ copy'[w] = Inserted(date[w]) /\ date'[w] = date[w] /\ until'[w] = until[w]
        /\ job'[w] = job[w] /\ pc[w] = "create" /\ pc'[w] = "ensured"
        /\ now' = now /\ resets' = resets /\ OthersKept(w)
    BY <1>2 DEF Create, Goto, TypeInv, TypeOK, OthersKept
  <2>2. /\ Inserted(date[w]) \in Row /\ NoRow \notin Row
        /\ NewRow.exhausted = 0 /\ NewRow \in Row
    BY DEF Inserted, NewRow, Row, StoreAssumption
  <2>3. RowsKept
    BY <2>1, <2>2, CountedRow DEF RowsKept, Inserted
  <2>4. RowsInserted(w)
    BY <2>1, <2>2 DEF RowsInserted, Stored
  <2>5. ExhaustionWritten(w)
    BY <2>1, <2>2 DEF ExhaustionWritten, Inserted, Stored
  <2>6. ReadsRow(w) /\ RefreshRemembered(w)
    BY <2>1, <2>2 DEF ReadsRow, RefreshRemembered
  <2>. QED BY <2>1, <2>3, <2>4, <2>5, <2>6 DEF Shape
<1>3. CASE Check(w)
  <2>1. RowsKept /\ RowsInserted(w) /\ ExhaustionWritten(w) /\ now' = now /\ resets' = resets
    BY <1>3, RowsUntouched DEF Check
  <2>2. /\ OthersKept(w) /\ ReadsRow(w) /\ RefreshRemembered(w)
        /\ date'[w] \in {date[w], Date(0)}
    BY <1>3, GotoShape, FinishShape DEF Check
  <2>. QED BY <2>1, <2>2 DEF Shape
<1>4. CASE Answer(w)
  <2>1. PICK j \in {"success", "error"} : Ensure(w, j)
    BY <1>4 DEF Answer
  <2>. QED BY <2>1, EnsureShape
<1>5. CASE Usage(w)
  <2>1. RowsKept /\ RowsInserted(w) /\ ExhaustionWritten(w)
    <3>. DEFINE d == Date(now)
                r == [row[d] EXCEPT !.tokens = @ + 1, !.requests = @ + 1]
    <3>1. Stored(d) => /\ r \in Row /\ r.exhausted = row[d].exhausted
                       /\ row[d].tokens \in Nat
                       /\ (r.tokens = row[d].tokens \/ r.tokens = row[d].tokens + 1)
      BY RowTypes, CountedRow
    <3>2. Add(d, r)
      BY <1>5 DEF Usage
    <3>3. d \in Dates
      OBVIOUS
    <3>. HIDE DEF d, r
    <3>4. Stored(d) => row[d].tokens <= r.tokens
      BY <3>1
    <3>. QED BY <3>1, <3>2, <3>3, <3>4, AddShape
  <2>2. /\ OthersKept(w) /\ ReadsRow(w) /\ RefreshRemembered(w) /\ date'[w] = date[w]
    BY <1>5, GotoShape DEF Usage
  <2>. QED BY <1>5, <2>1, <2>2 DEF Shape, Usage
<1>6. CASE Success(w)
  <2>1. RowsKept /\ RowsInserted(w) /\ ExhaustionWritten(w)
    <3>. DEFINE d == Date(now)
                r == [row[d] EXCEPT !.successes = @ + 1]
    <3>1. Stored(d) => /\ r \in Row /\ r.exhausted = row[d].exhausted
                       /\ row[d].tokens \in Nat
                       /\ (r.tokens = row[d].tokens \/ r.tokens = row[d].tokens + 1)
      BY RowTypes, CountedRow
    <3>2. Add(d, r)
      BY <1>6 DEF Success
    <3>3. d \in Dates
      OBVIOUS
    <3>. HIDE DEF d, r
    <3>4. Stored(d) => row[d].tokens <= r.tokens
      BY <3>1
    <3>. QED BY <3>1, <3>2, <3>3, <3>4, AddShape
  <2>2. /\ OthersKept(w) /\ ReadsRow(w) /\ RefreshRemembered(w) /\ date'[w] = Date(0)
    BY <1>6, FinishShape DEF Success
  <2>. QED BY <1>6, <2>1, <2>2 DEF Shape, Success
<1>7. CASE Error(w)
  <2>1. RowsKept /\ RowsInserted(w) /\ ExhaustionWritten(w)
    <3>. DEFINE d == Date(now)
                r == [row[d] EXCEPT !.requests = @ + 1, !.errors = @ + 1]
    <3>1. Stored(d) => /\ r \in Row /\ r.exhausted = row[d].exhausted
                       /\ row[d].tokens \in Nat
                       /\ (r.tokens = row[d].tokens \/ r.tokens = row[d].tokens + 1)
      BY RowTypes, CountedRow
    <3>2. Add(d, r)
      BY <1>7 DEF Error
    <3>3. d \in Dates
      OBVIOUS
    <3>. HIDE DEF d, r
    <3>4. Stored(d) => row[d].tokens <= r.tokens
      BY <3>1
    <3>. QED BY <3>1, <3>2, <3>3, <3>4, AddShape
  <2>2. /\ OthersKept(w) /\ ReadsRow(w) /\ RefreshRemembered(w) /\ date'[w] = date[w]
    BY <1>7, GotoShape DEF Error
  <2>. QED BY <1>7, <2>1, <2>2 DEF Shape, Error
<1>8. CASE Verdict(w)
  <2>1. RowsKept /\ RowsInserted(w) /\ ExhaustionWritten(w) /\ now' = now /\ resets' = resets
    BY <1>8, RowsUntouched DEF Verdict
  <2>2. CASE Finish(w)
    BY <2>1, <2>2, FinishShape DEF Shape
  <2>3. CASE Goto(w, "saveCooldown") /\ UNCHANGED <<job, date, copy, until>>
    BY <2>1, <2>3, GotoShape DEF Shape
  <2>4. CASE /\ until' = [until EXCEPT ![w] = NextRefresh(now)]
             /\ Goto(w, "today") /\ UNCHANGED <<job, date, copy>>
    <3>1. /\ OthersKept(w) /\ pc'[w] = "today" /\ until'[w] = NextRefresh(now)
          /\ date'[w] = date[w]
      BY <2>4 DEF Goto, TypeInv, TypeOK, OthersKept
    <3>2. ReadsRow(w) /\ RefreshRemembered(w)
      BY <3>1 DEF ReadsRow, RefreshRemembered
    <3>. QED BY <2>1, <3>1, <3>2 DEF Shape
  <2>. QED BY <1>8, <2>2, <2>3, <2>4 DEF Verdict
<1>9. CASE MarkExhausted(w)
  BY <1>9, EnsureShape DEF MarkExhausted
<1>10. CASE SaveCooldown(w)
  <2>1. RowsKept /\ RowsInserted(w) /\ ExhaustionWritten(w)
    BY <1>10, RowsUntouched DEF SaveCooldown
  <2>. QED BY <1>10, <2>1, FinishShape DEF Shape, SaveCooldown
<1>11. CASE BeginJob(w)
  <2>1. PICK j \in Jobs : Ensure(w, j)
    BY <1>11 DEF BeginJob
  <2>2. j # "exhaust"
    BY DEF StoreAssumption, AllJobs
  <2>. QED BY <2>1, <2>2, EnsureShape
<1>12. CASE Save(w)
  <2>1. /\ row'[date[w]] = Changed(w) /\ \A d \in Dates \ {date[w]} : row'[d] = row[d]
        /\ pc[w] = "ensured" /\ now' = now
        /\ resets' = IF Changed(w).tokens < row[date[w]].tokens
                     THEN resets \cup {date[w]} ELSE resets
    BY <1>12 DEF Save, TypeInv, TypeOK
  <2>2. /\ Changed(w) \in Row /\ Changed(w).tokens \in Nat /\ NoRow \notin Row
        /\ Stored(date[w]) /\ row[date[w]].tokens \in Nat
    BY <2>1, ChangedTypes, CountedRow DEF RowsReached, StoreAssumption
  <2>3. RowsKept /\ resets \subseteq resets'
    BY <2>1, <2>2, CountedRow DEF RowsKept
  <2>4. RowsInserted(w)
    BY <2>1 DEF RowsInserted, Stored
  <2>5. ExhaustionWritten(w)
    BY <2>1 DEF ExhaustionWritten, Stored
  <2>6. /\ OthersKept(w) /\ ReadsRow(w) /\ RefreshRemembered(w)
        /\ date'[w] \in {date[w], Date(0)}
    BY <1>12, GotoShape, FinishShape DEF Save
  <2>. QED BY <2>1, <2>3, <2>4, <2>5, <2>6 DEF Shape
<1>13. CASE ClearCooldownRow(w)
  <2>1. RowsKept /\ RowsInserted(w) /\ ExhaustionWritten(w)
    BY <1>13, RowsUntouched DEF ClearCooldownRow
  <2>. QED BY <1>13, <2>1, FinishShape DEF Shape, ClearCooldownRow
<1>. QED BY <1>1, <1>2, <1>3, <1>4, <1>5, <1>6, <1>7, <1>8, <1>9, <1>10, <1>11,
            <1>12, <1>13 DEF WorkerStep

\* Each action of Next is the clock's or a worker's.
LEMMA StepCases ==
  ASSUME [Next]_vars
  PROVE  \/ UNCHANGED vars \/ Tick
         \/ \E w \in Workers : WorkerStep(w)
BY DEF Next, WorkerStep

LEMMA ReachedStep ==
  ASSUME StoreAssumption, TypeInv, TypeInv', RowsReached, [Next]_vars
  PROVE  RowsReached'
<1>1. CASE UNCHANGED vars
  BY <1>1 DEF vars, locals, RowsReached, Stored
<1>2. CASE Tick
  <2>. now \in Int /\ now + 1 \in Int /\ now <= now + 1
    BY DEF TypeInv, TypeOK
  <2>1. Date(now) <= Date(now + 1) /\ Date(now) \in Int /\ Date(now + 1) \in Int
    BY DateGrows, DateBounds
  <2>2. Dates \subseteq Int /\ \A w \in Workers : date[w] \in Int
    BY Today DEF TypeInv, TypeOK, StoreAssumption
  <2>3. now' = now + 1 /\ row' = row /\ pc' = pc /\ date' = date
    BY <1>2 DEF Tick, locals
  <2>4. Date(now)' = Date(now + 1)
    BY <2>3 DEF Date
  <2>. QED BY <2>1, <2>2, <2>3, <2>4 DEF RowsReached, Stored
<1>3. ASSUME NEW w \in Workers, WorkerStep(w)
      PROVE  RowsReached'
  <2>1. Shape(w)
    BY <1>3, StepShape
  <2>2. now' = now /\ Date(now)' = Date(now) /\ Date(0)' = Date(0)
    BY <2>1 DEF Shape, Date
  <2>. now \in Int /\ 0 \in Int /\ 0 <= now
    BY DEF TypeInv, TypeOK
  <2>3. Date(0) <= Date(now) /\ Date(now) <= Date(now)
    BY DateGrows, DateBounds
  <2>4. \A d \in Dates : row'[d] # NoRow => d <= Date(now)
    BY <2>1 DEF Shape, RowsInserted, RowsReached, Stored
  <2>5. \A v \in Workers : date'[v] <= Date(now)
    BY <2>1, <2>3 DEF Shape, OthersKept, RowsReached
  <2>6. ASSUME NEW v \in Workers, pc'[v] = "ensured"
        PROVE  row'[date'[v]] # NoRow
    <3>1. CASE v = w
      BY <2>1, <2>6, <3>1 DEF Shape, ReadsRow
    <3>2. CASE v # w
      <4>1. pc[v] = "ensured" /\ date'[v] = date[v] /\ date[v] \in Dates
        BY <2>1, <2>6, <3>2 DEF Shape, OthersKept, TypeInv, TypeOK
      <4>. QED BY <2>1, <4>1 DEF Shape, RowsKept, RowsReached
    <3>. QED BY <3>1, <3>2
  <2>. QED BY <2>2, <2>4, <2>5, <2>6 DEF RowsReached, Stored
<1>. QED BY <1>1, <1>2, <1>3, StepCases

----------------------------------------------------------------------------
(* Rows and their copies.  The copy of a row is never ahead of the row, but  *)
(* for the dates of which a save took tokens back.                         *)

CopiesOld ==
  \A w \in Workers : pc[w] = "ensured" /\ date[w] \notin resets =>
    copy[w].tokens <= row[date[w]].tokens

LEMMA CopiesStep ==
  ASSUME StoreAssumption, TypeInv, TypeInv', RowsReached, RowsReached', CopiesOld,
         [Next]_vars
  PROVE  CopiesOld'
<1>1. CASE UNCHANGED vars
  BY <1>1 DEF vars, locals, CopiesOld
<1>2. CASE Tick
  BY <1>2 DEF Tick, locals, CopiesOld
<1>3. ASSUME NEW w \in Workers, WorkerStep(w)
      PROVE  CopiesOld'
  <2>1. Shape(w)
    BY <1>3, StepShape
  <2>2. SUFFICES ASSUME NEW v \in Workers, pc'[v] = "ensured", date'[v] \notin resets'
                 PROVE  copy'[v].tokens <= row'[date'[v]].tokens
    BY DEF CopiesOld
  <2>3. /\ date'[v] \in Dates /\ row'[date'[v]] \in Row /\ copy'[v] \in Row
    BY <2>2 DEF RowsReached, TypeInv, TypeOK, Stored
  <2>4. CASE v = w
    <3>1. copy'[v] = row'[date'[v]]
      BY <2>1, <2>2, <2>4 DEF Shape, ReadsRow
    <3>. QED BY <3>1, <2>3 DEF Row
  <2>5. CASE v # w
    <3>1. /\ pc[v] = "ensured" /\ date'[v] = date[v] /\ copy'[v] = copy[v]
          /\ date[v] \in Dates /\ date[v] \notin resets
      BY <2>1, <2>2, <2>5 DEF Shape, OthersKept, TypeInv, TypeOK
    <3>2. Stored(date[v]) /\ copy[v].tokens <= row[date[v]].tokens
      BY <3>1 DEF CopiesOld, RowsReached
    <3>3. row[date[v]].tokens <= row'[date[v]].tokens
      BY <2>1, <2>2, <3>1, <3>2 DEF Shape, RowsKept
    <3>4. /\ copy[v].tokens \in Nat /\ row[date[v]].tokens \in Nat
          /\ row'[date[v]].tokens \in Nat
      BY <2>3, <3>1, <3>2 DEF TypeInv, TypeOK, Stored, Row
    <3>. QED BY <3>1, <3>2, <3>3, <3>4
  <2>. QED BY <2>4, <2>5
<1>. QED BY <1>1, <1>2, <1>3, StepCases

----------------------------------------------------------------------------
(* Exhaustion.  Whatever EndOfToday() a worker has in hand ends the period of *)
(* the row it goes to, or is over by then.                                 *)

InForceEnds(x, d) == x > now => Date(x - 1) = d /\ Date(x) = d + 1

PeriodsEnd ==
  /\ \A d \in Dates : Stored(d) => InForceEnds(row[d].exhausted, d)
  /\ \A w \in Workers : pc[w] = "ensured" => InForceEnds(copy[w].exhausted, date[w])
  /\ \A w \in Workers : pc[w] = "today" => InForceEnds(until[w], Date(now))
  /\ \A w \in Workers : pc[w] \in {"create", "ensured"} /\ job[w] = "exhaust" =>
       InForceEnds(until[w], date[w])

\* What the clock does to an exhaustion: it is over, or still ends the same period,
\* that the clock is in.
LEMMA TimePasses ==
  ASSUME StoreAssumption, TypeInv, Tick, NEW x \in Nat, NEW d \in Int, InForceEnds(x, d)
  PROVE  /\ InForceEnds(x, d)'
         /\ d = Date(now) => InForceEnds(x, Date(now))'
<1>1. now \in Nat /\ now' = now + 1 /\ Date(now)' = Date(now + 1)
  BY DEF Tick, TypeInv, TypeOK, Date
<1>2. SUFFICES ASSUME x > now + 1
               PROVE  /\ Date(x - 1) = d /\ Date(x) = d + 1
                      /\ d = Date(now) => Date(now + 1) = d
  BY <1>1 DEF InForceEnds, Date
<1>3. x > now /\ x - 1 \in Int /\ now + 1 \in Int /\ now \in Int
      /\ now <= now + 1 /\ now + 1 <= x - 1
  BY <1>1, <1>2
<1>4. Date(x - 1) = d /\ Date(x) = d + 1
  BY <1>3 DEF InForceEnds
<1>5. Date(now) <= Date(now + 1) /\ Date(now + 1) <= Date(x - 1)
  BY <1>3, DateGrows
<1>6. Date(now) \in Int /\ Date(now + 1) \in Int
  BY <1>3, DateBounds
<1>. QED BY <1>4, <1>5, <1>6

LEMMA ChangedEnds ==
  ASSUME StoreAssumption, TypeInv, PeriodsEnd, NEW w \in Workers, pc[w] = "ensured"
  PROVE  InForceEnds(Changed(w).exhausted, date[w])
<1>1. /\ copy[w] \in Row /\ until[w] \in Nat /\ now \in Nat
      /\ InForceEnds(copy[w].exhausted, date[w])
      /\ job[w] = "exhaust" => InForceEnds(until[w], date[w])
  BY DEF TypeInv, TypeOK, PeriodsEnd
<1>2. InForceEnds(0, date[w])
  BY <1>1 DEF InForceEnds
<1>3. CASE job[w] = "exhaust"
  <2>1. Changed(w).exhausted = until[w]
    BY <1>1, <1>3 DEF Changed, Row
  <2>. QED BY <1>1, <1>3, <2>1
<1>4. CASE job[w] \in {"clearExhausted", "reset"}
  <2>1. Changed(w).exhausted = 0
    BY <1>1, <1>4 DEF Changed, Row, NewRow
  <2>. QED BY <1>2, <2>1
<1>5. CASE job[w] \notin {"exhaust", "clearExhausted", "reset"}
  <2>1. Changed(w) = copy[w]
    BY <1>5 DEF Changed
  <2>. QED BY <1>1, <2>1
<1>. QED BY <1>3, <1>4, <1>5

LEMMA PeriodsStep ==
  ASSUME StoreAssumption, TypeInv, TypeInv', RowsReached, RowsReached', PeriodsEnd,
         [Next]_vars
  PROVE  PeriodsEnd'
<1>1. CASE UNCHANGED vars
  BY <1>1 DEF vars, locals, PeriodsEnd, InForceEnds, Stored, Date
<1>2. CASE Tick
  <2>1. row' = row /\ pc' = pc /\ date' = date /\ copy' = copy /\ job' = job /\ until' = until
    BY <1>2 DEF Tick, locals
  <2>2. /\ Dates \subseteq Int /\ \A w \in Workers : date[w] \in Int /\ until[w] \in Nat
        /\ \A w \in Workers : copy[w].exhausted \in Nat
        /\ \A d \in Dates : Stored(d) => row[d].exhausted \in Nat
        /\ Date(now) \in Int
    BY Today, DateBounds DEF TypeInv, TypeOK, StoreAssumption, Row, Stored
  <2>3. \A d \in Dates : Stored(d) => InForceEnds(row[d].exhausted, d)'
    BY <1>2, <2>1, <2>2, TimePasses DEF PeriodsEnd
  <2>4. \A w \in Workers : pc[w] = "ensured" => InForceEnds(copy[w].exhausted, date[w])'
    BY <1>2, <2>1, <2>2, TimePasses DEF PeriodsEnd
  <2>5. \A w \in Workers : pc[w] = "today" => InForceEnds(until[w], Date(now))'
    BY <1>2, <2>1, <2>2, TimePasses DEF PeriodsEnd
  <2>6. \A w \in Workers : pc[w] \in {"create", "ensured"} /\ job[w] = "exhaust" =>
          InForceEnds(until[w], date[w])'
    BY <1>2, <2>1, <2>2, TimePasses DEF PeriodsEnd
  <2>. QED BY <2>1, <2>3, <2>4, <2>5, <2>6 DEF PeriodsEnd, Stored
<1>3. ASSUME NEW w \in Workers, WorkerStep(w)
      PROVE  PeriodsEnd'
  <2>1. Shape(w)
    BY <1>3, StepShape
  <2>2. now' = now /\ now \in Nat
    BY <2>1 DEF Shape, TypeInv, TypeOK
  <2>3. ASSUME NEW d \in Dates, row'[d] # NoRow
        PROVE  InForceEnds(row'[d].exhausted, d)
    <3>1. CASE Stored(d) /\ row'[d].exhausted = row[d].exhausted
      BY <3>1 DEF PeriodsEnd
    <3>2. CASE row'[d].exhausted = 0
      BY <2>2, <3>2 DEF InForceEnds
    <3>3. CASE /\ pc[w] = "ensured" /\ d = date[w]
               /\ row'[d].exhausted = Changed(w).exhausted
      BY <3>3, ChangedEnds
    <3>. QED BY <2>1, <2>3, <3>1, <3>2, <3>3 DEF Shape, ExhaustionWritten
  <2>4. ASSUME NEW v \in Workers, pc'[v] = "ensured"
        PROVE  InForceEnds(copy'[v].exhausted, date'[v])
    <3>1. CASE v = w
      <4>1. row'[date'[v]] # NoRow /\ copy'[v] = row'[date'[v]] /\ date'[v] \in Dates
        BY <2>1, <2>4, <3>1 DEF Shape, ReadsRow, TypeInv, TypeOK
      <4>. QED BY <2>3, <4>1
    <3>2. CASE v # w
      <4>1. pc[v] = "ensured" /\ copy'[v] = copy[v] /\ date'[v] = date[v]
        BY <2>1, <2>4, <3>2 DEF Shape, OthersKept
      <4>. QED BY <4>1 DEF PeriodsEnd
    <3>. QED BY <3>1, <3>2
  <2>5. ASSUME NEW v \in Workers, pc'[v] = "today"
        PROVE  InForceEnds(until'[v], Date(now))
    <3>1. CASE v = w
      <4>1. until'[v] = NextRefresh(now)
        BY <2>1, <2>5, <3>1 DEF Shape, RefreshRemembered
      <4>2. InForceEnds(NextRefresh(now), Date(now))
        BY <2>2, RefreshEndsPeriod DEF InForceEnds
      <4>. QED BY <4>1, <4>2
    <3>2. CASE v # w
      <4>1. pc[v] = "today" /\ until'[v] = until[v]
        BY <2>1, <2>5, <3>2 DEF Shape, OthersKept
      <4>. QED BY <4>1 DEF PeriodsEnd
    <3>. QED BY <3>1, <3>2
  <2>6. ASSUME NEW v \in Workers, pc'[v] \in {"create", "ensured"}, job'[v] = "exhaust"
        PROVE  InForceEnds(until'[v], date'[v])
    <3>1. CASE v = w
      <4>1. \/ pc[w] = "today" /\ until'[w] = until[w] /\ date'[w] = Date(now)
            \/ /\ pc[w] = "create" /\ job[w] = "exhaust"
               /\ until'[w] = until[w] /\ date'[w] = date[w]
        BY <2>1, <2>6, <3>1 DEF Shape, RefreshRemembered
      <4>. QED BY <3>1, <4>1 DEF PeriodsEnd
    <3>2. CASE v # w
      <4>1. /\ pc[v] \in {"create", "ensured"} /\ job[v] = "exhaust"
            /\ until'[v] = until[v] /\ date'[v] = date[v]
        BY <2>1, <2>6, <3>2 DEF Shape, OthersKept
      <4>. QED BY <4>1 DEF PeriodsEnd
    <3>. QED BY <3>1, <3>2
  <2>. QED BY <2>2, <2>3, <2>4, <2>5, <2>6 DEF PeriodsEnd, InForceEnds, Stored, Date
<1>. QED BY <1>1, <1>2, <1>3, StepCases

StoreInv == TypeInv /\ RowsReached /\ CopiesOld /\ PeriodsEnd

LEMMA StoreInit ==
  ASSUME StoreAssumption, Init
  PROVE  StoreInv
<1>1. TypeInv
  BY TypeInit
<1>2. RowsReached /\ CopiesOld /\ PeriodsEnd
  <2>1. Date(0) \in Int
    BY DateBounds
  <2>. QED BY <2>1 DEF Init, RowsReached, CopiesOld, PeriodsEnd, Stored
<1>. QED BY <1>1, <1>2 DEF StoreInv

LEMMA StoreStep ==
  ASSUME StoreAssumption, StoreInv, [Next]_vars
  PROVE  StoreInv'
<1>1. TypeInv /\ RowsReached /\ CopiesOld /\ PeriodsEnd
  BY DEF StoreInv
<1>2. TypeInv'
  BY <1>1, TypeStep
<1>3. RowsReached'
  BY <1>1, <1>2, ReachedStep
<1>4. CopiesOld' /\ PeriodsEnd'
  BY <1>1, <1>2, <1>3, CopiesStep, PeriodsStep
<1>. QED BY <1>2, <1>3, <1>4 DEF StoreInv

\* A deployment that is marked exhausted is free again exactly when the quota period of the
\* row with the mark ends, wherever the period turns while the mark is computed, the row is
\* read and the copy is saved (ExhaustionEndsWithPeriod).
THEOREM ExhaustionEnds == Spec => []ExhaustionEndsWithPeriod
<1>1. Init => StoreInv
  BY StoreInit, StoreAssumption
<1>2. StoreInv /\ [Next]_vars => StoreInv'
  BY StoreStep, StoreAssumption
<1>3. StoreInv => ExhaustionEndsWithPeriod
  BY DEF StoreInv, PeriodsEnd, InForceEnds, ExhaustionEndsWithPeriod
<1>. QED BY <1>1, <1>2, <1>3, PTL DEF Spec

----------------------------------------------------------------------------
(* The daily limit.  A request that passed the check, or that is going to,    *)
(* counts beside the tokens of the day, until its own token is counted.      *)

Coming(p, j, r) ==
  \/ p = "upstream"
  \/ p \in {"create", "ensured"} /\ j = "success"
  \/ p = "create" /\ j = "check"
  \/ p = "ensured" /\ j = "check" /\ r.tokens < Limit

Pending == {w \in Workers : Coming(pc[w], job[w], copy[w])}

Tokens(d) == IF Stored(d) THEN row[d].tokens ELSE 0

LimitInv ==
  Limit > 0 =>
    \A d \in Dates : d \notin resets =>
      /\ Tokens(d) < Limit + Cardinality(Workers)
      /\ d = Date(now) => Tokens(d) + Cardinality(Pending) < Limit + Cardinality(Workers)

LEMMA PendingFinite ==
  ASSUME StoreAssumption
  PROVE  /\ IsFiniteSet(Workers) /\ Cardinality(Workers) \in Nat
         /\ IsFiniteSet(Pending) /\ Cardinality(Pending) \in Nat
         /\ IsFiniteSet(Pending') /\ Cardinality(Pending') \in Nat
         /\ Cardinality(Pending) <= Cardinality(Workers)
         /\ Cardinality(Pending') <= Cardinality(Workers)
<1>1. IsFiniteSet(Workers) /\ Pending \subseteq Workers /\ Pending' \subseteq Workers
  BY DEF StoreAssumption, Pending
<1>. QED BY <1>1, FS_Subset, FS_CardinalityType

LEMMA TokenTypes ==
  ASSUME TypeInv, NEW d \in Dates
  PROVE  Tokens(d) \in Nat
BY DEF TypeInv, TypeOK, Tokens, Stored, Row

\* One worker's step moves one request at most.
NoneMore ==
  /\ Pending' \subseteq Pending
  /\ \A d \in Dates : d \notin resets' => Tokens(d)' <= Tokens(d)
OneAdmitted(w) ==
  /\ Pending' \subseteq Pending \cup {w} /\ w \notin Pending
  /\ \A d \in Dates : Tokens(d)' = Tokens(d)
  /\ Tokens(Date(now)) < Limit
OneCounted(w) ==
  /\ Pending' \subseteq Pending \ {w} /\ w \in Pending
  /\ \A d \in Dates : Tokens(d)' <= Tokens(d) + (IF d = Date(now) THEN 1 ELSE 0)

LEMMA NoneMorePending ==
  ASSUME StoreAssumption, TypeInv, NEW w \in Workers, OthersKept(w),
         Coming(pc'[w], job'[w], copy'[w]) => w \in Pending
  PROVE  Pending' \subseteq Pending
<1>1. ASSUME NEW v \in Workers, v \in Pending'
      PROVE  v \in Pending
  <2>1. Coming(pc'[v], job'[v], copy'[v])
    BY <1>1 DEF Pending, Coming
  <2>2. CASE v = w
    BY <2>1, <2>2
  <2>3. CASE v # w
    <3>1. pc'[v] = pc[v] /\ job'[v] = job[v] /\ copy'[v] = copy[v]
      BY <2>3 DEF OthersKept
    <3>. QED BY <2>1, <3>1 DEF Pending
  <2>. QED BY <2>2, <2>3
<1>. QED BY <1>1 DEF Pending

LEMMA SameTokens ==
  ASSUME TypeInv, row' = row
  PROVE  \A d \in Dates : Tokens(d)' = Tokens(d) /\ Tokens(d)' <= Tokens(d)
<1>1. \A d \in Dates : Tokens(d)' = Tokens(d)
  BY DEF Tokens, Stored
<1>. QED BY <1>1, TokenTypes

\* Steps after which the worker is not on its way to a token, or as much as before.
LEMMA QuietStep ==
  ASSUME StoreAssumption, TypeInv, NEW w \in Workers, OthersKept(w), row' = row,
         Coming(pc'[w], job'[w], copy'[w]) => w \in Pending
  PROVE  NoneMore
BY NoneMorePending, SameTokens DEF NoneMore

\* Steps that add to a row.
LEMMA AddsTokens ==
  ASSUME StoreAssumption, TypeInv, NEW d \in Dates, NEW r, NEW k \in Nat, Add(d, r),
         Stored(d) => r \in Row /\ r.tokens = row[d].tokens + k
  PROVE  \A e \in Dates : Tokens(e)' <= Tokens(e) + (IF e = d THEN k ELSE 0)
<1>1. \A e \in Dates : Tokens(e) \in Nat
  BY TokenTypes
<1>2. CASE ~Stored(d)
  <2>1. row' = row
    BY <1>2 DEF Add
  <2>2. \A e \in Dates : Tokens(e)' = Tokens(e)
    BY <2>1, SameTokens
  <2>. QED BY <1>1, <2>2
<1>3. CASE Stored(d)
  <2>1. row'[d] = r /\ \A e \in Dates \ {d} : row'[e] = row[e]
    BY <1>3 DEF Add, TypeInv, TypeOK
  <2>2. r # NoRow
    BY <1>3 DEF StoreAssumption
  <2>3. Tokens(d)' = Tokens(d) + k
    BY <1>3, <2>1, <2>2 DEF Tokens, Stored
  <2>4. \A e \in Dates \ {d} : Tokens(e)' = Tokens(e)
    BY <2>1 DEF Tokens, Stored
  <2>. QED BY <1>1, <2>3, <2>4
<1>. QED BY <1>2, <1>3

LEMMA StepCounts ==
  ASSUME StoreAssumption, TypeInv, RowsReached, CopiesOld, Limit > 0,
         NEW w \in Workers, WorkerStep(w)
  PROVE  NoneMore \/ OneAdmitted(w) \/ OneCounted(w)
<1>. /\ Date(now) \in Dates /\ date[w] \in Dates /\ copy[w] \in Row /\ NoRow \notin Row
     /\ \A d \in Dates : Stored(d) => row[d] \in Row
  BY Today DEF StoreAssumption, TypeInv, TypeOK, Stored
<1>. OthersKept(w)
  BY StepShape DEF Shape
<1>. w \in Pending <=> Coming(pc[w], job[w], copy[w])
  BY DEF Pending
<1>1. CASE BeginRequest(w)
  <2>1. pc[w] = "idle" /\ Ensure(w, "check")
    BY <1>1 DEF BeginRequest
  <2>2. /\ row' = row /\ job'[w] = "check"
        /\ \/ Stored(Date(now)) /\ pc'[w] = "ensured" /\ copy'[w] = row[Date(now)]
           \/ ~Stored(Date(now)) /\ pc'[w] = "create"
    BY <2>1, EnsureShape
  <2>3. CASE Stored(Date(now)) /\ ~(row[Date(now)].tokens < Limit)
    <3>1. ~Coming(pc'[w], job'[w], copy'[w])
      BY <2>2, <2>3 DEF Coming
    <3>. QED BY <2>2, <3>1, QuietStep
  <2>4. CASE Stored(Date(now)) => row[Date(now)].tokens < Limit
    <3>1. Tokens(Date(now)) < Limit
      BY <2>4 DEF Tokens
    <3>2. w \notin Pending
      BY <2>1 DEF Coming
    <3>3. Pending' \subseteq Pending \cup {w}
      BY DEF Pending, OthersKept
    <3>. QED BY <2>2, <3>1, <3>2, <3>3, SameTokens DEF OneAdmitted
  <2>. QED BY <2>3, <2>4
<1>2. CASE Create(w)
  <2>1. /\ row'[date[w]] = Inserted(date[w]) /\ \A d \in Dates \ {date[w]} : row'[d] = row[d]
        /\ job'[w] = job[w] /\ pc[w] = "create" /\ pc'[w] = "ensured"
    BY <1>2 DEF Create, Goto, TypeInv, TypeOK
  <2>2. Coming(pc'[w], job'[w], copy'[w]) => w \in Pending
    BY <2>1 DEF Coming
  <2>3. \A d \in Dates : d = date[w] => Tokens(d)' = Tokens(d)
    BY <2>1 DEF Tokens, Stored, Inserted, NewRow, Row
  <2>4. \A d \in Dates : d # date[w] => Tokens(d)' = Tokens(d)
    BY <2>1 DEF Tokens, Stored
  <2>5. \A d \in Dates : Tokens(d) \in Nat /\ Tokens(d)' = Tokens(d)
    BY <2>3, <2>4, TokenTypes
  <2>6. \A d \in Dates : Tokens(d)' <= Tokens(d)
    BY <2>5
  <2>. QED BY <2>2, <2>6, NoneMorePending DEF NoneMore
<1>3. CASE Check(w)
  <2>1. CASE Available(copy[w]) /\ Goto(w, "upstream") /\ UNCHANGED <<job, date, copy, until>>
    <3>1. pc[w] = "ensured" /\ job[w] = "check" /\ copy[w].tokens < Limit
      BY <1>3, <2>1 DEF Check, Available, WithinLimit
    <3>2. w \in Pending
      BY <3>1 DEF Coming
    <3>. QED BY <1>3, <3>2, QuietStep DEF Check
  <2>2. CASE Finish(w)
    <3>1. ~Coming(pc'[w], job'[w], copy'[w])
      BY <2>2, FinishShape DEF Coming
    <3>. QED BY <1>3, <3>1, QuietStep DEF Check
  <2>. QED BY <1>3, <2>1, <2>2 DEF Check
<1>4. CASE Answer(w)
  <2>1. PICK j \in {"success", "error"} : Ensure(w, j)
    BY <1>4 DEF Answer
  <2>2. row' = row /\ w \in Pending
    BY <1>4, <2>1 DEF Answer, Ensure, Coming
  <2>. QED BY <2>2, QuietStep
<1>5. CASE Usage(w)
  <2>. DEFINE d == Date(now)
              r == [row[d] EXCEPT !.tokens = @ + 1, !.requests = @ + 1]
  <2>1. Stored(d) => r \in Row /\ r.tokens = row[d].tokens + 1
    BY RowTypes, CountedRow
  <2>2. Add(d, r) /\ d \in Dates
    BY <1>5 DEF Usage
  <2>. HIDE DEF r
  <2>3. \A e \in Dates : Tokens(e)' <= Tokens(e) + (IF e = d THEN 1 ELSE 0)
    BY <2>1, <2>2, AddsTokens
  <2>4. w \in Pending /\ pc'[w] = "success"
    BY <1>5, GotoShape DEF Usage, Coming
  <2>5. ~Coming(pc'[w], job'[w], copy'[w]) /\ w \notin Pending'
    BY <2>4 DEF Coming, Pending
  <2>6. Pending' \subseteq Pending
    BY <2>5, NoneMorePending
  <2>. QED BY <2>3, <2>4, <2>5, <2>6 DEF OneCounted
<1>6. CASE Success(w)
  <2>. DEFINE d == Date(now)
              r == [row[d] EXCEPT !.successes = @ + 1]
  <2>1. Stored(d) => r \in Row /\ r.tokens = row[d].tokens + 0
    <3>1. Stored(d) => r \in Row /\ r.tokens = row[d].tokens /\ row[d].tokens \in Nat
      BY RowTypes, CountedRow
    <3>. HIDE DEF r
    <3>. QED BY <3>1
  <2>2. Add(d, r) /\ d \in Dates
    BY <1>6 DEF Success
  <2>. HIDE DEF r
  <2>3. \A e \in Dates : Tokens(e)' <= Tokens(e) + (IF e = d THEN 0 ELSE 0)
    BY <2>1, <2>2, AddsTokens
  <2>4. \A e \in Dates : Tokens(e)' <= Tokens(e)
    BY <2>3, TokenTypes
  <2>5. ~Coming(pc'[w], job'[w], copy'[w])
    BY <1>6, FinishShape DEF Success, Coming
  <2>. QED BY <2>4, <2>5, NoneMorePending DEF NoneMore
<1>7. CASE Error(w)
  <2>. DEFINE d == Date(now)
              r == [row[d] EXCEPT !.requests = @ + 1, !.errors = @ + 1]
  <2>1. Stored(d) => r \in Row /\ r.tokens = row[d].tokens + 0
    <3>1. Stored(d) => r \in Row /\ r.tokens = row[d].tokens /\ row[d].tokens \in Nat
      BY RowTypes, CountedRow
    <3>. HIDE DEF r
    <3>. QED BY <3>1
  <2>2. Add(d, r) /\ d \in Dates
    BY <1>7 DEF Error
  <2>. HIDE DEF r
  <2>3. \A e \in Dates : Tokens(e)' <= Tokens(e) + (IF e = d THEN 0 ELSE 0)
    BY <2>1, <2>2, AddsTokens
  <2>4. \A e \in Dates : Tokens(e)' <= Tokens(e)
    BY <2>3, TokenTypes
  <2>5. ~Coming(pc'[w], job'[w], copy'[w])
    BY <1>7, GotoShape DEF Error, Coming
  <2>. QED BY <2>4, <2>5, NoneMorePending DEF NoneMore
<1>8. CASE Verdict(w)
  <2>1. pc'[w] \in {"idle", "saveCooldown", "today"}
    BY <1>8, FinishShape DEF Verdict, Goto, TypeInv, TypeOK
  <2>2. ~Coming(pc'[w], job'[w], copy'[w])
    BY <2>1 DEF Coming
  <2>. QED BY <1>8, <2>2, QuietStep DEF Verdict
<1>9. CASE MarkExhausted(w)
  <2>1. row' = row /\ job'[w] = "exhaust" /\ pc'[w] \in {"create", "ensured"}
    BY <1>9, EnsureShape DEF MarkExhausted
  <2>2. ~Coming(pc'[w], job'[w], copy'[w])
    BY <2>1 DEF Coming
  <2>. QED BY <2>1, <2>2, QuietStep
<1>10. CASE SaveCooldown(w)
  <2>1. ~Coming(pc'[w], job'[w], copy'[w])
    BY <1>10, FinishShape DEF SaveCooldown, Coming
  <2>. QED BY <1>10, <2>1, QuietStep DEF SaveCooldown
<1>11. CASE BeginJob(w)
  <2>1. PICK j \in Jobs : Ensure(w, j)
    BY <1>11 DEF BeginJob
  <2>2. j \in AllJobs /\ j # "exhaust"
    BY DEF StoreAssumption, AllJobs
  <2>3. row' = row /\ job'[w] = j /\ pc'[w] \in {"create", "ensured"}
    BY <2>1, <2>2, EnsureShape
  <2>4. ~Coming(pc'[w], job'[w], copy'[w])
    BY <2>2, <2>3 DEF Coming, AllJobs
  <2>. QED BY <2>3, <2>4, QuietStep
<1>12. CASE Save(w)
  <2>1. /\ row'[date[w]] = Changed(w) /\ \A d \in Dates \ {date[w]} : row'[d] = row[d]
        /\ pc[w] = "ensured"
        /\ resets' = IF Changed(w).tokens < row[date[w]].tokens
                     THEN resets \cup {date[w]} ELSE resets
    BY <1>12 DEF Save, TypeInv, TypeOK
  <2>2. /\ Changed(w) \in Row /\ Changed(w).tokens \in Nat
        /\ Stored(date[w]) /\ row[date[w]].tokens \in Nat /\ copy[w].tokens \in Nat
    BY <2>1, ChangedTypes, CountedRow DEF RowsReached
  <2>3. Changed(w).tokens \in {copy[w].tokens, 0}
    BY DEF Changed, Row, NewRow
  <2>4. ASSUME NEW d \in Dates, d = date[w], d \notin resets'
        PROVE  Tokens(d)' <= Tokens(d)
    <3>1. d \notin resets
      BY <2>1, <2>4
    <3>2. copy[w].tokens <= row[d].tokens
      BY <2>1, <2>4, <3>1 DEF CopiesOld
    <3>3. Changed(w).tokens <= row[d].tokens
      BY <2>2, <2>3, <2>4, <3>2
    <3>4. row'[d] = Changed(w) /\ row'[d] # NoRow /\ row[d] # NoRow
      BY <2>1, <2>2, <2>4 DEF Stored
    <3>. QED BY <3>3, <3>4 DEF Tokens, Stored
  <2>5. \A d \in Dates : d # date[w] => Tokens(d)' = Tokens(d) /\ Tokens(d) \in Nat
    BY <2>1, TokenTypes DEF Tokens, Stored
  <2>6. pc'[w] \in {"idle", "clearCooldownRow"}
    BY <1>12, FinishShape, GotoShape DEF Save
  <2>7. ~Coming(pc'[w], job'[w], copy'[w])
    BY <2>6 DEF Coming
  <2>8. \A d \in Dates : d \notin resets' => Tokens(d)' <= Tokens(d)
    BY <2>4, <2>5
  <2>. QED BY <2>7, <2>8, NoneMorePending DEF NoneMore
<1>13. CASE ClearCooldownRow(w)
  <2>1. ~Coming(pc'[w], job'[w], copy'[w])
    BY <1>13, FinishShape DEF ClearCooldownRow, Coming
  <2>. QED BY <1>13, <2>1, QuietStep DEF ClearCooldownRow
<1>. QED BY <1>1, <1>2, <1>3, <1>4, <1>5, <1>6, <1>7, <1>8, <1>9, <1>10, <1>11,
            <1>12, <1>13 DEF WorkerStep

LEMMA LimitTick ==
  ASSUME StoreAssumption, TypeInv, RowsReached, LimitInv, Limit > 0, Tick
  PROVE  LimitInv'
<1>. DEFINE W == Cardinality(Workers)
            P == Cardinality(Pending)
<1>1. row' = row /\ resets' = resets /\ now' = now + 1 /\ Pending' = Pending
  BY DEF Tick, locals, Pending
<1>2. P \in Nat /\ W \in Nat /\ P <= W /\ Limit \in Nat
  BY PendingFinite DEF StoreAssumption
<1>3. /\ Date(now)' = Date(now + 1) /\ Date(now) \in Int /\ Date(now + 1) \in Int
      /\ Date(now) <= Date(now + 1)
  <2>1. now \in Int /\ now + 1 \in Int /\ now <= now + 1
    BY DEF TypeInv, TypeOK
  <2>2. Date(now)' = Date(now + 1)
    BY <1>1 DEF Date
  <2>. QED BY <2>1, <2>2, DateBounds, DateGrows
<1>4. ASSUME NEW d \in Dates, d \notin resets
      PROVE  /\ Tokens(d) < Limit + W
             /\ d = Date(now + 1) => Tokens(d) + P < Limit + W
  <2>1. Tokens(d) < Limit + W
    BY <1>4 DEF LimitInv
  <2>2. CASE d = Date(now)
    BY <1>4, <2>1, <2>2 DEF LimitInv
  <2>3. CASE d # Date(now) /\ d = Date(now + 1)
    <3>1. ~(d <= Date(now))
      BY <1>3, <2>3
    <3>2. Tokens(d) = 0
      BY <3>1 DEF RowsReached, Tokens
    <3>. HIDE DEF P, W
    <3>. QED BY <1>2, <2>1, <3>2
  <2>. QED BY <2>1, <2>2, <2>3
<1>5. \A d \in Dates : Tokens(d)' = Tokens(d)
  BY <1>1 DEF Tokens, Stored
<1>. QED BY <1>1, <1>3, <1>4, <1>5 DEF LimitInv

LEMMA LimitMove ==
  ASSUME StoreAssumption, TypeInv, TypeInv', LimitInv, Limit > 0,
         NEW w \in Workers, now' = now, resets \subseteq resets',
         NoneMore \/ OneAdmitted(w) \/ OneCounted(w)
  PROVE  LimitInv'
<1>. DEFINE W == Cardinality(Workers)
            P == Cardinality(Pending)
<1>1. /\ P \in Nat /\ W \in Nat /\ Limit \in Nat
      /\ IsFiniteSet(Pending) /\ IsFiniteSet(Pending')
      /\ Cardinality(Pending') \in Nat /\ Cardinality(Pending') <= W
  BY PendingFinite DEF StoreAssumption
<1>2. Date(now)' = Date(now)
  BY DEF Date
<1>3. \A d \in Dates : Tokens(d) \in Nat
  BY TokenTypes
<1>4. \A d \in Dates : Tokens(d)' \in Nat
  BY DEF TypeInv, TypeOK, Tokens, Stored, Row
<1>5. \A d \in Dates : d \notin resets' =>
        /\ Tokens(d) < Limit + W
        /\ d = Date(now) => Tokens(d) + P < Limit + W
  BY DEF LimitInv
<1>6. SUFFICES \A d \in Dates : d \notin resets' =>
                 /\ Tokens(d)' < Limit + W
                 /\ d = Date(now) => Tokens(d)' + Cardinality(Pending') < Limit + W
  BY <1>2 DEF LimitInv
<1>7. CASE NoneMore
  <2>1. Cardinality(Pending') <= P
    BY <1>1, <1>7, FS_Subset DEF NoneMore
  <2>. HIDE DEF P, W
  <2>2. ASSUME NEW d \in Dates, d \notin resets'
        PROVE  /\ Tokens(d)' < Limit + W
               /\ d = Date(now) => Tokens(d)' + Cardinality(Pending') < Limit + W
    <3>1. Tokens(d)' <= Tokens(d)
      BY <1>7, <2>2 DEF NoneMore
    <3>. QED BY <1>1, <1>3, <1>4, <1>5, <2>1, <2>2, <3>1
  <2>. QED BY <2>2
<1>8. CASE OneAdmitted(w)
  <2>. HIDE DEF P, W
  <2>1. ASSUME NEW d \in Dates, d \notin resets'
        PROVE  /\ Tokens(d)' < Limit + W
               /\ d = Date(now) => Tokens(d)' + Cardinality(Pending') < Limit + W
    <3>1. Tokens(d)' = Tokens(d)
      BY <1>8 DEF OneAdmitted
    <3>2. d = Date(now) => Tokens(d) < Limit
      BY <1>8 DEF OneAdmitted
    <3>. QED BY <1>1, <1>3, <1>5, <2>1, <3>1, <3>2
  <2>. QED BY <2>1
<1>9. CASE OneCounted(w)
  <2>1. /\ IsFiniteSet(Pending \ {w}) /\ Cardinality(Pending \ {w}) = P - 1
        /\ Pending' \subseteq Pending \ {w}
    BY <1>1, <1>9, FS_RemoveElement DEF OneCounted
  <2>2. Cardinality(Pending') <= P - 1
    BY <2>1, FS_Subset
  <2>. HIDE DEF P, W
  <2>3. ASSUME NEW d \in Dates, d \notin resets'
        PROVE  /\ Tokens(d)' < Limit + W
               /\ d = Date(now) => Tokens(d)' + Cardinality(Pending') < Limit + W
    <3>1. Tokens(d)' <= Tokens(d) + (IF d = Date(now) THEN 1 ELSE 0)
      BY <1>9 DEF OneCounted
    <3>2. CASE d = Date(now)
      <4>1. Tokens(d)' <= Tokens(d) + 1
        BY <3>1, <3>2
      <4>2. Tokens(d)' + Cardinality(Pending') < Limit + W
        BY <1>1, <1>3, <1>4, <1>5, <2>2, <2>3, <3>2, <4>1
      <4>3. Tokens(d)' < Limit + W
        BY <1>1, <1>4, <2>3, <4>2
      <4>. QED BY <4>2, <4>3
    <3>3. CASE d # Date(now)
      <4>1. Tokens(d)' <= Tokens(d)
        BY <1>3, <1>4, <2>3, <3>1, <3>3
      <4>2. Tokens(d)' < Limit + W
        BY <1>1, <1>3, <1>4, <1>5, <2>3, <4>1
      <4>. QED BY <3>3, <4>2
    <3>. QED BY <3>2, <3>3
  <2>. QED BY <2>3
<1>. QED BY <1>7, <1>8, <1>9

LEMMA LimitInit ==
  ASSUME StoreAssumption, Init
  PROVE  LimitInv
<1>1. Pending = {} /\ \A d \in Dates : Tokens(d) = 0
  BY DEF Init, Pending, Coming, Tokens, Stored
<1>2. Cardinality(Pending) = 0
  BY <1>1, FS_EmptySet
<1>3. Cardinality(Workers) \in Nat /\ Limit \in Nat
  BY PendingFinite DEF StoreAssumption
<1>. QED BY <1>1, <1>2, <1>3 DEF LimitInv

LEMMA LimitStep ==
  ASSUME StoreAssumption, StoreInv, StoreInv', LimitInv, [Next]_vars
  PROVE  LimitInv'
<1>. TypeInv /\ TypeInv' /\ RowsReached /\ CopiesOld
  BY DEF StoreInv
<1>1. CASE ~(Limit > 0)
  BY <1>1 DEF LimitInv
<1>2. CASE Limit > 0 /\ UNCHANGED vars
  <2>1. Pending' = Pending /\ Date(now)' = Date(now) /\ resets' = resets
    BY <1>2 DEF vars, locals, Pending, Date
  <2>2. \A d \in Dates : Tokens(d)' = Tokens(d)
    BY <1>2 DEF vars, Tokens, Stored
  <2>. QED BY <2>1, <2>2 DEF LimitInv
<1>3. CASE Limit > 0 /\ Tick
  BY <1>3, LimitTick
<1>4. ASSUME Limit > 0, NEW w \in Workers, WorkerStep(w)
      PROVE  LimitInv'
  <2>1. now' = now /\ resets \subseteq resets'
    BY <1>4, StepShape DEF Shape
  <2>2. NoneMore \/ OneAdmitted(w) \/ OneCounted(w)
    BY <1>4, StepCounts
  <2>. QED BY <1>4, <2>1, <2>2, LimitMove
<1>. QED BY <1>1, <1>2, <1>3, <1>4, StepCases

\* However many workers check the same row before any of them counts its token, a day's
\* tokens exceed the daily limit by less than the number of workers (LimitOvershoot).
THEOREM LimitHolds == Spec => []LimitOvershoot
<1>1. Init => StoreInv /\ LimitInv
  BY StoreInit, LimitInit, StoreAssumption
<1>2. StoreInv /\ LimitInv /\ [Next]_vars => (StoreInv /\ LimitInv)'
  BY StoreStep, LimitStep, StoreAssumption
<1>3. LimitInv => LimitOvershoot
  BY DEF LimitInv, LimitOvershoot, Tokens
<1>. QED BY <1>1, <1>2, <1>3, PTL DEF Spec

----------------------------------------------------------------------------
(* Counters. *)

Grown(new, old) ==
  /\ new.tokens >= old.tokens /\ new.requests >= old.requests
  /\ new.successes >= old.successes /\ new.errors >= old.errors

CountersKept == \A d \in Dates : Stored(d) => row'[d] # NoRow /\ Grown(row'[d], row[d])

LEMMA CountedGrows ==
  ASSUME NEW r \in Row
  PROVE  /\ Grown(r, r)
         /\ Grown([r EXCEPT !.tokens = @ + 1, !.requests = @ + 1], r)
         /\ Grown([r EXCEPT !.requests = @ + 1, !.errors = @ + 1], r)
         /\ Grown([r EXCEPT !.successes = @ + 1], r)
BY DEF Row, Grown

LEMMA RowsSame ==
  ASSUME StoreAssumption, TypeInv, row' = row
  PROVE  CountersKept
<1>1. \A d \in Dates : Stored(d) => row[d] \in Row
  BY DEF TypeInv, TypeOK, Stored
<1>. QED BY <1>1, CountedGrows DEF CountersKept, Stored

LEMMA AddGrows ==
  ASSUME StoreAssumption, TypeInv, NEW d \in Dates, NEW r, Add(d, r),
         Stored(d) => r \in Row /\ Grown(r, row[d])
  PROVE  CountersKept
<1>1. CASE ~Stored(d)
  BY <1>1, RowsSame DEF Add
<1>2. CASE Stored(d)
  <2>1. row'[d] = r /\ \A e \in Dates \ {d} : row'[e] = row[e]
    BY <1>2 DEF Add, TypeInv, TypeOK
  <2>2. r # NoRow /\ Grown(r, row[d])
    BY <1>2 DEF StoreAssumption
  <2>3. \A e \in Dates : Stored(e) => row[e] # NoRow /\ Grown(row[e], row[e])
    BY CountedGrows DEF TypeInv, TypeOK, Stored
  <2>4. \A e \in Dates : Stored(e) => row'[e] # NoRow /\ Grown(row'[e], row[e])
    BY <2>1, <2>2, <2>3, Zenon
  <2>. QED BY <2>4 DEF CountersKept
<1>. QED BY <1>1, <1>2

LEMMA CountersStep ==
  ASSUME StoreAssumption, TypeInv, NEW w \in Workers, WorkerStep(w), ~Save(w)
  PROVE  CountersKept
<1>. DEFINE d == Date(now)
<1>1. d \in Dates /\ \A e \in Dates : Stored(e) => row[e] \in Row
  BY Today DEF StoreAssumption, TypeInv, TypeOK, Stored
<1>2. CASE row' = row
  BY <1>2, RowsSame
<1>3. CASE Create(w)
  <2>1. /\ \A e \in Dates : row'[e] = IF e = date[w] THEN Inserted(e) ELSE row[e]
        /\ NoRow \notin Row
    BY <1>3 DEF Create, TypeInv, TypeOK, StoreAssumption
  <2>2. \A e \in Dates : Stored(e) => row'[e] = row[e]
    BY <2>1 DEF Inserted
  <2>3. \A e \in Dates : Stored(e) => row[e] # NoRow /\ Grown(row[e], row[e])
    BY <1>1, CountedGrows DEF Stored
  <2>4. \A e \in Dates : Stored(e) => row'[e] # NoRow /\ Grown(row'[e], row[e])
    BY <2>2, <2>3, Zenon
  <2>. QED BY <2>4 DEF CountersKept
<1>4. CASE Usage(w)
  <2>. DEFINE r == [row[d] EXCEPT !.tokens = @ + 1, !.requests = @ + 1]
  <2>1. Stored(d) => r \in Row /\ Grown(r, row[d])
    BY <1>1, RowTypes, CountedGrows
  <2>2. Add(d, r)
    BY <1>4 DEF Usage
  <2>. HIDE DEF d, r
  <2>. QED BY <1>1, <2>1, <2>2, AddGrows
<1>5. CASE Success(w)
  <2>. DEFINE r == [row[d] EXCEPT !.successes = @ + 1]
  <2>1. Stored(d) => r \in Row /\ Grown(r, row[d])
    BY <1>1, RowTypes, CountedGrows
  <2>2. Add(d, r)
    BY <1>5 DEF Success
  <2>. HIDE DEF d, r
  <2>. QED BY <1>1, <2>1, <2>2, AddGrows
<1>6. CASE Error(w)
  <2>. DEFINE r == [row[d] EXCEPT !.requests = @ + 1, !.errors = @ + 1]
  <2>1. Stored(d) => r \in Row /\ Grown(r, row[d])
    BY <1>1, RowTypes, CountedGrows
  <2>2. Add(d, r)
    BY <1>6 DEF Error
  <2>. HIDE DEF d, r
  <2>. QED BY <1>1, <2>1, <2>2, AddGrows
<1>7. CASE \/ BeginRequest(w) \/ Check(w) \/ Answer(w) \/ Verdict(w) \/ MarkExhausted(w)
           \/ SaveCooldown(w) \/ BeginJob(w) \/ ClearCooldownRow(w)
  <2>1. row' = row
    BY <1>7 DEF BeginRequest, Check, Answer, Verdict, MarkExhausted, SaveCooldown, BeginJob,
                ClearCooldownRow, Ensure
  <2>. QED BY <2>1, <1>2
<1>. QED BY <1>3, <1>4, <1>5, <1>6, <1>7 DEF WorkerStep

\* No statement but a save of the whole row takes a row or a count away, however many workers
\* insert the row of the day at once (CountersGrow).
THEOREM CountersOnlyGrow == Spec => CountersGrow
<1>. DEFINE A == (\A w \in Workers : ~Save(w)) =>
                   \A d \in Dates : Stored(d) =>
                     /\ row'[d] # NoRow
                     /\ row'[d].tokens >= row[d].tokens
                     /\ row'[d].requests >= row[d].requests
                     /\ row'[d].successes >= row[d].successes
                     /\ row'[d].errors >= row[d].errors
<1>1. Init => TypeInv
  BY TypeInit, StoreAssumption
<1>2. TypeInv /\ [Next]_vars => TypeInv'
  BY TypeStep, StoreAssumption
<1>3. TypeInv /\ [Next]_vars => [A]_vars
  <2>1. SUFFICES ASSUME TypeInv, Next, \A w \in Workers : ~Save(w)
                 PROVE  CountersKept
    BY DEF CountersKept, Grown
  <2>2. CASE Tick
    BY <2>1, <2>2, RowsSame, StoreAssumption DEF Tick
  <2>3. ASSUME NEW w \in Workers, WorkerStep(w)
        PROVE  CountersKept
    BY <2>1, <2>3, CountersStep, StoreAssumption
  <2>4. Next => Tick \/ \E w \in Workers : WorkerStep(w)
    BY DEF Next, WorkerStep
  <2>. QED BY <2>1, <2>2, <2>3, <2>4
<1>. HIDE DEF A
<1>4. Spec => [][A]_vars
  BY <1>1, <1>2, <1>3, PTL DEF Spec
<1>. QED BY <1>4 DEF A, CountersGrow
=============================================================================
