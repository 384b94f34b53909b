---------------------------- MODULE Billing_proofs ----------------------------
(***************************************************************************)
(* Theorems about what the text requests of a user do to the two balances,  *)
(* for any number of requests, attempts and settlements, any estimates and  *)
(* any charges.                                                            *)
(*                                                                         *)
(* What requests hold and settlements owe is a sum over sets of any size.   *)
(* A sum is stated by its partial sums along a numbering of the set, so one *)
(* summand can be changed without computing the others, and what needs an   *)
(* induction takes the least index that contradicts it.                     *)
(***************************************************************************)
EXTENDS Billing, FiniteSetTheorems, FunctionTheorems, TLAPS

----------------------------------------------------------------------------
(* Sums over finite sets. *)

\* s is the sum of h[x] for x in S.
IsSum(s, h, S) ==
  \E e \in Bijection(1 .. Cardinality(S), S), g \in [0 .. Cardinality(S) -> Int] :
    /\ g[0] = 0 /\ g[Cardinality(S)] = s
    /\ \A i \in 1 .. Cardinality(S) : g[i] = g[i - 1] + h[e[i]]

\* n is the sum of f over S and of g over T.
Total(n, f, S, g, T) ==
  \E a, b \in Int : IsSum(a, f, S) /\ IsSum(b, g, T) /\ n = a + b

LEMMA Least ==
  ASSUME NEW T \in SUBSET Nat, T # {}
  PROVE  \E x \in T : \A y \in T : x <= y
<1>. DEFINE R == OpToRel(<, Nat)
<1>1. IsWellFoundedOn(R, Nat)
  BY NatLessThanWellFounded
<1>2. \A x, y \in Nat : y < x => <<y, x>> \in R
  BY DEF OpToRel
<1>. HIDE DEF R
<1>3. PICK x \in T : \A y \in T : ~ (<<y, x>> \in R)
  BY <1>1, WFMin
<1>4. \A y \in T : x \in Nat /\ y \in Nat /\ ~(y < x)
  BY <1>2, <1>3
<1>5. \A y \in T : x <= y
  BY <1>4
<1>. QED BY <1>3, <1>5

LEMMA Numbered ==
  ASSUME NEW S, IsFiniteSet(S), NEW e \in Bijection(1 .. Cardinality(S), S)
  PROVE  /\ \A i \in 1 .. Cardinality(S) : e[i] \in S
         /\ \A i, j \in 1 .. Cardinality(S) : e[i] = e[j] => i = j
         /\ \A x \in S : \E i \in 1 .. Cardinality(S) : e[i] = x
BY DEF Bijection, Injection, Surjection, IsInjective

LEMMA Numbering ==
  ASSUME NEW S, IsFiniteSet(S)
  PROVE  /\ Cardinality(S) \in Nat
         /\ Bijection(1 .. Cardinality(S), S) # {}
         /\ \A e \in Bijection(1 .. Cardinality(S), S) :
              \A i \in 1 .. Cardinality(S) : e[i] \in S
<1>1. Cardinality(S) \in Nat /\ ExistsBijection(1 .. Cardinality(S), S)
  BY FS_CardinalityType
<1>2. Bijection(1 .. Cardinality(S), S) # {}
  BY <1>1 DEF ExistsBijection
<1>. QED BY <1>1, <1>2, Numbered

LEMMA SumOfZeros ==
  ASSUME NEW S, IsFiniteSet(S), NEW h, \A x \in S : h[x] = 0
  PROVE  /\ IsSum(0, h, S)
         /\ \A s : IsSum(s, h, S) => s = 0
<1>. DEFINE n == Cardinality(S)
<1>1. n \in Nat /\ Bijection(1 .. n, S) # {}
  BY Numbering
<1>2. \A e \in Bijection(1 .. n, S) : \A i \in 1 .. n : e[i] \in S
  BY Numbering
<1>. HIDE DEF n
<1>3. IsSum(0, h, S)
  <2>1. PICK e \in Bijection(1 .. n, S) : TRUE
    BY <1>1
  <2>. DEFINE g == [i \in 0 .. n |-> 0]
  <2>2. g \in [0 .. n -> Int] /\ g[0] = 0 /\ g[n] = 0
    BY <1>1
  <2>3. \A i \in 1 .. n : g[i] = g[i - 1] + h[e[i]]
    BY <1>1, <1>2
  <2>. HIDE DEF g
  <2>. QED BY <2>2, <2>3 DEF IsSum, n
<1>4. ASSUME NEW s, IsSum(s, h, S)
      PROVE  s = 0
  <2>1. PICK e \in Bijection(1 .. n, S), g \in [0 .. n -> Int] :
          /\ g[0] = 0 /\ g[n] = s
          /\ \A i \in 1 .. n : g[i] = g[i - 1] + h[e[i]]
    BY <1>4 DEF IsSum, n
  <2>. DEFINE Bad == {i \in 0 .. n : g[i] # 0}
  <2>2. Bad = {}
    <3>1. SUFFICES ASSUME Bad # {} PROVE FALSE
      OBVIOUS
    <3>2. PICK i \in Bad : \A j \in Bad : i <= j
      <4>1. Bad \in SUBSET Nat
        BY <1>1
      <4>. HIDE DEF Bad
      <4>. QED BY <3>1, <4>1, Least
    <3>3. i \in 1 .. n
      BY <2>1, <3>2, <1>1
    <3>4. i - 1 \in 0 .. n /\ i - 1 \notin Bad
      BY <3>2, <3>3, <1>1
    <3>5. g[i - 1] = 0 /\ h[e[i]] = 0
      BY <3>3, <3>4, <1>2
    <3>. QED BY <2>1, <3>2, <3>3, <3>5
  <2>3. n \in 0 .. n
    BY <1>1
  <2>. QED BY <2>1, <2>2, <2>3
<1>. QED BY <1>3, <1>4

\* Changing one summand changes the sum by the difference.
LEMMA SumChanges ==
  ASSUME NEW S, IsFiniteSet(S), NEW h \in [S -> Int], NEW k \in [S -> Int],
         NEW x \in S, \A y \in S : y # x => k[y] = h[y],
         NEW s, IsSum(s, h, S)
  PROVE  IsSum(s + k[x] - h[x], k, S)
<1>. DEFINE n == Cardinality(S)
<1>1. n \in Nat
  BY Numbering
<1>2. PICK e \in Bijection(1 .. n, S), g \in [0 .. n -> Int] :
        /\ g[0] = 0 /\ g[n] = s
        /\ \A i \in 1 .. n : g[i] = g[i - 1] + h[e[i]]
  BY DEF IsSum
<1>3. /\ \A i \in 1 .. n : e[i] \in S
      /\ \A i, j \in 1 .. n : e[i] = e[j] => i = j
      /\ \E i \in 1 .. n : e[i] = x
  BY Numbered
<1>. HIDE DEF n
<1>4. PICK j \in 1 .. n : e[j] = x
  BY <1>3
<1>. DEFINE d == k[x] - h[x]
            f == [i \in 0 .. n |-> IF i < j THEN g[i] ELSE g[i] + d]
<1>5. d \in Int /\ k[x] = h[x] + d
  OBVIOUS
<1>. HIDE DEF d
<1>6. f \in [0 .. n -> Int] /\ f[0] = 0 /\ f[n] = s + d
  BY <1>1, <1>2, <1>4, <1>5
<1>7. ASSUME NEW i \in 1 .. n
      PROVE  f[i] = f[i - 1] + k[e[i]]
  <2>1. i \in 0 .. n /\ i - 1 \in 0 .. n /\ g[i] \in Int /\ g[i - 1] \in Int
    BY <1>1
  <2>2. g[i] = g[i - 1] + h[e[i]] /\ h[e[i]] \in Int
    BY <1>2, <1>3
  <2>3. CASE i = j
    BY <1>4, <1>5, <2>1, <2>2, <2>3
  <2>4. CASE i # j
    <3>1. k[e[i]] = h[e[i]]
      BY <1>3, <1>4, <2>4
    <3>2. i < j <=> i - 1 < j
      BY <1>1, <2>4
    <3>3. f[i] = (IF i < j THEN g[i] ELSE g[i] + d)
          /\ f[i - 1] = (IF i - 1 < j THEN g[i - 1] ELSE g[i - 1] + d)
      BY <2>1
    <3>. HIDE DEF f
    <3>. QED BY <1>5, <2>1, <2>2, <3>1, <3>2, <3>3
  <2>. QED BY <2>3, <2>4
<1>. HIDE DEF f
<1>8. s \in Int /\ s + k[x] - h[x] = s + d
  <2>1. s \in Int
    BY <1>1, <1>2
  <2>. QED BY <1>5, <2>1
<1>9. IsSum(s + d, k, S)
  BY <1>6, <1>7 DEF IsSum, n
<1>. QED BY <1>8, <1>9

\* Summands of at most D on A, and not positive elsewhere.
LEMMA SumAtMost ==
  ASSUME NEW S, IsFiniteSet(S), NEW A \in SUBSET S, NEW D \in Nat,
         NEW h \in [S -> Int],
         \A x \in A : h[x] <= D, \A x \in S \ A : h[x] <= 0,
         NEW s, IsSum(s, h, S)
  PROVE  s <= Cardinality(A) * D
<1>. DEFINE n == Cardinality(S)
<1>1. n \in Nat
  BY Numbering
<1>2. PICK e \in Bijection(1 .. n, S), g \in [0 .. n -> Int] :
        /\ g[0] = 0 /\ g[n] = s
        /\ \A i \in 1 .. n : g[i] = g[i - 1] + h[e[i]]
  BY DEF IsSum
<1>3. /\ \A i \in 1 .. n : e[i] \in S
      /\ \A i, j \in 1 .. n : e[i] = e[j] => i = j
      /\ \A x \in S : \E i \in 1 .. n : e[i] = x
  BY Numbered
<1>. HIDE DEF n
<1>. DEFINE First(i) == {x \in A : \E j \in 1 .. i : e[j] = x}
            c(i) == Cardinality(First(i))
            Bad == {i \in 0 .. n : ~(g[i] <= c(i) * D)}
<1>4. \A i : IsFiniteSet(First(i)) /\ c(i) \in Nat
  BY FS_Subset, FS_CardinalityType
<1>5. Bad = {}
  <2>1. SUFFICES ASSUME Bad # {} PROVE FALSE
    OBVIOUS
  <2>2. PICK i \in Bad : \A j \in Bad : i <= j
    <3>1. Bad \in SUBSET Nat
      BY <1>1
    <3>. HIDE DEF Bad
    <3>. QED BY <2>1, <3>1, Least
  <2>3. i # 0
    <3>1. c(0) \in Nat /\ g[0] = 0
      BY <1>2, <1>4
    <3>2. g[0] <= c(0) * D
      <4>. HIDE DEF c
      <4>. QED BY <3>1
    <3>. HIDE DEF c
    <3>. QED BY <2>2, <3>2
  <2>4. i \in 1 .. n /\ i - 1 \in 0 .. n
    <3>. HIDE DEF c
    <3>. QED BY <1>1, <2>2, <2>3
  <2>5. g[i - 1] <= c(i - 1) * D
    <3>1. i - 1 \notin Bad
      <4>. HIDE DEF Bad
      <4>. QED BY <1>1, <2>2, <2>4
    <3>. HIDE DEF c
    <3>. QED BY <2>4, <3>1
  <2>6. First(i) = IF e[i] \in A THEN First(i - 1) \cup {e[i]} ELSE First(i - 1)
    <3>1. \A j : j \in 1 .. i <=> j \in 1 .. (i - 1) \/ j = i
      BY <1>1, <2>4
    <3>. QED BY <3>1
  <2>7. e[i] \notin First(i - 1)
    <3>1. \A j \in 1 .. (i - 1) : j \in 1 .. n /\ j # i
      BY <1>1, <2>4
    <3>. QED BY <1>3, <2>4, <3>1
  <2>8. c(i) = IF e[i] \in A THEN c(i - 1) + 1 ELSE c(i - 1)
    <3>1. IsFiniteSet(First(i - 1))
      BY <1>4
    <3>. HIDE DEF First
    <3>. QED BY <2>6, <2>7, <3>1, FS_AddElement
  <2>9. g[i] <= c(i) * D
    <3>1. /\ c(i - 1) \in Nat /\ g[i - 1] \in Int /\ g[i] = g[i - 1] + h[e[i]]
          /\ h[e[i]] \in Int /\ h[e[i]] <= (IF e[i] \in A THEN D ELSE 0)
      <4>1. c(i - 1) \in Nat
        BY <1>4
      <4>2. e[i] \in S
        BY <1>3, <2>4
      <4>. HIDE DEF c
      <4>. QED BY <1>2, <2>4, <4>1, <4>2
    <3>. HIDE DEF c
    <3>2. \A m \in Nat : (m + 1) * D = m * D + D /\ m * D \in Nat
      OBVIOUS
    <3>3. c(i - 1) * D \in Nat /\ (c(i - 1) + 1) * D = c(i - 1) * D + D
      BY <3>1, <3>2
    <3>. QED BY <2>5, <2>8, <3>1, <3>3
  <2>10. ~(g[i] <= c(i) * D)
    <3>. HIDE DEF c
    <3>. QED BY <2>2
  <2>. QED BY <2>9, <2>10
<1>6. First(n) = A
  BY <1>3
<1>7. n \in 0 .. n /\ n \notin Bad
  <2>. HIDE DEF Bad
  <2>. QED BY <1>1, <1>5
<1>8. g[n] <= c(n) * D
  <2>. HIDE DEF c
  <2>. QED BY <1>7
<1>. QED BY <1>2, <1>6, <1>8

LEMMA Transfer ==
  ASSUME NEW S, IsFiniteSet(S), NEW T, IsFiniteSet(T),
         NEW f \in [S -> Int], NEW f2 \in [S -> Int],
         NEW g \in [T -> Int], NEW g2 \in [T -> Int],
         NEW r \in S, \A q \in S : q # r => f2[q] = f[q],
         NEW t \in T, \A u \in T : u # t => g2[u] = g[u],
         NEW n, Total(n, f, S, g, T)
  PROVE  n \in Int /\ Total(n + (f2[r] - f[r]) + (g2[t] - g[t]), f2, S, g2, T)
<1>1. PICK a \in Int, b \in Int : IsSum(a, f, S) /\ IsSum(b, g, T) /\ n = a + b
  BY DEF Total
<1>2. IsSum(a + f2[r] - f[r], f2, S)
  BY <1>1, SumChanges
<1>3. IsSum(b + g2[t] - g[t], g2, T)
  BY <1>1, SumChanges
<1>4. /\ f2[r] \in Int /\ f[r] \in Int /\ g2[t] \in Int /\ g[t] \in Int
      /\ n + (f2[r] - f[r]) + (g2[t] - g[t])
           = (a + f2[r] - f[r]) + (b + g2[t] - g[t])
  BY <1>1
<1>. QED BY <1>1, <1>2, <1>3, <1>4 DEF Total

LEMMA TotalOfZeros ==
  ASSUME NEW S, IsFiniteSet(S), NEW T, IsFiniteSet(T),
         NEW f, \A x \in S : f[x] = 0, NEW g, \A x \in T : g[x] = 0
  PROVE  /\ Total(0, f, S, g, T)
         /\ \A n : Total(n, f, S, g, T) => n = 0
<1>1. IsSum(0, f, S) /\ \A s : IsSum(s, f, S) => s = 0
  BY SumOfZeros
<1>2. IsSum(0, g, T) /\ \A s : IsSum(s, g, T) => s = 0
  BY SumOfZeros
<1>. QED BY <1>1, <1>2 DEF Total

LEMMA TotalAtMost ==
  ASSUME NEW S, IsFiniteSet(S), NEW T, IsFiniteSet(T), NEW D \in Nat,
         NEW f \in [S -> Int], NEW A \in SUBSET S,
         \A x \in A : f[x] <= D, \A x \in S \ A : f[x] <= 0,
         NEW g \in [T -> Int], NEW B \in SUBSET T,
         \A x \in B : g[x] <= D, \A x \in T \ B : g[x] <= 0,
         NEW n, Total(n, f, S, g, T)
  PROVE  n \in Int /\ n <= (Cardinality(A) + Cardinality(B)) * D
<1>1. PICK a \in Int, b \in Int : IsSum(a, f, S) /\ IsSum(b, g, T) /\ n = a + b
  BY DEF Total
<1>2. a <= Cardinality(A) * D
  BY <1>1, SumAtMost
<1>3. b <= Cardinality(B) * D
  BY <1>1, SumAtMost
<1>4. Cardinality(A) \in Nat /\ Cardinality(B) \in Nat
  BY FS_Subset, FS_CardinalityType
<1>5. \A i, j \in Nat : (i + j) * D = i * D + j * D /\ i * D \in Nat /\ j * D \in Nat
  OBVIOUS
<1>. QED BY <1>1, <1>2, <1>3, <1>4, <1>5

----------------------------------------------------------------------------
(* Types. *)

Tasks == Requests \X (1 .. MaxAttempts)

\* The settlement that the attempt a request is in would start.
Own(r) == <<r, attempt[r]>>

LEMMA MaxOfTwo ==
  ASSUME NEW a \in Nat, NEW b \in Nat
  PROVE  Max({a, b}) \in Nat /\ Max({a, b}) >= a /\ Max({a, b}) >= b
<1>1. \E x \in {a, b} : \A y \in {a, b} : x >= y
  OBVIOUS
<1>. QED BY <1>1 DEF Max

LEMMA ConstantsHold == ConstantsOK
BY BillingAssumption DEF BillingAssumption

LEMMA FiniteBooks ==
  ASSUME ConstantsOK
  PROVE  IsFiniteSet(Requests) /\ IsFiniteSet(Tasks)
<1>1. IsFiniteSet(1 .. MaxAttempts)
  BY FS_Interval DEF ConstantsOK
<1>. QED BY <1>1, FS_Product DEF ConstantsOK, Tasks

LEMMA AttemptStep ==
  ASSUME ConstantsOK, TypeOK, NEW r \in Requests, Attempt(r)
  PROVE  /\ peak' \in Nat /\ peak' >= peak
         /\ Cardinality(Open \cup {r}) \in Nat /\ Cardinality(Unsettled) \in Nat
         /\ peak' >= Cardinality(Open \cup {r}) + Cardinality(Unsettled)
<1>1. IsFiniteSet(Open \cup {r}) /\ IsFiniteSet(Unsettled)
  <2>1. Open \cup {r} \in SUBSET Requests /\ Unsettled \in SUBSET Tasks
    BY DEF Open, Unsettled, Tasks, TypeOK
  <2>. QED BY <2>1, FiniteBooks, FS_Subset
<1>. DEFINE n == Cardinality(Open \cup {r}) + Cardinality(Unsettled)
<1>2. n \in Nat /\ Cardinality(Open \cup {r}) \in Nat /\ Cardinality(Unsettled) \in Nat
  BY <1>1, FS_CardinalityType
<1>3. peak' = Max({peak, n}) /\ peak \in Nat
  BY DEF Attempt, TypeOK
<1>. HIDE DEF n
<1>4. Max({peak, n}) \in Nat /\ Max({peak, n}) >= peak /\ Max({peak, n}) >= n
  BY <1>2, <1>3, MaxOfTwo
<1>. QED BY <1>2, <1>3, <1>4 DEF n

\* What an account comes to once the updater has written everything.
Eff(k) == balance[k] + buffer[k] + (IF taken # Missing /\ due = k THEN taken ELSE 0)

LEMMA AddStep ==
  ASSUME ConstantsOK, TypeOK, NEW k \in Accounts, NEW v \in Int, Add(k, v)
  PROVE  /\ balance' \in [Accounts -> Int] /\ buffer' \in [Accounts -> Int]
         /\ status' = status /\ due' = due /\ taken' = taken
         /\ \A a \in Accounts :
              /\ Eff(a) \in Int
              /\ Eff(a)' = Eff(a) + (IF a = k THEN v ELSE 0)
         /\ ~Batch => \A a \in Accounts :
              balance'[a] = balance[a] + (IF a = k THEN v ELSE 0)
<1>1. CASE Batch
  BY <1>1 DEF Add, TypeOK, Eff, Quota, ConstantsOK
<1>2. CASE ~Batch
  BY <1>2 DEF Add, TypeOK, Eff, Quota, ConstantsOK
<1>. QED BY <1>1, <1>2

LEMMA SpawnStep ==
  ASSUME ConstantsOK, TypeOK, NEW r \in Requests,
         NEW d \in Int, NEW c \in Charges \cup {Missing}, Spawn(r, d, c)
  PROVE  /\ Own(r) \in Tasks
         /\ tasks' = [tasks EXCEPT ![Own(r)] =
                        [at |-> "user", delta |-> d, charge |-> c, seen |-> 0]]
         /\ tasks' \in [Tasks -> [at : {"idle", "user", "token", "refresh", "keep", "used"},
                   delta : Int, charge : Charges \union {Missing}, seen : Int]]
<1>1. Own(r) \in Tasks
  BY DEF Own, Tasks, TypeOK
<1>2. tasks' = [tasks EXCEPT ![Own(r)] =
                  [at |-> "user", delta |-> d, charge |-> c, seen |-> 0]]
  BY DEF Spawn, Own
<1>. QED BY <1>1, <1>2 DEF TypeOK, Tasks

LEMMA Amounts ==
  ASSUME ConstantsOK, TypeOK, NEW r \in Requests
  PROVE  /\ pre[r] \in Nat /\ held[r] \in Nat /\ seen[r] \in Int
         /\ -pre[r] \in Int /\ -held[r] \in Int
<1>1. pre \in [Requests -> Estimates \union {0}] /\ held \in [Requests -> Estimates \union {0}]
      /\ seen \in [Requests -> Int]
  BY DEF TypeOK
<1>2. Estimates \union {0} \subseteq Nat
  BY DEF ConstantsOK
<1>3. pre[r] \in Nat /\ held[r] \in Nat /\ seen[r] \in Int
  BY <1>1, <1>2
<1>. QED BY <1>3

LEMMA UpstreamSteps ==
  ASSUME NEW r \in Requests, Upstream(r)
  PROVE  /\ UNCHANGED <<books, redis, attempt, pre, held, seen, edits, granted, peak>>
         /\ \/ /\ pc[r] = "upstream" /\ pc' = [pc EXCEPT ![r] = "failed"] /\ Keep(r)
            \/ /\ pc[r] = "upstream" /\ pc' = [pc EXCEPT ![r] = "served"] /\ Keep(r)
            \/ /\ pc[r] \in {"upstream", "deferred"}
               /\ pc' = [pc EXCEPT ![r] = "failed"] /\ Refund(r) /\ UNCHANGED kept
            \/ /\ pc[r] \in {"upstream", "deferred"}
               /\ pc' = [pc EXCEPT ![r] = "served"] /\ UNCHANGED kept
               /\ \E c \in Charges : Commit(r, c)
            \/ /\ pc[r] = "upstream" /\ pc' = [pc EXCEPT ![r] = "deferred"]
               /\ UNCHANGED <<tasks, kept>>
BY DEF Upstream, Unsent, NoUsage, Failed, Answered, Defer, Accept, Reject, Goto

LEMMA EnterStep ==
  ASSUME ConstantsOK, TypeOK, NEW r \in Requests, Enter(r)
  PROVE  pc' = [pc EXCEPT ![r] = "ask"] /\ Attempt(r) /\ peak' \in Nat
BY AttemptStep DEF Enter, Goto

\* A step of a request leaves the others and their settlements alone.
LEMMA RequestFrame ==
  ASSUME ConstantsOK, TypeOK, NEW r \in Requests, RequestStep(r)
  PROVE  /\ \A q \in Requests : q # r =>
              /\ pc'[q] = pc[q] /\ attempt'[q] = attempt[q] /\ pre'[q] = pre[q]
              /\ held'[q] = held[q] /\ seen'[q] = seen[q]
         /\ \A u \in Tasks : u # Own(r) => tasks'[u] = tasks[u]
         /\ edits' = edits /\ granted' = granted
<1>1. ASSUME Upstream(r)
      PROVE  /\ \A q \in Requests : q # r =>
                  /\ pc'[q] = pc[q] /\ attempt'[q] = attempt[q] /\ pre'[q] = pre[q]
                  /\ held'[q] = held[q] /\ seen'[q] = seen[q]
             /\ \A u \in Tasks : u # Own(r) => tasks'[u] = tasks[u]
             /\ edits' = edits /\ granted' = granted
  <2>1. UNCHANGED <<attempt, pre, held, seen, edits, granted>>
    BY <1>1, UpstreamSteps
  <2>2. \A q \in Requests : q # r => pc'[q] = pc[q]
    BY <1>1, UpstreamSteps DEF TypeOK
  <2>3. \A u \in Tasks : u # Own(r) => tasks'[u] = tasks[u]
    <3>1. \/ UNCHANGED tasks
          \/ \E d, c : Spawn(r, d, c)
      BY <1>1, UpstreamSteps DEF Keep, Refund, Commit
    <3>. QED BY <3>1 DEF Spawn, Own, TypeOK, Tasks
  <2>. QED BY <2>1, <2>2, <2>3
<1>2. CASE AuthFromRow(r) \/ AuthFromCache(r) \/ KeepToken(r)
  BY <1>2 DEF AuthFromRow, AuthFromCache, KeepToken, Judge, Enter, Goto, TypeOK
<1>3. CASE MarkExhausted(r) \/ AuthReload(r) \/ Again(r) \/ GiveUp(r)
  BY <1>3 DEF MarkExhausted, AuthReload, Again, GiveUp, Goto, TypeOK
<1>4. CASE Ask(r) \/ KeepQuota(r) \/ Decide(r) \/ CheckToken(r) \/ CheckUser(r)
  BY <1>4 DEF Ask, KeepQuota, Decide, CheckToken, CheckUser, Goto, TypeOK
<1>5. CASE TakeToken(r) \/ TakeUser(r)
  BY <1>5 DEF TakeToken, TakeUser, Goto, TypeOK
<1>. QED BY <1>1, <1>2, <1>3, <1>4, <1>5 DEF RequestStep

TaskType == [at : {"idle", "user", "token", "refresh", "keep", "used"},
             delta : Int, charge : Charges \union {Missing}, seen : Int]

LEMMA TypeUpstream ==
  ASSUME ConstantsOK, TypeOK, NEW r \in Requests, Upstream(r)
  PROVE  TypeOK'
<1>. USE DEF TaskType
<1>1. UNCHANGED <<books, redis, attempt, pre, held, seen, edits, granted, peak>>
  BY UpstreamSteps
<1>2. pc' \in [Requests -> Ended \union {"new", "exhaust", "keepToken", "ask", "keepQuota",
               "decide", "checkToken", "checkUser", "takeToken", "takeUser", "upstream",
               "deferred", "failed"}]
  BY UpstreamSteps DEF TypeOK, Ended
<1>3. held[r] \in Nat
  BY Amounts
<1>4. kept' \in [{"user", "token"} -> Nat] /\ tasks' \in [Tasks -> TaskType]
  <2>1. CASE Keep(r)
    BY <1>3, <2>1 DEF Keep, TypeOK, Tasks
  <2>2. CASE Refund(r) /\ UNCHANGED kept
    <3>1. -held[r] \in Int
      BY <1>3
    <3>. QED BY <2>2, <3>1, SpawnStep DEF Refund, TypeOK, Tasks
  <2>3. ASSUME UNCHANGED kept, NEW c \in Charges, Commit(r, c)
        PROVE  kept' \in [{"user", "token"} -> Nat] /\ tasks' \in [Tasks -> TaskType]
    <3>1. c - held[r] \in Int
      BY <1>3 DEF ConstantsOK
    <3>. QED BY <2>3, <3>1, SpawnStep DEF Commit, TypeOK, Tasks
  <2>4. CASE UNCHANGED <<tasks, kept>>
    BY <2>4 DEF TypeOK, Tasks
  <2>. QED BY <2>1, <2>2, <2>3, <2>4, UpstreamSteps
<1>. QED BY <1>1, <1>2, <1>4 DEF TypeOK, books, redis, Tasks

LEMMA TypeRequest ==
  ASSUME ConstantsOK, TypeOK, NEW r \in Requests, RequestStep(r)
  PROVE  TypeOK'
<1>. USE DEF ConstantsOK
<1>1. CASE AuthFromRow(r)
  BY <1>1, EnterStep DEF AuthFromRow, Goto, TypeOK, Ended, books, redis
<1>2. CASE MarkExhausted(r)
  BY <1>2 DEF MarkExhausted, Goto, TypeOK, Ended, books, redis
<1>3. CASE AuthFromCache(r)
  BY <1>3, EnterStep DEF AuthFromCache, Judge, Goto, TypeOK, Ended, books, redis
<1>4. CASE AuthReload(r)
  BY <1>4 DEF AuthReload, Goto, TypeOK, Ended, Accounts, books, redis
<1>5. CASE KeepToken(r)
  <2>1. cachedToken' \in Int \cup {Missing} /\ UNCHANGED <<books, cachedQuota>>
    BY <1>5 DEF KeepToken, TypeOK, Quota
  <2>2. \/ pc' = [pc EXCEPT ![r] = "refused"] /\ UNCHANGED <<peak, attempt>>
        \/ pc' = [pc EXCEPT ![r] = "ask"] /\ peak' \in Nat
    BY <1>5, EnterStep DEF KeepToken, Judge, Goto
  <2>3. UNCHANGED <<books, cachedQuota, attempt, pre, held, seen, tasks, edits, granted, kept>>
    BY <1>5 DEF KeepToken
  <2>. QED BY <2>1, <2>2, <2>3 DEF TypeOK, Ended, books, Quota
<1>6. CASE Ask(r)
  <2>1. PICK p \in Estimates :
          /\ pre' = [pre EXCEPT ![r] = p] /\ held' = [held EXCEPT ![r] = 0]
          /\ \E to \in {"keepQuota", "decide"} : pc' = [pc EXCEPT ![r] = to]
          /\ \E v \in Int : seen' = [seen EXCEPT ![r] = v]
          /\ UNCHANGED <<books, redis, attempt, tasks, edits, granted, peak, kept>>
    <3>1. balance["user"] \in Int /\ (cachedQuota # Missing => cachedQuota \in Int)
      BY DEF TypeOK, Accounts, Quota
    <3>. QED BY <1>6, <3>1 DEF Ask, Goto, Current
  <2>. QED BY <2>1 DEF TypeOK, books, redis
<1>7. CASE KeepQuota(r)
  BY <1>7 DEF KeepQuota, Goto, TypeOK, books, Quota
<1>8. CASE Decide(r)
  <2>1. pre[r] \in Nat
    BY Amounts
  <2>2. cachedQuota' \in Quota
    BY <1>8, <2>1 DEF Decide, CacheDecrease, Quota, TypeOK
  <2>3. \E to \in {"failed", "upstream", "checkToken"} : pc' = [pc EXCEPT ![r] = to]
    BY <1>8 DEF Decide, Goto
  <2>. QED BY <1>8, <2>2, <2>3 DEF Decide, TypeOK, books
<1>9. CASE CheckToken(r)
  BY <1>9 DEF CheckToken, Goto, TypeOK, books, redis
<1>10. CASE CheckUser(r)
  BY <1>10 DEF CheckUser, Goto, TypeOK, books, redis
<1>11. CASE TakeToken(r)
  <2>1. -pre[r] \in Int /\ "token" \in Accounts
    BY Amounts DEF Accounts
  <2>2. CASE Add("token", -pre[r])
    BY <1>11, <2>1, <2>2, AddStep DEF TakeToken, Goto, TypeOK, books, redis
  <2>3. CASE UNCHANGED books
    BY <1>11, <2>3 DEF TakeToken, Goto, TypeOK, books, redis
  <2>. QED BY <1>11, <2>2, <2>3 DEF TakeToken
<1>12. CASE TakeUser(r)
  <2>1. -pre[r] \in Int /\ "user" \in Accounts /\ pre[r] \in Nat
    BY Amounts DEF Accounts
  <2>2. CASE /\ Add("user", -pre[r]) /\ held' = [held EXCEPT ![r] = pre[r]]
             /\ UNCHANGED kept /\ pc' = [pc EXCEPT ![r] = "upstream"]
    BY <1>12, <2>1, <2>2, AddStep DEF TakeUser, TypeOK, redis
  <2>3. CASE /\ UNCHANGED <<books, held>> /\ kept' = [kept EXCEPT !.token = @ + pre[r]]
             /\ pc' = [pc EXCEPT ![r] = "failed"]
    BY <1>12, <2>1, <2>3 DEF TakeUser, TypeOK, books, redis
  <2>. QED BY <1>12, <2>2, <2>3 DEF TakeUser, Goto
<1>13. CASE Upstream(r)
  BY <1>13, TypeUpstream
<1>14. CASE Again(r)
  <2>1. attempt[r] + 1 \in 1 .. MaxAttempts
    BY <1>14 DEF Again, TypeOK
  <2>2. peak' \in Nat
    BY <1>14, AttemptStep DEF Again
  <2>3. attempt' \in [Requests -> 1 .. MaxAttempts]
    BY <1>14, <2>1 DEF Again, TypeOK
  <2>. QED BY <1>14, <2>2, <2>3 DEF Again, Goto, TypeOK, books, redis
<1>15. CASE GiveUp(r)
  BY <1>15 DEF GiveUp, Goto, TypeOK, Ended, books, redis
<1>. QED BY <1>1, <1>2, <1>3, <1>4, <1>5, <1>6, <1>7, <1>8, <1>9, <1>10, <1>11,
            <1>12, <1>13, <1>14, <1>15 DEF RequestStep

LEMMA TypeTask ==
  ASSUME ConstantsOK, TypeOK, NEW t \in Tasks, TaskStep(t)
  PROVE  TypeOK'
<1>. DEFINE At == {"idle", "user", "token", "refresh", "keep", "used"}
<1>1. /\ tasks \in [Tasks -> TaskType] /\ tasks[t] \in TaskType
      /\ tasks[t].delta \in Int /\ -tasks[t].delta \in Int
  BY DEF TypeOK, Tasks, TaskType
<1>2. ASSUME NEW to \in At, tasks' = [tasks EXCEPT ![t].at = to]
      PROVE  tasks' \in [Tasks -> TaskType]
  BY <1>1, <1>2 DEF TaskType
<1>3. Idle \in TaskType
  BY DEF Idle, TaskType
<1>4. "user" \in Accounts /\ "token" \in Accounts /\ "used" \in Accounts
  BY DEF Accounts
<1>5. ASSUME tasks' \in [Tasks -> TaskType], NEW k \in Accounts, NEW v \in Int, Add(k, v),
             UNCHANGED <<redis, worker, edits, granted, peak, kept>>
      PROVE  TypeOK'
  BY <1>5, AddStep DEF TypeOK, TaskType, Tasks, redis, worker
<1>6. ASSUME tasks' \in [Tasks -> TaskType], UNCHANGED cachedToken, cachedQuota' \in Quota,
             UNCHANGED <<books, worker, edits, granted, peak, kept>>
      PROVE  TypeOK'
  BY <1>6 DEF TypeOK, TaskType, Tasks, books, worker
<1>7. CASE BookUser(t)
  <2>1. tasks' \in [Tasks -> TaskType]
    BY <1>2, <1>7 DEF BookUser, Proceed
  <2>. QED BY <1>1, <1>4, <1>5, <1>7, <2>1 DEF BookUser
<1>8. CASE BookToken(t)
  <2>1. tasks' \in [Tasks -> TaskType]
    BY <1>2, <1>8 DEF BookToken, Proceed
  <2>. QED BY <1>1, <1>4, <1>5, <1>8, <2>1 DEF BookToken
<1>9. CASE EndRefund(t)
  <2>1. tasks' \in [Tasks -> TaskType]
    BY <1>1, <1>3, <1>9 DEF EndRefund
  <2>2. cachedQuota' \in Quota
    BY <1>9 DEF EndRefund, redis, TypeOK
  <2>. QED BY <1>6, <1>9, <2>1, <2>2 DEF EndRefund, redis
<1>10. CASE RefreshRead(t)
  <2>1. (IF Current(cachedQuota) THEN cachedQuota ELSE balance["user"]) \in Int
    BY <1>4 DEF Current, TypeOK, Quota
  <2>2. tasks' \in [Tasks -> TaskType]
    BY <1>1, <1>10, <2>1 DEF RefreshRead, TaskType
  <2>3. cachedQuota' \in Quota
    BY <1>10 DEF RefreshRead, redis, TypeOK
  <2>. QED BY <1>6, <1>10, <2>2, <2>3 DEF RefreshRead, redis
<1>11. CASE RefreshKeep(t)
  <2>1. tasks' \in [Tasks -> TaskType]
    BY <1>2, <1>11 DEF RefreshKeep, Proceed
  <2>2. cachedQuota' \in Quota
    BY <1>1, <1>11 DEF RefreshKeep, Quota, TaskType
  <2>. QED BY <1>6, <1>11, <2>1, <2>2 DEF RefreshKeep
<1>12. CASE BookUsed(t)
  <2>1. tasks' \in [Tasks -> TaskType]
    BY <1>1, <1>3, <1>12 DEF BookUsed
  <2>2. tasks[t].charge \in Int
    <3>1. tasks[t].charge \in Charges
      BY <1>1, <1>12 DEF BookUsed, TaskType
    <3>2. Charges \subseteq Int
      BY DEF ConstantsOK
    <3>. QED BY <3>1, <3>2
  <2>. QED BY <1>4, <1>5, <1>12, <2>1, <2>2 DEF BookUsed
<1>. QED BY <1>7, <1>8, <1>9, <1>10, <1>11, <1>12 DEF TaskStep

LEMMA TypeOther ==
  ASSUME ConstantsOK, TypeOK,
         \/ \E a \in TopUps : TopUp(a)
         \/ \E e \in Editors : EditRead(e) \/ EditWrite(e)
         \/ Swap \/ Write \/ ExpireQuota \/ ExpireToken
  PROVE  TypeOK'
<1>1. ASSUME NEW a \in TopUps, TopUp(a)
      PROVE  TypeOK'
  <2>1. a \in Nat /\ "user" \in Accounts
    BY DEF ConstantsOK, Accounts
  <2>. QED BY <1>1, <2>1, AddStep DEF TopUp, TypeOK, redis, worker
<1>2. ASSUME NEW e \in Editors, EditRead(e)
      PROVE  TypeOK'
  BY <1>2 DEF EditRead, TypeOK, Quota, Accounts, books, redis, worker
<1>3. ASSUME NEW e \in Editors, EditWrite(e)
      PROVE  TypeOK'
  <2>1. edits[e] \in Int
    BY <1>3 DEF EditWrite, TypeOK, Quota
  <2>. QED BY <1>3, <2>1 DEF EditWrite, TypeOK, Quota, Accounts, redis, worker
<1>4. CASE Swap
  BY <1>4 DEF Swap, TypeOK, Quota, redis, worker
<1>5. CASE Write
  <2>1. taken \in Int /\ due' \in Accounts
    BY <1>5 DEF Write, TypeOK, Quota, After, Accounts
  <2>. QED BY <1>5, <2>1 DEF Write, TypeOK, Quota, redis, worker
<1>6. CASE ExpireQuota
  BY <1>6 DEF ExpireQuota, TypeOK, Quota, books, worker
<1>7. CASE ExpireToken
  BY <1>7 DEF ExpireToken, TypeOK, Quota, books, worker
<1>. QED BY <1>1, <1>2, <1>3, <1>4, <1>5, <1>6, <1>7

\* Every step is one of a request, of a settlement, of the updater, an administrator or
\* an expiry, or none.
LEMMA StepKinds ==
  ASSUME TypeOK, [Next]_vars
  PROVE  \/ \E r \in Requests : RequestStep(r)
         \/ \E t \in Tasks : TaskStep(t)
         \/ \E a \in TopUps : TopUp(a)
         \/ \E e \in Editors : EditRead(e) \/ EditWrite(e)
         \/ Swap \/ Write \/ ExpireQuota \/ ExpireToken
         \/ UNCHANGED vars
<1>1. DOMAIN tasks = Tasks
  BY DEF TypeOK, Tasks
<1>. QED BY <1>1 DEF Next

LEMMA TypeNext ==
  ASSUME ConstantsOK, TypeOK, [Next]_vars
  PROVE  TypeOK'
<1>1. CASE UNCHANGED vars
  BY <1>1 DEF vars, books, redis, worker, TypeOK
<1>. QED BY <1>1, StepKinds, TypeRequest, TypeTask, TypeOther

----------------------------------------------------------------------------
(* What requests and settlements have taken that is not recorded as used. *)

\* Before its attempt is settled a request has nothing of it elsewhere.
HeldInv == \A r \in Requests :
  pc[r] \in {"keepQuota", "decide", "checkToken", "checkUser", "takeToken", "takeUser"}
    => held[r] = 0

\* An attempt that has not ended has started no settlement, nor have those to come.
TaskInv == \A r \in Requests, a \in 1 .. MaxAttempts :
  a > attempt[r] \/ (a = attempt[r] /\ pc[r] \notin Ended \union {"failed"})
    => tasks[<<r, a>>].at = "idle"

Charged(t) == IF tasks[t].charge = Missing THEN 0 ELSE tasks[t].charge

UserHold(r) == IF pc[r] \in {"upstream", "deferred"} THEN held[r] ELSE 0

UserOwed(t) ==
  IF tasks[t].at = "idle" THEN 0
  ELSE IF tasks[t].at = "user" THEN Charged(t) - tasks[t].delta
  ELSE Charged(t)

\* PreConsumeTokenQuota takes from the token before it takes from the user, and
\* PostConsumeTokenQuota after.
TokenHold(r) == IF pc[r] = "takeUser" THEN pre[r] ELSE UserHold(r)

TokenOwed(t) ==
  IF tasks[t].at = "token" THEN Charged(t) - tasks[t].delta ELSE UserOwed(t)

UserHolds == [r \in Requests |-> UserHold(r)]
UserOwes == [t \in Tasks |-> UserOwed(t)]
TokenHolds == [r \in Requests |-> TokenHold(r)]
TokenOwes == [t \in Tasks |-> TokenOwed(t)]

\* What has left the user and is not recorded as used or kept.
UserGone == InitialUser - (Eff("user") + Eff("used") + kept.user - granted)
TokenGone == InitialToken - (Eff("token") + Eff("used") + kept.token)

UserBooks == Total(UserGone, UserHolds, Requests, UserOwes, Tasks)
TokenBooks == Total(TokenGone, TokenHolds, Requests, TokenOwes, Tasks)

LEMMA LedgerTypes ==
  ASSUME ConstantsOK, TypeOK
  PROVE  /\ \A r \in Requests : UserHold(r) \in Int /\ TokenHold(r) \in Int
         /\ \A t \in Tasks : /\ tasks[t].delta \in Int /\ Charged(t) \in Nat
                             /\ UserOwed(t) \in Int /\ TokenOwed(t) \in Int
         /\ UserHolds \in [Requests -> Int] /\ TokenHolds \in [Requests -> Int]
         /\ UserOwes \in [Tasks -> Int] /\ TokenOwes \in [Tasks -> Int]
         /\ \A k \in Accounts : Eff(k) \in Int
         /\ Eff("user") \in Int /\ Eff("token") \in Int /\ Eff("used") \in Int
         /\ kept.user \in Nat /\ kept.token \in Nat /\ granted \in Nat
         /\ UserGone \in Int /\ TokenGone \in Int
<1>1. \A r \in Requests : UserHold(r) \in Int /\ TokenHold(r) \in Int
  BY Amounts DEF UserHold, TokenHold
<1>2. ASSUME NEW t \in Tasks
      PROVE  /\ tasks[t].delta \in Int /\ Charged(t) \in Nat
             /\ UserOwed(t) \in Int /\ TokenOwed(t) \in Int
  <2>1. tasks[t] \in TaskType
    BY DEF TypeOK, Tasks, TaskType
  <2>2. tasks[t].delta \in Int /\ tasks[t].charge \in Charges \union {Missing}
    BY <2>1 DEF TaskType
  <2>3. Charged(t) \in Nat
    BY <2>2 DEF Charged, ConstantsOK
  <2>. QED BY <2>2, <2>3 DEF UserOwed, TokenOwed
<1>3. \A k \in Accounts : Eff(k) \in Int
  BY DEF Eff, TypeOK, Quota
<1>4. Eff("user") \in Int /\ Eff("token") \in Int /\ Eff("used") \in Int
  BY <1>3 DEF Accounts
<1>5. kept.user \in Nat /\ kept.token \in Nat /\ granted \in Nat
  BY DEF TypeOK
<1>6. UserGone \in Int /\ TokenGone \in Int
  BY <1>4, <1>5 DEF UserGone, TokenGone, ConstantsOK
<1>. QED BY <1>1, <1>2, <1>3, <1>4, <1>5, <1>6
         DEF UserHolds, TokenHolds, UserOwes, TokenOwes

LEMMA AddMoves ==
  ASSUME ConstantsOK, TypeOK, NEW k \in Accounts, NEW v \in Int, Add(k, v)
  PROVE  /\ Eff("user")' = Eff("user") + (IF k = "user" THEN v ELSE 0)
         /\ Eff("token")' = Eff("token") + (IF k = "token" THEN v ELSE 0)
         /\ Eff("used")' = Eff("used") + (IF k = "used" THEN v ELSE 0)
<1>1. \A a \in Accounts : Eff(a)' = Eff(a) + (IF a = k THEN v ELSE 0)
  BY AddStep
<1>. QED BY <1>1 DEF Accounts

\* The same of the next state.
LEMMA LedgerTypesNext ==
  ASSUME ConstantsOK, TypeOK'
  PROVE  /\ UserHolds' \in [Requests -> Int] /\ TokenHolds' \in [Requests -> Int]
         /\ UserOwes' \in [Tasks -> Int] /\ TokenOwes' \in [Tasks -> Int]
<1>1. /\ pre' \in [Requests -> Estimates \union {0}]
      /\ held' \in [Requests -> Estimates \union {0}]
      /\ tasks' \in [Tasks -> TaskType]
  BY DEF TypeOK, TaskType, Tasks
<1>2. Estimates \union {0} \subseteq Int /\ Charges \subseteq Int
  BY DEF ConstantsOK
<1>3. \A r \in Requests : pre'[r] \in Int /\ held'[r] \in Int
  BY <1>1, <1>2
<1>4. \A r \in Requests : UserHold(r)' \in Int /\ TokenHold(r)' \in Int
  BY <1>3 DEF UserHold, TokenHold
<1>5. ASSUME NEW t \in Tasks
      PROVE  UserOwed(t)' \in Int /\ TokenOwed(t)' \in Int
  <2>1. tasks'[t].delta \in Int /\ tasks'[t].charge \in Charges \union {Missing}
    BY <1>1 DEF TaskType
  <2>2. Charged(t)' \in Int
    BY <1>2, <2>1 DEF Charged
  <2>. QED BY <2>1, <2>2 DEF UserOwed, TokenOwed
<1>. QED BY <1>4, <1>5 DEF UserHolds, TokenHolds, UserOwes, TokenOwes

LEMMA HeldNext ==
  ASSUME ConstantsOK, TypeOK, HeldInv, [Next]_vars
  PROVE  HeldInv'
<1>. DEFINE Before == {"keepQuota", "decide", "checkToken", "checkUser", "takeToken",
                       "takeUser"}
<1>1. ASSUME NEW r \in Requests, RequestStep(r)
      PROVE  HeldInv'
  <2>1. pc'[r] \in Before => held'[r] = 0
    <3>1. CASE Upstream(r)
      <4>1. pc'[r] \in {"failed", "served", "deferred"}
        BY <3>1, UpstreamSteps DEF TypeOK
      <4>. QED BY <4>1
    <3>2. CASE AuthFromRow(r) \/ AuthFromCache(r) \/ KeepToken(r)
      BY <3>2 DEF AuthFromRow, AuthFromCache, KeepToken, Judge, Enter, Goto, TypeOK
    <3>3. CASE MarkExhausted(r) \/ AuthReload(r) \/ Again(r) \/ GiveUp(r)
      BY <3>3 DEF MarkExhausted, AuthReload, Again, GiveUp, Goto, TypeOK
    <3>4. CASE Ask(r)
      BY <3>4 DEF Ask, TypeOK
    <3>5. CASE KeepQuota(r) \/ Decide(r) \/ CheckToken(r) \/ CheckUser(r)
      BY <3>5 DEF KeepQuota, Decide, CheckToken, CheckUser, Goto, TypeOK, HeldInv
    <3>6. CASE TakeToken(r) \/ TakeUser(r)
      BY <3>6 DEF TakeToken, TakeUser, Goto, TypeOK, HeldInv
    <3>. QED BY <1>1, <3>1, <3>2, <3>3, <3>4, <3>5, <3>6 DEF RequestStep
  <2>. QED BY <1>1, <2>1, RequestFrame DEF HeldInv
<1>2. CASE UNCHANGED worker
  BY <1>2 DEF worker, HeldInv
<1>3. ASSUME NEW t \in Tasks, TaskStep(t)
      PROVE  HeldInv'
  BY <1>2, <1>3 DEF TaskStep, BookUser, BookToken, EndRefund, RefreshRead, RefreshKeep,
     BookUsed
<1>4. ASSUME \/ \E a \in TopUps : TopUp(a)
             \/ \E e \in Editors : EditRead(e) \/ EditWrite(e)
             \/ Swap \/ Write \/ ExpireQuota \/ ExpireToken
             \/ UNCHANGED vars
      PROVE  HeldInv'
  BY <1>2, <1>4 DEF TopUp, EditRead, EditWrite, Swap, Write, ExpireQuota, ExpireToken,
     vars
<1>. QED BY <1>1, <1>3, <1>4, StepKinds

LEMMA TaskInvNext ==
  ASSUME ConstantsOK, TypeOK, TaskInv, [Next]_vars
  PROVE  TaskInv'
<1>1. ASSUME NEW r \in Requests, RequestStep(r)
      PROVE  TaskInv'
  <2>1. ASSUME NEW a \in 1 .. MaxAttempts,
               a > attempt'[r] \/ (a = attempt'[r] /\ pc'[r] \notin Ended \union {"failed"})
        PROVE  tasks'[<<r, a>>].at = "idle"
    <3>1. CASE Upstream(r)
      <4>1. UNCHANGED attempt
        BY <3>1, UpstreamSteps
      <4>2. CASE a > attempt[r]
        <5>1. tasks[<<r, a>>].at = "idle" /\ <<r, a>> # Own(r) /\ <<r, a>> \in Tasks
          BY <4>2 DEF TaskInv, Own, TypeOK, Tasks
        <5>. QED BY <1>1, <5>1, RequestFrame
      <4>3. CASE a = attempt[r]
        <5>1. pc'[r] = "deferred" /\ pc[r] = "upstream" /\ UNCHANGED tasks
          BY <2>1, <3>1, <4>1, <4>3, UpstreamSteps DEF Ended, TypeOK
        <5>. QED BY <4>3, <5>1 DEF TaskInv, Ended
      <4>. QED BY <2>1, <4>1, <4>2, <4>3
    <3>2. CASE AuthFromRow(r) \/ AuthFromCache(r) \/ KeepToken(r)
      BY <2>1, <3>2 DEF AuthFromRow, AuthFromCache, KeepToken, Judge, Enter, Goto, TypeOK,
         TaskInv, Ended
    <3>3. CASE MarkExhausted(r) \/ AuthReload(r) \/ GiveUp(r)
      BY <2>1, <3>3 DEF MarkExhausted, AuthReload, GiveUp, Goto, TypeOK, TaskInv, Ended
    <3>4. CASE Again(r)
      <4>1. attempt'[r] = attempt[r] + 1 /\ UNCHANGED tasks /\ attempt[r] \in Nat
        BY <3>4 DEF Again, TypeOK
      <4>. QED BY <2>1, <4>1 DEF TaskInv
    <3>5. CASE Ask(r) \/ KeepQuota(r) \/ Decide(r) \/ CheckToken(r) \/ CheckUser(r)
      BY <2>1, <3>5 DEF Ask, KeepQuota, Decide, CheckToken, CheckUser, Goto, TypeOK, TaskInv,
         Ended
    <3>6. CASE TakeToken(r) \/ TakeUser(r)
      BY <2>1, <3>6 DEF TakeToken, TakeUser, Goto, TypeOK, TaskInv, Ended
    <3>. QED BY <1>1, <3>1, <3>2, <3>3, <3>4, <3>5, <3>6 DEF RequestStep
  <2>2. ASSUME NEW q \in Requests, q # r, NEW a \in 1 .. MaxAttempts
        PROVE  tasks'[<<q, a>>] = tasks[<<q, a>>]
    <3>1. <<q, a>> \in Tasks /\ <<q, a>> # Own(r)
      BY <2>2 DEF Tasks, Own
    <3>. QED BY <1>1, <3>1, RequestFrame
  <2>3. \A q \in Requests : q # r => pc'[q] = pc[q] /\ attempt'[q] = attempt[q]
    BY <1>1, RequestFrame
  <2>. QED BY <2>1, <2>2, <2>3 DEF TaskInv
<1>2. ASSUME NEW t \in Tasks, TaskStep(t)
      PROVE  TaskInv'
  <2>1. /\ tasks[t].at # "idle" /\ UNCHANGED <<pc, attempt>>
        /\ \A u \in Tasks : u # t => tasks'[u] = tasks[u]
    BY <1>2 DEF TaskStep, BookUser, BookToken, EndRefund, RefreshRead, RefreshKeep,
       BookUsed, Proceed, TypeOK, Tasks, worker
  <2>2. \A r \in Requests, a \in 1 .. MaxAttempts : <<r, a>> \in Tasks
    BY DEF Tasks
  <2>. QED BY <2>1, <2>2 DEF TaskInv
<1>3. CASE UNCHANGED <<pc, attempt, tasks>>
  BY <1>3 DEF TaskInv
<1>4. ASSUME \/ \E a \in TopUps : TopUp(a)
             \/ \E e \in Editors : EditRead(e) \/ EditWrite(e)
             \/ Swap \/ Write \/ ExpireQuota \/ ExpireToken
             \/ UNCHANGED vars
      PROVE  TaskInv'
  BY <1>3, <1>4 DEF TopUp, EditRead, EditWrite, Swap, Write, ExpireQuota, ExpireToken,
     vars, worker
<1>. QED BY <1>1, <1>2, <1>4, StepKinds

----------------------------------------------------------------------------
(* The books balance. *)

\* A step that moves as much between the balance, one request and one settlement as it
\* takes keeps the books.
LEMMA UserTransfer ==
  ASSUME ConstantsOK, TypeOK, TypeOK', UserBooks,
         NEW r \in Requests, \A q \in Requests : q # r => UserHold(q)' = UserHold(q),
         NEW t \in Tasks, \A u \in Tasks : u # t => UserOwed(u)' = UserOwed(u),
         UserGone' = UserGone + (UserHold(r)' - UserHold(r)) + (UserOwed(t)' - UserOwed(t))
  PROVE  UserBooks'
<1>1. /\ UserHolds \in [Requests -> Int] /\ UserOwes \in [Tasks -> Int]
      /\ UserHolds' \in [Requests -> Int] /\ UserOwes' \in [Tasks -> Int]
  BY LedgerTypes, LedgerTypesNext
<1>2. /\ \A q \in Requests : UserHolds[q] = UserHold(q) /\ UserHolds'[q] = UserHold(q)'
      /\ \A u \in Tasks : UserOwes[u] = UserOwed(u) /\ UserOwes'[u] = UserOwed(u)'
  BY DEF UserHolds, UserOwes
<1>3. /\ \A q \in Requests : q # r => UserHolds'[q] = UserHolds[q]
      /\ \A u \in Tasks : u # t => UserOwes'[u] = UserOwes[u]
  BY <1>2
<1>4. Total(UserGone, UserHolds, Requests, UserOwes, Tasks)
  BY DEF UserBooks
<1>5. IsFiniteSet(Requests) /\ IsFiniteSet(Tasks)
  BY FiniteBooks
<1>6. Total(UserGone + (UserHolds'[r] - UserHolds[r]) + (UserOwes'[t] - UserOwes[t]),
            UserHolds', Requests, UserOwes', Tasks)
  BY <1>1, <1>3, <1>4, <1>5, Transfer
<1>. QED BY <1>2, <1>6 DEF UserBooks

LEMMA TokenTransfer ==
  ASSUME ConstantsOK, TypeOK, TypeOK', TokenBooks,
         NEW r \in Requests, \A q \in Requests : q # r => TokenHold(q)' = TokenHold(q),
         NEW t \in Tasks, \A u \in Tasks : u # t => TokenOwed(u)' = TokenOwed(u),
         TokenGone' = TokenGone + (TokenHold(r)' - TokenHold(r))
                                + (TokenOwed(t)' - TokenOwed(t))
  PROVE  TokenBooks'
<1>1. /\ TokenHolds \in [Requests -> Int] /\ TokenOwes \in [Tasks -> Int]
      /\ TokenHolds' \in [Requests -> Int] /\ TokenOwes' \in [Tasks -> Int]
  BY LedgerTypes, LedgerTypesNext
<1>2. /\ \A q \in Requests : TokenHolds[q] = TokenHold(q) /\ TokenHolds'[q] = TokenHold(q)'
      /\ \A u \in Tasks : TokenOwes[u] = TokenOwed(u) /\ TokenOwes'[u] = TokenOwed(u)'
  BY DEF TokenHolds, TokenOwes
<1>3. /\ \A q \in Requests : q # r => TokenHolds'[q] = TokenHolds[q]
      /\ \A u \in Tasks : u # t => TokenOwes'[u] = TokenOwes[u]
  BY <1>2
<1>4. Total(TokenGone, TokenHolds, Requests, TokenOwes, Tasks)
  BY DEF TokenBooks
<1>5. IsFiniteSet(Requests) /\ IsFiniteSet(Tasks)
  BY FiniteBooks
<1>6. Total(TokenGone + (TokenHolds'[r] - TokenHolds[r]) + (TokenOwes'[t] - TokenOwes[t]),
            TokenHolds', Requests, TokenOwes', Tasks)
  BY <1>1, <1>3, <1>4, <1>5, Transfer
<1>. QED BY <1>2, <1>6 DEF TokenBooks

\* What the end of an attempt does: it keeps what is held, starts a settlement that
\* still owes it, or leaves it as it was.
LEMMA SettleMoves ==
  ASSUME ConstantsOK, TypeOK, TaskInv, NEW r \in Requests, NEW t, t = Own(r),
         Upstream(r)
  PROVE  /\ t \in Tasks
         /\ UserHold(r) = held[r] /\ TokenHold(r) = held[r]
         /\ TokenHold(r)' = UserHold(r)' /\ TokenOwed(t)' = UserOwed(t)'
         /\ UserOwed(t) = 0 /\ TokenOwed(t) = 0
         /\ \/ /\ kept'.user = kept.user + held[r] /\ kept'.token = kept.token + held[r]
               /\ UserHold(r)' = 0 /\ UserOwed(t)' = 0
            \/ kept' = kept /\ UserHold(r)' = 0 /\ UserOwed(t)' = held[r]
            \/ kept' = kept /\ UserHold(r)' = held[r] /\ UserOwed(t)' = 0
<1>1. t \in Tasks /\ held[r] \in Nat
  BY Amounts DEF Own, Tasks, TypeOK
<1>2. pc[r] \in {"upstream", "deferred"} /\ UNCHANGED <<held, pre>>
  BY UpstreamSteps
<1>3. tasks[t].at = "idle"
  BY <1>2 DEF TaskInv, Own, TypeOK, Ended
<1>4. pc'[r] \in {"failed", "served", "deferred"}
  BY UpstreamSteps DEF TypeOK
<1>5. UserHold(r) = held[r] /\ TokenHold(r) = held[r] /\ UserOwed(t) = 0 /\ TokenOwed(t) = 0
  BY <1>2, <1>3 DEF UserHold, TokenHold, UserOwed, TokenOwed
<1>6. TokenHold(r)' = UserHold(r)'
  BY <1>4 DEF TokenHold
<1>7. CASE pc'[r] \in {"failed", "served"} /\ Keep(r)
  <2>1. kept'.user = kept.user + held[r] /\ kept'.token = kept.token + held[r]
    BY <1>7 DEF Keep
  <2>2. tasks' = tasks
    BY <1>7 DEF Keep
  <2>3. UserHold(r)' = 0
    BY <1>7 DEF UserHold
  <2>4. UserOwed(t)' = 0 /\ TokenOwed(t)' = 0
    BY <1>3, <2>2 DEF UserOwed, TokenOwed
  <2>. QED BY <1>1, <1>5, <1>6, <2>1, <2>3, <2>4
<1>8. ASSUME NEW d \in Int, NEW c \in Charges \cup {Missing}, Spawn(r, d, c),
             (IF c = Missing THEN 0 ELSE c) - d = held[r],
             pc'[r] \in {"failed", "served"}
      PROVE  UserHold(r)' = 0 /\ UserOwed(t)' = held[r] /\ TokenOwed(t)' = held[r]
  <2>1. tasks'[t] = [at |-> "user", delta |-> d, charge |-> c, seen |-> 0]
    BY <1>1, <1>8, SpawnStep DEF TypeOK, Tasks
  <2>2. UserOwed(t)' = held[r] /\ TokenOwed(t)' = held[r]
    BY <1>8, <2>1 DEF UserOwed, TokenOwed, Charged
  <2>. QED BY <1>8, <2>2 DEF UserHold
<1>9. CASE pc'[r] = "failed" /\ Refund(r) /\ UNCHANGED kept
  <2>1. CASE held[r] = 0
    <3>1. tasks' = tasks
      BY <1>9, <2>1 DEF Refund
    <3>2. UserHold(r)' = 0 /\ UserOwed(t)' = 0 /\ TokenOwed(t)' = 0
      BY <1>3, <1>9, <3>1 DEF UserHold, UserOwed, TokenOwed
    <3>. QED BY <1>1, <1>5, <1>6, <1>9, <2>1, <3>2
  <2>2. CASE held[r] # 0
    <3>1. Spawn(r, -held[r], Missing)
      BY <1>9, <2>2 DEF Refund
    <3>2. -held[r] \in Int /\ 0 - (-held[r]) = held[r]
      BY <1>1
    <3>3. UserHold(r)' = 0 /\ UserOwed(t)' = held[r] /\ TokenOwed(t)' = held[r]
      BY <1>8, <1>9, <3>1, <3>2
    <3>. QED BY <1>1, <1>5, <1>6, <1>9, <3>3
  <2>. QED BY <2>1, <2>2
<1>10. ASSUME pc'[r] = "served", UNCHANGED kept, NEW c \in Charges, Commit(r, c)
       PROVE  UserHold(r)' = 0 /\ UserOwed(t)' = held[r] /\ TokenOwed(t)' = held[r]
  <2>1. c \in Nat /\ c # Missing
    <3>1. Charges \subseteq Nat /\ Missing \notin Int
      BY DEF ConstantsOK
    <3>. QED BY <3>1
  <2>2. c - held[r] \in Int /\ c - (c - held[r]) = held[r]
    BY <1>1, <2>1
  <2>3. Spawn(r, c - held[r], c)
    BY <1>10 DEF Commit
  <2>. QED BY <1>8, <1>10, <2>1, <2>2, <2>3
<1>11. CASE pc'[r] = "deferred" /\ UNCHANGED <<tasks, kept>>
  <2>1. UserHold(r)' = held[r] /\ UserOwed(t)' = 0 /\ TokenOwed(t)' = 0
    BY <1>2, <1>3, <1>11 DEF UserHold, UserOwed, TokenOwed
  <2>. QED BY <1>1, <1>5, <1>6, <1>11, <2>1
<1>12. \/ pc'[r] \in {"failed", "served"} /\ Keep(r)
       \/ pc'[r] = "failed" /\ Refund(r) /\ UNCHANGED kept
       \/ pc'[r] = "served" /\ UNCHANGED kept /\ \E c \in Charges : Commit(r, c)
       \/ pc'[r] = "deferred" /\ UNCHANGED <<tasks, kept>>
  BY UpstreamSteps DEF TypeOK
<1>. QED BY <1>1, <1>5, <1>6, <1>7, <1>9, <1>10, <1>11, <1>12

\* When only the place of a request changes and no amount does.
LEMMA QuietMove ==
  ASSUME ConstantsOK, TypeOK, NEW r \in Requests, NEW t \in Tasks,
         UNCHANGED <<balance, buffer, due, taken, kept, granted>>,
         tasks'[t] = tasks[t],
         UserHold(r)' = UserHold(r), TokenHold(r)' = TokenHold(r)
  PROVE  /\ UserGone' = UserGone + (UserHold(r)' - UserHold(r))
                                 + (UserOwed(t)' - UserOwed(t))
         /\ TokenGone' = TokenGone + (TokenHold(r)' - TokenHold(r))
                                   + (TokenOwed(t)' - TokenOwed(t))
<1>1. UserOwed(t)' = UserOwed(t) /\ TokenOwed(t)' = TokenOwed(t)
  BY DEF UserOwed, TokenOwed, Charged
<1>2. UserGone' = UserGone /\ TokenGone' = TokenGone
  BY DEF UserGone, TokenGone, Eff
<1>. QED BY <1>1, <1>2, LedgerTypes

LEMMA RequestMoves ==
  ASSUME ConstantsOK, TypeOK, HeldInv, TaskInv,
         NEW r \in Requests, NEW t, t = Own(r), RequestStep(r)
  PROVE  /\ t \in Tasks
         /\ UserGone' = UserGone + (UserHold(r)' - UserHold(r))
                                 + (UserOwed(t)' - UserOwed(t))
         /\ Limited => TokenGone' = TokenGone + (TokenHold(r)' - TokenHold(r))
                                              + (TokenOwed(t)' - TokenOwed(t))
<1>. DEFINE Still == /\ UNCHANGED <<balance, buffer, due, taken, kept, granted>>
                     /\ tasks' = tasks
                     /\ UserHold(r)' = UserHold(r) /\ TokenHold(r)' = TokenHold(r)
            Goal == /\ UserGone' = UserGone + (UserHold(r)' - UserHold(r))
                                            + (UserOwed(t)' - UserOwed(t))
                    /\ Limited => TokenGone' = TokenGone + (TokenHold(r)' - TokenHold(r))
                                                         + (TokenOwed(t)' - TokenOwed(t))
<1>1. t \in Tasks /\ pre[r] \in Nat /\ held[r] \in Nat
  BY Amounts DEF Own, Tasks, TypeOK
<1>2. Still => Goal
  BY <1>1, QuietMove
<1>. HIDE DEF Still, Goal
<1>. SUFFICES Goal
  BY <1>1 DEF Goal
<1>3. CASE AuthFromRow(r) \/ AuthFromCache(r) \/ KeepToken(r)
  <2>1. /\ UNCHANGED <<books, tasks, held, pre, kept, granted>>
        /\ pc[r] \in {"new", "keepToken"} /\ pc'[r] \in {"ask", "exhaust", "refused"}
    BY <1>3 DEF AuthFromRow, AuthFromCache, KeepToken, Judge, Enter, Goto, TypeOK
  <2>2. Still
    BY <2>1 DEF Still, UserHold, TokenHold, books
  <2>. QED BY <1>2, <2>2
<1>4. CASE MarkExhausted(r) \/ AuthReload(r) \/ Again(r) \/ GiveUp(r)
  <2>1. /\ UNCHANGED <<balance, buffer, due, taken, tasks, held, pre, kept, granted>>
        /\ pc[r] \in {"exhaust", "new", "failed"}
        /\ pc'[r] \in {"refused", "keepToken", "ask", "gaveUp"}
    BY <1>4 DEF MarkExhausted, AuthReload, Again, GiveUp, Goto, TypeOK, books
  <2>2. Still
    BY <2>1 DEF Still, UserHold, TokenHold
  <2>. QED BY <1>2, <2>2
<1>5. CASE Ask(r)
  <2>1. UNCHANGED <<books, tasks, kept, granted>>
    BY <1>5 DEF Ask
  <2>2. pc[r] = "ask" /\ pc'[r] \in {"keepQuota", "decide"}
    BY <1>5 DEF Ask, Goto, TypeOK
  <2>3. Still
    BY <2>1, <2>2 DEF Still, UserHold, TokenHold, books
  <2>. QED BY <1>2, <2>3
<1>6. CASE KeepQuota(r) \/ CheckToken(r)
  <2>1. /\ UNCHANGED <<books, tasks, held, pre, kept, granted>>
        /\ pc[r] \in {"keepQuota", "checkToken"}
        /\ pc'[r] \in {"decide", "failed", "checkUser"}
    BY <1>6 DEF KeepQuota, CheckToken, Goto, TypeOK
  <2>2. Still
    BY <2>1 DEF Still, UserHold, TokenHold, books
  <2>. QED BY <1>2, <2>2
<1>7. CASE Decide(r)
  <2>1. pc[r] = "decide" /\ pc'[r] \in {"failed", "upstream", "checkToken"} /\ held[r] = 0
    BY <1>7 DEF Decide, Goto, TypeOK, HeldInv
  <2>2. UNCHANGED <<books, tasks, held, pre, kept, granted>>
    BY <1>7 DEF Decide
  <2>3. Still
    BY <2>1, <2>2 DEF Still, UserHold, TokenHold, books
  <2>. QED BY <1>2, <2>3
<1>8. CASE CheckUser(r)
  <2>1. /\ UNCHANGED <<books, tasks, held, pre, kept, granted>>
        /\ pc[r] = "checkUser" /\ pc'[r] \in {"failed", "takeToken", "takeUser"}
        /\ Limited => pc'[r] # "takeUser"
    BY <1>8 DEF CheckUser, Goto, TypeOK
  <2>2. UserHold(r)' = 0 /\ UserHold(r) = 0
    BY <2>1 DEF UserHold
  <2>3. TokenHold(r) = 0 /\ (Limited => TokenHold(r)' = 0)
    BY <2>1, <2>2 DEF TokenHold
  <2>4. UserOwed(t)' = UserOwed(t) /\ TokenOwed(t)' = TokenOwed(t)
    BY <2>1 DEF UserOwed, TokenOwed, Charged
  <2>5. UserGone' = UserGone /\ TokenGone' = TokenGone
    BY <2>1 DEF UserGone, TokenGone, Eff, books
  <2>. QED BY <1>1, <2>2, <2>3, <2>4, <2>5, LedgerTypes DEF Goal
<1>9. CASE TakeToken(r)
  <2>1. UNCHANGED <<tasks, held, pre, kept, granted>> /\ pc[r] = "takeToken"
    BY <1>9 DEF TakeToken, Goto
  <2>2. UserHold(r) = 0 /\ TokenHold(r) = 0
    BY <2>1 DEF UserHold, TokenHold
  <2>3. CASE UNCHANGED books /\ pc'[r] = "failed"
    <3>1. UserHold(r)' = 0 /\ TokenHold(r)' = 0
      BY <2>3 DEF UserHold, TokenHold
    <3>2. Still
      BY <2>1, <2>2, <2>3, <3>1 DEF Still, books
    <3>. QED BY <1>2, <3>2
  <2>4. CASE Add("token", -pre[r]) /\ pc'[r] = "takeUser"
    <3>1. UserHold(r)' = 0 /\ TokenHold(r)' = pre[r]
      BY <2>1, <2>4 DEF UserHold, TokenHold
    <3>2. /\ Eff("user")' = Eff("user") /\ Eff("used")' = Eff("used")
          /\ Eff("token")' = Eff("token") - pre[r]
      BY <1>1, <2>4, AddStep, LedgerTypes DEF Accounts
    <3>3. UserGone' = UserGone /\ TokenGone' = TokenGone + pre[r]
      BY <1>1, <2>1, <3>2, LedgerTypes DEF UserGone, TokenGone, ConstantsOK
    <3>4. UserOwed(t)' = UserOwed(t) /\ TokenOwed(t)' = TokenOwed(t)
      BY <2>1 DEF UserOwed, TokenOwed, Charged
    <3>. QED BY <1>1, <2>2, <3>1, <3>3, <3>4, LedgerTypes DEF Goal
  <2>. QED BY <1>9, <2>3, <2>4 DEF TakeToken, Goto, TypeOK
<1>10. CASE TakeUser(r)
  <2>1. UNCHANGED <<tasks, pre, granted>> /\ pc[r] = "takeUser"
    BY <1>10 DEF TakeUser, Goto
  <2>2. UserHold(r) = 0 /\ TokenHold(r) = pre[r]
    BY <2>1 DEF UserHold, TokenHold
  <2>3. UserOwed(t)' = UserOwed(t) /\ TokenOwed(t)' = TokenOwed(t)
    BY <2>1 DEF UserOwed, TokenOwed, Charged
  <2>4. CASE /\ UNCHANGED books /\ pc'[r] = "failed"
             /\ kept' = [kept EXCEPT !.token = @ + pre[r]]
    <3>1. UserHold(r)' = 0 /\ TokenHold(r)' = 0
      BY <2>4 DEF UserHold, TokenHold
    <3>2. kept'.user = kept.user /\ kept'.token = kept.token + pre[r]
      BY <2>4 DEF TypeOK
    <3>3. UserGone' = UserGone /\ TokenGone' = TokenGone - pre[r]
      <4>1. \A k \in Accounts : Eff(k)' = Eff(k)
        BY <2>4 DEF Eff, books
      <4>2. Eff("user")' = Eff("user") /\ Eff("used")' = Eff("used")
            /\ Eff("token")' = Eff("token")
        BY <4>1 DEF Accounts
      <4>. QED BY <1>1, <2>1, <3>2, <4>2, LedgerTypes DEF UserGone, TokenGone,
                  ConstantsOK
    <3>. QED BY <1>1, <2>2, <2>3, <3>1, <3>3, LedgerTypes DEF Goal
  <2>5. CASE /\ Add("user", -pre[r]) /\ pc'[r] = "upstream"
             /\ held' = [held EXCEPT ![r] = pre[r]] /\ UNCHANGED kept
    <3>1. UserHold(r)' = pre[r] /\ TokenHold(r)' = pre[r]
      BY <2>5 DEF UserHold, TokenHold, TypeOK
    <3>2. /\ Eff("user")' = Eff("user") - pre[r] /\ Eff("used")' = Eff("used")
          /\ Eff("token")' = Eff("token")
      BY <1>1, <2>5, AddStep, LedgerTypes DEF Accounts
    <3>3. UserGone' = UserGone + pre[r] /\ TokenGone' = TokenGone
      BY <1>1, <2>1, <2>5, <3>2, LedgerTypes DEF UserGone, TokenGone, ConstantsOK
    <3>. QED BY <1>1, <2>2, <2>3, <3>1, <3>3, LedgerTypes DEF Goal
  <2>. QED BY <1>10, <2>4, <2>5 DEF TakeUser, Goto, TypeOK
<1>11. CASE Upstream(r)
  <2>1. UNCHANGED <<books, granted>>
    BY <1>11, UpstreamSteps
  <2>2. \A k \in Accounts : Eff(k)' = Eff(k)
    BY <2>1 DEF Eff, books
  <2>3. Eff("user")' = Eff("user") /\ Eff("used")' = Eff("used")
        /\ Eff("token")' = Eff("token")
    BY <2>2 DEF Accounts
  <2>4. ASSUME kept'.user = kept.user + held[r], kept'.token = kept.token + held[r]
        PROVE  UserGone' = UserGone - held[r] /\ TokenGone' = TokenGone - held[r]
    BY <1>1, <2>1, <2>3, <2>4, LedgerTypes DEF UserGone, TokenGone, ConstantsOK
  <2>5. ASSUME kept' = kept
        PROVE  UserGone' = UserGone /\ TokenGone' = TokenGone
    BY <2>1, <2>3, <2>5 DEF UserGone, TokenGone
  <2>6. UserGone \in Int /\ TokenGone \in Int
    BY LedgerTypes
  <2>7. /\ UserHold(r) = held[r] /\ TokenHold(r) = held[r]
        /\ TokenHold(r)' = UserHold(r)' /\ TokenOwed(t)' = UserOwed(t)'
        /\ UserOwed(t) = 0 /\ TokenOwed(t) = 0
        /\ \/ /\ kept'.user = kept.user + held[r] /\ kept'.token = kept.token + held[r]
              /\ UserHold(r)' = 0 /\ UserOwed(t)' = 0
           \/ kept' = kept /\ UserHold(r)' = 0 /\ UserOwed(t)' = held[r]
           \/ kept' = kept /\ UserHold(r)' = held[r] /\ UserOwed(t)' = 0
    BY <1>11, SettleMoves
  <2>. QED BY <1>1, <2>4, <2>5, <2>6, <2>7 DEF Goal
<1>. QED BY <1>3, <1>4, <1>5, <1>6, <1>7, <1>8, <1>9, <1>10, <1>11 DEF RequestStep

LEMMA TaskFrame ==
  ASSUME TypeOK, NEW t \in Tasks, TaskStep(t)
  PROVE  /\ UNCHANGED <<worker, edits, granted, peak, kept>>
         /\ \A u \in Tasks : u # t => tasks'[u] = tasks[u]
         /\ tasks[t].at # "idle"
BY DEF TaskStep, BookUser, BookToken, EndRefund, RefreshRead, RefreshKeep, BookUsed,
       Proceed, TypeOK, Tasks

LEMMA TaskMoves ==
  ASSUME ConstantsOK, TypeOK, NEW t \in Tasks, TaskStep(t)
  PROVE  /\ UserGone' = UserGone + (UserOwed(t)' - UserOwed(t))
         /\ Limited => TokenGone' = TokenGone + (TokenOwed(t)' - TokenOwed(t))
<1>. DEFINE d == tasks[t].delta
            c == Charged(t)
            Goal == /\ UserGone' = UserGone + (UserOwed(t)' - UserOwed(t))
                    /\ Limited => TokenGone' = TokenGone + (TokenOwed(t)' - TokenOwed(t))
<1>1. /\ tasks \in [Tasks -> TaskType] /\ tasks[t] \in TaskType
      /\ d \in Int /\ -d \in Int /\ c \in Nat
      /\ UserGone \in Int /\ TokenGone \in Int
  BY LedgerTypes DEF TypeOK, TaskType, Tasks
<1>2. UNCHANGED <<granted, kept>>
  BY TaskFrame
<1>3. "user" \in Accounts /\ "token" \in Accounts /\ "used" \in Accounts
  BY DEF Accounts
<1>4. ASSUME UNCHANGED books
      PROVE  UserGone' = UserGone /\ TokenGone' = TokenGone
  BY <1>2, <1>4 DEF UserGone, TokenGone, Eff, books
<1>5. ASSUME NEW to \in {"idle", "user", "token", "refresh", "keep", "used"},
             tasks' = [tasks EXCEPT ![t].at = to]
      PROVE  /\ Charged(t)' = c
             /\ UserOwed(t)' = (IF to = "idle" THEN 0 ELSE IF to = "user" THEN c - d ELSE c)
             /\ TokenOwed(t)' = (IF to \in {"user", "token"} THEN c - d
                                 ELSE IF to = "idle" THEN 0 ELSE c)
  <2>1. tasks'[t].at = to /\ tasks'[t].delta = d /\ tasks'[t].charge = tasks[t].charge
    BY <1>1, <1>5 DEF TaskType
  <2>2. Charged(t)' = c
    BY <2>1 DEF Charged
  <2>. QED BY <2>1, <2>2 DEF UserOwed, TokenOwed
<1>6. ASSUME tasks' = [tasks EXCEPT ![t] = Idle]
      PROVE  UserOwed(t)' = 0 /\ TokenOwed(t)' = 0
  BY <1>1, <1>6 DEF UserOwed, TokenOwed, Idle
<1>. HIDE DEF d, c, Goal
<1>. SUFFICES Goal
  BY DEF Goal
<1>7. CASE BookUser(t)
  <2>1. tasks[t].at = "user" /\ Add("user", -d)
        /\ \E to \in {"token", "refresh", "used"} :
             (Limited => to = "token") /\ tasks' = [tasks EXCEPT ![t].at = to]
    BY <1>7 DEF BookUser, Proceed, d
  <2>2. /\ Eff("user")' = Eff("user") - d /\ Eff("used")' = Eff("used")
        /\ Eff("token")' = Eff("token")
    BY <1>1, <1>3, <2>1, AddMoves, LedgerTypes
  <2>3. UserOwed(t) = c - d /\ TokenOwed(t) = c - d
    BY <2>1 DEF UserOwed, TokenOwed, c, d
  <2>4. UserOwed(t)' = c /\ (Limited => TokenOwed(t)' = c - d)
    BY <1>5, <2>1
  <2>5. UserGone' = UserGone + d /\ TokenGone' = TokenGone
    BY <1>1, <1>2, <2>2, LedgerTypes DEF UserGone, TokenGone, ConstantsOK
  <2>. QED BY <1>1, <2>3, <2>4, <2>5 DEF Goal
<1>8. CASE BookToken(t)
  <2>1. tasks[t].at = "token" /\ Add("token", -d)
        /\ \E to \in {"refresh", "used"} : tasks' = [tasks EXCEPT ![t].at = to]
    BY <1>8 DEF BookToken, Proceed, d
  <2>2. /\ Eff("user")' = Eff("user") /\ Eff("used")' = Eff("used")
        /\ Eff("token")' = Eff("token") - d
    BY <1>1, <1>3, <2>1, AddMoves, LedgerTypes
  <2>3. UserOwed(t) = c /\ TokenOwed(t) = c - d
    BY <2>1 DEF UserOwed, TokenOwed, c, d
  <2>4. UserOwed(t)' = c /\ TokenOwed(t)' = c
    BY <1>5, <2>1
  <2>5. UserGone' = UserGone /\ TokenGone' = TokenGone + d
    BY <1>1, <1>2, <2>2, LedgerTypes DEF UserGone, TokenGone, ConstantsOK
  <2>. QED BY <1>1, <2>3, <2>4, <2>5 DEF Goal
<1>9. CASE EndRefund(t)
  <2>1. c = 0 /\ UserOwed(t) = 0 /\ TokenOwed(t) = 0
    BY <1>9 DEF EndRefund, UserOwed, TokenOwed, Charged, c
  <2>2. UserGone' = UserGone /\ TokenGone' = TokenGone
    BY <1>4, <1>9 DEF EndRefund
  <2>3. UserOwed(t)' = 0 /\ TokenOwed(t)' = 0
    BY <1>6, <1>9 DEF EndRefund
  <2>. QED BY <1>1, <2>1, <2>2, <2>3 DEF Goal
<1>10. CASE RefreshRead(t)
  <2>1. UserGone' = UserGone /\ TokenGone' = TokenGone
    BY <1>4, <1>10 DEF RefreshRead
  <2>2. /\ tasks[t].at = "refresh" /\ tasks'[t].at = "keep"
        /\ tasks'[t].charge = tasks[t].charge /\ tasks'[t].delta = tasks[t].delta
    BY <1>1, <1>10 DEF RefreshRead, TaskType
  <2>3. /\ UserOwed(t)' = c /\ TokenOwed(t)' = c
        /\ UserOwed(t) = c /\ TokenOwed(t) = c
    BY <2>2 DEF UserOwed, TokenOwed, Charged, c
  <2>. QED BY <1>1, <2>1, <2>3 DEF Goal
<1>11. CASE RefreshKeep(t)
  <2>1. UserGone' = UserGone /\ TokenGone' = TokenGone
    BY <1>4, <1>11 DEF RefreshKeep
  <2>2. UserOwed(t)' = c /\ TokenOwed(t)' = c
    BY <1>5, <1>11 DEF RefreshKeep, Proceed
  <2>3. UserOwed(t) = c /\ TokenOwed(t) = c
    BY <1>11 DEF RefreshKeep, Proceed, UserOwed, TokenOwed, c
  <2>. QED BY <1>1, <2>1, <2>2, <2>3 DEF Goal
<1>12. CASE BookUsed(t)
  <2>1. /\ tasks[t].at = "used" /\ Add("used", c) /\ tasks' = [tasks EXCEPT ![t] = Idle]
    BY <1>12 DEF BookUsed, Charged, c
  <2>2. /\ Eff("user")' = Eff("user") /\ Eff("used")' = Eff("used") + c
        /\ Eff("token")' = Eff("token")
    BY <1>1, <1>3, <2>1, AddMoves, LedgerTypes
  <2>3. UserOwed(t) = c /\ TokenOwed(t) = c
    BY <2>1 DEF UserOwed, TokenOwed, c
  <2>4. UserOwed(t)' = 0 /\ TokenOwed(t)' = 0
    BY <1>6, <2>1
  <2>5. UserGone' = UserGone - c /\ TokenGone' = TokenGone - c
    BY <1>1, <1>2, <2>2, LedgerTypes DEF UserGone, TokenGone, ConstantsOK
  <2>. QED BY <1>1, <2>3, <2>4, <2>5 DEF Goal
<1>. QED BY <1>7, <1>8, <1>9, <1>10, <1>11, <1>12 DEF TaskStep

\* The updater moves nothing in or out, whatever it finds; a top-up is granted.
LEMMA OtherMoves ==
  ASSUME ConstantsOK, TypeOK,
         \/ \E a \in TopUps : TopUp(a)
         \/ \E e \in Editors : EditRead(e) \/ EditWrite(e)
         \/ Swap \/ Write \/ ExpireQuota \/ ExpireToken
         \/ UNCHANGED vars
  PROVE  /\ UNCHANGED <<worker, tasks>>
         /\ UserGone' = UserGone
         /\ Editors = {} => TokenGone' = TokenGone
<1>1. \A k \in Accounts : Eff(k) \in Int
  BY LedgerTypes
<1>2. "user" \in Accounts /\ "token" \in Accounts /\ "used" \in Accounts
  BY DEF Accounts
<1>3. ASSUME UNCHANGED <<granted, kept>>, \A k \in Accounts : Eff(k)' = Eff(k)
      PROVE  UserGone' = UserGone /\ TokenGone' = TokenGone
  BY <1>2, <1>3 DEF UserGone, TokenGone
<1>4. ASSUME NEW a \in TopUps, TopUp(a)
      PROVE  UNCHANGED <<worker, tasks>> /\ UserGone' = UserGone /\ TokenGone' = TokenGone
  <2>1. a \in Int /\ granted = 0 /\ granted' = a /\ Add("user", a)
        /\ UNCHANGED <<worker, tasks, kept>>
    BY <1>4 DEF TopUp, ConstantsOK
  <2>2. /\ Eff("user")' = Eff("user") + a /\ Eff("used")' = Eff("used")
        /\ Eff("token")' = Eff("token")
    BY <1>2, <2>1, AddMoves, LedgerTypes
  <2>. QED BY <2>1, <2>2, LedgerTypes DEF UserGone, TokenGone, ConstantsOK
<1>5. ASSUME NEW e \in Editors, EditRead(e) \/ EditWrite(e)
      PROVE  UNCHANGED <<worker, tasks>> /\ UserGone' = UserGone
  <2>1. /\ UNCHANGED <<worker, tasks, granted, kept, buffer, due, taken>>
        /\ balance'["user"] = balance["user"] /\ balance'["used"] = balance["used"]
    BY <1>5 DEF EditRead, EditWrite, books, TypeOK, Accounts
  <2>. QED BY <2>1 DEF UserGone, Eff
<1>6. CASE Swap
  <2>1. \A k \in Accounts : Eff(k)' = Eff(k)
    BY <1>6 DEF Swap, Eff, TypeOK, ConstantsOK, Quota
  <2>. QED BY <1>3, <1>6, <2>1 DEF Swap
<1>7. CASE Write
  <2>1. \A k \in Accounts : Eff(k)' = Eff(k)
    BY <1>7 DEF Write, Eff, TypeOK, ConstantsOK, Quota
  <2>. QED BY <1>3, <1>7, <2>1 DEF Write
<1>8. CASE ExpireQuota \/ ExpireToken \/ UNCHANGED vars
  <2>1. UNCHANGED <<books, worker, tasks, granted, kept>>
    BY <1>8 DEF ExpireQuota, ExpireToken, vars
  <2>. QED BY <1>3, <2>1 DEF books, Eff
<1>. QED BY <1>4, <1>5, <1>6, <1>7, <1>8

BooksInv == /\ TypeOK /\ HeldInv /\ TaskInv /\ UserBooks
            /\ (Limited /\ Editors = {} => TokenBooks)

LEMMA BooksInit ==
  ASSUME ConstantsOK, Init
  PROVE  BooksInv
<1>1. TypeOK
  <2>1. balance \in [Accounts -> Int] /\ buffer \in [Accounts -> Int]
    BY DEF Init, Accounts, ConstantsOK
  <2>2. cachedQuota \in Quota /\ cachedToken \in Quota /\ taken \in Quota
    BY DEF Init, Quota, ConstantsOK
  <2>3. tasks \in [Tasks -> TaskType]
    BY DEF Init, Idle, TaskType, Tasks
  <2>4. /\ attempt \in [Requests -> 1 .. MaxAttempts] /\ status \in {Enabled, Exhausted}
        /\ due \in Accounts /\ edits \in [Editors -> Quota]
        /\ granted \in Nat /\ peak \in Nat /\ kept \in [{"user", "token"} -> Nat]
    BY DEF Init, Accounts, Quota, ConstantsOK
  <2>5. /\ pre \in [Requests -> Estimates \union {0}]
        /\ held \in [Requests -> Estimates \union {0}]
        /\ seen \in [Requests -> Int]
    BY DEF Init
  <2>6. pc \in [Requests -> Ended \union {"new", "exhaust", "keepToken", "ask", "keepQuota",
               "decide", "checkToken", "checkUser", "takeToken", "takeUser", "upstream",
               "deferred", "failed"}]
    BY DEF Init
  <2>. QED BY <2>1, <2>2, <2>3, <2>4, <2>5, <2>6 DEF TypeOK, TaskType, Tasks
<1>2. HeldInv
  BY DEF Init, HeldInv
<1>3. \A t \in Tasks : tasks[t] = Idle
  BY DEF Init, Tasks
<1>4. TaskInv
  BY <1>3 DEF TaskInv, Idle, Tasks
<1>5. /\ \A r \in Requests : UserHolds[r] = 0 /\ TokenHolds[r] = 0
      /\ \A t \in Tasks : UserOwes[t] = 0 /\ TokenOwes[t] = 0
  BY <1>3 DEF Init, Idle, UserHolds, TokenHolds, UserOwes, TokenOwes, UserHold, TokenHold,
     UserOwed, TokenOwed
<1>6. UserGone = 0 /\ TokenGone = 0
  BY DEF Init, UserGone, TokenGone, Eff, ConstantsOK, Accounts
<1>7. UserBooks /\ TokenBooks
  BY <1>5, <1>6, FiniteBooks, TotalOfZeros DEF UserBooks, TokenBooks
<1>. QED BY <1>1, <1>2, <1>4, <1>7 DEF BooksInv

LEMMA BooksNext ==
  ASSUME ConstantsOK, BooksInv, [Next]_vars
  PROVE  BooksInv'
<1>1. TypeOK /\ HeldInv /\ TaskInv /\ UserBooks /\ TypeOK' /\ HeldInv' /\ TaskInv'
  BY TypeNext, HeldNext, TaskInvNext DEF BooksInv
<1>. DEFINE Goal == UserBooks' /\ (Limited /\ Editors = {} => TokenBooks')
<1>2. ASSUME NEW r \in Requests, RequestStep(r)
      PROVE  Goal
  <2>1. PICK t : t = Own(r)
    OBVIOUS
  <2>2. /\ t \in Tasks
        /\ UserGone' = UserGone + (UserHold(r)' - UserHold(r))
                                + (UserOwed(t)' - UserOwed(t))
        /\ Limited => TokenGone' = TokenGone + (TokenHold(r)' - TokenHold(r))
                                             + (TokenOwed(t)' - TokenOwed(t))
    BY <1>1, <1>2, <2>1, RequestMoves
  <2>3. \A q \in Requests : q # r => UserHold(q)' = UserHold(q) /\ TokenHold(q)' = TokenHold(q)
    BY <1>1, <1>2, RequestFrame DEF UserHold, TokenHold
  <2>4. \A u \in Tasks : u # t => UserOwed(u)' = UserOwed(u) /\ TokenOwed(u)' = TokenOwed(u)
    BY <1>1, <1>2, <2>1, RequestFrame DEF UserOwed, TokenOwed, Charged
  <2>5. UserBooks'
    BY <1>1, <2>2, <2>3, <2>4, UserTransfer
  <2>6. ASSUME Limited, TokenBooks PROVE TokenBooks'
    BY <1>1, <2>2, <2>3, <2>4, <2>6, TokenTransfer
  <2>. QED BY <2>5, <2>6 DEF BooksInv
<1>3. ASSUME NEW t \in Tasks, TaskStep(t)
      PROVE  Goal
  <2>1. PICK r \in Requests : TRUE
    BY DEF Tasks
  <2>2. /\ UserGone' = UserGone + (UserOwed(t)' - UserOwed(t))
        /\ Limited => TokenGone' = TokenGone + (TokenOwed(t)' - TokenOwed(t))
    BY <1>1, <1>3, TaskMoves
  <2>3. \A q \in Requests : UserHold(q)' = UserHold(q) /\ TokenHold(q)' = TokenHold(q)
    BY <1>1, <1>3, TaskFrame DEF UserHold, TokenHold, worker
  <2>4. \A u \in Tasks : u # t => UserOwed(u)' = UserOwed(u) /\ TokenOwed(u)' = TokenOwed(u)
    BY <1>1, <1>3, TaskFrame DEF UserOwed, TokenOwed, Charged
  <2>5. /\ UserHold(r) \in Int /\ TokenHold(r) \in Int
        /\ UserGone \in Int /\ TokenGone \in Int
    BY <1>1, LedgerTypes
  <2>6. UserGone' = UserGone + (UserHold(r)' - UserHold(r)) + (UserOwed(t)' - UserOwed(t))
    BY <2>2, <2>3, <2>5
  <2>7. Limited => TokenGone' = TokenGone + (TokenHold(r)' - TokenHold(r))
                                          + (TokenOwed(t)' - TokenOwed(t))
    BY <2>2, <2>3, <2>5
  <2>8. UserBooks'
    BY <1>1, <2>3, <2>4, <2>6, UserTransfer
  <2>9. ASSUME Limited, TokenBooks PROVE TokenBooks'
    BY <1>1, <2>3, <2>4, <2>7, <2>9, TokenTransfer
  <2>. QED BY <2>8, <2>9 DEF BooksInv
<1>4. ASSUME \/ \E a \in TopUps : TopUp(a)
             \/ \E e \in Editors : EditRead(e) \/ EditWrite(e)
             \/ Swap \/ Write \/ ExpireQuota \/ ExpireToken
             \/ UNCHANGED vars
      PROVE  Goal
  <2>1. /\ UNCHANGED <<worker, tasks>> /\ UserGone' = UserGone
        /\ Editors = {} => TokenGone' = TokenGone
    BY <1>1, <1>4, OtherMoves
  <2>2. /\ UserHolds' = UserHolds /\ UserOwes' = UserOwes
        /\ TokenHolds' = TokenHolds /\ TokenOwes' = TokenOwes
    BY <2>1 DEF worker, UserHolds, UserOwes, TokenHolds, TokenOwes, UserHold, UserOwed,
       TokenHold, TokenOwed, Charged
  <2>. QED BY <1>1, <2>1, <2>2 DEF UserBooks, TokenBooks, BooksInv
<1>5. Goal
  <2>. HIDE DEF Goal
  <2>. QED BY <1>1, <1>2, <1>3, <1>4, StepKinds
<1>. QED BY <1>1, <1>5 DEF BooksInv

\* Once nothing is on its way, nothing is held or owed.
LEMMA QuietBooks ==
  ASSUME ConstantsOK, BooksInv
  PROVE  /\ UserBalanceMatchesUsage
         /\ Editors = {} => BalanceMatchesUsage
<1>. SUFFICES ASSUME Quiet
     PROVE  UserMatchesUsage /\ (Editors = {} => TokenMatchesUsage)
  BY DEF UserBalanceMatchesUsage, BalanceMatchesUsage
<1>. USE DEF BooksInv
<1>1. \A r \in Requests : UserHolds[r] = 0 /\ TokenHolds[r] = 0
  BY DEF Quiet, Ended, UserHolds, TokenHolds, UserHold, TokenHold
<1>2. \A t \in Tasks : tasks[t].at = "idle"
  BY DEF Quiet, Unsettled, TypeOK, Tasks
<1>3. \A t \in Tasks : UserOwes[t] = 0 /\ TokenOwes[t] = 0
  BY <1>2 DEF UserOwes, TokenOwes, UserOwed, TokenOwed
<1>4. UserGone = 0 /\ (Limited /\ Editors = {} => TokenGone = 0)
  BY <1>1, <1>3, FiniteBooks, TotalOfZeros DEF UserBooks, TokenBooks
<1>5. /\ Eff("user") = balance["user"] /\ Eff("token") = balance["token"]
      /\ Eff("used") = balance["used"]
      /\ balance["user"] \in Int /\ balance["token"] \in Int /\ balance["used"] \in Int
  BY DEF Quiet, Eff, TypeOK, Accounts
<1>6. UserMatchesUsage
  BY <1>4, <1>5, LedgerTypes DEF UserGone, UserMatchesUsage, ConstantsOK
<1>7. Limited /\ Editors = {} => TokenMatchesUsage
  BY <1>4, <1>5, LedgerTypes DEF TokenGone, TokenMatchesUsage, ConstantsOK
<1>. QED BY <1>6, <1>7 DEF TokenMatchesUsage

\* The types, and the books of both balances with what is on its way.
THEOREM BooksBalance == Spec => []BooksInv
<1>1. Init => BooksInv
  BY BooksInit, ConstantsHold
<1>2. BooksInv /\ [Next]_vars => BooksInv'
  BY BooksNext, ConstantsHold
<1>. QED BY <1>1, <1>2, PTL DEF Spec

\* However many requests, attempts, settlements, refunds and top-ups interleave, with or
\* without Redis and the batch updater, and however often statements of the
\* pre-consumption fail: once all is settled the user has lost what is recorded as used
\* and what attempts kept that nothing settles (text.go, billing.go, utils.go).
THEOREM UserPaysForUsage == Spec => []UserBalanceMatchesUsage
<1>1. BooksInv => UserBalanceMatchesUsage
  BY QuietBooks, ConstantsHold
<1>. QED BY <1>1, BooksBalance, PTL

\* And the token as well, while no administrator writes an older balance back.
THEOREM TokenPaysForUsage ==
  ASSUME Editors = {}
  PROVE  Spec => []BalanceMatchesUsage
<1>1. BooksInv => BalanceMatchesUsage
  BY QuietBooks, ConstantsHold
<1>. QED BY <1>1, BooksBalance, PTL

----------------------------------------------------------------------------
(* How far the balances are overdrawn, without Redis and the batch updater. *)

\* Summands of no less than -D on A, and not negative elsewhere.
LEMMA TotalAtLeast ==
  ASSUME NEW S, IsFiniteSet(S), NEW T, IsFiniteSet(T), NEW D \in Nat,
         NEW f \in [S -> Int], NEW A \in SUBSET S,
         \A x \in A : f[x] >= -D, \A x \in S \ A : f[x] >= 0,
         NEW g \in [T -> Int], NEW B \in SUBSET T,
         \A x \in B : g[x] >= -D, \A x \in T \ B : g[x] >= 0,
         NEW n, Total(n, f, S, g, T)
  PROVE  n \in Int /\ n >= 0 - (Cardinality(A) + Cardinality(B)) * D
<1>1. ASSUME NEW U, IsFiniteSet(U), NEW h \in [U -> Int], NEW s, IsSum(s, h, U)
      PROVE  s \in Int /\ IsSum(-s, [x \in U |-> -h[x]], U)
  <2>. DEFINE m == Cardinality(U)
  <2>1. m \in Nat
    BY <1>1, Numbering
  <2>2. PICK e \in Bijection(1 .. m, U), p \in [0 .. m -> Int] :
          p[0] = 0 /\ p[m] = s /\ \A i \in 1 .. m : p[i] = p[i - 1] + h[e[i]]
    BY <1>1 DEF IsSum
  <2>3. \A i \in 1 .. m : e[i] \in U
    BY <1>1, Numbering
  <2>. HIDE DEF m
  <2>. DEFINE q == [i \in 0 .. m |-> -p[i]]
  <2>4. s \in Int /\ q \in [0 .. m -> Int] /\ q[0] = 0 /\ q[m] = -s
    BY <2>1, <2>2
  <2>5. ASSUME NEW i \in 1 .. m
        PROVE  q[i] = q[i - 1] + [x \in U |-> -h[x]][e[i]]
    <3>1. i \in 0 .. m /\ i - 1 \in 0 .. m /\ p[i] \in Int /\ p[i - 1] \in Int
      BY <2>1
    <3>2. p[i] = p[i - 1] + h[e[i]] /\ h[e[i]] \in Int
      BY <1>1, <2>2, <2>3
    <3>3. [x \in U |-> -h[x]][e[i]] = -h[e[i]]
      BY <2>3
    <3>4. q[i] = -p[i] /\ q[i - 1] = -p[i - 1]
      BY <3>1
    <3>. HIDE DEF q
    <3>. QED BY <3>1, <3>2, <3>3, <3>4
  <2>. HIDE DEF q
  <2>. QED BY <2>4, <2>5 DEF IsSum, m
<1>2. PICK a \in Int, b \in Int : IsSum(a, f, S) /\ IsSum(b, g, T) /\ n = a + b
  BY DEF Total
<1>. DEFINE f2 == [x \in S |-> -f[x]]
            g2 == [x \in T |-> -g[x]]
<1>3. IsSum(-a, f2, S) /\ IsSum(-b, g2, T)
  BY <1>1, <1>2
<1>4. /\ f2 \in [S -> Int] /\ g2 \in [T -> Int]
      /\ \A x \in A : f2[x] <= D
      /\ \A x \in S \ A : f2[x] <= 0
      /\ \A x \in B : g2[x] <= D
      /\ \A x \in T \ B : g2[x] <= 0
  OBVIOUS
<1>5. -n = (-a) + (-b) /\ n \in Int /\ -a \in Int /\ -b \in Int
  BY <1>2
<1>. HIDE DEF f2, g2
<1>6. Total(-n, f2, S, g2, T)
  BY <1>3, <1>5 DEF Total
<1>7. -n <= (Cardinality(A) + Cardinality(B)) * D
  BY <1>4, <1>6, TotalAtMost
<1>8. (Cardinality(A) + Cardinality(B)) * D \in Nat
  <2>1. Cardinality(A) \in Nat /\ Cardinality(B) \in Nat
    BY FS_Subset, FS_CardinalityType
  <2>2. Cardinality(A) + Cardinality(B) \in Nat
    BY <2>1
  <2>3. \A i \in Nat : i * D \in Nat
    OBVIOUS
  <2>. QED BY <2>2, <2>3
<1>. QED BY <1>5, <1>7, <1>8

\* What the bound is about.
Direct == /\ ~Redis /\ ~Batch
          /\ \E d \in Charges \cup Estimates : \A x \in Charges \cup Estimates : x <= d

LEMMA DearestFacts ==
  ASSUME ConstantsOK, Direct
  PROVE  /\ Dearest \in Nat
         /\ \A c \in Charges : c \in Nat /\ c <= Dearest
         /\ \A p \in Estimates \cup {0} : p \in Nat /\ p <= Dearest
<1>1. \E d \in Charges \cup Estimates : \A x \in Charges \cup Estimates : d >= x
  BY DEF Direct, ConstantsOK
<1>2. Dearest \in Charges \cup Estimates /\ \A x \in Charges \cup Estimates : Dearest >= x
  BY <1>1 DEF Dearest, Max
<1>. QED BY <1>2 DEF ConstantsOK

LEMMA DearestFixed == Dearest' = Dearest
BY DEF Dearest, Max

LEMMA Affordable ==
  ASSUME ConstantsOK, Direct, TypeOK, NEW r \in Requests
  PROVE  /\ pre[r] \in Nat /\ pre[r] <= Dearest
         /\ held[r] \in Nat /\ held[r] <= Dearest /\ seen[r] \in Int
<1>1. pre[r] \in Estimates \cup {0} /\ held[r] \in Estimates \cup {0} /\ seen[r] \in Int
  BY DEF TypeOK
<1>. QED BY <1>1, DearestFacts

\* What an attempt can still take of the user, and what a settlement will.
UserRest(r) ==
  IF \/ pc[r] \in {"checkToken", "checkUser", "takeToken", "takeUser"}
     \/ pc[r] \in {"keepQuota", "decide"} /\ seen[r] >= pre[r]
  THEN Dearest
  ELSE IF pc[r] \in {"upstream", "deferred"} THEN Dearest - held[r] ELSE 0

UserDue(t) == IF tasks[t].at = "user" /\ tasks[t].delta > 0 THEN tasks[t].delta ELSE 0

\* A request that has failed can take of the token again without asking.
TokenRest(r) ==
  IF pc[r] \in {"keepToken", "ask", "keepQuota", "decide", "checkToken", "checkUser",
                "takeToken", "failed"} THEN Dearest
  ELSE IF pc[r] = "takeUser" THEN Dearest - pre[r]
  ELSE IF pc[r] \in {"upstream", "deferred"} THEN Dearest - held[r] ELSE 0

TokenDue(t) == IF tasks[t].at \in {"user", "token"} THEN tasks[t].delta ELSE 0

UserRests == [r \in Requests |-> UserRest(r)]
UserDues == [t \in Tasks |-> UserDue(t)]
TokenRests == [r \in Requests |-> TokenRest(r)]
TokenDues == [t \in Tasks |-> TokenDue(t)]

UserRoom ==
  \E n \in Int : /\ Total(n, UserRests, Requests, UserDues, Tasks)
                 /\ n <= balance["user"] + peak * Dearest

TokenRoom ==
  \E n \in Int : /\ Total(n, TokenRests, Requests, TokenDues, Tasks)
                 /\ n <= balance["token"] + kept.token + peak * Dearest
                           - Min({InitialToken, 1})

\* The attempts and the settlements that can still take of the user.
Trying == {r \in Requests :
  pc[r] \in {"ask", "keepQuota", "decide", "checkToken", "checkUser", "takeToken",
             "takeUser", "upstream", "deferred"}}
Booking == {t \in Tasks : tasks[t].at = "user"}

Few == Cardinality(Trying) + Cardinality(Booking) <= peak

DeltaInv == \A t \in Tasks :
  tasks[t].at \in {"user", "token"}
    => -Dearest <= tasks[t].delta /\ tasks[t].delta <= Dearest

LEMMA RoomTypes ==
  ASSUME ConstantsOK, Direct, TypeOK
  PROVE  /\ \A r \in Requests : /\ UserRest(r) \in Nat /\ UserRest(r) <= Dearest
                                /\ TokenRest(r) \in Nat /\ TokenRest(r) <= Dearest
         /\ \A t \in Tasks : UserDue(t) \in Nat /\ TokenDue(t) \in Int
         /\ UserRests \in [Requests -> Int] /\ TokenRests \in [Requests -> Int]
         /\ UserDues \in [Tasks -> Int] /\ TokenDues \in [Tasks -> Int]
         /\ balance["user"] \in Int /\ balance["token"] \in Int
         /\ kept.token \in Nat /\ peak \in Nat /\ peak * Dearest \in Nat
<1>1. Dearest \in Nat
  BY DearestFacts
<1>2. ASSUME NEW r \in Requests
      PROVE  /\ UserRest(r) \in Nat /\ UserRest(r) <= Dearest
             /\ TokenRest(r) \in Nat /\ TokenRest(r) <= Dearest
  <2>1. /\ pre[r] \in Nat /\ pre[r] <= Dearest /\ held[r] \in Nat /\ held[r] <= Dearest
    BY Affordable
  <2>2. /\ Dearest - pre[r] \in Nat /\ Dearest - pre[r] <= Dearest
        /\ Dearest - held[r] \in Nat /\ Dearest - held[r] <= Dearest
        /\ 0 <= Dearest
    BY <1>1, <2>1
  <2>. QED BY <1>1, <2>2 DEF UserRest, TokenRest
<1>3. ASSUME NEW t \in Tasks
      PROVE  UserDue(t) \in Nat /\ TokenDue(t) \in Int
  <2>1. tasks[t].delta \in Int
    BY LedgerTypes
  <2>. QED BY <2>1 DEF UserDue, TokenDue
<1>4. balance["user"] \in Int /\ balance["token"] \in Int /\ kept.token \in Nat /\ peak \in Nat
  BY DEF TypeOK, Accounts
<1>5. peak * Dearest \in Nat
  BY <1>1, <1>4
<1>. QED BY <1>2, <1>3, <1>4, <1>5 DEF UserRests, UserDues, TokenRests, TokenDues

\* The same of the next state.
LEMMA RoomTypesNext ==
  ASSUME ConstantsOK, Direct, TypeOK'
  PROVE  /\ \A r \in Requests : /\ UserRest(r)' \in Nat /\ UserRest(r)' <= Dearest
                                /\ TokenRest(r)' \in Nat /\ TokenRest(r)' <= Dearest
         /\ \A t \in Tasks : UserDue(t)' \in Nat /\ TokenDue(t)' \in Int
         /\ UserRests' \in [Requests -> Int] /\ TokenRests' \in [Requests -> Int]
         /\ UserDues' \in [Tasks -> Int] /\ TokenDues' \in [Tasks -> Int]
         /\ balance'["user"] \in Int /\ balance'["token"] \in Int
         /\ kept'.token \in Nat /\ peak' \in Nat /\ peak' * Dearest \in Nat
<1>1. Dearest \in Nat /\ \A p \in Estimates \cup {0} : p \in Nat /\ p <= Dearest
  BY DearestFacts
<1>2. ASSUME NEW r \in Requests
      PROVE  /\ UserRest(r)' \in Nat /\ UserRest(r)' <= Dearest
             /\ TokenRest(r)' \in Nat /\ TokenRest(r)' <= Dearest
  <2>1. pre'[r] \in Estimates \cup {0} /\ held'[r] \in Estimates \cup {0}
    BY DEF TypeOK
  <2>2. \A p \in Estimates \cup {0} : Dearest - p \in Nat /\ Dearest - p <= Dearest
    BY <1>1
  <2>3. /\ Dearest - pre'[r] \in Nat /\ Dearest - pre'[r] <= Dearest
        /\ Dearest - held'[r] \in Nat /\ Dearest - held'[r] <= Dearest
        /\ 0 <= Dearest
    BY <1>1, <2>1, <2>2
  <2>. QED BY <1>1, <2>3, DearestFixed DEF UserRest, TokenRest
<1>3. ASSUME NEW t \in Tasks
      PROVE  UserDue(t)' \in Nat /\ TokenDue(t)' \in Int
  <2>1. tasks'[t].delta \in Int
    BY DEF TypeOK, Tasks
  <2>. QED BY <2>1 DEF UserDue, TokenDue
<1>4. /\ balance'["user"] \in Int /\ balance'["token"] \in Int /\ kept'.token \in Nat
      /\ peak' \in Nat
  BY DEF TypeOK, Accounts
<1>5. peak' * Dearest \in Nat
  <2>1. \A i \in Nat : i * Dearest \in Nat
    BY <1>1
  <2>. QED BY <1>4, <2>1
<1>. QED BY <1>2, <1>3, <1>4, <1>5 DEF UserRests, UserDues, TokenRests, TokenDues

\* What the settlement of an attempt can be when it starts.
LEMMA SpawnedDelta ==
  ASSUME ConstantsOK, Direct, TypeOK, TaskInv, NEW r \in Requests,
         NEW t, t = Own(r), Upstream(r)
  PROVE  /\ t \in Tasks /\ tasks[t].at = "idle"
         /\ held[r] \in Nat /\ held[r] <= Dearest
         /\ \/ tasks' = tasks /\ (Keep(r) \/ kept' = kept)
            \/ /\ tasks'[t].at = "user" /\ kept' = kept
               /\ tasks'[t].delta \in Int /\ -Dearest <= tasks'[t].delta
               /\ tasks'[t].delta <= Dearest - held[r]
               /\ pc'[r] = "failed" => tasks'[t].delta = -held[r]
               /\ pc'[r] \in {"failed", "served"}
         /\ tasks' = tasks /\ kept' = kept /\ pc'[r] = "failed" => held[r] = 0
<1>1. /\ t \in Tasks /\ tasks[t].at = "idle"
      /\ held[r] \in Nat /\ held[r] <= Dearest /\ Dearest \in Nat
  <2>1. pc[r] \in {"upstream", "deferred"}
    BY UpstreamSteps
  <2>. QED BY <2>1, Affordable, DearestFacts DEF TaskInv, Own, TypeOK, Ended, Tasks
<1>2. CASE Keep(r)
  <2>1. kept'.user = kept.user + held[r] /\ kept.user \in Nat /\ tasks' = tasks
    BY <1>2 DEF Keep, TypeOK
  <2>2. kept' = kept => held[r] = 0
    BY <1>1, <2>1
  <2>. QED BY <1>1, <1>2, <2>1, <2>2
<1>3. CASE pc'[r] = "failed" /\ Refund(r) /\ UNCHANGED kept
  <2>1. CASE held[r] = 0
    <3>1. tasks' = tasks
      BY <1>3, <2>1 DEF Refund
    <3>. QED BY <1>1, <1>3, <2>1, <3>1
  <2>2. CASE held[r] # 0
    <3>1. -held[r] \in Int /\ -Dearest <= -held[r] /\ -held[r] <= Dearest - held[r]
          /\ held[r] <= Dearest
      BY <1>1
    <3>2. tasks'[t] = [at |-> "user", delta |-> -held[r], charge |-> Missing, seen |-> 0]
      <4>1. Spawn(r, -held[r], Missing)
        BY <1>3, <2>2 DEF Refund
      <4>2. tasks' = [tasks EXCEPT ![t] =
                        [at |-> "user", delta |-> -held[r], charge |-> Missing, seen |-> 0]]
        BY <4>1 DEF Spawn, Own
      <4>. QED BY <1>1, <4>2 DEF TypeOK, Tasks
    <3>3. tasks' # tasks
      BY <1>1, <3>2
    <3>. QED BY <1>1, <1>3, <3>1, <3>2, <3>3
  <2>. QED BY <2>1, <2>2
<1>4. ASSUME pc'[r] = "served", UNCHANGED kept, NEW c \in Charges, Commit(r, c)
      PROVE  /\ tasks'[t].at = "user"
             /\ tasks'[t].delta \in Int /\ -Dearest <= tasks'[t].delta
             /\ tasks'[t].delta <= Dearest - held[r]
  <2>1. c \in Nat /\ c <= Dearest
    BY DearestFacts
  <2>2. /\ c - held[r] \in Int /\ -Dearest <= c - held[r] /\ c - held[r] <= Dearest - held[r]
    BY <1>1, <2>1
  <2>3. tasks'[t] = [at |-> "user", delta |-> c - held[r], charge |-> c, seen |-> 0]
    BY <1>1, <1>4, <2>2, SpawnStep DEF Commit, TypeOK, Tasks
  <2>. QED BY <2>2, <2>3
<1>5. CASE pc'[r] = "deferred" /\ UNCHANGED <<tasks, kept>>
  BY <1>1, <1>5
<1>6. \/ Keep(r)
      \/ pc'[r] = "failed" /\ Refund(r) /\ UNCHANGED kept
      \/ pc'[r] = "served" /\ UNCHANGED kept /\ \E c \in Charges : Commit(r, c)
      \/ pc'[r] = "deferred" /\ UNCHANGED <<tasks, kept>>
  BY UpstreamSteps DEF TypeOK
<1>. QED BY <1>1, <1>2, <1>3, <1>4, <1>5, <1>6

LEMMA DeltaNext ==
  ASSUME ConstantsOK, Direct, TypeOK, TaskInv, DeltaInv, [Next]_vars
  PROVE  DeltaInv'
<1>. DEFINE Small(d) == -Dearest <= d /\ d <= Dearest
<1>1. Dearest \in Nat /\ Dearest' = Dearest
  BY DearestFacts, DearestFixed
<1>2. \A t \in Tasks : tasks[t].at \in {"user", "token"} => Small(tasks[t].delta)
  BY DEF DeltaInv
<1>. HIDE DEF Small
<1>. SUFFICES ASSUME NEW u \in Tasks, tasks'[u].at \in {"user", "token"}
     PROVE  Small(tasks'[u].delta)
  BY <1>1 DEF DeltaInv, Small
<1>3. CASE tasks'[u] = tasks[u]
  BY <1>2, <1>3
<1>4. ASSUME NEW r \in Requests, RequestStep(r), tasks'[u] # tasks[u]
      PROVE  Small(tasks'[u].delta)
  <2>1. u = Own(r)
    BY <1>4, RequestFrame
  <2>2. CASE Upstream(r)
    <3>1. /\ held[r] \in Nat /\ tasks'[u].delta \in Int
          /\ -Dearest <= tasks'[u].delta /\ tasks'[u].delta <= Dearest - held[r]
      BY <1>4, <2>1, <2>2, SpawnedDelta
    <3>2. tasks'[u].delta <= Dearest
      BY <1>1, <3>1
    <3>. QED BY <3>1, <3>2 DEF Small
  <2>3. CASE ~Upstream(r)
    <3>1. UNCHANGED tasks
      BY <1>4, <2>3 DEF RequestStep, AuthFromRow, MarkExhausted, AuthFromCache, AuthReload,
         KeepToken, Ask, KeepQuota, Decide, CheckToken, CheckUser, TakeToken, TakeUser,
         Again, GiveUp
    <3>. QED BY <1>4, <3>1
  <2>. QED BY <2>2, <2>3
<1>5. ASSUME NEW t \in Tasks, TaskStep(t), tasks'[u] # tasks[u]
      PROVE  Small(tasks'[u].delta)
  <2>1. u = t
    BY <1>5, TaskFrame
  <2>2. tasks'[u].delta = tasks[u].delta /\ tasks[u].at = "user" /\ tasks'[u].at = "token"
    BY <1>5, <2>1 DEF TaskStep, BookUser, BookToken, EndRefund, RefreshRead, RefreshKeep,
       BookUsed, Proceed, TypeOK, Tasks, Idle
  <2>. QED BY <1>2, <2>2
<1>6. ASSUME \/ \E a \in TopUps : TopUp(a)
             \/ \E e \in Editors : EditRead(e) \/ EditWrite(e)
             \/ Swap \/ Write \/ ExpireQuota \/ ExpireToken
             \/ UNCHANGED vars
      PROVE  tasks'[u] = tasks[u]
  BY <1>6, OtherMoves
<1>. QED BY <1>3, <1>4, <1>5, <1>6, StepKinds

\* The settlement an attempt starts takes the place of the attempt.
LEMMA FewNext ==
  ASSUME ConstantsOK, Direct, TypeOK, TypeOK', TaskInv, Few, [Next]_vars
  PROVE  Few'
<1>1. /\ IsFiniteSet(Trying) /\ IsFiniteSet(Booking)
      /\ Cardinality(Trying) \in Nat /\ Cardinality(Booking) \in Nat
      /\ peak \in Nat /\ peak' \in Nat
  <2>1. Trying \in SUBSET Requests /\ Booking \in SUBSET Tasks
    BY DEF Trying, Booking
  <2>2. IsFiniteSet(Trying) /\ IsFiniteSet(Booking)
    BY <2>1, FiniteBooks, FS_Subset
  <2>. QED BY <2>2, FS_CardinalityType DEF TypeOK
<1>2. ASSUME Trying' \subseteq Trying, Booking' \subseteq Booking, peak' = peak
      PROVE  Few'
  <2>1. /\ Cardinality(Trying') \in Nat /\ Cardinality(Trying') <= Cardinality(Trying)
        /\ Cardinality(Booking') \in Nat /\ Cardinality(Booking') <= Cardinality(Booking)
    BY <1>1, <1>2, FS_Subset, FS_CardinalityType
  <2>. QED BY <1>1, <1>2, <2>1 DEF Few
<1>3. ASSUME NEW r \in Requests, RequestStep(r)
      PROVE  Few'
  <2>1. \A q \in Requests : q # r => pc'[q] = pc[q]
    BY <1>3, RequestFrame
  <2>2. ASSUME Attempt(r), UNCHANGED tasks
        PROVE  Few'
    <3>1. Open \cup {r} \in SUBSET Requests /\ Unsettled \in SUBSET Tasks
      BY DEF Open, Unsettled, TypeOK, Tasks
    <3>2. IsFiniteSet(Open \cup {r}) /\ IsFiniteSet(Unsettled)
      BY <3>1, FiniteBooks, FS_Subset
    <3>3. Trying' \subseteq Open \cup {r} /\ Booking' \subseteq Unsettled
      BY <2>1, <2>2 DEF Trying, Open, Ended, Booking, Unsettled, TypeOK, Tasks
    <3>4. /\ Cardinality(Trying') \in Nat
          /\ Cardinality(Trying') <= Cardinality(Open \cup {r})
          /\ Cardinality(Booking') \in Nat
          /\ Cardinality(Booking') <= Cardinality(Unsettled)
      BY <3>2, <3>3, FS_Subset, FS_CardinalityType
    <3>. QED BY <2>2, <3>4, AttemptStep DEF Few
  <2>3. ASSUME UNCHANGED <<tasks, peak>>, r \in Trying' => r \in Trying
        PROVE  Few'
    <3>1. Trying' \subseteq Trying /\ Booking' \subseteq Booking
      BY <2>1, <2>3 DEF Trying, Booking
    <3>. QED BY <1>2, <2>3, <3>1
  <2>4. CASE AuthFromRow(r) \/ AuthFromCache(r) \/ KeepToken(r)
    <3>1. UNCHANGED tasks
      BY <2>4 DEF AuthFromRow, AuthFromCache, KeepToken
    <3>2. \/ Attempt(r)
          \/ peak' = peak /\ pc'[r] \in {"refused", "exhaust"}
      BY <2>4 DEF AuthFromRow, AuthFromCache, KeepToken, Judge, Enter, Goto, TypeOK
    <3>. QED BY <2>2, <2>3, <3>1, <3>2 DEF Trying
  <2>5. CASE Again(r)
    BY <2>2, <2>5 DEF Again
  <2>6. CASE MarkExhausted(r) \/ AuthReload(r) \/ GiveUp(r)
    BY <2>3, <2>6 DEF MarkExhausted, AuthReload, GiveUp, Goto, TypeOK, Trying
  <2>7. CASE Ask(r) \/ KeepQuota(r) \/ Decide(r) \/ CheckToken(r) \/ CheckUser(r)
             \/ TakeToken(r) \/ TakeUser(r)
    <3>1. pc[r] \in {"ask", "keepQuota", "decide", "checkToken", "checkUser", "takeToken",
                     "takeUser"}
      BY <2>7 DEF Ask, KeepQuota, Decide, CheckToken, CheckUser, TakeToken, TakeUser, Goto
    <3>2. UNCHANGED <<tasks, peak>>
      BY <2>7 DEF Ask, KeepQuota, Decide, CheckToken, CheckUser, TakeToken, TakeUser
    <3>. QED BY <2>3, <3>1, <3>2 DEF Trying
  <2>8. CASE Upstream(r)
    <3>1. pc[r] \in {"upstream", "deferred"} /\ peak' = peak
      BY <2>8, UpstreamSteps
    <3>2. PICK t : t = Own(r)
      OBVIOUS
    <3>3. /\ t \in Tasks /\ tasks[t].at = "idle"
          /\ tasks' = tasks \/ (tasks'[t].at = "user" /\ pc'[r] \in {"failed", "served"})
      BY <2>8, <3>2, SpawnedDelta
    <3>4. r \in Trying
      BY <3>1 DEF Trying
    <3>5. CASE tasks' = tasks
      BY <2>3, <3>1, <3>4, <3>5
    <3>6. CASE tasks'[t].at = "user" /\ pc'[r] \in {"failed", "served"}
      <4>1. Trying' = Trying \ {r}
        BY <2>1, <3>6 DEF Trying
      <4>2. Booking' = Booking \cup {t} /\ t \notin Booking
        BY <1>3, <3>2, <3>3, <3>6, RequestFrame DEF Booking
      <4>3. Cardinality(Trying') = Cardinality(Trying) - 1
        BY <1>1, <3>4, <4>1, FS_RemoveElement
      <4>4. Cardinality(Booking') = Cardinality(Booking) + 1
        BY <1>1, <4>2, FS_AddElement
      <4>. QED BY <1>1, <3>1, <4>3, <4>4 DEF Few
    <3>. QED BY <3>3, <3>5, <3>6
  <2>. QED BY <1>3, <2>4, <2>5, <2>6, <2>7, <2>8 DEF RequestStep
<1>4. ASSUME NEW t \in Tasks, TaskStep(t)
      PROVE  Few'
  <2>1. UNCHANGED <<pc, peak>> /\ \A u \in Tasks : u # t => tasks'[u] = tasks[u]
    BY <1>4, TaskFrame DEF worker
  <2>2. tasks'[t].at # "user"
    BY <1>4 DEF TaskStep, BookUser, BookToken, EndRefund, RefreshRead, RefreshKeep,
       BookUsed, Proceed, TypeOK, Tasks, Idle
  <2>3. Trying' \subseteq Trying /\ Booking' \subseteq Booking
    BY <2>1, <2>2 DEF Trying, Booking
  <2>. QED BY <1>2, <2>1, <2>3
<1>5. ASSUME \/ \E a \in TopUps : TopUp(a)
             \/ \E e \in Editors : EditRead(e) \/ EditWrite(e)
             \/ Swap \/ Write \/ ExpireQuota \/ ExpireToken
             \/ UNCHANGED vars
      PROVE  Few'
  <2>1. UNCHANGED <<pc, tasks, peak>>
    BY <1>5 DEF TopUp, EditRead, EditWrite, Swap, Write, ExpireQuota, ExpireToken, vars,
       worker
  <2>. QED BY <1>2, <2>1 DEF Trying, Booking
<1>. QED BY <1>3, <1>4, <1>5, StepKinds

\* What a step of a request takes of the user, the request could take before it; what
\* it can take after an answer of CacheGetUserQuota, the user had then.
LEMMA UserRoomRequest ==
  ASSUME ConstantsOK, Direct, TypeOK, HeldInv, TaskInv, TypeOK',
         NEW r \in Requests, NEW t, t = Own(r), RequestStep(r)
  PROVE  /\ t \in Tasks /\ peak' >= peak
         /\ \/ (UserRest(r)' - UserRest(r)) + (UserDue(t)' - UserDue(t))
                 <= balance'["user"] - balance["user"]
            \/ balance["user"] >= 0 /\ UNCHANGED <<balance, peak, tasks>>
<1>. DEFINE Goal == \/ (UserRest(r)' - UserRest(r)) + (UserDue(t)' - UserDue(t))
                         <= balance'["user"] - balance["user"]
                    \/ balance["user"] >= 0 /\ UNCHANGED <<balance, peak, tasks>>
<1>1. /\ t \in Tasks /\ Dearest \in Nat /\ Dearest' = Dearest
      /\ pre[r] \in Nat /\ pre[r] <= Dearest /\ held[r] \in Nat /\ held[r] <= Dearest
  BY Affordable, DearestFacts, DearestFixed DEF Own, Tasks, TypeOK
<1>2. /\ UserRest(r) \in Nat /\ UserDue(t) \in Nat /\ balance["user"] \in Int
      /\ UserRest(r)' \in Nat /\ UserDue(t)' \in Nat /\ balance'["user"] \in Int
      /\ peak \in Nat /\ peak' \in Nat
  BY <1>1, RoomTypes, RoomTypesNext
<1>3. peak' >= peak
  <2>1. Attempt(r) \/ peak' = peak
    BY UpstreamSteps DEF RequestStep, AuthFromRow, MarkExhausted, AuthFromCache, AuthReload,
       KeepToken, Judge, Enter, Ask, KeepQuota, Decide, CheckToken, CheckUser, TakeToken,
       TakeUser, Again, GiveUp
  <2>2. CASE Attempt(r)
    BY <2>2, AttemptStep
  <2>3. CASE peak' = peak
    BY <1>2, <2>3
  <2>. QED BY <2>1, <2>2, <2>3
<1>4. ASSUME UNCHANGED tasks
      PROVE  UserDue(t)' = UserDue(t)
  BY <1>4 DEF UserDue
<1>5. ASSUME UNCHANGED <<balance, tasks>>, UserRest(r)' <= UserRest(r)
      PROVE  Goal
  BY <1>2, <1>4, <1>5
<1>. HIDE DEF Goal
<1>. SUFFICES Goal
  BY <1>1, <1>3 DEF Goal
<1>6. CASE AuthFromRow(r) \/ AuthFromCache(r) \/ KeepToken(r)
  <2>1. UNCHANGED <<balance, tasks>> /\ pc'[r] \in {"ask", "exhaust", "refused"}
    BY <1>6 DEF AuthFromRow, AuthFromCache, KeepToken, Judge, Enter, Goto, TypeOK, books
  <2>2. UserRest(r)' = 0
    BY <2>1 DEF UserRest
  <2>. QED BY <1>2, <1>5, <2>1, <2>2
<1>7. CASE MarkExhausted(r) \/ AuthReload(r) \/ Again(r) \/ GiveUp(r)
  <2>1. UNCHANGED <<balance, tasks>> /\ pc'[r] \in {"refused", "keepToken", "ask", "gaveUp"}
    BY <1>7 DEF MarkExhausted, AuthReload, Again, GiveUp, Goto, TypeOK, books
  <2>2. UserRest(r)' = 0
    BY <2>1 DEF UserRest
  <2>. QED BY <1>2, <1>5, <2>1, <2>2
<1>8. CASE Ask(r)
  <2>1. /\ UNCHANGED <<balance, tasks, peak>>
        /\ pc'[r] = "decide" /\ seen'[r] = balance["user"] /\ pre'[r] \in Nat
    BY <1>8 DEF Ask, Goto, TypeOK, books, Direct, ConstantsOK
  <2>2. CASE seen'[r] >= pre'[r]
    <3>1. balance["user"] >= 0
      BY <1>2, <2>1, <2>2
    <3>. QED BY <2>1, <3>1 DEF Goal
  <2>3. CASE ~(seen'[r] >= pre'[r])
    <3>1. UserRest(r)' = 0
      BY <2>1, <2>3 DEF UserRest
    <3>. QED BY <1>2, <1>5, <2>1, <3>1
  <2>. QED BY <2>2, <2>3
<1>9. CASE KeepQuota(r)
  <2>1. /\ UNCHANGED <<balance, tasks, pre, seen, held>>
        /\ pc[r] = "keepQuota" /\ pc'[r] = "decide"
    BY <1>9 DEF KeepQuota, Goto, TypeOK, books
  <2>2. UserRest(r)' = UserRest(r)
    BY <1>1, <2>1 DEF UserRest
  <2>. QED BY <1>2, <1>5, <2>1, <2>2
<1>10. CASE Decide(r)
  <2>1. /\ UNCHANGED <<balance, tasks, pre, seen, held>> /\ pc[r] = "decide"
        /\ held[r] = 0
        /\ \/ pc'[r] = "failed"
           \/ seen[r] >= pre[r] /\ pc'[r] \in {"upstream", "checkToken"}
    BY <1>10 DEF Decide, Goto, TypeOK, books, HeldInv
  <2>2. CASE pc'[r] = "failed"
    <3>1. UserRest(r)' = 0
      BY <2>2 DEF UserRest
    <3>. QED BY <1>2, <1>5, <2>1, <3>1
  <2>3. CASE seen[r] >= pre[r] /\ pc'[r] \in {"upstream", "checkToken"}
    <3>1. UserRest(r) = Dearest
      BY <2>1, <2>3 DEF UserRest
    <3>2. UserRest(r)' = Dearest
      BY <1>1, <2>1, <2>3 DEF UserRest
    <3>. QED BY <1>1, <1>5, <2>1, <3>1, <3>2
  <2>. QED BY <2>1, <2>2, <2>3
<1>11. CASE CheckToken(r) \/ CheckUser(r)
  <2>1. /\ UNCHANGED <<balance, tasks>> /\ pc[r] \in {"checkToken", "checkUser"}
        /\ pc'[r] \in {"failed", "checkUser", "takeToken", "takeUser"}
    BY <1>11 DEF CheckToken, CheckUser, Goto, TypeOK, books
  <2>2. UserRest(r) = Dearest /\ UserRest(r)' \in {Dearest, 0}
    BY <1>1, <2>1 DEF UserRest
  <2>. QED BY <1>1, <1>5, <2>1, <2>2
<1>12. CASE TakeToken(r)
  <2>1. /\ UNCHANGED tasks /\ pc[r] = "takeToken" /\ pc'[r] \in {"takeUser", "failed"}
        /\ UNCHANGED balance \/ Add("token", -pre[r])
    BY <1>12 DEF TakeToken, Goto, TypeOK, books
  <2>2. balance'["user"] = balance["user"]
    BY <1>1, <1>2, <2>1 DEF Add, Direct, TypeOK, Accounts
  <2>3. UserRest(r) = Dearest /\ UserRest(r)' \in {Dearest, 0}
    BY <1>1, <2>1 DEF UserRest
  <2>. QED BY <1>1, <1>2, <1>4, <2>1, <2>2, <2>3 DEF Goal
<1>13. CASE TakeUser(r)
  <2>1. UNCHANGED tasks /\ pc[r] = "takeUser" /\ UserRest(r) = Dearest
    BY <1>13 DEF TakeUser, Goto, UserRest
  <2>2. CASE pc'[r] = "failed" /\ UNCHANGED books
    <3>1. UserRest(r)' = 0
      BY <2>2 DEF UserRest
    <3>. QED BY <1>2, <1>5, <2>1, <2>2, <3>1 DEF books
  <2>3. CASE pc'[r] = "upstream" /\ Add("user", -pre[r]) /\ held'[r] = pre[r]
    <3>1. balance'["user"] = balance["user"] - pre[r]
      BY <1>1, <1>2, <2>3 DEF Add, Direct, TypeOK, Accounts
    <3>2. UserRest(r)' = Dearest - pre[r]
      BY <1>1, <2>3 DEF UserRest
    <3>. QED BY <1>1, <1>2, <1>4, <2>1, <3>1, <3>2 DEF Goal
  <2>. QED BY <1>13, <2>2, <2>3 DEF TakeUser, Goto, TypeOK
<1>14. CASE Upstream(r)
  <2>1. /\ UNCHANGED <<balance, held, pre, seen>> /\ pc[r] \in {"upstream", "deferred"}
        /\ pc'[r] \in {"failed", "served", "deferred"}
    BY <1>14, UpstreamSteps DEF books, TypeOK
  <2>2. UserRest(r) = Dearest - held[r]
    BY <2>1 DEF UserRest
  <2>3. UserRest(r)' \in {Dearest - held[r], 0}
    BY <1>1, <2>1 DEF UserRest
  <2>4. CASE tasks' = tasks
    <3>1. UserRest(r)' <= UserRest(r)
      BY <1>1, <2>2, <2>3
    <3>. QED BY <1>5, <2>1, <2>4, <3>1
  <2>5. CASE /\ tasks'[t].at = "user" /\ tasks'[t].delta \in Int
             /\ tasks'[t].delta <= Dearest - held[r] /\ pc'[r] \in {"failed", "served"}
    <3>1. UserRest(r)' = 0
      BY <2>5 DEF UserRest
    <3>2. UserDue(t) = 0
      BY <1>14, SpawnedDelta DEF UserDue
    <3>3. UserDue(t)' <= Dearest - held[r]
      BY <1>1, <2>5 DEF UserDue
    <3>. QED BY <1>1, <1>2, <2>1, <2>2, <3>1, <3>2, <3>3 DEF Goal
  <2>. QED BY <1>14, <2>4, <2>5, SpawnedDelta
<1>. QED BY <1>6, <1>7, <1>8, <1>9, <1>10, <1>11, <1>12, <1>13, <1>14 DEF RequestStep

\* The same of the token, which is looked at when the request comes in and not again,
\* and which gets back what was kept of it in the bound.
LEMMA TokenRoomRequest ==
  ASSUME ConstantsOK, Direct, Limited, TypeOK, HeldInv, TaskInv, TypeOK',
         NEW r \in Requests, NEW t, t = Own(r), RequestStep(r)
  PROVE  /\ t \in Tasks /\ peak' >= peak
         /\ \/ (TokenRest(r)' - TokenRest(r)) + (TokenDue(t)' - TokenDue(t))
                 <= (balance'["token"] + kept'.token) - (balance["token"] + kept.token)
            \/ balance["token"] >= 1 /\ Attempt(r) /\ UNCHANGED <<balance, kept, tasks>>
<1>. DEFINE Goal == \/ (TokenRest(r)' - TokenRest(r)) + (TokenDue(t)' - TokenDue(t))
                         <= (balance'["token"] + kept'.token)
                              - (balance["token"] + kept.token)
                    \/ /\ balance["token"] >= 1 /\ Attempt(r)
                       /\ UNCHANGED <<balance, kept, tasks>>
<1>1. /\ t \in Tasks /\ Dearest \in Nat /\ Dearest' = Dearest
      /\ pre[r] \in Nat /\ pre[r] <= Dearest /\ held[r] \in Nat /\ held[r] <= Dearest
  BY Affordable, DearestFacts, DearestFixed DEF Own, Tasks, TypeOK
<1>2. /\ TokenRest(r) \in Nat /\ TokenDue(t) \in Int /\ balance["token"] \in Int
      /\ TokenRest(r)' \in Nat /\ TokenDue(t)' \in Int /\ balance'["token"] \in Int
      /\ kept.token \in Nat /\ kept'.token \in Nat
  BY <1>1, RoomTypes, RoomTypesNext
<1>3. peak' >= peak
  BY UserRoomRequest
<1>4. ASSUME UNCHANGED tasks
      PROVE  TokenDue(t)' = TokenDue(t)
  BY <1>4 DEF TokenDue
<1>5. ASSUME UNCHANGED <<balance, kept, tasks>>, TokenRest(r)' <= TokenRest(r)
      PROVE  Goal
  BY <1>2, <1>4, <1>5
<1>. HIDE DEF Goal
<1>. SUFFICES Goal
  BY <1>1, <1>3 DEF Goal
<1>6. CASE AuthFromRow(r)
  <2>1. /\ UNCHANGED <<balance, kept, tasks>> /\ pc[r] = "new"
        /\ \/ pc'[r] \in {"exhaust", "refused"}
           \/ ~(balance["token"] <= 0) /\ Attempt(r)
    BY <1>6 DEF AuthFromRow, Enter, Goto, Spent, TypeOK, books
  <2>2. CASE pc'[r] \in {"exhaust", "refused"}
    <3>1. TokenRest(r)' = 0
      BY <2>2 DEF TokenRest
    <3>. QED BY <1>2, <1>5, <2>1, <3>1
  <2>3. CASE ~(balance["token"] <= 0) /\ Attempt(r)
    BY <1>2, <2>1, <2>3 DEF Goal
  <2>. QED BY <2>1, <2>2, <2>3
<1>7. CASE KeepToken(r) \/ MarkExhausted(r) \/ Again(r) \/ GiveUp(r)
  <2>1. /\ UNCHANGED <<balance, kept, tasks>>
        /\ \/ pc[r] \in {"keepToken", "failed"} /\ pc'[r] = "ask"
           \/ pc'[r] \in {"refused", "gaveUp"}
    BY <1>7 DEF KeepToken, Judge, Enter, MarkExhausted, Again, GiveUp, Goto, TypeOK, books
  <2>2. TokenRest(r)' = 0 \/ (TokenRest(r) = Dearest /\ TokenRest(r)' = Dearest)
    BY <1>1, <2>1 DEF TokenRest
  <2>. QED BY <1>1, <1>2, <1>5, <2>1, <2>2
<1>8. CASE AuthFromCache(r) \/ AuthReload(r)
  BY <1>8 DEF AuthFromCache, AuthReload, Direct
<1>9. CASE Ask(r) \/ KeepQuota(r) \/ CheckToken(r)
  <2>1. /\ UNCHANGED <<balance, kept, tasks>>
        /\ pc[r] \in {"ask", "keepQuota", "checkToken"}
        /\ pc'[r] \in {"keepQuota", "decide", "failed", "checkUser"}
    BY <1>9 DEF Ask, KeepQuota, CheckToken, Goto, TypeOK, books
  <2>2. TokenRest(r) = Dearest /\ TokenRest(r)' = Dearest
    BY <1>1, <2>1 DEF TokenRest
  <2>. QED BY <1>1, <1>5, <2>1, <2>2
<1>10. CASE Decide(r)
  <2>1. /\ UNCHANGED <<balance, kept, tasks, held, pre>>
        /\ pc[r] = "decide" /\ held[r] = 0
        /\ pc'[r] \in {"failed", "upstream", "checkToken"}
    BY <1>10 DEF Decide, Goto, TypeOK, books, HeldInv
  <2>2. TokenRest(r) = Dearest /\ TokenRest(r)' = Dearest
    BY <1>1, <2>1 DEF TokenRest
  <2>. QED BY <1>1, <1>5, <2>1, <2>2
<1>11. CASE CheckUser(r)
  <2>1. /\ UNCHANGED <<balance, kept, tasks>> /\ pc[r] = "checkUser"
        /\ pc'[r] \in {"failed", "takeToken"}
    BY <1>11 DEF CheckUser, Goto, TypeOK, books
  <2>2. TokenRest(r) = Dearest /\ TokenRest(r)' = Dearest
    BY <1>1, <2>1 DEF TokenRest
  <2>. QED BY <1>1, <1>5, <2>1, <2>2
<1>12. CASE TakeToken(r)
  <2>1. UNCHANGED <<tasks, kept, pre>> /\ pc[r] = "takeToken" /\ TokenRest(r) = Dearest
    BY <1>12 DEF TakeToken, Goto, TokenRest
  <2>2. CASE pc'[r] = "failed" /\ UNCHANGED books
    <3>1. TokenRest(r)' = Dearest
      BY <1>1, <2>2 DEF TokenRest
    <3>. QED BY <1>1, <1>5, <2>1, <2>2, <3>1 DEF books
  <2>3. CASE pc'[r] = "takeUser" /\ Add("token", -pre[r])
    <3>1. balance'["token"] = balance["token"] - pre[r]
      BY <1>1, <1>2, <2>3 DEF Add, Direct, TypeOK, Accounts
    <3>2. TokenRest(r)' = Dearest - pre[r]
      BY <1>1, <2>1, <2>3 DEF TokenRest
    <3>. QED BY <1>1, <1>2, <1>4, <2>1, <3>1, <3>2 DEF Goal
  <2>. QED BY <1>12, <2>2, <2>3 DEF TakeToken, Goto, TypeOK
<1>13. CASE TakeUser(r)
  <2>1. /\ UNCHANGED <<tasks, pre>> /\ pc[r] = "takeUser"
        /\ TokenRest(r) = Dearest - pre[r]
    BY <1>13 DEF TakeUser, Goto, TokenRest
  <2>2. CASE /\ pc'[r] = "failed" /\ UNCHANGED books
             /\ kept' = [kept EXCEPT !.token = @ + pre[r]]
    <3>1. TokenRest(r)' = Dearest
      BY <1>1, <2>2 DEF TokenRest
    <3>2. kept'.token = kept.token + pre[r] /\ balance' = balance
      BY <2>2 DEF TypeOK, books
    <3>. QED BY <1>1, <1>2, <1>4, <2>1, <3>1, <3>2 DEF Goal
  <2>3. CASE /\ pc'[r] = "upstream" /\ Add("user", -pre[r]) /\ held'[r] = pre[r]
             /\ UNCHANGED kept
    <3>1. balance'["token"] = balance["token"]
      BY <1>1, <1>2, <2>3 DEF Add, Direct, TypeOK, Accounts
    <3>2. TokenRest(r)' = Dearest - pre[r]
      BY <1>1, <2>3 DEF TokenRest
    <3>. QED BY <1>1, <1>2, <1>4, <2>1, <2>3, <3>1, <3>2 DEF Goal
  <2>. QED BY <1>13, <2>2, <2>3 DEF TakeUser, Goto, TypeOK
<1>14. CASE Upstream(r)
  <2>1. /\ UNCHANGED <<balance, held, pre>> /\ pc[r] \in {"upstream", "deferred"}
        /\ pc'[r] \in {"failed", "served", "deferred"}
    BY <1>14, UpstreamSteps DEF books, TypeOK
  <2>2. TokenRest(r) = Dearest - held[r] /\ TokenDue(t) = 0
    BY <1>14, <2>1, SpawnedDelta DEF TokenRest, TokenDue
  <2>3. TokenRest(r)' = IF pc'[r] = "failed" THEN Dearest
                        ELSE IF pc'[r] = "deferred" THEN Dearest - held[r] ELSE 0
    BY <1>1, <2>1 DEF TokenRest
  <2>4. CASE tasks' = tasks /\ Keep(r)
    <3>1. kept'.token = kept.token + held[r]
      BY <2>4 DEF Keep
    <3>. QED BY <1>1, <1>2, <1>4, <2>1, <2>2, <2>3, <2>4, <3>1 DEF Goal
  <2>5. CASE tasks' = tasks /\ kept' = kept
    <3>1. pc'[r] = "failed" => held[r] = 0
      BY <1>14, <2>5, SpawnedDelta
    <3>2. TokenRest(r)' <= TokenRest(r)
      BY <1>1, <2>2, <2>3, <3>1
    <3>. QED BY <1>5, <2>1, <2>5, <3>2
  <2>6. CASE /\ tasks'[t].at = "user" /\ kept' = kept /\ tasks'[t].delta \in Int
             /\ tasks'[t].delta <= Dearest - held[r] /\ pc'[r] \in {"failed", "served"}
             /\ pc'[r] = "failed" => tasks'[t].delta = -held[r]
    <3>1. TokenDue(t)' = tasks'[t].delta
      BY <2>6 DEF TokenDue
    <3>2. CASE pc'[r] = "failed"
      <4>1. /\ TokenRest(r)' = Dearest /\ TokenDue(t)' = -held[r]
            /\ balance'["token"] = balance["token"] /\ kept'.token = kept.token
        BY <2>1, <2>3, <2>6, <3>1, <3>2
      <4>2. (Dearest - (Dearest - held[r])) + (-held[r] - 0) = 0
        BY <1>1
      <4>3. (TokenRest(r)' - TokenRest(r)) + (TokenDue(t)' - TokenDue(t)) = 0
        BY <2>2, <4>1, <4>2
      <4>4. (balance'["token"] + kept'.token) - (balance["token"] + kept.token) = 0
        BY <1>2, <4>1
      <4>. QED BY <4>3, <4>4 DEF Goal
    <3>3. CASE pc'[r] = "served"
      BY <1>1, <1>2, <2>1, <2>2, <2>3, <2>6, <3>1, <3>3 DEF Goal
    <3>. QED BY <2>6, <3>2, <3>3
  <2>. QED BY <1>14, <2>4, <2>5, <2>6, SpawnedDelta
<1>. QED BY <1>6, <1>7, <1>8, <1>9, <1>10, <1>11, <1>12, <1>13, <1>14 DEF RequestStep

\* What a settlement writes was due.
LEMMA RoomTask ==
  ASSUME ConstantsOK, Direct, TypeOK, TypeOK', NEW t \in Tasks, TaskStep(t)
  PROVE  /\ UserDue(t)' - UserDue(t) <= balance'["user"] - balance["user"]
         /\ Limited => TokenDue(t)' - TokenDue(t) <= balance'["token"] - balance["token"]
<1>. DEFINE d == tasks[t].delta
            Goal == /\ UserDue(t)' - UserDue(t) <= balance'["user"] - balance["user"]
                    /\ Limited => TokenDue(t)' - TokenDue(t)
                                    <= balance'["token"] - balance["token"]
<1>1. /\ d \in Int /\ -d \in Int
      /\ UserDue(t) \in Nat /\ TokenDue(t) \in Int /\ UserDue(t)' \in Nat
      /\ TokenDue(t)' \in Int
      /\ balance["user"] \in Int /\ balance["token"] \in Int
      /\ balance'["user"] \in Int /\ balance'["token"] \in Int
  BY RoomTypes, RoomTypesNext, LedgerTypes
<1>. HIDE DEF Goal
<1>. SUFFICES Goal
  BY DEF Goal
<1>2. CASE BookUser(t)
  <2>1. /\ tasks[t].at = "user" /\ Add("user", -d)
        /\ tasks'[t].delta = d
        /\ tasks'[t].at \in {"token", "refresh", "used"} /\ (Limited => tasks'[t].at = "token")
    BY <1>2 DEF BookUser, Proceed, TypeOK, Tasks
  <2>2. balance'["user"] = balance["user"] - d /\ balance'["token"] = balance["token"]
    BY <1>1, <2>1 DEF Add, Direct, TypeOK, Accounts
  <2>3. UserDue(t)' = 0 /\ UserDue(t) >= d
    BY <1>1, <2>1 DEF UserDue
  <2>4. Limited => TokenDue(t)' = TokenDue(t)
    BY <2>1 DEF TokenDue
  <2>. HIDE DEF d
  <2>. QED BY <1>1, <2>2, <2>3, <2>4 DEF Goal
<1>3. CASE BookToken(t)
  <2>1. /\ tasks[t].at = "token" /\ Add("token", -d)
        /\ tasks'[t].at \in {"refresh", "used"}
    BY <1>3 DEF BookToken, Proceed, TypeOK, Tasks
  <2>2. balance'["user"] = balance["user"] /\ balance'["token"] = balance["token"] - d
    BY <1>1, <2>1 DEF Add, Direct, TypeOK, Accounts
  <2>3. UserDue(t)' = 0 /\ TokenDue(t)' = 0 /\ TokenDue(t) = d
    BY <2>1 DEF UserDue, TokenDue
  <2>. HIDE DEF d
  <2>. QED BY <1>1, <2>2, <2>3 DEF Goal
<1>4. CASE EndRefund(t) \/ RefreshRead(t) \/ RefreshKeep(t) \/ BookUsed(t)
  <2>1. /\ tasks[t].at \notin {"user", "token"} /\ tasks'[t].at \notin {"user", "token"}
    BY <1>4 DEF EndRefund, RefreshRead, RefreshKeep, BookUsed, Proceed, TypeOK, Tasks, Idle
  <2>2. UserDue(t) = 0 /\ UserDue(t)' = 0 /\ TokenDue(t) = 0 /\ TokenDue(t)' = 0
    BY <2>1 DEF UserDue, TokenDue
  <2>3. UNCHANGED balance \/ \E c \in Charges : Add("used", c)
    <3>1. BookUsed(t) => tasks[t].charge \in Charges
      BY DEF BookUsed, TypeOK, Tasks
    <3>. QED BY <1>4, <3>1 DEF EndRefund, RefreshRead, RefreshKeep, BookUsed, books
  <2>4. balance'["user"] = balance["user"] /\ balance'["token"] = balance["token"]
    BY <2>3 DEF Add, Direct, TypeOK, Accounts
  <2>. QED BY <1>1, <2>2, <2>4 DEF Goal
<1>. QED BY <1>2, <1>3, <1>4 DEF TaskStep

LEMMA TimesGrows ==
  ASSUME NEW m \in Nat, NEW n \in Nat, m <= n, NEW D \in Nat
  PROVE  m * D \in Nat /\ n * D \in Nat /\ m * D <= n * D
<1>1. n = m + (n - m) /\ n - m \in Nat
  OBVIOUS
<1>2. \A k \in Nat : (m + k) * D = m * D + k * D /\ m * D \in Nat /\ k * D \in Nat
  OBVIOUS
<1>3. n * D = m * D + (n - m) * D /\ m * D \in Nat /\ (n - m) * D \in Nat
  BY <1>1, <1>2
<1>. QED BY <1>3

\* Room is left when what can be taken grows by no more than the balance ...
LEMMA RoomKept ==
  ASSUME NEW D \in Nat, NEW p \in Nat, NEW p2 \in Nat, p <= p2,
         NEW b \in Int, NEW b2 \in Int, NEW x \in Int, NEW y \in Int, x + y <= b2 - b,
         NEW n \in Int, n <= b + p * D
  PROVE  n + x + y \in Int /\ n + x + y <= b2 + p2 * D
<1>1. p * D \in Nat /\ p2 * D \in Nat /\ p * D <= p2 * D
  BY TimesGrows
<1>. QED BY <1>1

\* ... or when no more than p2 can take anything of a balance that is not overdrawn.
LEMMA RoomFound ==
  ASSUME NEW D \in Nat, NEW m \in Nat, NEW p2 \in Nat, m <= p2,
         NEW b2 \in Nat, NEW n \in Int, n <= m * D
  PROVE  n <= b2 + p2 * D
<1>1. m * D \in Nat /\ p2 * D \in Nat /\ m * D <= p2 * D
  BY TimesGrows
<1>. QED BY <1>1

LEMMA MinWithOne ==
  ASSUME NEW n \in Nat
  PROVE  Min({n, 1}) \in Nat /\ Min({n, 1}) <= n /\ Min({n, 1}) <= 1
<1>1. \E x \in {n, 1} : \A y \in {n, 1} : x <= y
  OBVIOUS
<1>. QED BY <1>1 DEF Min

OverdraftInv ==
  /\ TypeOK /\ HeldInv /\ TaskInv /\ taken = Missing
  /\ DeltaInv /\ Few /\ UserRoom
  /\ Limited /\ Editors = {} => TokenRoom

LEMMA OverdraftInit ==
  ASSUME ConstantsOK, Direct, Init
  PROVE  OverdraftInv
<1>1. TypeOK /\ HeldInv /\ TaskInv
  BY BooksInit DEF BooksInv
<1>2. taken = Missing /\ peak = 0 /\ \A t \in Tasks : tasks[t] = Idle
  BY DEF Init, Tasks
<1>3. DeltaInv
  BY <1>2 DEF DeltaInv, Idle
<1>4. Trying = {} /\ Booking = {}
  BY <1>2 DEF Init, Trying, Booking, Idle
<1>5. Few
  BY <1>2, <1>4, FS_EmptySet DEF Few
<1>6. /\ \A r \in Requests : UserRests[r] = 0 /\ TokenRests[r] = 0
      /\ \A t \in Tasks : UserDues[t] = 0 /\ TokenDues[t] = 0
  BY <1>2 DEF Init, Idle, UserRests, UserDues, TokenRests, TokenDues, UserRest, UserDue,
     TokenRest, TokenDue
<1>7. /\ Total(0, UserRests, Requests, UserDues, Tasks)
      /\ Total(0, TokenRests, Requests, TokenDues, Tasks)
  BY <1>6, FiniteBooks, TotalOfZeros
<1>8. /\ balance["user"] = InitialUser /\ balance["token"] = InitialToken /\ kept.token = 0
      /\ InitialUser \in Nat /\ InitialToken \in Nat /\ peak * Dearest = 0
  BY <1>2, DearestFacts DEF Init, ConstantsOK
<1>9. Min({InitialToken, 1}) \in Nat /\ Min({InitialToken, 1}) <= InitialToken
  BY <1>8, MinWithOne
<1>10. UserRoom
  BY <1>7, <1>8 DEF UserRoom
<1>11. TokenRoom
  <2>1. 0 <= balance["token"] + kept.token + peak * Dearest - Min({InitialToken, 1})
    BY <1>8, <1>9
  <2>. QED BY <1>7, <2>1 DEF TokenRoom
<1>. QED BY <1>1, <1>2, <1>3, <1>5, <1>10, <1>11 DEF OverdraftInv

LEMMA OverdraftNext ==
  ASSUME ConstantsOK, Direct, OverdraftInv, [Next]_vars
  PROVE  OverdraftInv'
<1>. DEFINE U == Limited /\ Editors = {} => TokenRoom'
            c == Min({InitialToken, 1})
            b == balance["token"] + kept.token - c
            b2 == balance'["token"] + kept'.token - c
<1>1. /\ TypeOK /\ HeldInv /\ TaskInv /\ taken = Missing /\ DeltaInv /\ Few /\ UserRoom
      /\ (Limited /\ Editors = {} => TokenRoom)
  BY DEF OverdraftInv
<1>2. TypeOK' /\ HeldInv' /\ TaskInv' /\ DeltaInv' /\ Few'
  BY <1>1, TypeNext, HeldNext, TaskInvNext, DeltaNext, FewNext
<1>3. /\ Dearest \in Nat /\ Dearest' = Dearest /\ IsFiniteSet(Requests) /\ IsFiniteSet(Tasks)
      /\ peak \in Nat /\ peak' \in Nat
      /\ balance["user"] \in Int /\ balance'["user"] \in Int
      /\ balance["token"] \in Int /\ balance'["token"] \in Int
      /\ kept.token \in Nat /\ kept'.token \in Nat
      /\ c \in Nat /\ c <= 1 /\ c' = c
  <2>1. c \in Nat /\ c <= 1 /\ c' = c
    BY MinWithOne DEF ConstantsOK
  <2>. HIDE DEF c
  <2>. QED BY <1>1, <1>2, <2>1, DearestFacts, DearestFixed, FiniteBooks, RoomTypes,
              RoomTypesNext
<1>4. /\ UserRests \in [Requests -> Int] /\ TokenRests \in [Requests -> Int]
      /\ UserDues \in [Tasks -> Int] /\ TokenDues \in [Tasks -> Int]
      /\ UserRests' \in [Requests -> Int] /\ TokenRests' \in [Requests -> Int]
      /\ UserDues' \in [Tasks -> Int] /\ TokenDues' \in [Tasks -> Int]
  BY <1>1, <1>2, RoomTypes, RoomTypesNext
<1>5. /\ \A q \in Requests : /\ UserRests[q] = UserRest(q) /\ UserRests'[q] = UserRest(q)'
                             /\ TokenRests[q] = TokenRest(q) /\ TokenRests'[q] = TokenRest(q)'
      /\ \A u \in Tasks : /\ UserDues[u] = UserDue(u) /\ UserDues'[u] = UserDue(u)'
                          /\ TokenDues[u] = TokenDue(u) /\ TokenDues'[u] = TokenDue(u)'
  BY DEF UserRests, UserDues, TokenRests, TokenDues
<1>6. taken' = Missing
  <2>1. \/ UNCHANGED taken
        \/ \E k \in Accounts, v \in Int : Add(k, v)
        \/ Swap \/ Write
    <3>1. CASE UNCHANGED vars
      BY <3>1 DEF vars, books
    <3>2. ASSUME NEW r \in Requests, RequestStep(r)
          PROVE  UNCHANGED taken \/ \E k \in Accounts, v \in Int : Add(k, v)
      <4>1. -pre[r] \in Int /\ "user" \in Accounts /\ "token" \in Accounts
        BY <1>1, Amounts DEF Accounts
      <4>2. Upstream(r) => UNCHANGED books
        BY UpstreamSteps
      <4>. QED BY <3>2, <4>1, <4>2 DEF RequestStep, AuthFromRow, MarkExhausted, AuthFromCache,
                  AuthReload, KeepToken, Ask, KeepQuota, Decide, CheckToken, CheckUser,
                  TakeToken, TakeUser, Again, GiveUp, books
    <3>3. ASSUME NEW t \in Tasks, TaskStep(t)
          PROVE  UNCHANGED taken \/ \E k \in Accounts, v \in Int : Add(k, v)
      <4>1. /\ -tasks[t].delta \in Int /\ "user" \in Accounts /\ "token" \in Accounts
            /\ "used" \in Accounts
        BY <1>1, LedgerTypes DEF Accounts
      <4>2. BookUsed(t) => tasks[t].charge \in Int
        <5>1. Charges \subseteq Int
          BY DEF ConstantsOK
        <5>. QED BY <1>1, <5>1 DEF BookUsed, TypeOK, Tasks
      <4>. QED BY <3>3, <4>1, <4>2 DEF TaskStep, BookUser, BookToken, EndRefund, RefreshRead,
                  RefreshKeep, BookUsed, books
    <3>4. ASSUME NEW a \in TopUps, TopUp(a)
          PROVE  \E k \in Accounts, v \in Int : Add(k, v)
      <4>1. a \in Int /\ "user" \in Accounts
        BY DEF ConstantsOK, Accounts
      <4>. QED BY <3>4, <4>1 DEF TopUp
    <3>5. ASSUME NEW e \in Editors, EditRead(e) \/ EditWrite(e)
          PROVE  UNCHANGED taken
      BY <3>5 DEF EditRead, EditWrite, books
    <3>6. CASE ExpireQuota \/ ExpireToken
      BY <3>6 DEF ExpireQuota, ExpireToken, books
    <3>. QED BY <1>1, <3>1, <3>2, <3>3, <3>4, <3>5, <3>6, StepKinds
  <2>2. ~Swap /\ ~Write
    BY <1>1 DEF Swap, Write, Direct
  <2>. QED BY <1>1, <2>1, <2>2, AddStep
<1>7. /\ \A x \in Trying' : UserRests'[x] <= Dearest
      /\ \A x \in Requests \ Trying' : UserRests'[x] <= 0
      /\ \A x \in Booking' : UserDues'[x] <= Dearest
      /\ \A x \in Tasks \ Booking' : UserDues'[x] <= 0
      /\ Trying' \in SUBSET Requests /\ Booking' \in SUBSET Tasks
      /\ Cardinality(Trying') + Cardinality(Booking') <= peak'
  <2>1. Trying' \in SUBSET Requests /\ Booking' \in SUBSET Tasks
    BY DEF Trying, Booking
  <2>2. \A x \in Trying' : UserRests'[x] <= Dearest
    BY <1>2, <1>5, <2>1, RoomTypesNext
  <2>3. \A x \in Requests \ Trying' : UserRest(x)' = 0
    BY DEF UserRest, Trying
  <2>4. \A x \in Tasks \ Booking' : UserDue(x)' = 0
    BY DEF UserDue, Booking
  <2>5. \A x \in Booking' : UserDue(x)' <= Dearest
    BY <1>2, <1>3 DEF UserDue, Booking, DeltaInv
  <2>. QED BY <1>2, <1>5, <2>1, <2>2, <2>3, <2>4, <2>5 DEF Few
<1>. HIDE DEF U, c
<1>8. ASSUME NEW r \in Requests, RequestStep(r)
      PROVE  UserRoom' /\ U
  <2>1. PICK t : t = Own(r)
    OBVIOUS
  <2>2. /\ t \in Tasks /\ peak' >= peak
        /\ \/ (UserRest(r)' - UserRest(r)) + (UserDue(t)' - UserDue(t))
                <= balance'["user"] - balance["user"]
           \/ balance["user"] >= 0 /\ UNCHANGED <<balance, peak, tasks>>
    BY <1>1, <1>2, <1>8, <2>1, UserRoomRequest
  <2>3. /\ \A q \in Requests : q # r => UserRests'[q] = UserRests[q]
        /\ \A q \in Requests : q # r => TokenRests'[q] = TokenRests[q]
    BY <1>1, <1>3, <1>5, <1>8, RequestFrame DEF UserRest, TokenRest
  <2>4. /\ \A u \in Tasks : u # t => UserDues'[u] = UserDues[u]
        /\ \A u \in Tasks : u # t => TokenDues'[u] = TokenDues[u]
    BY <1>1, <1>5, <1>8, <2>1, RequestFrame DEF UserDue, TokenDue
  <2>5. UserRoom'
    <3>1. \E n \in Int : /\ Total(n, UserRests, Requests, UserDues, Tasks)
                         /\ n <= balance["user"] + peak * Dearest
      BY <1>1 DEF UserRoom
    <3>2. CASE (UserRest(r)' - UserRest(r)) + (UserDue(t)' - UserDue(t))
                 <= balance'["user"] - balance["user"]
      <4>1. (UserRests'[r] - UserRests[r]) + (UserDues'[t] - UserDues[t])
              <= balance'["user"] - balance["user"]
        BY <1>5, <2>2, <3>2
      <4>2. \E n \in Int : /\ Total(n, UserRests', Requests, UserDues', Tasks)
                           /\ n <= balance'["user"] + peak' * Dearest
        <5>1. PICK n \in Int : /\ Total(n, UserRests, Requests, UserDues, Tasks)
                               /\ n <= balance["user"] + peak * Dearest
          BY <3>1
        <5>. DEFINE x == UserRests'[r] - UserRests[r]
                    y == UserDues'[t] - UserDues[t]
        <5>2. Total(n + x + y, UserRests', Requests, UserDues', Tasks)
          BY <1>3, <1>4, <2>2, <2>3, <2>4, <5>1, Transfer
        <5>3. x \in Int /\ y \in Int /\ x + y <= balance'["user"] - balance["user"]
          BY <1>4, <2>2, <4>1
        <5>4. peak <= peak'
          BY <1>3, <2>2
        <5>. HIDE DEF x, y
        <5>5. n + x + y \in Int /\ n + x + y <= balance'["user"] + peak' * Dearest
          BY <1>3, <5>1, <5>3, <5>4, RoomKept
        <5>. QED BY <5>2, <5>5
      <4>. QED BY <1>3, <4>2 DEF UserRoom
    <3>3. CASE balance["user"] >= 0 /\ UNCHANGED <<balance, peak, tasks>>
      <4>1. balance'["user"] \in Nat
        BY <1>3, <3>3
      <4>2. \E n \in Int : Total(n, UserRests, Requests, UserDues, Tasks)
        BY <3>1
      <4>3. \E n \in Int : /\ Total(n, UserRests', Requests, UserDues', Tasks)
                           /\ n <= balance'["user"] + peak' * Dearest
        <5>1. PICK n \in Int : Total(n, UserRests, Requests, UserDues, Tasks)
          BY <4>2
        <5>. DEFINE x == UserRests'[r] - UserRests[r]
                    y == UserDues'[t] - UserDues[t]
                    m == Cardinality(Trying') + Cardinality(Booking')
        <5>2. Total(n + x + y, UserRests', Requests, UserDues', Tasks)
          BY <1>3, <1>4, <2>2, <2>3, <2>4, <5>1, Transfer
        <5>. HIDE DEF x, y
        <5>3. n + x + y \in Int /\ n + x + y <= m * Dearest
          BY <1>3, <1>4, <1>7, <5>2, TotalAtMost
        <5>4. m \in Nat /\ m <= peak'
          <6>1. Cardinality(Trying') \in Nat /\ Cardinality(Booking') \in Nat
            BY <1>3, <1>7, FS_Subset, FS_CardinalityType
          <6>. QED BY <1>7, <6>1
        <5>. HIDE DEF m
        <5>5. n + x + y <= balance'["user"] + peak' * Dearest
          BY <1>3, <4>1, <5>3, <5>4, RoomFound
        <5>. QED BY <5>2, <5>3, <5>5
      <4>. QED BY <1>3, <4>3 DEF UserRoom
    <3>. QED BY <2>2, <3>2, <3>3
  <2>6. ASSUME Limited, Editors = {} PROVE TokenRoom'
    <3>1. \E n \in Int : /\ Total(n, TokenRests, Requests, TokenDues, Tasks)
                         /\ n <= b + peak * Dearest
      <4>1. PICK n \in Int :
              /\ Total(n, TokenRests, Requests, TokenDues, Tasks)
              /\ n <= balance["token"] + kept.token + peak * Dearest - c
        BY <1>1, <2>6 DEF TokenRoom, c
      <4>2. peak * Dearest \in Nat
        BY <1>3
      <4>3. n <= b + peak * Dearest
        BY <1>3, <4>1, <4>2
      <4>. QED BY <4>1, <4>3
    <3>2. SUFFICES \E n \in Int : /\ Total(n, TokenRests', Requests, TokenDues', Tasks)
                                  /\ n <= b2 + peak' * Dearest
      <4>1. ASSUME NEW n \in Int, n <= b2 + peak' * Dearest
            PROVE  n <= balance'["token"] + kept'.token + peak' * Dearest - c
        <5>1. peak' * Dearest \in Nat
          BY <1>2, RoomTypesNext
        <5>. QED BY <1>3, <4>1, <5>1
      <4>2. \E n \in Int :
              /\ Total(n, TokenRests', Requests, TokenDues', Tasks)
              /\ n <= balance'["token"] + kept'.token + peak' * Dearest - c
        BY <3>2, <4>1
      <4>. QED BY <1>3, <4>2 DEF TokenRoom, c
    <3>3. b \in Int /\ b2 \in Int
      BY <1>3
    <3>4. \/ (TokenRest(r)' - TokenRest(r)) + (TokenDue(t)' - TokenDue(t))
                <= (balance'["token"] + kept'.token) - (balance["token"] + kept.token)
          \/ balance["token"] >= 1 /\ Attempt(r) /\ UNCHANGED <<balance, kept, tasks>>
      BY <1>1, <1>2, <1>8, <2>1, <2>6, TokenRoomRequest
    <3>5. CASE (TokenRest(r)' - TokenRest(r)) + (TokenDue(t)' - TokenDue(t))
                 <= (balance'["token"] + kept'.token) - (balance["token"] + kept.token)
      <4>1. (balance'["token"] + kept'.token) - (balance["token"] + kept.token) = b2 - b
        BY <1>3
      <4>2. (TokenRests'[r] - TokenRests[r]) + (TokenDues'[t] - TokenDues[t]) <= b2 - b
        BY <1>5, <2>2, <3>5, <4>1
      <4>. HIDE DEF b, b2
      <4>3. PICK n \in Int : /\ Total(n, TokenRests, Requests, TokenDues, Tasks)
                             /\ n <= b + peak * Dearest
        BY <3>1
      <4>. DEFINE x == TokenRests'[r] - TokenRests[r]
                  y == TokenDues'[t] - TokenDues[t]
      <4>4. Total(n + x + y, TokenRests', Requests, TokenDues', Tasks)
        BY <1>3, <1>4, <2>2, <2>3, <2>4, <4>3, Transfer
      <4>5. x \in Int /\ y \in Int /\ x + y <= b2 - b
        BY <1>4, <2>2, <4>2
      <4>6. peak <= peak'
        BY <1>3, <2>2
      <4>. HIDE DEF x, y
      <4>7. n + x + y \in Int /\ n + x + y <= b2 + peak' * Dearest
        BY <1>3, <3>3, <4>3, <4>5, <4>6, RoomKept
      <4>. QED BY <4>4, <4>7
    <3>6. CASE balance["token"] >= 1 /\ Attempt(r) /\ UNCHANGED <<balance, kept, tasks>>
      <4>1. b2 \in Nat
        BY <1>3, <3>6
      <4>. DEFINE A == Open \cup {r}
                  B == Unsettled
      <4>2. A \in SUBSET Requests /\ B \in SUBSET Tasks
        BY <1>1 DEF Open, Unsettled, TypeOK, Tasks
      <4>3. Cardinality(A) + Cardinality(B) <= peak'
        BY <1>1, <3>6, AttemptStep
      <4>4. \A x \in A : TokenRests'[x] <= Dearest
        BY <1>2, <1>5, <4>2, RoomTypesNext
      <4>5. \A x \in Requests \ A : TokenRests'[x] <= 0
        <5>1. \A x \in Requests \ A : pc'[x] \in Ended \cup {"new"}
          BY <1>1, <1>8, RequestFrame DEF Open
        <5>2. \A x \in Requests \ A : TokenRest(x)' = 0
          BY <5>1 DEF TokenRest, Ended
        <5>. HIDE DEF A
        <5>. QED BY <1>5, <5>2
      <4>6. \A x \in B : TokenDues'[x] <= Dearest
        <5>1. \A x \in Tasks : TokenDue(x)' <= Dearest
          BY <1>2, <1>3 DEF TokenDue, DeltaInv
        <5>. QED BY <1>5, <4>2, <5>1
      <4>7. \A x \in Tasks \ B : TokenDues'[x] <= 0
        <5>1. \A x \in Tasks \ B : tasks'[x].at = "idle"
          BY <1>1, <3>6 DEF Unsettled, TypeOK, Tasks
        <5>2. \A x \in Tasks \ B : TokenDue(x)' = 0
          BY <5>1 DEF TokenDue
        <5>. HIDE DEF B
        <5>. QED BY <1>5, <5>2
      <4>8. \E n \in Int : Total(n, TokenRests, Requests, TokenDues, Tasks)
        BY <3>1
      <4>. HIDE DEF A, B, b2
      <4>9. PICK n \in Int : Total(n, TokenRests, Requests, TokenDues, Tasks)
        BY <4>8
      <4>. DEFINE x == TokenRests'[r] - TokenRests[r]
                  y == TokenDues'[t] - TokenDues[t]
                  m == Cardinality(A) + Cardinality(B)
      <4>10. Total(n + x + y, TokenRests', Requests, TokenDues', Tasks)
        BY <1>3, <1>4, <2>2, <2>3, <2>4, <4>9, Transfer
      <4>. HIDE DEF x, y
      <4>11. n + x + y \in Int /\ n + x + y <= m * Dearest
        BY <1>3, <1>4, <4>2, <4>4, <4>5, <4>6, <4>7, <4>10, TotalAtMost
      <4>12. m \in Nat /\ m <= peak'
        <5>1. Cardinality(A) \in Nat /\ Cardinality(B) \in Nat
          BY <1>3, <4>2, FS_Subset, FS_CardinalityType
        <5>. QED BY <4>3, <5>1
      <4>. HIDE DEF m
      <4>13. n + x + y <= b2 + peak' * Dearest
        BY <1>3, <4>1, <4>11, <4>12, RoomFound
      <4>. QED BY <4>10, <4>11, <4>13
    <3>. QED BY <3>4, <3>5, <3>6
  <2>. QED BY <2>5, <2>6 DEF U
<1>9. ASSUME NEW t \in Tasks, TaskStep(t)
      PROVE  UserRoom' /\ U
  <2>1. PICK r \in Requests : TRUE
    BY DEF Tasks
  <2>2. /\ UNCHANGED <<worker, peak, kept>> /\ peak <= peak'
        /\ \A u \in Tasks : u # t => tasks'[u] = tasks[u]
    BY <1>1, <1>3, <1>9, TaskFrame
  <2>3. /\ \A q \in Requests : UserRests'[q] = UserRests[q]
        /\ \A q \in Requests : TokenRests'[q] = TokenRests[q]
    BY <1>3, <1>5, <2>2 DEF UserRest, TokenRest, worker
  <2>4. /\ \A u \in Tasks : u # t => UserDues'[u] = UserDues[u]
        /\ \A u \in Tasks : u # t => TokenDues'[u] = TokenDues[u]
    BY <1>5, <2>2 DEF UserDue, TokenDue
  <2>5. /\ UserDues'[t] - UserDues[t] <= balance'["user"] - balance["user"]
        /\ Limited => TokenDues'[t] - TokenDues[t] <= balance'["token"] - balance["token"]
    BY <1>1, <1>2, <1>5, <1>9, RoomTask
  <2>6. UserRoom'
    <3>1. PICK n \in Int : /\ Total(n, UserRests, Requests, UserDues, Tasks)
                           /\ n <= balance["user"] + peak * Dearest
      BY <1>1 DEF UserRoom
    <3>. DEFINE x == UserRests'[r] - UserRests[r]
                y == UserDues'[t] - UserDues[t]
    <3>2. Total(n + x + y, UserRests', Requests, UserDues', Tasks)
      BY <1>3, <1>4, <2>3, <2>4, <3>1, Transfer
    <3>3. x \in Int /\ y \in Int /\ x + y <= balance'["user"] - balance["user"]
      BY <1>4, <2>3, <2>5
    <3>. HIDE DEF x, y
    <3>4. n + x + y \in Int /\ n + x + y <= balance'["user"] + peak' * Dearest
      BY <1>3, <2>2, <3>1, <3>3, RoomKept
    <3>. QED BY <1>3, <3>2, <3>4 DEF UserRoom
  <2>7. ASSUME Limited, Editors = {} PROVE TokenRoom'
    <3>1. PICK n \in Int : /\ Total(n, TokenRests, Requests, TokenDues, Tasks)
                           /\ n <= balance["token"] + kept.token + peak * Dearest - c
      BY <1>1, <2>7 DEF TokenRoom, c
    <3>2. b \in Int /\ b2 \in Int /\ b2 - b = balance'["token"] - balance["token"]
          /\ peak * Dearest \in Nat /\ peak' * Dearest \in Nat
      BY <1>2, <1>3, <2>2, RoomTypesNext
    <3>3. n <= b + peak * Dearest
      BY <1>3, <3>1, <3>2
    <3>. DEFINE x == TokenRests'[r] - TokenRests[r]
                y == TokenDues'[t] - TokenDues[t]
    <3>4. Total(n + x + y, TokenRests', Requests, TokenDues', Tasks)
      BY <1>3, <1>4, <2>3, <2>4, <3>1, Transfer
    <3>5. x \in Int /\ y \in Int /\ x + y <= b2 - b
      <4>. HIDE DEF b, b2
      <4>. QED BY <1>3, <1>4, <2>3, <2>5, <2>7, <3>2
    <3>. HIDE DEF x, y
    <3>6. n + x + y \in Int /\ n + x + y <= b2 + peak' * Dearest
      <4>. HIDE DEF b, b2
      <4>. QED BY <1>3, <2>2, <3>2, <3>3, <3>5, RoomKept
    <3>7. n + x + y <= balance'["token"] + kept'.token + peak' * Dearest - c
      BY <1>3, <3>2, <3>6
    <3>. QED BY <1>3, <3>4, <3>6, <3>7 DEF TokenRoom, c
  <2>. QED BY <2>6, <2>7 DEF U
<1>10. ASSUME \/ \E a \in TopUps : TopUp(a)
              \/ \E e \in Editors : EditRead(e) \/ EditWrite(e)
              \/ Swap \/ Write \/ ExpireQuota \/ ExpireToken
              \/ UNCHANGED vars
       PROVE  UserRoom' /\ U
  <2>1. /\ UNCHANGED <<worker, tasks, peak, kept>>
        /\ balance'["user"] >= balance["user"]
        /\ Editors = {} => balance'["token"] = balance["token"]
    <3>1. ASSUME NEW a \in TopUps, TopUp(a)
          PROVE  /\ UNCHANGED <<worker, tasks, peak, kept>>
                 /\ balance'["user"] >= balance["user"] /\ balance'["token"] = balance["token"]
      <4>1. a \in Nat
        BY DEF ConstantsOK
      <4>. QED BY <1>1, <1>3, <3>1, <4>1 DEF TopUp, Add, Direct, TypeOK, Accounts
    <3>2. ASSUME NEW e \in Editors, EditRead(e) \/ EditWrite(e)
          PROVE  UNCHANGED <<worker, tasks, peak, kept>> /\ balance'["user"] = balance["user"]
      BY <1>1, <3>2 DEF EditRead, EditWrite, books, TypeOK, Accounts
    <3>3. ~Swap /\ ~Write
      BY <1>1 DEF Swap, Write, Direct
    <3>4. CASE ExpireQuota \/ ExpireToken \/ UNCHANGED vars
      BY <1>3, <3>4 DEF ExpireQuota, ExpireToken, vars, books
    <3>. QED BY <1>3, <1>10, <3>1, <3>2, <3>3, <3>4
  <2>2. /\ UserRests' = UserRests /\ UserDues' = UserDues
        /\ TokenRests' = TokenRests /\ TokenDues' = TokenDues
    BY <1>3, <2>1 DEF worker, UserRests, UserDues, TokenRests, TokenDues, UserRest, UserDue,
       TokenRest, TokenDue
  <2>3. peak * Dearest \in Nat
    BY <1>1, RoomTypes
  <2>4. UserRoom'
    BY <1>1, <1>3, <2>1, <2>2, <2>3 DEF UserRoom
  <2>5. ASSUME Limited, Editors = {} PROVE TokenRoom'
    BY <1>1, <1>3, <2>1, <2>2, <2>5 DEF TokenRoom, c
  <2>. QED BY <2>4, <2>5 DEF U
<1>11. UserRoom' /\ U
  BY <1>1, <1>8, <1>9, <1>10, StepKinds
<1>. QED BY <1>2, <1>6, <1>11 DEF OverdraftInv, U

\* The sums say it: what can still be taken is not negative, but for the refunds.
LEMMA OverdraftFollows ==
  ASSUME ConstantsOK, Direct, OverdraftInv, Editors = {}
  PROVE  OverdraftBounded
<1>1. TypeOK /\ DeltaInv /\ UserRoom /\ (Limited => TokenRoom)
  BY DEF OverdraftInv
<1>. DEFINE c == Min({InitialToken, 1})
<1>2. /\ Dearest \in Nat /\ IsFiniteSet(Requests) /\ IsFiniteSet(Tasks)
      /\ balance["user"] \in Int /\ balance["token"] \in Int /\ kept.token \in Nat
      /\ peak \in Nat /\ peak * Dearest \in Nat
      /\ UserRests \in [Requests -> Int] /\ TokenRests \in [Requests -> Int]
      /\ UserDues \in [Tasks -> Int] /\ TokenDues \in [Tasks -> Int]
  BY <1>1, DearestFacts, FiniteBooks, RoomTypes
<1>3. c \in Nat
  BY MinWithOne DEF ConstantsOK
<1>. HIDE DEF c
<1>4. /\ \A x \in Requests \ {} : UserRests[x] >= 0
      /\ \A x \in Requests \ {} : TokenRests[x] >= 0
      /\ \A x \in Tasks \ {} : UserDues[x] >= 0
  <2>1. /\ \A x \in Requests : UserRest(x) \in Nat /\ TokenRest(x) \in Nat
        /\ \A x \in Tasks : UserDue(x) \in Nat
    BY <1>1, RoomTypes
  <2>. QED BY <2>1 DEF UserRests, TokenRests, UserDues
<1>5. Awaited \in SUBSET Tasks
  BY <1>1 DEF Awaited, TypeOK, Tasks
<1>6. \A x \in Awaited : TokenDues[x] >= -Dearest
  BY <1>1, <1>5 DEF Awaited, TokenDues, TokenDue, DeltaInv
<1>7. \A x \in Tasks \ Awaited : TokenDues[x] >= 0
  <2>1. \A x \in Tasks : tasks[x].delta \in Int
    BY <1>1 DEF TypeOK, Tasks
  <2>. QED BY <1>1, <2>1 DEF Awaited, TokenDues, TokenDue, TypeOK, Tasks
<1>8. Cardinality({}) = 0 /\ Cardinality(Awaited) \in Nat
  BY <1>2, <1>5, FS_EmptySet, FS_Subset, FS_CardinalityType
<1>9. balance["user"] >= 0 - peak * Dearest
  <2>1. PICK n \in Int : /\ Total(n, UserRests, Requests, UserDues, Tasks)
                         /\ n <= balance["user"] + peak * Dearest
    BY <1>1 DEF UserRoom
  <2>2. n >= 0 - (Cardinality({}) + Cardinality({})) * Dearest
    <3>1. {} \in SUBSET Requests /\ {} \in SUBSET Tasks
      OBVIOUS
    <3>. QED BY <1>2, <1>4, <2>1, <3>1, TotalAtLeast
  <2>3. (0 + 0) * Dearest = 0
    BY <1>2
  <2>4. n >= 0
    BY <1>8, <2>2, <2>3
  <2>. QED BY <1>2, <2>1, <2>4
<1>10. ASSUME Limited
       PROVE  balance["token"] >= c - kept.token - (peak + Cardinality(Awaited)) * Dearest
  <2>1. PICK n \in Int : /\ Total(n, TokenRests, Requests, TokenDues, Tasks)
                         /\ n <= balance["token"] + kept.token + peak * Dearest - c
    BY <1>1, <1>10 DEF TokenRoom, c
  <2>2. n >= 0 - (Cardinality({}) + Cardinality(Awaited)) * Dearest
    <3>1. {} \in SUBSET Requests
      OBVIOUS
    <3>. QED BY <1>2, <1>4, <1>5, <1>6, <1>7, <2>1, <3>1, TotalAtLeast
  <2>3. PICK a \in Nat : a = Cardinality(Awaited)
    BY <1>8
  <2>4. /\ (peak + a) * Dearest = peak * Dearest + a * Dearest
        /\ (0 + a) * Dearest = a * Dearest /\ a * Dearest \in Nat
    <3>1. \A i, j \in Nat : (i + j) * Dearest = i * Dearest + j * Dearest
                            /\ j * Dearest \in Nat /\ 0 + j = j
      BY <1>2
    <3>. QED BY <1>2, <2>3, <3>1
  <2>5. n >= 0 - a * Dearest
    BY <1>8, <2>2, <2>3, <2>4
  <2>6. balance["token"] >= c - kept.token - (peak * Dearest + a * Dearest)
    BY <1>2, <1>3, <2>1, <2>4, <2>5
  <2>. QED BY <2>3, <2>4, <2>6
<1>. QED BY <1>9, <1>10 DEF OverdraftBounded, c

\* Neither the check of the user's balance nor that of the token's is atomic with what is
\* taken after it, statements fail and a retry does not wait for the refund before it.
\* However many requests and attempts there are, the balances are overdrawn by no more
\* than what was open at one time can cost, while there is a dearest estimate or charge
\* and no administrator writes an older balance back (preConsumeQuota,
\* PreConsumeTokenQuota).
THEOREM OverdraftStaysBounded ==
  ASSUME Direct, Editors = {}
  PROVE  Spec => []OverdraftBounded
<1>1. Init => OverdraftInv
  BY OverdraftInit, ConstantsHold
<1>2. OverdraftInv /\ [Next]_vars => OverdraftInv'
  BY OverdraftNext, ConstantsHold
<1>3. OverdraftInv => OverdraftBounded
  BY OverdraftFollows, ConstantsHold
<1>. QED BY <1>1, <1>2, <1>3, PTL DEF Spec
=============================================================================
