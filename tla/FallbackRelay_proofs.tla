------------------------ MODULE FallbackRelay_proofs ------------------------
(***************************************************************************)
(* Theorems about the fallback loop, for every set of requests and          *)
(* deployments and every plan: type correctness, that the in-flight counters *)
(* count the requests that hold a slot, respect the limit and implement the *)
(* abstract slots, and the contracts in the comments of controller/relay.go. *)
(***************************************************************************)
EXTENDS FallbackRelay, FiniteSetTheorems, TLAPS

\* The places where the loop stands on an attempt of its plan.
OnAttempt == {"channel", "acquire", "execute", "success", "account", "invalid",
              "model", "charge", "save", "unstick"}

\* A Kilo deployment is planned with catalog models, or to be skipped.
PlannedAttempt ==
  {x \in Attempt : /\ x.dep \in Kilo /\ ~x.skip => x.model \in Models
                   /\ x.rotatable /\ ~x.skip => x.model \in Models}

\* Where the goroutine stands fixes what its local variables hold.
LoopInv ==
  \A r \in Requests :
    /\ plan[r] \in Seq(PlannedAttempt)
    /\ pc[r] \in OnAttempt => pos[r] <= Len(plan[r])
    /\ pc[r] \in {"channel", "acquire", "execute", "invalid", "model"} =>
         ~at(r).skip
    /\ pc[r] = "invalid" => dep(r) \in Kilo
    /\ pc[r] = "model" => at(r).rotatable
    /\ outcome[r] = "panic" => pc[r] = "done" /\ pos[r] <= Len(plan[r])
    /\ pc[r] \in {"save", "unstick"} => marks[r] # <<>>

----------------------------------------------------------------------------
(* Lemmas about the plan and the loop index. *)

LEMMA SeqMonotone ==
  ASSUME NEW S, NEW T, S \subseteq T, NEW s \in Seq(S)
  PROVE  s \in Seq(T)
<1>1. s \in [1..Len(s) -> T]
  OBVIOUS
<1>. QED BY <1>1

\* The marks a failure leads to are marks.
LEMMA MarksType ==
  /\ <<>> \in Seq({"short", "long", "limit", "exhausted"})
  /\ <<"short">> \in Seq({"short", "long", "limit", "exhausted"})
  /\ <<"long">> \in Seq({"short", "long", "limit", "exhausted"})
  /\ <<"limit">> \in Seq({"short", "long", "limit", "exhausted"})
  /\ <<"exhausted">> \in Seq({"short", "long", "limit", "exhausted"})
  /\ <<"exhausted", "long">> \in Seq({"short", "long", "limit", "exhausted"})
OBVIOUS

\* The attempt the loop stands on is a well-formed one, and the index it moves
\* to next is positive.
LEMMA CurrentAttempt ==
  ASSUME TypeOK, NEW r \in Requests, pos[r] <= Len(plan[r])
  PROVE  /\ at(r) \in Attempt
         /\ dep(r) \in Deployments
         /\ at(r).model \in Models \cup {NoModel}
         /\ NextPos(r) \in Nat \ {0}
<1>1. at(r) \in Attempt
  BY DEF TypeOK, at
<1>2. /\ dep(r) \in Deployments
      /\ at(r).model \in Models \cup {NoModel}
      /\ at(r).count \in Nat /\ at(r).index \in Nat
  BY <1>1 DEF Attempt, dep
<1>3. RemainingModelAttempts(at(r)) \in Nat
  BY <1>2 DEF RemainingModelAttempts
<1>4. NextPos(r) \in Nat \ {0}
  BY <1>3 DEF TypeOK, NextPos
<1>. QED BY <1>1, <1>2, <1>4

\* The planner adds well-formed attempts only.
LEMMA BlocksType ==
  ASSUME ConstantsAssumption, NEW r \in Requests, NEW d \in Deployments
  PROVE  Blocks(r, d) \subseteq Seq(PlannedAttempt)
<1>. DEFINE avail == AvailableModels(r, d)
            n     == Cardinality(avail)
<1>1. avail \subseteq Models
  BY DEF AvailableModels
<1>2. n \in Nat
  BY <1>1, FS_Subset, FS_CardinalityType DEF ConstantsAssumption
<1>3. ASSUME d \notin Kilo
      PROVE  <<Single(d)>> \in Seq(PlannedAttempt)
  BY <1>3 DEF Single, PlannedAttempt, Attempt
<1>4. <<AllModelsUnavailable(d)>> \in Seq(PlannedAttempt)
  BY DEF AllModelsUnavailable, PlannedAttempt, Attempt
<1>u. ASSUME NEW a \in Uncatalogued(d)
      PROVE  <<a>> \in Seq(PlannedAttempt)
  <2>1. PICK m \in Models : a = [Single(d) EXCEPT !.model = m]
    BY <1>u DEF Uncatalogued
  <2>2. a \in PlannedAttempt
    BY <2>1 DEF Single, PlannedAttempt, Attempt
  <2>. QED BY <2>2
<1>5. ASSUME NEW f \in InCatalogOrder(avail)
      PROVE  KiloBlock(d, f, n) \in Seq(PlannedAttempt)
  <2>1. f \in [1..n -> Models]
    BY <1>1, <1>5 DEF InCatalogOrder
  <2>2. ASSUME NEW i \in 1..n
        PROVE  [dep |-> d, model |-> f[i], index |-> i - 1, count |-> n,
                rotatable |-> TRUE, skip |-> FALSE] \in PlannedAttempt
    <3>1. f[i] \in Models /\ i - 1 \in Nat
      BY <1>2, <2>1, <2>2
    <3>. QED BY <1>2, <3>1 DEF PlannedAttempt, Attempt
  <2>3. KiloBlock(d, f, n) \in [1..n -> PlannedAttempt]
    BY <2>2 DEF KiloBlock
  <2>. QED BY <1>2, <2>3
<1>6. ASSUME NEW b \in Blocks(r, d) PROVE b \in Seq(PlannedAttempt)
  <2>1. CASE d \notin Kilo
    BY <1>3, <1>6, <2>1 DEF Blocks
  <2>2. CASE d \in Kilo /\ avail = {}
    BY <1>4, <1>6, <1>u, <2>2 DEF Blocks
  <2>3. CASE d \in Kilo /\ avail # {}
    <3>1. CASE \E a \in Uncatalogued(d) : b = <<a>>
      BY <1>u, <3>1
    <3>2. CASE \E f \in InCatalogOrder(avail) : b = KiloBlock(d, f, n)
      BY <1>5, <3>2
    <3>. QED BY <1>6, <2>3, <3>1, <3>2 DEF Blocks
  <2>. QED BY <2>1, <2>2, <2>3
<1>. QED BY <1>6

----------------------------------------------------------------------------
(* Every step keeps the types and the loop invariant. *)

\* Moving on to the next attempt keeps the types of what it touches.
LEMMA AdvanceType ==
  ASSUME TypeOK, NEW r \in Requests, pos[r] <= Len(plan[r]), Advance(r)
  PROVE  /\ pos' \in [Requests -> Nat \ {0}]
         /\ prev' \in [Requests -> Deployments \cup {NoDep}]
         /\ outcome' = [outcome EXCEPT ![r] = "none"]
         /\ outcome' \in [Requests -> AllOutcomes \cup {"none"}]
         /\ pc' = [pc EXCEPT ![r] = "check"]
<1>1. NextPos(r) \in Nat \ {0} /\ dep(r) \in Deployments
  BY CurrentAttempt
<1>. QED BY <1>1 DEF Advance, Goto, TypeOK

\* The steps of a request keep its types.
LEMMA RequestTypes ==
  ASSUME ConstantsAssumption, TypeOK, LoopInv,
         NEW r \in Requests, Begin(r) \/ Step(r)
  PROVE  TypeOK'
<1>. USE DEF OnAttempt, Goto
<1>0. ASSUME pos[r] <= Len(plan[r])
      PROVE  /\ at(r) \in PlannedAttempt
             /\ dep(r) \in Deployments
             /\ at(r).rotatable /\ ~at(r).skip => at(r).model \in Models
             /\ dep(r) \in Kilo /\ ~at(r).skip => at(r).model \in Models
  <2>1. at(r) \in PlannedAttempt
    BY <1>0 DEF TypeOK, LoopInv, at
  <2>. QED BY <2>1 DEF PlannedAttempt, Attempt, dep
<1>a. ASSUME pos[r] <= Len(plan[r]), Advance(r)
      PROVE  /\ pos' \in [Requests -> Nat \ {0}]
             /\ prev' \in [Requests -> Deployments \cup {NoDep}]
             /\ outcome' \in [Requests -> AllOutcomes \cup {"none"}]
             /\ pc' = [pc EXCEPT ![r] = "check"]
  BY <1>a, AdvanceType
<1>1. CASE Begin(r)
  BY <1>1 DEF Begin, TypeOK, sharedVars, depVars, envVars, modelVars,
              ConstantsAssumption
<1>2. ASSUME NEW d \in Deployments, PlanDeployment(r, d)
      PROVE  TypeOK'
  <2>1. PICK block \in Blocks(r, d) : plan' = [plan EXCEPT ![r] = @ \o block]
    BY <1>2 DEF PlanDeployment
  <2>2. block \in Seq(Attempt)
    <3>1. block \in Seq(PlannedAttempt) /\ PlannedAttempt \subseteq Attempt
      BY <2>1, BlocksType DEF PlannedAttempt
    <3>. QED BY <3>1, SeqMonotone
  <2>3. plan' \in [Requests -> Seq(Attempt)]
    BY <2>1, <2>2 DEF TypeOK
  <2>. QED BY <1>2, <2>3 DEF PlanDeployment, TypeOK, sharedVars, depVars,
                             envVars, modelVars
<1>3. CASE SkipUnavailable(r)
  <2>1. CASE Advance(r) /\ UNCHANGED marks
    BY <1>3, <2>1, <1>a DEF SkipUnavailable, InLoop, TypeOK, sharedVars,
       depVars, envVars, modelVars
  <2>2. CASE /\ marks' = [marks EXCEPT ![r] = <<"limit">>]
             /\ Goto(r, "save")
             /\ UNCHANGED <<pos, prev, outcome>>
    BY <1>3, <2>2 DEF SkipUnavailable, TypeOK, sharedVars, depVars, envVars,
       modelVars
  <2>. QED BY <1>3, <2>1, <2>2 DEF SkipUnavailable
<1>4. CASE SkipModelState(r)
  BY <1>4, <1>a DEF SkipModelState, InLoop, TypeOK, sharedVars, depVars,
     envVars, modelVars
<1>5. CASE PassAvailable(r)
  BY <1>5 DEF PassAvailable, TypeOK, sharedVars, depVars, envVars, modelVars
<1>6. CASE CheckChannel(r)
  <2>1. marks' \in [Requests -> Seq({"short", "long", "limit", "exhausted"})]
    <3>1. \/ marks' = marks
          \/ marks' = [marks EXCEPT ![r] = <<"short">>]
      BY <1>6 DEF CheckChannel
    <3>2. marks \in [Requests -> Seq({"short", "long", "limit", "exhausted"})]
      BY DEF TypeOK
    <3>3. <<"short">> \in Seq({"short", "long", "limit", "exhausted"})
      BY MarksType
    <3>. QED BY <3>1, <3>2, <3>3
  <2>2. pc' \in [Requests -> {"idle", "plan", "check", "channel", "acquire",
                              "execute", "success", "account", "invalid",
                              "model", "charge", "save", "unstick", "done"}]
    <3>1. \/ pc' = [pc EXCEPT ![r] = "acquire"]
          \/ pc' = [pc EXCEPT ![r] = "save"]
      BY <1>6 DEF CheckChannel
    <3>. QED BY <3>1 DEF TypeOK
  <2>3. UNCHANGED <<plan, todo, pos, prev, outcome, first, sharedVars>>
    BY <1>6 DEF CheckChannel
  <2>. QED BY <1>6, <2>1, <2>2, <2>3 DEF CheckChannel, TypeOK, sharedVars, depVars,
                                        envVars, modelVars
<1>7. CASE SkipQuota(r)
  <2>1. pos[r] <= Len(plan[r])
    BY <1>7 DEF SkipQuota, LoopInv
  <2>2. /\ pos' \in [Requests -> Nat \ {0}]
        /\ prev' \in [Requests -> Deployments \cup {NoDep}]
        /\ outcome' \in [Requests -> AllOutcomes \cup {"none"}]
        /\ pc' = [pc EXCEPT ![r] = "check"]
    BY <1>7, <1>a, <2>1 DEF SkipQuota
  <2>3. UNCHANGED <<plan, todo, first, marks, sharedVars, hist>>
    BY <1>7 DEF SkipQuota
  <2>. QED BY <2>2, <2>3 DEF TypeOK, sharedVars, depVars, envVars, modelVars
<1>8. CASE SkipConcurrency(r)
  <2>1. pos[r] <= Len(plan[r])
    BY <1>8 DEF SkipConcurrency, LoopInv
  <2>2. /\ pos' \in [Requests -> Nat \ {0}]
        /\ prev' \in [Requests -> Deployments \cup {NoDep}]
        /\ outcome' \in [Requests -> AllOutcomes \cup {"none"}]
        /\ pc' = [pc EXCEPT ![r] = "check"]
    BY <1>8, <1>a, <2>1 DEF SkipConcurrency
  <2>3. UNCHANGED <<plan, todo, first, marks, sharedVars, hist>>
    BY <1>8 DEF SkipConcurrency
  <2>. QED BY <2>2, <2>3 DEF TypeOK, sharedVars, depVars, envVars, modelVars
<1>9. CASE Acquire(r)
  <2>1. dep(r) \in Deployments
    BY <1>0, <1>9 DEF Acquire, LoopInv
  <2>2. inFlight' \in [Deployments -> Nat]
    BY <1>9, <2>1 DEF Acquire, TypeOK
  <2>. QED BY <1>9, <2>2 DEF Acquire, TypeOK, depVars, envVars, modelVars
<1>10. CASE Execute(r)
  <2>0. pc[r] = "execute" /\ dep(r) \in Deployments
    BY <1>0, <1>10 DEF Execute, ExecuteOk, ExecuteBadTools, ExecuteFails,
       ExecutePanics, LoopInv
  <2>1. ASSUME ReleaseSlot(dep(r))
        PROVE  inFlight' \in [Deployments -> Nat]
    BY <2>0, <2>1 DEF ReleaseSlot, Release, TypeOK
  <2>2. CASE ExecuteOk(r)
    BY <2>1, <2>2 DEF ExecuteOk, TypeOK, depVars, envVars, modelVars,
       AllOutcomes
  <2>3. CASE ExecuteBadTools(r)
    BY <2>1, <2>3 DEF ExecuteBadTools, TypeOK, depVars, envVars, modelVars,
       AllOutcomes
  <2>4. CASE ExecutePanics(r)
    BY <2>4 DEF ExecutePanics, TypeOK, sharedVars, depVars, envVars, modelVars,
       AllOutcomes
  <2>5. ASSUME NEW o \in Failures, NEW w \in BOOLEAN, ExecuteFails(r, o, w)
        PROVE  TypeOK'
    BY <2>1, <2>5 DEF ExecuteFails, AfterFailure, Failures, TypeOK, depVars,
       envVars, modelVars
  <2>. QED BY <1>10, <2>2, <2>3, <2>4, <2>5 DEF Execute
<1>11. CASE SetSticky(r)
  BY <1>0, <1>11 DEF SetSticky, LoopInv, TypeOK, depVars, envVars, modelVars
<1>12. CASE Account(r)
  BY <1>0, <1>12 DEF Account, LoopInv, TypeOK, envVars
<1>13. CASE MarkFalsePositive(r)
  <2>1. /\ pos[r] <= Len(plan[r])
        /\ dep(r) \in Deployments /\ at(r).model \in Models
    BY <1>0, <1>13 DEF MarkFalsePositive, LoopInv
  <2>2. falsePos' \subseteq Deployments \X Models
    BY <1>13, <2>1 DEF MarkFalsePositive, TypeOK
  <2>3. /\ pos' \in [Requests -> Nat \ {0}]
        /\ prev' \in [Requests -> Deployments \cup {NoDep}]
        /\ outcome' \in [Requests -> AllOutcomes \cup {"none"}]
        /\ pc' = [pc EXCEPT ![r] = "check"]
    BY <1>13, <1>a, <2>1 DEF MarkFalsePositive
  <2>. QED BY <1>13, <2>2, <2>3 DEF MarkFalsePositive, TypeOK, depVars, envVars
<1>14. CASE MarkModel(r)
  <2>1. /\ pos[r] <= Len(plan[r])
        /\ dep(r) \in Deployments /\ at(r).model \in Models
    BY <1>0, <1>14 DEF MarkModel, LoopInv
  <2>2. cooling' \subseteq Deployments \X Models
    BY <1>14, <2>1 DEF MarkModel, TypeOK
  <2>3. CASE Advance(r)
    BY <1>14, <1>a, <2>1, <2>2, <2>3 DEF MarkModel, TypeOK, depVars, envVars
  <2>4. CASE Goto(r, "charge") /\ UNCHANGED <<pos, prev, outcome>>
    BY <1>14, <2>2, <2>4 DEF MarkModel, TypeOK, depVars, envVars
  <2>. QED BY <1>14, <2>3, <2>4 DEF MarkModel
<1>15. CASE Charge(r)
  <2>1. pos[r] <= Len(plan[r])
    BY <1>15 DEF Charge, LoopInv
  <2>2. channelUp' \subseteq Channels
    BY <1>15 DEF Charge, TypeOK
  <2>3. CooldownMarks(dep(r), outcome[r]) \in Seq({"short", "long", "limit", "exhausted"})
    BY MarksType DEF CooldownMarks
  <2>4. CASE Goto(r, "done") /\ UNCHANGED <<pos, prev, outcome, marks>>
    BY <1>15, <2>2, <2>4 DEF Charge, TypeOK, depVars, modelVars
  <2>5. CASE Advance(r) /\ UNCHANGED marks
    BY <1>15, <1>a, <2>1, <2>2, <2>5 DEF Charge, TypeOK, depVars, modelVars
  <2>6. CASE /\ marks' = [marks EXCEPT ![r] = CooldownMarks(dep(r), outcome[r])]
             /\ Goto(r, "save")
             /\ UNCHANGED <<pos, prev, outcome>>
    BY <1>15, <2>2, <2>3, <2>6 DEF Charge, TypeOK, depVars, modelVars
  <2>. QED BY <1>15, <2>4, <2>5, <2>6 DEF Charge
<1>16. CASE SaveMark(r)
  <2>1. dep(r) \in Deployments /\ marks[r] # <<>>
    BY <1>0, <1>16 DEF SaveMark, LoopInv
  <2>2. Head(marks[r]) \in {"short", "long", "limit", "exhausted"}
    BY <2>1 DEF TypeOK
  <2>3. /\ cooldown' \in [Deployments -> {"free", "short", "long", "limit"}]
        /\ exhausted' \subseteq Deployments
    BY <1>16, <2>1, <2>2 DEF SaveMark, TypeOK
  <2>. QED BY <1>16, <2>3 DEF SaveMark, TypeOK, envVars, modelVars
<1>17. CASE ClearStickyForDeployment(r)
  <2>1. pos[r] <= Len(plan[r]) /\ dep(r) \in Deployments /\ marks[r] # <<>>
    BY <1>0, <1>17 DEF ClearStickyForDeployment, LoopInv
  <2>2. sticky' \in [VirtualModels -> Deployments \cup {NoDep}]
    BY <1>17 DEF ClearStickyForDeployment, TypeOK
  <2>3. Tail(marks[r]) \in Seq({"short", "long", "limit", "exhausted"})
    BY <2>1 DEF TypeOK
  <2>4. marks' \in [Requests -> Seq({"short", "long", "limit", "exhausted"})]
    BY <1>17, <2>3 DEF ClearStickyForDeployment, TypeOK
  <2>5. CASE Advance(r)
    BY <1>17, <1>a, <2>1, <2>2, <2>4, <2>5 DEF ClearStickyForDeployment, TypeOK,
       depVars, envVars, modelVars
  <2>6. CASE Goto(r, "save") /\ UNCHANGED <<pos, prev, outcome>>
    BY <1>17, <2>2, <2>4, <2>6 DEF ClearStickyForDeployment, TypeOK, depVars,
       envVars, modelVars
  <2>. QED BY <1>17, <2>5, <2>6 DEF ClearStickyForDeployment
<1>18. CASE AllFailed(r)
  BY <1>18 DEF AllFailed, TypeOK, depVars, envVars, modelVars
<1>. QED
  BY <1>1, <1>2, <1>3, <1>4, <1>5, <1>6, <1>7, <1>8, <1>9, <1>10, <1>11,
     <1>12, <1>13, <1>14, <1>15, <1>16, <1>17, <1>18 DEF Step

\* The steps of a request keep the loop invariant.
LEMMA RequestLoop ==
  ASSUME ConstantsAssumption, TypeOK, LoopInv,
         NEW r \in Requests, Begin(r) \/ Step(r)
  PROVE  LoopInv'
<1>. USE DEF OnAttempt, Goto
<1>0. ASSUME pos[r] <= Len(plan[r])
      PROVE  at(r) \in PlannedAttempt
  BY <1>0 DEF TypeOK, LoopInv, at
<1>a. ASSUME pos[r] <= Len(plan[r]), Advance(r), UNCHANGED plan,
             marks' = [marks EXCEPT ![r] = marks'[r]]
      PROVE  LoopInv'
  BY <1>a DEF Advance, LoopInv, TypeOK, at, dep
<1>b. ASSUME NEW l \in {"save", "charge", "success", "account", "unstick",
                        "channel", "acquire", "execute", "invalid", "model"},
             Goto(r, l), UNCHANGED <<plan, pos>>, pos[r] <= Len(plan[r]),
             outcome' = [outcome EXCEPT ![r] = outcome'[r]],
             outcome'[r] # "panic",
             marks' = [marks EXCEPT ![r] = marks'[r]],
             l \in {"save", "unstick"} => marks'[r] # <<>>,
             l \in {"channel", "acquire", "execute", "invalid", "model"} =>
               ~at(r).skip,
             l = "invalid" => dep(r) \in Kilo,
             l = "model" => at(r).rotatable
      PROVE  LoopInv'
  BY <1>b DEF LoopInv, TypeOK, at, dep
<1>c. ASSUME Goto(r, "done"), UNCHANGED <<plan, pos>>,
             outcome' = [outcome EXCEPT ![r] = outcome'[r]],
             outcome'[r] = "panic" => pos[r] <= Len(plan[r]),
             marks' = [marks EXCEPT ![r] = marks'[r]]
      PROVE  LoopInv'
  BY <1>c DEF LoopInv, TypeOK, at, dep
<1>1. CASE Begin(r)
  BY <1>1 DEF Begin, LoopInv, TypeOK, at, dep
<1>2. ASSUME NEW d \in Deployments, PlanDeployment(r, d)
      PROVE  LoopInv'
  <2>1. PICK block \in Blocks(r, d) : plan' = [plan EXCEPT ![r] = @ \o block]
    BY <1>2 DEF PlanDeployment
  <2>2. block \in Seq(PlannedAttempt)
    BY <2>1, BlocksType
  <2>3. plan[r] \o block \in Seq(PlannedAttempt)
    BY <2>2 DEF LoopInv
  <2>. QED BY <1>2, <2>1, <2>3 DEF PlanDeployment, LoopInv, TypeOK, at, dep
<1>3. CASE SkipUnavailable(r)
  <2>1. pos[r] <= Len(plan[r]) /\ UNCHANGED plan /\ outcome[r] # "panic"
    BY <1>3 DEF SkipUnavailable, InLoop, LoopInv
  <2>2. CASE Advance(r) /\ UNCHANGED marks
    BY <1>a, <2>1, <2>2 DEF TypeOK
  <2>3. CASE /\ marks' = [marks EXCEPT ![r] = <<"limit">>]
             /\ Goto(r, "save")
             /\ UNCHANGED <<pos, prev, outcome>>
    BY <1>b, <2>1, <2>3 DEF TypeOK
  <2>. QED BY <1>3, <2>2, <2>3 DEF SkipUnavailable
<1>4. CASE SkipModelState(r)
  BY <1>4, <1>a DEF SkipModelState, InLoop, TypeOK
<1>5. CASE PassAvailable(r)
  BY <1>5, <1>b DEF PassAvailable, InLoop, LoopInv, TypeOK
<1>6. CASE CheckChannel(r)
  <2>1. /\ pos[r] <= Len(plan[r]) /\ ~at(r).skip /\ outcome[r] # "panic"
        /\ UNCHANGED <<plan, pos, outcome>>
    BY <1>6 DEF CheckChannel, LoopInv
  <2>2. CASE Goto(r, "acquire") /\ UNCHANGED marks
    BY <1>b, <2>1, <2>2 DEF TypeOK
  <2>3. CASE marks' = [marks EXCEPT ![r] = <<"short">>] /\ Goto(r, "save")
    BY <1>b, <2>1, <2>3 DEF TypeOK
  <2>. QED BY <1>6, <2>2, <2>3 DEF CheckChannel
<1>7. CASE SkipQuota(r)
  BY <1>7, <1>a DEF SkipQuota, LoopInv, TypeOK
<1>8. CASE SkipConcurrency(r)
  BY <1>8, <1>a DEF SkipConcurrency, LoopInv, TypeOK
<1>9. CASE Acquire(r)
  BY <1>9, <1>b DEF Acquire, LoopInv, TypeOK
<1>10. CASE Execute(r)
  <2>1. CASE ExecuteOk(r)
    BY <1>b, <2>1 DEF ExecuteOk, LoopInv, TypeOK
  <2>2. CASE ExecuteBadTools(r)
    BY <1>b, <2>2 DEF ExecuteBadTools, Buffered, LoopInv, TypeOK
  <2>3. CASE ExecutePanics(r)
    BY <1>c, <2>3 DEF ExecutePanics, LoopInv, TypeOK
  <2>4. ASSUME NEW o \in Failures, NEW w \in BOOLEAN, ExecuteFails(r, o, w)
        PROVE  LoopInv'
    <3>1. /\ o # "panic"
          /\ outcome' = [outcome EXCEPT ![r] = o]
          /\ UNCHANGED <<plan, pos, marks>>
          /\ pos[r] <= Len(plan[r]) /\ ~at(r).skip
      BY <2>4 DEF ExecuteFails, Failures, LoopInv
    <3>2. CASE Goto(r, "done")
      BY <1>c, <3>1, <3>2 DEF TypeOK
    <3>3. CASE Goto(r, "model") /\ at(r).rotatable
      BY <1>b, <3>1, <3>3 DEF TypeOK
    <3>4. CASE Goto(r, "charge")
      BY <1>b, <3>1, <3>4 DEF TypeOK
    <3>. QED BY <2>4, <3>2, <3>3, <3>4
             DEF ExecuteFails, AfterFailure, RecordsModelRateLimit
  <2>. QED BY <1>10, <2>1, <2>2, <2>3, <2>4 DEF Execute
<1>11. CASE SetSticky(r)
  BY <1>11, <1>b DEF SetSticky, LoopInv, TypeOK
<1>12. CASE Account(r)
  BY <1>12, <1>c DEF Account, LoopInv, TypeOK
<1>13. CASE MarkFalsePositive(r)
  BY <1>13, <1>a DEF MarkFalsePositive, LoopInv, TypeOK
<1>14. CASE MarkModel(r)
  <2>1. pos[r] <= Len(plan[r]) /\ outcome[r] # "panic" /\ UNCHANGED <<plan, marks>>
    BY <1>14 DEF MarkModel, LoopInv
  <2>2. CASE Advance(r)
    BY <1>a, <2>1, <2>2 DEF TypeOK
  <2>3. CASE Goto(r, "charge") /\ UNCHANGED <<pos, prev, outcome>>
    BY <1>b, <2>1, <2>3 DEF TypeOK
  <2>. QED BY <1>14, <2>2, <2>3 DEF MarkModel
<1>15. CASE Charge(r)
  <2>1. pos[r] <= Len(plan[r]) /\ outcome[r] # "panic"
    BY <1>15 DEF Charge, LoopInv
  <2>2. CASE Goto(r, "done") /\ UNCHANGED <<pos, prev, outcome, marks>>
    BY <1>15, <1>c, <2>1, <2>2 DEF Charge, TypeOK
  <2>3. CASE Advance(r) /\ UNCHANGED marks
    BY <1>15, <1>a, <2>1, <2>3 DEF Charge, TypeOK
  <2>4. CASE /\ CooldownMarks(dep(r), outcome[r]) # <<>>
             /\ marks' = [marks EXCEPT ![r] = CooldownMarks(dep(r), outcome[r])]
             /\ Goto(r, "save")
             /\ UNCHANGED <<pos, prev, outcome>>
    BY <1>15, <1>b, <2>1, <2>4 DEF Charge, TypeOK
  <2>. QED BY <1>15, <2>2, <2>3, <2>4 DEF Charge
<1>16. CASE SaveMark(r)
  BY <1>16, <1>b DEF SaveMark, LoopInv, TypeOK
<1>17. CASE ClearStickyForDeployment(r)
  <2>1. UNCHANGED <<plan, todo>>
    BY <1>17 DEF ClearStickyForDeployment
  <2>2. CASE Advance(r)
    BY <1>17, <1>a, <2>1, <2>2 DEF ClearStickyForDeployment, LoopInv, TypeOK
  <2>3. CASE Goto(r, "save") /\ UNCHANGED <<pos, prev, outcome>> /\ Tail(marks[r]) # <<>>
    <3>1. /\ marks' = [marks EXCEPT ![r] = Tail(marks[r])]
          /\ Tail(marks[r]) # <<>> /\ pc[r] = "unstick"
      BY <1>17, <2>3 DEF ClearStickyForDeployment
    <3>2. marks'[r] # <<>> /\ marks' = [marks EXCEPT ![r] = marks'[r]]
      BY <3>1 DEF TypeOK
    <3>3. pos[r] <= Len(plan[r])
      BY <3>1 DEF LoopInv, OnAttempt
    <3>4. outcome' = [outcome EXCEPT ![r] = outcome'[r]] /\ outcome'[r] # "panic"
      BY <2>3, <3>1 DEF LoopInv, TypeOK
    <3>. QED BY <1>b, <2>1, <2>3, <3>2, <3>3, <3>4
  <2>. QED BY <1>17, <2>2, <2>3 DEF ClearStickyForDeployment
<1>18. CASE AllFailed(r)
  BY <1>18, <1>c DEF AllFailed, LoopInv, TypeOK
<1>. QED
  BY <1>1, <1>2, <1>3, <1>4, <1>5, <1>6, <1>7, <1>8, <1>9, <1>10, <1>11,
     <1>12, <1>13, <1>14, <1>15, <1>16, <1>17, <1>18 DEF Step

\* The environment touches neither the requests' variables nor the slots.
LEMMA EnvironmentStep ==
  ASSUME ConstantsAssumption, TypeOK, LoopInv, Environment
  PROVE  /\ TypeOK' /\ LoopInv'
         /\ UNCHANGED <<localVars, inFlight>>
<1>1. UNCHANGED <<localVars, inFlight>>
  BY DEF Environment, CooldownLapse, HealthFlip, ResetDeployment,
         ResetCooldown, ResetModels, ModelLapse, ChannelFlip, NewDay
<1>2. LoopInv'
  BY <1>1 DEF LoopInv, OnAttempt, localVars, at, dep
<1>3. ASSUME NEW d \in Deployments, CooldownLapse(d)
      PROVE  TypeOK'
  BY <1>1, <1>3 DEF CooldownLapse, TypeOK, localVars, envVars, modelVars
<1>4. ASSUME NEW d \in Deployments, HealthFlip(d)
      PROVE  TypeOK'
  BY <1>1, <1>4 DEF HealthFlip, TypeOK, localVars, depVars, modelVars
<1>5. ASSUME NEW d \in Deployments, ResetDeployment(d)
      PROVE  TypeOK'
  BY <1>1, <1>5 DEF ResetDeployment, TypeOK, localVars, modelVars
<1>6. ASSUME NEW d \in Deployments, NEW m \in Models, ModelLapse(d, m)
      PROVE  TypeOK'
  BY <1>1, <1>6 DEF ModelLapse, TypeOK, localVars, depVars, envVars
<1>7. ASSUME NEW c \in Channels, ChannelFlip(c)
      PROVE  TypeOK'
  BY <1>1, <1>7 DEF ChannelFlip, TypeOK, localVars, depVars, modelVars
<1>8. ASSUME NewDay
      PROVE  TypeOK'
  BY <1>1, <1>8 DEF NewDay, TypeOK, localVars, envVars, modelVars
<1>9. ASSUME NEW d \in Deployments, ResetCooldown(d)
      PROVE  TypeOK'
  BY <1>1, <1>9 DEF ResetCooldown, TypeOK, localVars, modelVars
<1>10. ASSUME NEW d \in Deployments, ResetModels(d)
       PROVE  TypeOK'
  BY <1>1, <1>10 DEF ResetModels, TypeOK, localVars, depVars
<1>11. TypeOK'
  BY <1>3, <1>4, <1>5, <1>6, <1>7, <1>8, <1>9, <1>10 DEF Environment
<1>. QED BY <1>1, <1>2, <1>11

----------------------------------------------------------------------------
(* The slots. *)

SlotInv == SlotAccounting /\ SlotLimit

\* The holders of a slot are finitely many.
LEMMA HoldersFinite ==
  ASSUME ConstantsAssumption, NEW d \in Deployments
  PROVE  /\ IsFiniteSet(SlotHolders(d))
         /\ Cardinality(SlotHolders(d)) \in Nat
<1>1. SlotHolders(d) \subseteq Requests
  BY DEF SlotHolders
<1>. QED BY <1>1, FS_Subset, FS_CardinalityType DEF ConstantsAssumption

\* A step that neither takes nor gives back a slot keeps the accounting.
LEMMA SlotsUnchanged ==
  ASSUME SlotInv, UNCHANGED inFlight,
         \A r \in Requests : /\ Holding(r)' <=> Holding(r)
                             /\ Holding(r) => dep(r)' = dep(r)
  PROVE  SlotInv'
<1>1. ASSUME NEW d \in Deployments
      PROVE  SlotHolders(d)' = SlotHolders(d)
  BY DEF SlotHolders
<1>. QED BY <1>1 DEF SlotInv, SlotAccounting, SlotLimit

\* Taking a slot: the holder is new, and there was room for it.
LEMMA SlotTaken ==
  ASSUME ConstantsAssumption, TypeOK, LoopInv, SlotInv, NEW r \in Requests,
         Acquire(r)
  PROVE  SlotInv'
<1>1. /\ dep(r) \in Deployments /\ ~Holding(r)
      /\ pc' = [pc EXCEPT ![r] = "execute"]
      /\ UNCHANGED <<plan, pos, outcome>>
  BY CurrentAttempt DEF Acquire, Goto, LoopInv, OnAttempt, Holding
<1>2. PICK c \in Deployments : c = dep(r)
  BY <1>1
<1>3. SlotHolders(c)' = SlotHolders(c) \cup {r} /\ r \notin SlotHolders(c)
  BY <1>1, <1>2 DEF SlotHolders, Holding, TypeOK, dep, at
<1>4. Cardinality(SlotHolders(c))' = Cardinality(SlotHolders(c)) + 1
  BY <1>3, HoldersFinite, FS_AddElement
<1>5. ASSUME NEW d \in Deployments, d # c
      PROVE  SlotHolders(d)' = SlotHolders(d) /\ inFlight'[d] = inFlight[d]
  BY <1>1, <1>2, <1>5 DEF SlotHolders, Holding, TypeOK, dep, at, Acquire
<1>6. /\ inFlight'[c] = IF MaxConcurrent[c] = 0 THEN 0
                         ELSE Cardinality(SlotHolders(c))'
      /\ MaxConcurrent[c] > 0 => Cardinality(SlotHolders(c))' <= MaxConcurrent[c]
  <2>1. /\ Cardinality(SlotHolders(c)) \in Nat
        /\ MaxConcurrent[c] \in Nat
    BY HoldersFinite DEF ConstantsAssumption
  <2>2. /\ inFlight'[c] = IF MaxConcurrent[c] = 0 THEN inFlight[c]
                                                  ELSE inFlight[c] + 1
        /\ MaxConcurrent[c] = 0 \/ inFlight[c] < MaxConcurrent[c]
        /\ inFlight[c] = IF MaxConcurrent[c] = 0 THEN 0
                         ELSE Cardinality(SlotHolders(c))
    BY <1>2 DEF Acquire, SlotFree, SlotInv, SlotAccounting, TypeOK
  <2>. QED BY <1>4, <2>1, <2>2
<1>. QED BY <1>5, <1>6 DEF SlotInv, SlotAccounting, SlotLimit

\* Giving a slot back: the releasing request held one, so the counter is
\* positive and the floor at zero in release never hides a lost slot.
LEMMA SlotGivenBack ==
  ASSUME ConstantsAssumption, TypeOK, LoopInv, SlotInv, NEW r \in Requests,
         pc[r] = "execute", ReleaseSlot(dep(r)), UNCHANGED <<plan, pos>>,
         NEW l, l # "execute", Goto(r, l),
         NEW o, o # "panic", outcome' = [outcome EXCEPT ![r] = o]
  PROVE  SlotInv'
<1>1. dep(r) \in Deployments /\ Holding(r)
  BY CurrentAttempt DEF LoopInv, OnAttempt, Holding
<1>2. PICK c \in Deployments : c = dep(r)
  BY <1>1
<1>3. SlotHolders(c)' = SlotHolders(c) \ {r} /\ r \in SlotHolders(c)
  BY <1>1, <1>2 DEF SlotHolders, Holding, TypeOK, dep, at, Goto
<1>4. /\ Cardinality(SlotHolders(c))' = Cardinality(SlotHolders(c)) - 1
      /\ Cardinality(SlotHolders(c)) \in Nat
      /\ Cardinality(SlotHolders(c))' \in Nat
  <2>1. IsFiniteSet(SlotHolders(c) \ {r})
    BY HoldersFinite, FS_RemoveElement
  <2>. QED BY <1>3, <2>1, HoldersFinite, FS_RemoveElement, FS_CardinalityType
<1>5. ASSUME NEW d \in Deployments, d # c
      PROVE  SlotHolders(d)' = SlotHolders(d) /\ inFlight'[d] = inFlight[d]
  BY <1>1, <1>2, <1>5 DEF SlotHolders, Holding, TypeOK, dep, at, Goto,
     ReleaseSlot, Release
<1>6. /\ inFlight'[c] = IF MaxConcurrent[c] = 0 THEN 0
                         ELSE Cardinality(SlotHolders(c))'
      /\ MaxConcurrent[c] > 0 => Cardinality(SlotHolders(c))' <= MaxConcurrent[c]
  <2>1. /\ inFlight'[c] = IF MaxConcurrent[c] = 0 THEN inFlight[c]
                          ELSE IF inFlight[c] <= 1 THEN 0 ELSE inFlight[c] - 1
        /\ inFlight[c] = IF MaxConcurrent[c] = 0 THEN 0
                         ELSE Cardinality(SlotHolders(c))
        /\ MaxConcurrent[c] > 0 => Cardinality(SlotHolders(c)) <= MaxConcurrent[c]
        /\ MaxConcurrent[c] \in Nat
    BY <1>2 DEF ReleaseSlot, Release, SlotInv, SlotAccounting, SlotLimit, TypeOK,
       ConstantsAssumption
  <2>. QED BY <1>4, <2>1
<1>. QED BY <1>5, <1>6 DEF SlotInv, SlotAccounting, SlotLimit

\* The steps that neither start nor end an attempt leave the slots alone.
LEMMA OtherSteps ==
  ASSUME TypeOK, LoopInv, NEW r \in Requests, Begin(r) \/ Step(r),
         ~Acquire(r), ~Execute(r)
  PROVE  /\ UNCHANGED inFlight
         /\ pc[r] # "execute" /\ pc'[r] # "execute"
         /\ outcome[r] # "panic" /\ outcome'[r] # "panic"
         /\ \A q \in Requests \ {r} : /\ pc'[q] = pc[q] /\ pos'[q] = pos[q]
                                     /\ outcome'[q] = outcome[q]
                                     /\ plan'[q] = plan[q]
<1>. USE DEF TypeOK, LoopInv, Goto, Advance, sharedVars
<1>1. CASE Begin(r)
  BY <1>1 DEF Begin
<1>2. ASSUME NEW d \in Deployments, PlanDeployment(r, d)
      PROVE  /\ UNCHANGED <<inFlight, outcome, pos>>
             /\ pc[r] = "plan" /\ pc'[r] # "execute"
             /\ \A q \in Requests \ {r} : pc'[q] = pc[q] /\ plan'[q] = plan[q]
  BY <1>2 DEF PlanDeployment
<1>3. CASE SkipUnavailable(r) \/ SkipModelState(r) \/ PassAvailable(r)
  BY <1>3 DEF SkipUnavailable, SkipModelState, PassAvailable
<1>4. CASE CheckChannel(r)
  BY <1>4 DEF CheckChannel
<1>5. CASE SkipQuota(r) \/ SkipConcurrency(r)
  BY <1>5 DEF SkipQuota, SkipConcurrency
<1>6. CASE SetSticky(r) \/ Account(r) \/ MarkFalsePositive(r)
  BY <1>6 DEF SetSticky, Account, MarkFalsePositive
<1>7. CASE MarkModel(r)
  BY <1>7 DEF MarkModel
<1>8. CASE Charge(r)
  BY <1>8 DEF Charge
<1>9. CASE SaveMark(r)
  BY <1>9 DEF SaveMark
<1>10. CASE ClearStickyForDeployment(r)
  BY <1>10 DEF ClearStickyForDeployment
<1>11. CASE AllFailed(r)
  BY <1>11 DEF AllFailed
<1>. QED BY <1>1, <1>2, <1>3, <1>4, <1>5, <1>6, <1>7, <1>8, <1>9, <1>10, <1>11
         DEF Step

\* Every step keeps the accounting.
LEMMA SlotStep ==
  ASSUME ConstantsAssumption, TypeOK, LoopInv, SlotInv,
         NEW r \in Requests, Begin(r) \/ Step(r)
  PROVE  SlotInv'
<1>1. CASE Acquire(r)
  BY <1>1, SlotTaken
<1>2. CASE ExecuteOk(r)
  BY <1>2, SlotGivenBack DEF ExecuteOk
<1>3. CASE ExecuteBadTools(r)
  BY <1>3, SlotGivenBack DEF ExecuteBadTools
<1>4. ASSUME NEW o \in Failures, NEW w \in BOOLEAN, ExecuteFails(r, o, w)
      PROVE  SlotInv'
  <2>1. o # "panic" /\ AfterFailure(at(r), o, w) # "execute"
    BY DEF Failures, AfterFailure
  <2>. QED BY <1>4, <2>1, SlotGivenBack DEF ExecuteFails
<1>5. CASE ExecutePanics(r)
  <2>1. ASSUME NEW q \in Requests
        PROVE  /\ Holding(q)' <=> Holding(q)
               /\ Holding(q) => dep(q)' = dep(q)
    BY <1>5, <2>1 DEF ExecutePanics, Goto, Holding, TypeOK, dep, at
  <2>. QED BY <1>5, <2>1, SlotsUnchanged DEF ExecutePanics, sharedVars
<1>6. CASE ~Acquire(r) /\ ~Execute(r)
  <2>1. UNCHANGED inFlight /\ ~Holding(r) /\ ~Holding(r)'
    BY <1>6, OtherSteps DEF Holding
  <2>2. ASSUME NEW q \in Requests, q # r
        PROVE  (Holding(q)' <=> Holding(q)) /\ dep(q)' = dep(q)
    BY <1>6, <2>2, OtherSteps DEF Holding, dep, at
  <2>. QED BY <2>1, <2>2, SlotsUnchanged
<1>. QED BY <1>1, <1>2, <1>3, <1>4, <1>5, <1>6 DEF Execute

----------------------------------------------------------------------------
(* The theorems. *)

\* The inductive invariant: the counters alone are not inductive, because what a
\* release does to a counter depends on the request holding a slot there, and
\* that on its plan and its place in the loop.
IInv == TypeOK /\ LoopInv /\ SlotInv

LEMMA InitIInv ==
  ASSUME ConstantsAssumption, Init
  PROVE  IInv
<1>1. TypeOK
  BY DEF Init, TypeOK, ConstantsAssumption
<1>2. LoopInv
  BY DEF Init, LoopInv, OnAttempt
<1>3. ASSUME NEW d \in Deployments
      PROVE  SlotHolders(d) = {}
  BY DEF Init, SlotHolders, Holding
<1>4. SlotInv
  <2>1. Cardinality({}) = 0
    BY FS_EmptySet
  <2>2. ASSUME NEW d \in Deployments
        PROVE  inFlight[d] = 0 /\ MaxConcurrent[d] \in Nat
    BY DEF Init, ConstantsAssumption
  <2>3. ASSUME NEW d \in Deployments
        PROVE  Cardinality(SlotHolders(d)) = 0
    BY <1>3, <2>1
  <2>. QED BY <2>2, <2>3 DEF SlotInv, SlotAccounting, SlotLimit
<1>. QED BY <1>1, <1>2, <1>4 DEF IInv

LEMMA NextIInv ==
  ASSUME ConstantsAssumption, IInv, [Next]_vars
  PROVE  IInv'
<1>. USE DEF IInv
<1>1. ASSUME NEW r \in Requests, Begin(r) \/ Step(r)
      PROVE  IInv'
  BY <1>1, RequestTypes, RequestLoop, SlotStep
<1>2. CASE Environment
  <2>1. TypeOK' /\ LoopInv' /\ UNCHANGED <<localVars, inFlight>>
    BY <1>2, EnvironmentStep
  <2>2. SlotInv'
    BY <2>1, SlotsUnchanged DEF Holding, dep, at, localVars
  <2>. QED BY <2>1, <2>2
<1>3. CASE UNCHANGED vars
  <2>1. UNCHANGED <<localVars, depVars, envVars, modelVars, inFlight, sticky>>
    BY <1>3 DEF vars, sharedVars
  <2>2. TypeOK'
    BY <2>1 DEF TypeOK, localVars, depVars, envVars, modelVars
  <2>3. LoopInv'
    BY <2>1 DEF LoopInv, OnAttempt, localVars, at, dep
  <2>4. SlotInv'
    BY <2>1, SlotsUnchanged DEF Holding, dep, at, localVars
  <2>. QED BY <2>2, <2>3, <2>4
<1>. QED BY <1>1, <1>2, <1>3 DEF Next, AllServed

\* The types, the positions in the plans and the slots are right in every reachable state.
THEOREM Invariance == Spec => []IInv
<1>1. Init => IInv
  BY InitIInv, ConstantsAssumption
<1>2. IInv /\ [Next]_vars => IInv'
  BY NextIInv, ConstantsAssumption
<1>. QED BY <1>1, <1>2, PTL DEF Spec

\* Whatever the requests, plans, limits and failures, every variable of the loop
\* keeps its type: the loop index and the in-flight counters of relay.go and
\* concurrency.go never go below their floors.
THEOREM TypeCorrect == Spec => []TypeOK
<1>1. IInv => TypeOK
  BY DEF IInv
<1>. QED BY <1>1, Invariance, PTL

\* concurrency.go: however many requests interleave, each limited deployment's
\* in-flight counter equals the number of requests that took a slot there and
\* have not given it back.
THEOREM SlotsAccounted == Spec => []SlotAccounting
<1>1. IInv => SlotAccounting
  BY DEF IInv, SlotInv
<1>. QED BY <1>1, Invariance, PTL

\* And never more than max_concurrent_requests of them hold one.
THEOREM SlotsLimited == Spec => []SlotLimit
<1>1. IInv => SlotLimit
  BY DEF IInv, SlotInv
<1>. QED BY <1>1, Invariance, PTL

----------------------------------------------------------------------------
(* The abstract slots. *)

\* A request that holds a slot holds one of a deployment; NoDep is none.
LEMMA ServingDeployment ==
  ASSUME ConstantsAssumption, TypeOK, LoopInv, NEW r \in Requests
  PROVE  /\ Holding(r) => dep(r) \in Deployments /\ dep(r) # NoDep
         /\ Serving[r] = NoDep <=> ~Holding(r)
<1>1. Holding(r) => pos[r] <= Len(plan[r])
  BY DEF LoopInv, OnAttempt, Holding
<1>. QED BY <1>1, CurrentAttempt DEF Serving, ConstantsAssumption

\* A step that changes nobody's slot is a stutter of the abstract slots.
LEMMA ServingUnchanged ==
  ASSUME \A r \in Requests : /\ Holding(r)' <=> Holding(r)
                             /\ Holding(r) => dep(r)' = dep(r)
  PROVE  UNCHANGED Serving
BY DEF Serving

\* Acquire is Take: the counter the code compares is the number of occupants.
LEMMA AcquireTakes ==
  ASSUME ConstantsAssumption, TypeOK, LoopInv, SlotInv, NEW r \in Requests,
         Acquire(r)
  PROVE  Slots!Take(r, dep(r)) /\ dep(r) \in Deployments
<1>1. /\ dep(r) \in Deployments /\ ~Holding(r)
      /\ pc' = [pc EXCEPT ![r] = "execute"]
      /\ UNCHANGED <<plan, pos, outcome>>
  BY CurrentAttempt DEF Acquire, Goto, LoopInv, OnAttempt, Holding
<1>2. Slots!Occupants(dep(r)) = SlotHolders(dep(r))
  BY <1>1, ServingDeployment DEF Slots!Occupants, SlotHolders, Serving,
     ConstantsAssumption
<1>3. Slots!HasRoom(dep(r))
  <2>1. SlotFree(dep(r))
    BY DEF Acquire
  <2>2. inFlight[dep(r)] = IF MaxConcurrent[dep(r)] = 0 THEN 0
                           ELSE Cardinality(SlotHolders(dep(r)))
    BY <1>1 DEF SlotInv, SlotAccounting
  <2>3. Slots!Cardinality(Slots!Occupants(dep(r))) = Cardinality(SlotHolders(dep(r)))
    BY <1>2, Zenon DEF Slots!Cardinality, Cardinality
  <2>4. \/ MaxConcurrent[dep(r)] = 0
        \/ Slots!Cardinality(Slots!Occupants(dep(r))) < MaxConcurrent[dep(r)]
    BY <2>1, <2>2, <2>3 DEF SlotFree
  <2>. QED BY <2>4, Zenon DEF Slots!HasRoom
<1>4. ASSUME NEW q \in Requests
      PROVE  Serving'[q] = IF q = r THEN dep(r) ELSE Serving[q]
  BY <1>1 DEF Serving, Holding, TypeOK, dep, at
<1>5. Serving' = [Serving EXCEPT ![r] = dep(r)]
  BY <1>4 DEF Serving
<1>6. Serving[r] = NoDep
  BY <1>1, ServingDeployment
<1>. QED BY <1>1, <1>3, <1>5, <1>6 DEF Slots!Take

\* The end of an attempt is GiveBack.
LEMMA AttemptGivesBack ==
  ASSUME ConstantsAssumption, TypeOK, LoopInv, NEW r \in Requests,
         pc[r] = "execute", UNCHANGED <<plan, pos>>,
         NEW l, l # "execute", Goto(r, l),
         NEW o, o # "panic", outcome' = [outcome EXCEPT ![r] = o]
  PROVE  Slots!GiveBack(r)
<1>1. ASSUME NEW q \in Requests
      PROVE  Serving'[q] = IF q = r THEN NoDep ELSE Serving[q]
  BY DEF Serving, Holding, TypeOK, dep, at, Goto
<1>2. Serving' = [Serving EXCEPT ![r] = NoDep]
  BY <1>1 DEF Serving
<1>3. Serving[r] # NoDep
  BY ServingDeployment DEF Holding
<1>. QED BY <1>2, <1>3 DEF Slots!GiveBack

\* Every step of a request takes a slot, gives one back or leaves the slots.
LEMMA RequestServes ==
  ASSUME ConstantsAssumption, TypeOK, LoopInv, SlotInv,
         NEW r \in Requests, Begin(r) \/ Step(r)
  PROVE  [Slots!SlotsNext]_Serving
<1>1. CASE Acquire(r)
  BY <1>1, AcquireTakes DEF Slots!SlotsNext
<1>2. CASE ExecuteOk(r)
  BY <1>2, AttemptGivesBack DEF ExecuteOk, Slots!SlotsNext
<1>3. CASE ExecuteBadTools(r)
  BY <1>3, AttemptGivesBack DEF ExecuteBadTools, Slots!SlotsNext
<1>4. ASSUME NEW o \in Failures, NEW w \in BOOLEAN, ExecuteFails(r, o, w)
      PROVE  [Slots!SlotsNext]_Serving
  <2>1. o # "panic" /\ AfterFailure(at(r), o, w) # "execute"
    BY DEF Failures, AfterFailure
  <2>. QED BY <1>4, <2>1, AttemptGivesBack DEF ExecuteFails, Slots!SlotsNext
<1>5. CASE ExecutePanics(r)
  <2>1. ASSUME NEW q \in Requests
        PROVE  /\ Holding(q)' <=> Holding(q)
               /\ Holding(q) => dep(q)' = dep(q)
    BY <1>5, <2>1 DEF ExecutePanics, Goto, Holding, TypeOK, dep, at
  <2>. QED BY <2>1, ServingUnchanged
<1>6. CASE ~Acquire(r) /\ ~Execute(r)
  <2>1. ~Holding(r) /\ ~Holding(r)'
    BY <1>6, OtherSteps DEF Holding
  <2>2. ASSUME NEW q \in Requests, q # r
        PROVE  (Holding(q)' <=> Holding(q)) /\ dep(q)' = dep(q)
    BY <1>6, <2>2, OtherSteps DEF Holding, dep, at
  <2>. QED BY <2>1, <2>2, ServingUnchanged
<1>. QED BY <1>1, <1>2, <1>3, <1>4, <1>5, <1>6 DEF Execute

\* The relay loop implements the abstract slots: for any requests, plans, limits
\* and failures each step takes a slot where there is room, gives one back, or
\* leaves them all (concurrency.go and the loop around it).
THEOREM SlotsImplemented == Spec => ImplementsSlots
<1>1. Init => Slots!SlotsInit
  BY DEF Init, Slots!SlotsInit, Serving, Holding
<1>2. IInv /\ [Next]_vars => [Slots!SlotsNext]_Serving
  <2>. SUFFICES ASSUME IInv, [Next]_vars
                PROVE  [Slots!SlotsNext]_Serving
    OBVIOUS
  <2>. USE ConstantsAssumption DEF IInv
  <2>1. ASSUME NEW r \in Requests, Begin(r) \/ Step(r)
        PROVE  [Slots!SlotsNext]_Serving
    BY <2>1, RequestServes
  <2>2. CASE UNCHANGED <<pc, plan, pos, outcome>>
    BY <2>2, ServingUnchanged DEF Holding, dep, at
  <2>3. CASE Environment
    BY <2>3, <2>2, EnvironmentStep DEF localVars
  <2>4. CASE UNCHANGED vars
    BY <2>4, <2>2 DEF vars, localVars
  <2>. QED BY <2>1, <2>3, <2>4 DEF Next, AllServed
<1>. QED BY <1>1, <1>2, Invariance, PTL DEF Spec, ImplementsSlots, Slots!SlotsSpec

----------------------------------------------------------------------------
(* One attempt at most writes to the client. *)

LogEntries == [dep : Deployments, model : Models \cup {NoModel}, index : Nat,
               out : AllOutcomes, more : BOOLEAN]

Replies == {"none", "ok", "error", "partial", "panic", "lost", "unavailable"}

Hist == [log : Seq(LogEntries), wrote : SUBSET Nat, charged : [Deployments -> Nat],
         visited : SUBSET Deployments, switches : Nat, reply : Replies]

HistType == hist \in [Requests -> Hist]

WriterInv == HistType /\ OneWriter

\* What the steps of the loop do to the history of one request.
LEMMA HistFields ==
  ASSUME NEW h \in Hist
  PROVE  /\ \A x \in Replies : /\ [h EXCEPT !.reply = x] \in Hist
                              /\ [h EXCEPT !.reply = x].log = h.log
                              /\ [h EXCEPT !.reply = x].wrote = h.wrote
         /\ \A x \in SUBSET Deployments :
              /\ [h EXCEPT !.visited = x] \in Hist
              /\ [h EXCEPT !.visited = x].log = h.log
              /\ [h EXCEPT !.visited = x].wrote = h.wrote
         /\ \A x \in Nat : /\ [h EXCEPT !.switches = x] \in Hist
                           /\ [h EXCEPT !.switches = x].log = h.log
                           /\ [h EXCEPT !.switches = x].wrote = h.wrote
         /\ \A x \in [Deployments -> Nat], y \in Replies :
              /\ [h EXCEPT !.charged = x, !.reply = y] \in Hist
              /\ [h EXCEPT !.charged = x, !.reply = y].log = h.log
              /\ [h EXCEPT !.charged = x, !.reply = y].wrote = h.wrote
<1>1. ASSUME NEW x \in Replies
      PROVE  /\ [h EXCEPT !.reply = x] \in Hist
             /\ [h EXCEPT !.reply = x].log = h.log
             /\ [h EXCEPT !.reply = x].wrote = h.wrote
  BY DEF Hist
<1>2. ASSUME NEW x \in SUBSET Deployments
      PROVE  /\ [h EXCEPT !.visited = x] \in Hist
             /\ [h EXCEPT !.visited = x].log = h.log
             /\ [h EXCEPT !.visited = x].wrote = h.wrote
  BY DEF Hist
<1>3. ASSUME NEW x \in Nat
      PROVE  /\ [h EXCEPT !.switches = x] \in Hist
             /\ [h EXCEPT !.switches = x].log = h.log
             /\ [h EXCEPT !.switches = x].wrote = h.wrote
  BY DEF Hist
<1>4. ASSUME NEW x \in [Deployments -> Nat], NEW y \in Replies
      PROVE  /\ [h EXCEPT !.charged = x, !.reply = y] \in Hist
             /\ [h EXCEPT !.charged = x, !.reply = y].log = h.log
             /\ [h EXCEPT !.charged = x, !.reply = y].wrote = h.wrote
  BY DEF Hist
<1>. QED BY <1>1, <1>2, <1>3, <1>4

\* A step that is not the end of an attempt, by a request that has not written
\* or stays among those that may have.
LEMMA OtherWriter ==
  ASSUME TypeOK, WriterInv, NEW r \in Requests,
         NEW h \in Hist, hist' = [hist EXCEPT ![r] = h],
         h.log = hist[r].log, h.wrote = hist[r].wrote,
         pc' = [pc EXCEPT ![r] = pc'[r]],
         pc[r] \in {"success", "account", "done"} =>
           pc'[r] \in {"success", "account", "done"}
  PROVE  WriterInv'
<1>1. HistType'
  BY DEF WriterInv, HistType
<1>2. \A q \in Requests : /\ hist'[q].wrote = hist[q].wrote
                          /\ hist'[q].log = hist[q].log
  BY DEF WriterInv, HistType
<1>3. \A q \in Requests \ {r} : pc'[q] = pc[q]
  BY DEF TypeOK
<1>. QED BY <1>1, <1>2, <1>3 DEF WriterInv, OneWriter

\* The end of an attempt: the new entry is the only one that may have written.
LEMMA AnsweredWriter ==
  ASSUME ConstantsAssumption, TypeOK, LoopInv, WriterInv, NEW r \in Requests,
         pc[r] = "execute", NEW o \in AllOutcomes, NEW w \in BOOLEAN,
         NEW reply \in Replies, Answered(r, o, w, reply),
         NEW l, Goto(r, l), w => l \in {"success", "done"}
  PROVE  WriterInv'
<1>1. LogEntry(r, o) \in LogEntries
  <2>1. pos[r] <= Len(plan[r])
    BY DEF LoopInv, OnAttempt
  <2>2. /\ at(r) \in Attempt /\ dep(r) \in Deployments
        /\ at(r).model \in Models \cup {NoModel} /\ at(r).index \in Nat
    BY <2>1, CurrentAttempt DEF Attempt
  <2>3. HasNextModel(at(r)) \in BOOLEAN
    BY <2>2 DEF HasNextModel, Attempt
  <2>. QED BY <2>2, <2>3 DEF LogEntry, LogEntries
<1>2. hist[r].wrote = {} /\ hist[r] \in Hist
  BY DEF WriterInv, OneWriter, HistType
<1>. DEFINE log == Append(hist[r].log, LogEntry(r, o))
            wrote == IF w THEN {Len(hist[r].log) + 1} ELSE {}
            h == [hist[r] EXCEPT !.log = log, !.wrote = wrote, !.reply = reply]
<1>3. /\ log \in Seq(LogEntries)
      /\ Len(log) = Len(hist[r].log) + 1
      /\ wrote \in SUBSET Nat
  BY <1>1, <1>2 DEF Hist
<1>4. hist' = [hist EXCEPT ![r] = h]
  <2>1. hist[r].wrote \cup {Len(hist[r].log) + 1} = {Len(hist[r].log) + 1}
    BY <1>2
  <2>. QED BY <1>2, <2>1 DEF Answered
<1>. HIDE DEF log, wrote
<1>5. h \in Hist /\ h.log = log /\ h.wrote = wrote
  BY <1>2, <1>3 DEF Hist
<1>. HIDE DEF h
<1>6. HistType'
  BY <1>4, <1>5 DEF WriterInv, HistType
<1>7. ASSUME NEW q \in Requests, q # r
      PROVE  hist'[q] = hist[q] /\ pc'[q] = pc[q]
  BY <1>4, <1>7 DEF Goto, TypeOK, WriterInv, HistType
<1>8. hist'[r] = h /\ pc'[r] = l
  BY <1>4 DEF Goto, TypeOK, WriterInv, HistType
<1>9. wrote # {} => wrote = {Len(log)} /\ l \in {"success", "done"}
  BY <1>3 DEF wrote
<1>10. hist'[r].wrote # {} => /\ hist'[r].wrote = {Len(hist'[r].log)}
                              /\ pc'[r] \in {"success", "done"}
  BY <1>5, <1>8, <1>9
<1>. QED BY <1>6, <1>7, <1>10 DEF WriterInv, OneWriter

LEMMA RequestWriter ==
  ASSUME ConstantsAssumption, TypeOK, LoopInv, WriterInv,
         NEW r \in Requests, Begin(r) \/ Step(r)
  PROVE  WriterInv'
<1>. USE DEF Goto
<1>0. hist[r] \in Hist /\ hist = [hist EXCEPT ![r] = hist[r]]
  BY DEF WriterInv, HistType
<1>a. ASSUME UNCHANGED hist, pc' = [pc EXCEPT ![r] = pc'[r]],
             pc[r] \in {"success", "account", "done"} =>
               pc'[r] \in {"success", "account", "done"}
      PROVE  WriterInv'
  BY <1>a, <1>0, OtherWriter
<1>b. ASSUME NEW x \in Replies, hist' = [hist EXCEPT ![r].reply = x],
             pc' = [pc EXCEPT ![r] = "done"]
      PROVE  WriterInv'
  <2>. DEFINE h == [hist[r] EXCEPT !.reply = x]
  <2>1. h \in Hist /\ h.log = hist[r].log /\ h.wrote = hist[r].wrote
    BY <1>0, HistFields
  <2>2. hist' = [hist EXCEPT ![r] = h]
    BY <1>b
  <2>. HIDE DEF h
  <2>3. pc'[r] = "done" /\ pc' = [pc EXCEPT ![r] = pc'[r]]
    BY <1>b DEF TypeOK
  <2>. QED BY <2>1, <2>2, <2>3, OtherWriter
<1>c. ASSUME Visit(r), pc[r] = "check", pos[r] <= Len(plan[r]),
             pc' = [pc EXCEPT ![r] = pc'[r]]
      PROVE  WriterInv'
  <2>. DEFINE seen == hist[r].visited \cup {dep(r)}
              h == [hist[r] EXCEPT !.visited = seen]
  <2>1. seen \in SUBSET Deployments
    BY <1>0, <1>c, CurrentAttempt DEF Hist
  <2>2. h \in Hist /\ h.log = hist[r].log /\ h.wrote = hist[r].wrote
    BY <1>0, <2>1, HistFields
  <2>3. hist' = [hist EXCEPT ![r] = h]
    BY <1>c DEF Visit
  <2>. HIDE DEF h, seen
  <2>. QED BY <1>c, <2>2, <2>3, OtherWriter
<1>1. CASE Begin(r)
  BY <1>1, <1>a DEF Begin
<1>2. ASSUME NEW d \in Deployments, PlanDeployment(r, d)
      PROVE  WriterInv'
  BY <1>2, <1>a DEF PlanDeployment
<1>3. CASE SkipUnavailable(r)
  BY <1>3, <1>c DEF SkipUnavailable, InLoop, Advance
<1>4. CASE SkipModelState(r)
  BY <1>4, <1>c DEF SkipModelState, InLoop, Advance
<1>5. CASE PassAvailable(r)
  BY <1>5, <1>c DEF PassAvailable, InLoop
<1>6. CASE CheckChannel(r)
  <2>1. /\ UNCHANGED hist /\ pc[r] = "channel"
        /\ \/ pc' = [pc EXCEPT ![r] = "acquire"]
           \/ pc' = [pc EXCEPT ![r] = "save"]
    BY <1>6 DEF CheckChannel
  <2>2. pc' = [pc EXCEPT ![r] = pc'[r]]
    BY <2>1 DEF TypeOK
  <2>. QED BY <1>a, <2>1, <2>2
<1>7. CASE SkipQuota(r) \/ SkipConcurrency(r)
  BY <1>7, <1>a DEF SkipQuota, SkipConcurrency, Advance
<1>8. CASE Acquire(r)
  <2>. DEFINE n == IF IsSwitch(r) THEN hist[r].switches + 1 ELSE hist[r].switches
              h == [hist[r] EXCEPT !.switches = n]
  <2>1. n \in Nat
    BY <1>0 DEF Hist
  <2>. HIDE DEF n
  <2>2. h \in Hist /\ h.log = hist[r].log /\ h.wrote = hist[r].wrote
    BY <1>0, <2>1, HistFields
  <2>3. hist' = [hist EXCEPT ![r] = h]
    BY <1>8 DEF Acquire, n
  <2>. HIDE DEF h, n
  <2>4. pc[r] = "acquire" /\ pc' = [pc EXCEPT ![r] = pc'[r]]
    BY <1>8 DEF Acquire, TypeOK
  <2>. QED BY <2>2, <2>3, <2>4, OtherWriter
<1>9. CASE ExecuteOk(r)
  <2>1. "ok" \in AllOutcomes /\ "none" \in Replies
    BY DEF AllOutcomes, Replies
  <2>2. pc[r] = "execute" /\ Answered(r, "ok", TRUE, "none") /\ Goto(r, "success")
    BY <1>9 DEF ExecuteOk
  <2>. QED BY <2>1, <2>2, AnsweredWriter
<1>10. CASE ExecuteBadTools(r)
  <2>1. "badTools" \in AllOutcomes /\ "none" \in Replies
    BY DEF AllOutcomes, Replies
  <2>2. pc[r] = "execute" /\ Answered(r, "badTools", FALSE, "none") /\ Goto(r, "invalid")
    BY <1>10 DEF ExecuteBadTools
  <2>. QED BY <2>1, <2>2, AnsweredWriter
<1>11. ASSUME NEW o \in Failures, NEW w \in BOOLEAN, ExecuteFails(r, o, w)
       PROVE  WriterInv'
  <2>1. w => AfterFailure(at(r), o, w) = "done"
    BY DEF AfterFailure
  <2>2. o \in AllOutcomes
    BY DEF Failures
  <2>. DEFINE l == AfterFailure(at(r), o, w)
              reply == IF l = "done" THEN "partial" ELSE "none"
  <2>3. pc[r] = "execute" /\ Answered(r, o, w, reply) /\ Goto(r, l)
    BY <1>11 DEF ExecuteFails
  <2>4. reply \in Replies
    BY DEF Replies
  <2>. HIDE DEF l, reply
  <2>5. w => l \in {"success", "done"}
    BY <2>1 DEF l
  <2>. HIDE DEF Goto
  <2>. QED BY <2>2, <2>3, <2>4, <2>5, AnsweredWriter
<1>12. CASE ExecutePanics(r)
  BY <1>12, <1>b DEF ExecutePanics, Replies
<1>13. CASE SetSticky(r)
  BY <1>13, <1>a DEF SetSticky, TypeOK
<1>14. CASE Account(r)
  BY <1>14, <1>b DEF Account, Replies
<1>15. CASE MarkFalsePositive(r)
  BY <1>15, <1>a DEF MarkFalsePositive, Advance
<1>16. CASE MarkModel(r)
  BY <1>16, <1>a DEF MarkModel, Advance
<1>17. CASE Charge(r)
  <2>0. dep(r) \in Deployments
    BY <1>17, CurrentAttempt DEF Charge, LoopInv, OnAttempt
  <2>. DEFINE charged == [hist[r].charged EXCEPT ![dep(r)] = hist[r].charged[dep(r)] + 1]
              reply == IF ~ShouldFallback(outcome[r]) THEN "error" ELSE hist[r].reply
              h == [hist[r] EXCEPT !.charged = charged, !.reply = reply]
  <2>1. charged \in [Deployments -> Nat]
    <3>1. hist[r].charged \in [Deployments -> Nat]
      BY <1>0 DEF Hist
    <3>. QED BY <2>0, <3>1
  <2>2. reply \in Replies
    <3>1. hist[r].reply \in Replies
      BY <1>0 DEF Hist
    <3>. QED BY <3>1 DEF Replies
  <2>. HIDE DEF charged, reply
  <2>5. h \in Hist /\ h.log = hist[r].log /\ h.wrote = hist[r].wrote
    <3>1. \A x \in [Deployments -> Nat], y \in Replies :
            /\ [hist[r] EXCEPT !.charged = x, !.reply = y] \in Hist
            /\ [hist[r] EXCEPT !.charged = x, !.reply = y].log = hist[r].log
            /\ [hist[r] EXCEPT !.charged = x, !.reply = y].wrote = hist[r].wrote
      BY <1>0, HistFields, Zenon
    <3>. QED BY <2>1, <2>2, <3>1, Zenon
  <2>3. hist' = [hist EXCEPT ![r] = h]
    BY <1>17, <1>0 DEF Charge, charged, reply
  <2>. HIDE DEF h
  <2>4. pc[r] = "charge" /\ pc' = [pc EXCEPT ![r] = pc'[r]]
    BY <1>17 DEF Charge, TypeOK, Advance
  <2>. QED BY <2>3, <2>4, <2>5, OtherWriter
<1>18. CASE SaveMark(r)
  BY <1>18, <1>a DEF SaveMark
<1>19. CASE ClearStickyForDeployment(r)
  BY <1>19, <1>a DEF ClearStickyForDeployment, Advance
<1>20. CASE AllFailed(r)
  BY <1>20, <1>b DEF AllFailed, Replies
<1>. QED
  BY <1>1, <1>2, <1>3, <1>4, <1>5, <1>6, <1>7, <1>8, <1>9, <1>10, <1>11, <1>12,
     <1>13, <1>14, <1>15, <1>16, <1>17, <1>18, <1>19, <1>20 DEF Step, Execute

\* A request that has written to its client has left the loop.
THEOREM WriterInvariance == Spec => []WriterInv
<1>1. Init => WriterInv
  <2>. SUFFICES ASSUME Init PROVE WriterInv
    OBVIOUS
  <2>1. hist = [r \in Requests |-> NoHist]
    BY DEF Init
  <2>2. HistType
    <3>1. NoHist \in Hist
      BY DEF Hist, NoHist, Replies
    <3>. QED BY <2>1, <3>1 DEF HistType
  <2>3. OneWriter
    BY <2>1 DEF OneWriter, NoHist
  <2>. QED BY <2>2, <2>3 DEF WriterInv
<1>2. IInv /\ WriterInv /\ [Next]_vars => WriterInv'
  <2>. SUFFICES ASSUME IInv, WriterInv, [Next]_vars
                PROVE  WriterInv'
    OBVIOUS
  <2>. USE ConstantsAssumption DEF IInv
  <2>1. ASSUME NEW r \in Requests, Begin(r) \/ Step(r)
        PROVE  WriterInv'
    BY <2>1, RequestWriter
  <2>2. CASE UNCHANGED <<pc, hist>>
    BY <2>2 DEF WriterInv, HistType, OneWriter
  <2>3. CASE Environment
    <3>1. UNCHANGED <<pc, hist>>
      BY <2>3 DEF Environment, CooldownLapse, HealthFlip, ResetDeployment,
         ResetCooldown, ResetModels, ModelLapse, ChannelFlip, NewDay, localVars
    <3>. QED BY <3>1, <2>2
  <2>4. CASE UNCHANGED vars
    BY <2>4, <2>2 DEF vars, localVars
  <2>. QED BY <2>1, <2>3, <2>4 DEF Next, AllServed
<1>. QED BY <1>1, <1>2, Invariance, PTL DEF Spec

\* Contract 5 of relay.go for any number of requests and any plans: once bytes of
\* an attempt have reached the client no further attempt is made.
THEOREM OneWriterOnly == Spec => []OneWriter
<1>1. WriterInv => OneWriter
  BY DEF WriterInv
<1>. QED BY <1>1, WriterInvariance, PTL

----------------------------------------------------------------------------
(* What one request's attempts amount to: a supplier is charged once, a hard
   failure ends a deployment, skipping models passes no deployment over, a switch
   is a change of deployment, and a mark follows a charge.

   All of it rests on the shape of a plan: the attempts of one deployment stand
   together, in the order of their model indices, and are complete. *)

\* The attempts of one deployment are consecutive, counted from 0 to count.
PlanShape(p) ==
  /\ \A i \in 1..Len(p) : p[i].index # 0 => i > 1 /\ p[i - 1].dep = p[i].dep
  /\ \A i \in 1..Len(p) : \/ p[i].index < p[i].count
                          \/ p[i].index = 0 /\ p[i].count = 0
  /\ \A i \in 1..Len(p) : ~p[i].rotatable => p[i].index = 0
  /\ \A i, j \in 1..Len(p) : p[i].dep = p[j].dep =>
       /\ p[i].index + j = p[j].index + i
       /\ p[i].count = p[j].count
       /\ p[i].rotatable = p[j].rotatable
  /\ \A i \in 1..Len(p) : \A n \in 0..p[i].count : p[i].index + n < p[i].count =>
       i + n <= Len(p) /\ p[i + n].dep = p[i].dep

\* What the planner has built, and what it has still to flatten.
PlanInv(r) ==
  /\ PlanShape(plan[r])
  /\ \A i \in 1..Len(plan[r]) : plan[r][i].dep \notin todo[r]
  /\ pc[r] = "idle" => plan[r] = <<>>
  /\ pc[r] \in {"idle", "plan"} =>
       pos[r] = 1 /\ prev[r] = NoDep /\ hist[r] = NoHist
  /\ pc[r] \in {"idle", "plan", "check", "channel", "acquire", "execute"} =>
       outcome[r] = "none"

\* The index from which on the plan can still be attempted.
Upcoming(r) == IF outcome[r] = "none" THEN pos[r] ELSE NextPos(r)

\* The loop has looked at whatever it has left behind, and prev is the last of it.
PassedInv(r) ==
  /\ \A i \in 1..Len(plan[r]) : i < pos[r] => plan[r][i].dep \in hist[r].visited
  /\ pc[r] \in OnAttempt => dep(r) \in hist[r].visited
  /\ pos[r] = 1 => prev[r] = NoDep
  /\ pos[r] > 1 => pos[r] - 1 <= Len(plan[r]) /\ prev[r] = plan[r][pos[r] - 1].dep

\* A failure after which the deployment is not attempted again.
Closing(e) == e.out \in Failures /\ ~(Confirmed429(e.out) /\ e.more)

\* It is over for the rest of the log and for the rest of the plan.
ClosedInv(r) ==
  \A j \in 1..Len(hist[r].log) : Closing(hist[r].log[j]) =>
    /\ \A k \in 1..Len(hist[r].log) :
         j < k => hist[r].log[k].dep # hist[r].log[j].dep
    /\ \A i \in 1..Len(plan[r]) :
         i >= Upcoming(r) => plan[r][i].dep # hist[r].log[j].dep

\* The failure the request is dealing with has not been charged yet.
Due(r) == \/ pc[r] = "charge"
          \/ pc[r] = "model" /\ ~Rotates(at(r), outcome[r])

ChargeInv(r) ==
  /\ Due(r) => SupplierFailures(r, dep(r)) # {}
  /\ \A d \in Deployments : hist[r].charged[d] =
       IF SupplierFailures(r, d) = {} \/ (Due(r) /\ d = dep(r)) THEN 0 ELSE 1
  /\ pc[r] \in {"save", "unstick"} =>
       outcome[r] = "none" \/ SupplierFailures(r, dep(r)) # {}

\* Whatever was opened has been left behind, or is being attempted.
SwitchInv(r) ==
  /\ IsFiniteSet(Opened(r))
  /\ \A d \in Opened(r) : \E i \in 1..Len(plan[r]) :
       /\ plan[r][i].dep = d
       /\ \/ i < pos[r]
          \/ i = pos[r] /\ (outcome[r] # "none" \/ pc[r] = "execute")
  /\ plan[r] # <<>> =>
       hist[r].switches = Cardinality(Opened(r) \ {plan[r][1].dep})

ContractInv(r) ==
  PlanInv(r) /\ PassedInv(r) /\ ClosedInv(r) /\ ChargeInv(r) /\ SwitchInv(r)

Contracts == \A r \in Requests : ContractInv(r)

----------------------------------------------------------------------------
(* Lemmas about plans. *)

LEMMA AttemptTypes ==
  ASSUME NEW p \in Seq(Attempt), NEW i \in 1..Len(p)
  PROVE  /\ p[i] \in Attempt /\ p[i].dep \in Deployments
         /\ p[i].index \in Nat /\ p[i].count \in Nat
         /\ p[i].rotatable \in BOOLEAN
         /\ RemainingModelAttempts(p[i]) \in Nat
<1>1. p[i] \in Attempt
  OBVIOUS
<1>2. /\ p[i].dep \in Deployments /\ p[i].rotatable \in BOOLEAN
      /\ p[i].index \in Nat /\ p[i].count \in Nat
  BY <1>1 DEF Attempt
<1>. QED BY <1>1, <1>2 DEF RemainingModelAttempts

\* The models that are left are those of the attempts that follow.
LEMMA RestOfBlock ==
  ASSUME NEW p \in Seq(Attempt), PlanShape(p), NEW i \in 1..Len(p),
         NEW n \in Nat, n <= RemainingModelAttempts(p[i])
  PROVE  i + n \in 1..Len(p) /\ p[i + n].dep = p[i].dep
<1>1. p[i].index \in Nat /\ p[i].count \in Nat
  BY AttemptTypes
<1>2. CASE n = 0
  BY <1>2
<1>3. CASE n # 0
  <2>1. p[i].count > p[i].index + 1 /\ n <= p[i].count - p[i].index - 1
    BY <1>1, <1>3 DEF RemainingModelAttempts
  <2>2. n \in 0..p[i].count /\ p[i].index + n < p[i].count
    BY <1>1, <2>1
  <2>. QED BY <2>2 DEF PlanShape
<1>. QED BY <1>2, <1>3

LEMMA NoIndexBeyond ==
  ASSUME NEW i \in Int, NEW j \in Int, NEW a \in Int, NEW b \in Int, NEW c \in Int,
         a + j = b + i, b < c, j > i + (c - a - 1)
  PROVE  FALSE
OBVIOUS

\* After them the deployment does not come back.
LEMMA BeyondBlock ==
  ASSUME NEW p \in Seq(Attempt), PlanShape(p), NEW i \in 1..Len(p),
         NEW j \in 1..Len(p), j > i + RemainingModelAttempts(p[i])
  PROVE  p[j].dep # p[i].dep
<1>. SUFFICES ASSUME p[j].dep = p[i].dep PROVE FALSE
  OBVIOUS
<1>1. /\ p[i].index \in Nat /\ p[i].count \in Nat /\ p[j].index \in Nat
      /\ p[j].count \in Nat /\ RemainingModelAttempts(p[i]) \in Nat
      /\ p[i].rotatable \in BOOLEAN
  BY AttemptTypes
<1>2. /\ p[i].index + j = p[j].index + i /\ p[i].count = p[j].count
      /\ p[i].rotatable = p[j].rotatable
  BY DEF PlanShape
<1>3. p[j].index >= 1
  BY <1>1, <1>2
<1>4. p[j].index < p[j].count /\ p[j].rotatable
  BY <1>1, <1>3 DEF PlanShape
<1>5. p[i].rotatable /\ p[i].count > p[i].index + 1
  <2>1. p[j].index >= p[i].index + 1
    BY <1>1, <1>2
  <2>. QED BY <1>1, <1>2, <1>4, <2>1
<1>6. RemainingModelAttempts(p[i]) = p[i].count - p[i].index - 1
  BY <1>5 DEF RemainingModelAttempts
<1>7. /\ i \in Int /\ j \in Int /\ p[i].index \in Int /\ p[j].index \in Int /\ p[i].count \in Int
      /\ p[j].index < p[i].count /\ j > i + (p[i].count - p[i].index - 1)
  BY <1>1, <1>2, <1>4, <1>6
<1>. QED BY <1>2, <1>7, NoIndexBeyond

LEMMA IndexBefore ==
  ASSUME NEW a \in Nat, NEW b \in Nat, NEW c \in Nat, NEW i \in Nat, NEW j \in Nat,
         i < j, a + j = b + i, b < c
  PROVE  j - 1 - i \in 0..c /\ a + (j - 1 - i) < c
OBVIOUS

\* Once the plan has gone on to another deployment, the former ones are behind.
LEMMA BlocksApart ==
  ASSUME NEW p \in Seq(Attempt), PlanShape(p), NEW j \in 2..Len(p),
         p[j - 1].dep # p[j].dep, NEW i \in 1..Len(p), i < j
  PROVE  p[i].dep # p[j].dep
<1>. SUFFICES ASSUME p[i].dep = p[j].dep PROVE FALSE
  OBVIOUS
<1>0. j - 1 \in 1..Len(p) /\ j \in 1..Len(p)
  OBVIOUS
<1>1. /\ p[i].index \in Nat /\ p[i].count \in Nat /\ p[j].index \in Nat
      /\ p[j].count \in Nat
  BY <1>0, AttemptTypes
<1>2. p[i].index + j = p[j].index + i /\ p[i].count = p[j].count
  BY <1>0 DEF PlanShape
<1>3. p[j].index >= 1
  BY <1>1, <1>2
<1>4. p[j].index < p[j].count
  BY <1>0, <1>1, <1>3 DEF PlanShape
<1>. DEFINE n == j - 1 - i
<1>5. n \in 0..p[i].count /\ p[i].index + n < p[i].count /\ i + n = j - 1
  <2>1. i \in Nat /\ j \in Nat /\ i < j /\ i + n = j - 1
    OBVIOUS
  <2>2. p[j].index < p[i].count
    BY <1>2, <1>4
  <2>. QED BY <1>1, <1>2, <2>1, <2>2, IndexBefore
<1>6. p[i + n].dep = p[i].dep
  <2>. HIDE DEF n
  <2>. QED BY <1>5 DEF PlanShape
<1>. QED BY <1>5, <1>6

\* A block the planner adds has the shape of a plan and is all one deployment's.
LEMMA BlockShape ==
  ASSUME ConstantsAssumption, NEW r \in Requests, NEW d \in Deployments,
         NEW b \in Blocks(r, d)
  PROVE  /\ b \in Seq(Attempt)
         /\ PlanShape(b)
         /\ \A i \in 1..Len(b) : b[i].dep = d
<1>. DEFINE avail == AvailableModels(r, d)
            n     == Cardinality(avail)
<1>1. b \in Seq(Attempt)
  <2>1. b \in Seq(PlannedAttempt) /\ PlannedAttempt \subseteq Attempt
    BY BlocksType DEF PlannedAttempt
  <2>. QED BY <2>1, SeqMonotone
<1>2. CASE b = <<Single(d)>>
  <2>1. Len(b) = 1 /\ b[1] = Single(d) /\ 1..Len(b) = {1}
    BY <1>2
  <2>. QED BY <1>1, <2>1 DEF PlanShape, Single
<1>3. CASE b = <<AllModelsUnavailable(d)>>
  <2>1. Len(b) = 1 /\ b[1] = AllModelsUnavailable(d) /\ 1..Len(b) = {1}
    BY <1>3
  <2>. QED BY <1>1, <2>1 DEF PlanShape, AllModelsUnavailable
<1>u. ASSUME NEW a \in Uncatalogued(d), b = <<a>>
      PROVE  PlanShape(b) /\ \A i \in 1..Len(b) : b[i].dep = d
  <2>1. PICK m \in Models : a = [Single(d) EXCEPT !.model = m]
    BY <1>u DEF Uncatalogued
  <2>2. a.dep = d /\ a.index = 0 /\ a.count = 1
    BY <2>1 DEF Single
  <2>3. Len(b) = 1 /\ b[1] = a /\ 1..Len(b) = {1}
    BY <1>u
  <2>. QED BY <1>1, <2>2, <2>3 DEF PlanShape
<1>4. ASSUME NEW f \in InCatalogOrder(avail), b = KiloBlock(d, f, n)
      PROVE  PlanShape(b) /\ \A i \in 1..Len(b) : b[i].dep = d
  <2>1. n \in Nat
    <3>1. avail \subseteq Models
      BY DEF AvailableModels
    <3>. QED BY <3>1, FS_Subset, FS_CardinalityType DEF ConstantsAssumption
  <2>. HIDE DEF n
  <2>2. Len(b) = n
    BY <1>4, <2>1 DEF KiloBlock
  <2>3. \A i \in 1..n : /\ b[i].dep = d /\ b[i].index = i - 1 /\ b[i].count = n
                        /\ b[i].rotatable = TRUE
    BY <1>4, <2>1 DEF KiloBlock
  <2>4. \A i \in 1..Len(b) : b[i].index < b[i].count /\ b[i].rotatable
    BY <2>1, <2>2, <2>3
  <2>5. \A i, j \in 1..Len(b) : /\ b[i].index + j = b[j].index + i
                                /\ b[i].count = b[j].count
                                /\ b[i].rotatable = b[j].rotatable
    <3>1. ASSUME NEW i \in 1..Len(b), NEW j \in 1..Len(b)
          PROVE  /\ b[i].index + j = b[j].index + i
                 /\ b[i].count = b[j].count
      <4>1. b[i].index = i - 1 /\ b[j].index = j - 1 /\ b[i].count = n /\ b[j].count = n
        BY <2>2, <2>3, <3>1
      <4>. QED BY <2>1, <4>1
    <3>2. \A i, j \in 1..Len(b) : b[i].rotatable = b[j].rotatable
      BY <2>2, <2>3, Zenon
    <3>. QED BY <3>1, <3>2
  <2>6. ASSUME NEW i \in 1..Len(b), NEW k \in 0..b[i].count,
               b[i].index + k < b[i].count
        PROVE  i + k <= Len(b) /\ b[i + k].dep = b[i].dep
    <3>1. b[i].count = n /\ b[i].index = i - 1 /\ k \in Nat /\ i + k \in 1..n
      BY <2>1, <2>2, <2>3, <2>6
    <3>. QED BY <2>1, <2>2, <2>3, <3>1
  <2>7. \A i \in 1..Len(b) : b[i].dep = d
    BY <2>2, <2>3
  <2>8. ASSUME NEW i \in 1..Len(b), b[i].index # 0
        PROVE  i > 1 /\ b[i - 1].dep = b[i].dep
    <3>1. i \in 1..n /\ i - 1 # 0
      BY <2>2, <2>3, <2>8
    <3>2. i > 1 /\ i - 1 \in 1..Len(b)
      BY <2>1, <2>2, <3>1
    <3>. QED BY <2>7, <3>2
  <2>. QED BY <2>4, <2>5, <2>6, <2>7, <2>8 DEF PlanShape
<1>. QED BY <1>1, <1>2, <1>3, <1>4, <1>u DEF Blocks

\* Adding the block of a deployment the plan does not have keeps its shape.
LEMMA ConcatShape ==
  ASSUME NEW p \in Seq(Attempt), NEW b \in Seq(Attempt), NEW d,
         PlanShape(p), PlanShape(b),
         \A i \in 1..Len(p) : p[i].dep # d,
         \A i \in 1..Len(b) : b[i].dep = d
  PROVE  PlanShape(p \o b)
<1>. DEFINE q == p \o b
            m == Len(p)
            n == Len(b)
<1>1. /\ m \in Nat /\ n \in Nat /\ Len(q) = m + n
      /\ \A i \in 1..m : q[i] = p[i] /\ i \in 1..Len(q)
      /\ \A i \in 1..n : q[m + i] = b[i] /\ m + i \in 1..Len(q)
  OBVIOUS
<1>2. \A i \in 1..Len(q) :
        \/ i \in 1..m /\ q[i] = p[i]
        \/ i - m \in 1..n /\ q[i] = b[i - m]
  OBVIOUS
<1>3. \A i \in 1..m : p[i].index \in Nat /\ p[i].count \in Nat
  BY AttemptTypes
<1>4. \A i \in 1..n : b[i].index \in Nat /\ b[i].count \in Nat
  BY AttemptTypes
<1>. HIDE DEF q, m, n
<1>5. ASSUME NEW i \in 1..Len(q)
      PROVE  /\ q[i].index < q[i].count \/ (q[i].index = 0 /\ q[i].count = 0)
             /\ ~q[i].rotatable => q[i].index = 0
  <2>1. CASE i \in 1..m /\ q[i] = p[i]
    <3>1. i \in 1..Len(p)
      BY <2>1 DEF m
    <3>2. p[i].index < p[i].count \/ (p[i].index = 0 /\ p[i].count = 0)
      BY <3>1 DEF PlanShape
    <3>3. ~p[i].rotatable => p[i].index = 0
      BY <3>1 DEF PlanShape
    <3>. QED BY <2>1, <3>2, <3>3, Zenon
  <2>2. CASE i - m \in 1..n /\ q[i] = b[i - m]
    <3>. DEFINE x == i - m
    <3>1. x \in 1..n /\ q[i] = b[x]
      BY <2>2
    <3>. HIDE DEF x
    <3>2. x \in 1..Len(b)
      BY <3>1 DEF n
    <3>3. b[x].index < b[x].count \/ (b[x].index = 0 /\ b[x].count = 0)
      BY <3>2 DEF PlanShape
    <3>4. ~b[x].rotatable => b[x].index = 0
      BY <3>2 DEF PlanShape
    <3>. QED BY <3>1, <3>3, <3>4, Zenon
  <2>. QED BY <1>2, <2>1, <2>2
<1>6. ASSUME NEW i \in 1..Len(q), NEW j \in 1..Len(q), q[i].dep = q[j].dep
      PROVE  /\ q[i].index + j = q[j].index + i
             /\ q[i].count = q[j].count
             /\ q[i].rotatable = q[j].rotatable
  <2>1. CASE i \in 1..m /\ q[i] = p[i] /\ j \in 1..m /\ q[j] = p[j]
    BY <1>6, <2>1 DEF PlanShape, m
  <2>2. CASE i - m \in 1..n /\ q[i] = b[i - m] /\ j - m \in 1..n /\ q[j] = b[j - m]
    <3>. DEFINE x == i - m
                y == j - m
    <3>1. /\ x \in 1..n /\ y \in 1..n /\ b[x].dep = b[y].dep
          /\ q[i] = b[x] /\ q[j] = b[y] /\ i = x + m /\ j = y + m
      BY <1>1, <1>6, <2>2
    <3>. HIDE DEF x, y
    <3>2. /\ b[x].index + y = b[y].index + x
          /\ b[x].count = b[y].count
          /\ b[x].rotatable = b[y].rotatable
      BY <3>1 DEF PlanShape, n
    <3>3. b[x].index \in Nat /\ b[y].index \in Nat
      BY <1>4, <3>1
    <3>4. b[x].index + (y + m) = b[y].index + (x + m)
      <4>. DEFINE e == b[x].index
                  f == b[y].index
      <4>1. e \in Nat /\ f \in Nat /\ x \in Nat /\ y \in Nat /\ m \in Nat /\ e + y = f + x
        BY <1>1, <3>1, <3>2, <3>3
      <4>. HIDE DEF e, f
      <4>2. e + (y + m) = f + (x + m)
        BY <4>1
      <4>. QED BY <4>2 DEF e, f
    <3>. QED BY <3>1, <3>2, <3>4
  <2>3. CASE i \in 1..m /\ q[i] = p[i] /\ j - m \in 1..n /\ q[j] = b[j - m]
    BY <1>6, <2>3 DEF m, n
  <2>4. CASE i - m \in 1..n /\ q[i] = b[i - m] /\ j \in 1..m /\ q[j] = p[j]
    BY <1>6, <2>4 DEF m, n
  <2>. QED BY <1>2, <2>1, <2>2, <2>3, <2>4
<1>7. ASSUME NEW i \in 1..Len(q), NEW k \in 0..q[i].count,
             q[i].index + k < q[i].count
      PROVE  i + k <= Len(q) /\ q[i + k].dep = q[i].dep
  <2>1. CASE i \in 1..m /\ q[i] = p[i]
    <3>1. i + k <= m /\ p[i + k].dep = p[i].dep
      BY <1>7, <2>1 DEF PlanShape, m
    <3>2. k \in Nat
      BY <1>3, <1>7, <2>1
    <3>3. i + k \in 1..m
      BY <1>1, <2>1, <3>1, <3>2
    <3>. QED BY <1>1, <2>1, <3>1, <3>3
  <2>2. CASE i - m \in 1..n /\ q[i] = b[i - m]
    <3>. DEFINE x == i - m
    <3>1. x \in 1..n /\ q[i] = b[x] /\ i = m + x
      BY <1>1, <2>2
    <3>. HIDE DEF x
    <3>2. x + k <= n /\ b[x + k].dep = b[x].dep
      BY <1>7, <3>1 DEF PlanShape, n
    <3>3. k \in Nat
      BY <1>4, <1>7, <3>1
    <3>4. x + k \in 1..n /\ i + k = m + (x + k)
      BY <1>1, <3>1, <3>2, <3>3
    <3>5. q[m + (x + k)] = b[x + k] /\ m + (x + k) <= Len(q)
      BY <1>1, <3>4
    <3>. QED BY <3>1, <3>2, <3>4, <3>5
  <2>. QED BY <1>2, <2>1, <2>2
<1>8. ASSUME NEW i \in 1..Len(q), q[i].index # 0
      PROVE  i > 1 /\ q[i - 1].dep = q[i].dep
  <2>1. CASE i \in 1..m /\ q[i] = p[i]
    <3>1. i > 1 /\ p[i - 1].dep = p[i].dep
      BY <1>8, <2>1 DEF PlanShape, m
    <3>2. i - 1 \in 1..m
      BY <1>1, <2>1, <3>1
    <3>. QED BY <1>1, <2>1, <3>1, <3>2
  <2>2. CASE i - m \in 1..n /\ q[i] = b[i - m]
    <3>. DEFINE x == i - m
    <3>1. x \in 1..n /\ q[i] = b[x] /\ i = m + x
      BY <1>1, <2>2
    <3>. HIDE DEF x
    <3>2. x > 1 /\ b[x - 1].dep = b[x].dep
      BY <1>8, <3>1 DEF PlanShape, n
    <3>3. x - 1 \in 1..n /\ i - 1 = m + (x - 1) /\ i > 1
      BY <1>1, <3>1, <3>2
    <3>4. q[m + (x - 1)] = b[x - 1]
      BY <1>1, <3>3
    <3>. QED BY <3>1, <3>2, <3>3, <3>4
  <2>. QED BY <1>2, <2>1, <2>2
<1>. QED BY <1>5, <1>6, <1>7, <1>8 DEF PlanShape, q

----------------------------------------------------------------------------
(* What a step of the loop does to its request. *)

Stayed(r) == /\ plan'[r] = plan[r] /\ pos'[r] = pos[r] /\ prev'[r] = prev[r]
             /\ outcome'[r] = outcome[r] /\ todo'[r] = todo[r]

Moved(r) == /\ plan'[r] = plan[r] /\ pos'[r] = NextPos(r) /\ prev'[r] = dep(r)
            /\ outcome'[r] = "none" /\ pc'[r] = "check" /\ todo'[r] = todo[r]

SameLog(r) == hist'[r].log = hist[r].log /\ hist'[r].wrote = hist[r].wrote

SameHist(r) == /\ SameLog(r) /\ hist'[r].charged = hist[r].charged
               /\ hist'[r].visited = hist[r].visited
               /\ hist'[r].switches = hist[r].switches

Begins(r) ==
  /\ pc[r] = "idle" /\ pc'[r] \in {"plan", "check"}
  /\ plan'[r] = plan[r] /\ pos'[r] = pos[r] /\ prev'[r] = prev[r]
  /\ outcome'[r] = outcome[r] /\ hist'[r] = hist[r]

Plans(r) ==
  /\ pc[r] = "plan" /\ pc'[r] \in {"plan", "check"}
  /\ pos'[r] = pos[r] /\ prev'[r] = prev[r]
  /\ outcome'[r] = outcome[r] /\ hist'[r] = hist[r]
  /\ \E d \in todo[r] : \E b \in Blocks(r, d) :
       plan'[r] = plan[r] \o b /\ todo'[r] = todo[r] \ {d}

Looks(r) ==
  /\ pc[r] = "check" /\ pos[r] <= Len(plan[r])
  /\ hist'[r].visited = hist[r].visited \cup {dep(r)}
  /\ SameLog(r) /\ hist'[r].charged = hist[r].charged
  /\ hist'[r].switches = hist[r].switches
  /\ Moved(r) \/ (Stayed(r) /\ pc'[r] \in {"channel", "save"})

Stays(r) ==
  /\ Stayed(r) /\ SameHist(r)
  /\ \/ pc[r] = "channel" /\ pc'[r] \in {"acquire", "save"}
     \/ pc[r] = "success" /\ pc'[r] = "account"
     \/ pc[r] = "model" /\ ~Rotates(at(r), outcome[r]) /\ pc'[r] = "charge"
     \/ pc[r] = "save" /\ pc'[r] = "unstick"
     \/ pc[r] = "unstick" /\ pc'[r] = "save"
     \/ pc[r] \in {"account", "check"} /\ pc'[r] = "done"

Moves(r) ==
  /\ Moved(r) /\ SameHist(r)
  /\ \/ pc[r] \in {"acquire", "invalid", "unstick"}
     \/ pc[r] = "model" /\ Rotates(at(r), outcome[r])

Acquires(r) ==
  /\ pc[r] = "acquire" /\ pc'[r] = "execute" /\ Stayed(r)
  /\ SameLog(r) /\ hist'[r].charged = hist[r].charged
  /\ hist'[r].visited = hist[r].visited
  /\ hist'[r].switches = IF IsSwitch(r) THEN hist[r].switches + 1
                                        ELSE hist[r].switches

Answers(r, o, w) ==
  /\ pc[r] = "execute" /\ outcome'[r] = o
  /\ plan'[r] = plan[r] /\ pos'[r] = pos[r] /\ prev'[r] = prev[r]
  /\ todo'[r] = todo[r]
  /\ hist'[r].log = Append(hist[r].log, LogEntry(r, o))
  /\ hist'[r].wrote = IF w THEN hist[r].wrote \cup {Len(hist[r].log) + 1}
                           ELSE hist[r].wrote
  /\ hist'[r].charged = hist[r].charged
  /\ hist'[r].visited = hist[r].visited
  /\ hist'[r].switches = hist[r].switches
  /\ IF o \in Failures THEN pc'[r] = AfterFailure(at(r), o, w)
                       ELSE pc'[r] \in {"success", "invalid"}

Panics(r) ==
  /\ pc[r] = "execute" /\ pc'[r] = "done" /\ outcome'[r] = "panic"
  /\ plan'[r] = plan[r] /\ pos'[r] = pos[r] /\ prev'[r] = prev[r]
  /\ todo'[r] = todo[r] /\ SameHist(r)

Charges(r) ==
  /\ pc[r] = "charge" /\ SameLog(r)
  /\ hist'[r].charged =
       [hist[r].charged EXCEPT ![dep(r)] = hist[r].charged[dep(r)] + 1]
  /\ hist'[r].visited = hist[r].visited
  /\ hist'[r].switches = hist[r].switches
  /\ Moved(r) \/ (Stayed(r) /\ pc'[r] \in {"done", "save"})

\* Nothing happens to the other requests.
Frame(r) ==
  \A q \in Requests \ {r} :
    /\ plan'[q] = plan[q] /\ pos'[q] = pos[q] /\ prev'[q] = prev[q]
    /\ outcome'[q] = outcome[q] /\ todo'[q] = todo[q] /\ pc'[q] = pc[q]
    /\ hist'[q] = hist[q]

OneOf(r) ==
  \/ Begins(r) \/ Plans(r) \/ Looks(r) \/ Stays(r) \/ Moves(r) \/ Acquires(r)
  \/ \E o \in AllOutcomes \ {"panic"}, w \in BOOLEAN : Answers(r, o, w)
  \/ Panics(r) \/ Charges(r)

\* A step leaves the locals of the other requests alone.
LEMMA StepFrame ==
  ASSUME TypeOK, HistType, NEW r \in Requests, Begin(r) \/ Step(r)
  PROVE  Frame(r)
<1>. USE DEF Goto, Advance, Visit, Answered, TypeOK, HistType, Frame
<1>1. CASE Begin(r)
  BY <1>1 DEF Begin
<1>2. ASSUME NEW d \in Deployments, PlanDeployment(r, d)
      PROVE  Frame(r)
  BY <1>2 DEF PlanDeployment
<1>3. CASE SkipUnavailable(r)
  BY <1>3 DEF SkipUnavailable
<1>4. CASE SkipModelState(r)
  BY <1>4 DEF SkipModelState
<1>5. CASE PassAvailable(r)
  BY <1>5 DEF PassAvailable
<1>6. CASE CheckChannel(r)
  BY <1>6 DEF CheckChannel
<1>7. CASE SkipQuota(r)
  BY <1>7 DEF SkipQuota
<1>8. CASE SkipConcurrency(r)
  BY <1>8 DEF SkipConcurrency
<1>9. CASE Acquire(r)
  BY <1>9 DEF Acquire
<1>10. CASE ExecuteOk(r)
  BY <1>10 DEF ExecuteOk
<1>11. CASE ExecuteBadTools(r)
  BY <1>11 DEF ExecuteBadTools
<1>12. ASSUME NEW o \in Failures, NEW w \in BOOLEAN, ExecuteFails(r, o, w)
       PROVE  Frame(r)
  BY <1>12 DEF ExecuteFails
<1>13. CASE ExecutePanics(r)
  BY <1>13 DEF ExecutePanics
<1>14. CASE SetSticky(r)
  BY <1>14 DEF SetSticky
<1>15. CASE Account(r)
  BY <1>15 DEF Account
<1>16. CASE MarkFalsePositive(r)
  BY <1>16 DEF MarkFalsePositive
<1>17. CASE MarkModel(r)
  BY <1>17 DEF MarkModel
<1>18. CASE Charge(r)
  BY <1>18 DEF Charge
<1>19. CASE SaveMark(r)
  BY <1>19 DEF SaveMark
<1>20. CASE ClearStickyForDeployment(r)
  BY <1>20 DEF ClearStickyForDeployment
<1>21. CASE AllFailed(r)
  BY <1>21 DEF AllFailed
<1>. QED
  BY <1>1, <1>2, <1>3, <1>4, <1>5, <1>6, <1>7, <1>8, <1>9, <1>10, <1>11, <1>12,
     <1>13, <1>14, <1>15, <1>16, <1>17, <1>18, <1>19, <1>20, <1>21
  DEF Step, Execute

\* And it is one of the kinds above.
LEMMA StepKinds ==
  ASSUME ConstantsAssumption, TypeOK, LoopInv, HistType, NEW r \in Requests,
         Begin(r) \/ Step(r)
  PROVE  OneOf(r)
<1>. USE DEF Goto, Advance, TypeOK
<1>0. hist[r] \in Hist
  BY DEF HistType
<1>a. ASSUME UNCHANGED hist PROVE SameHist(r)
  BY <1>a DEF SameHist, SameLog
<1>b. ASSUME NEW x \in Replies, hist' = [hist EXCEPT ![r].reply = x]
      PROVE  SameHist(r)
  BY <1>0, <1>b DEF SameHist, SameLog, HistType, Hist
<1>c. ASSUME Visit(r)
      PROVE  /\ hist'[r].visited = hist[r].visited \cup {dep(r)}
             /\ SameLog(r) /\ hist'[r].charged = hist[r].charged
             /\ hist'[r].switches = hist[r].switches
  BY <1>0, <1>c DEF Visit, SameLog, HistType, Hist
<1>d. ASSUME NEW o, NEW w, NEW reply, Answered(r, o, w, reply)
      PROVE  /\ hist'[r].log = Append(hist[r].log, LogEntry(r, o))
             /\ hist'[r].wrote = IF w THEN hist[r].wrote \cup {Len(hist[r].log) + 1}
                                      ELSE hist[r].wrote
             /\ hist'[r].charged = hist[r].charged
             /\ hist'[r].visited = hist[r].visited
             /\ hist'[r].switches = hist[r].switches
  BY <1>0, <1>d DEF Answered, HistType, Hist
<1>1. CASE Begin(r)
  <2>1. Begins(r)
    BY <1>1 DEF Begin, Begins
  <2>. QED BY <2>1 DEF OneOf
<1>2. ASSUME NEW d \in Deployments, PlanDeployment(r, d)
      PROVE  OneOf(r)
  <2>1. PICK b \in Blocks(r, d) : plan' = [plan EXCEPT ![r] = @ \o b]
    BY <1>2 DEF PlanDeployment
  <2>2. plan'[r] = plan[r] \o b /\ d \in todo[r] /\ todo'[r] = todo[r] \ {d}
    BY <1>2, <2>1 DEF PlanDeployment
  <2>3. /\ pc[r] = "plan" /\ pc'[r] \in {"plan", "check"}
        /\ pos'[r] = pos[r] /\ prev'[r] = prev[r]
        /\ outcome'[r] = outcome[r] /\ hist'[r] = hist[r]
    BY <1>2 DEF PlanDeployment
  <2>4. Plans(r)
    BY <2>1, <2>2, <2>3 DEF Plans
  <2>. QED BY <2>4 DEF OneOf
<1>3. CASE SkipUnavailable(r)
  <2>1. Looks(r)
    BY <1>3, <1>c DEF SkipUnavailable, InLoop, Looks, Moved, Stayed
  <2>. QED BY <2>1 DEF OneOf
<1>4. CASE SkipModelState(r)
  <2>1. Looks(r)
    BY <1>4, <1>c DEF SkipModelState, InLoop, Looks, Moved
  <2>. QED BY <2>1 DEF OneOf
<1>5. CASE PassAvailable(r)
  <2>1. Looks(r)
    BY <1>5, <1>c DEF PassAvailable, InLoop, Looks, Stayed
  <2>. QED BY <2>1 DEF OneOf
<1>6. CASE CheckChannel(r)
  <2>1. Stays(r)
    BY <1>6, <1>a DEF CheckChannel, Stays, Stayed
  <2>. QED BY <2>1 DEF OneOf
<1>7. CASE SkipQuota(r) \/ SkipConcurrency(r)
  <2>1. Moves(r)
    BY <1>7, <1>a DEF SkipQuota, SkipConcurrency, Moves, Moved
  <2>. QED BY <2>1 DEF OneOf
<1>8. CASE Acquire(r)
  <2>1. /\ SameLog(r) /\ hist'[r].charged = hist[r].charged
        /\ hist'[r].visited = hist[r].visited
        /\ hist'[r].switches = IF IsSwitch(r) THEN hist[r].switches + 1
                                              ELSE hist[r].switches
    BY <1>0, <1>8 DEF Acquire, SameLog, HistType, Hist
  <2>2. Acquires(r)
    BY <1>8, <2>1 DEF Acquire, Acquires, Stayed
  <2>. QED BY <2>2 DEF OneOf
<1>9. ASSUME NEW o \in AllOutcomes \ {"panic"}, NEW w \in BOOLEAN, NEW reply,
             pc[r] = "execute", Answered(r, o, w, reply),
             outcome' = [outcome EXCEPT ![r] = o],
             UNCHANGED <<plan, pos, prev, todo>>,
             IF o \in Failures THEN pc'[r] = AfterFailure(at(r), o, w)
                               ELSE pc'[r] \in {"success", "invalid"}
      PROVE  OneOf(r)
  <2>1. outcome'[r] = o
    BY <1>9
  <2>2. /\ plan'[r] = plan[r] /\ pos'[r] = pos[r] /\ prev'[r] = prev[r]
        /\ todo'[r] = todo[r]
    BY <1>9
  <2>3. /\ hist'[r].log = Append(hist[r].log, LogEntry(r, o))
        /\ hist'[r].wrote = IF w THEN hist[r].wrote \cup {Len(hist[r].log) + 1}
                                 ELSE hist[r].wrote
        /\ hist'[r].charged = hist[r].charged
        /\ hist'[r].visited = hist[r].visited
        /\ hist'[r].switches = hist[r].switches
    BY <1>9, <1>d
  <2>4. Answers(r, o, w)
    BY <1>9, <2>1, <2>2, <2>3, Zenon DEF Answers
  <2>. QED BY <2>4 DEF OneOf
<1>10. CASE ExecuteOk(r)
  <2>1. "ok" \in AllOutcomes \ {"panic"} /\ "ok" \notin Failures /\ TRUE \in BOOLEAN
    BY DEF AllOutcomes, Failures
  <2>2. /\ pc[r] = "execute" /\ Answered(r, "ok", TRUE, "none")
        /\ outcome' = [outcome EXCEPT ![r] = "ok"]
        /\ UNCHANGED <<plan, pos, prev, todo>> /\ pc'[r] = "success"
    BY <1>10 DEF ExecuteOk
  <2>. QED BY <1>9, <2>1, <2>2
<1>11. CASE ExecuteBadTools(r)
  <2>1. /\ "badTools" \in AllOutcomes \ {"panic"} /\ "badTools" \notin Failures
        /\ FALSE \in BOOLEAN
    BY DEF AllOutcomes, Failures
  <2>2. /\ pc[r] = "execute" /\ Answered(r, "badTools", FALSE, "none")
        /\ outcome' = [outcome EXCEPT ![r] = "badTools"]
        /\ UNCHANGED <<plan, pos, prev, todo>> /\ pc'[r] = "invalid"
    BY <1>11 DEF ExecuteBadTools
  <2>. QED BY <1>9, <2>1, <2>2
<1>12. ASSUME NEW o \in Failures, NEW w \in BOOLEAN, ExecuteFails(r, o, w)
       PROVE  OneOf(r)
  <2>. DEFINE reply == IF AfterFailure(at(r), o, w) = "done" THEN "partial" ELSE "none"
  <2>1. /\ pc[r] = "execute" /\ Answered(r, o, w, reply)
        /\ outcome' = [outcome EXCEPT ![r] = o]
        /\ UNCHANGED <<plan, pos, prev, todo>>
        /\ pc'[r] = AfterFailure(at(r), o, w)
    BY <1>12 DEF ExecuteFails
  <2>2. o \in AllOutcomes \ {"panic"}
    BY DEF Failures
  <2>. HIDE DEF reply
  <2>. QED BY <1>9, <2>1, <2>2
<1>13. CASE ExecutePanics(r)
  <2>1. PICK x \in Replies : hist' = [hist EXCEPT ![r].reply = x]
    BY <1>13 DEF ExecutePanics, Replies
  <2>2. Panics(r)
    BY <1>13, <1>b, <2>1 DEF ExecutePanics, Panics
  <2>. QED BY <2>2 DEF OneOf
<1>14. CASE SetSticky(r)
  <2>1. Stays(r)
    BY <1>14, <1>a DEF SetSticky, Stays, Stayed
  <2>. QED BY <2>1 DEF OneOf
<1>15. CASE Account(r)
  <2>1. SameHist(r)
    BY <1>15, <1>b DEF Account, Replies
  <2>2. Stays(r)
    BY <1>15, <2>1 DEF Account, Stays, Stayed
  <2>. QED BY <2>2 DEF OneOf
<1>16. CASE MarkFalsePositive(r)
  <2>1. Moves(r)
    BY <1>16, <1>a DEF MarkFalsePositive, Moves, Moved
  <2>. QED BY <2>1 DEF OneOf
<1>17. CASE MarkModel(r)
  <2>1. Moves(r) \/ Stays(r)
    BY <1>17, <1>a DEF MarkModel, Moves, Moved, Stays, Stayed
  <2>. QED BY <2>1 DEF OneOf
<1>18. CASE Charge(r)
  <2>1. /\ SameLog(r)
        /\ hist'[r].charged =
             [hist[r].charged EXCEPT ![dep(r)] = hist[r].charged[dep(r)] + 1]
        /\ hist'[r].visited = hist[r].visited
        /\ hist'[r].switches = hist[r].switches
    BY <1>0, <1>18 DEF Charge, SameLog, HistType, Hist
  <2>2. pc[r] = "charge" /\ (Moved(r) \/ (Stayed(r) /\ pc'[r] \in {"done", "save"}))
    BY <1>18 DEF Charge, Moved, Stayed
  <2>3. Charges(r)
    BY <2>1, <2>2 DEF Charges
  <2>. QED BY <2>3 DEF OneOf
<1>19. CASE SaveMark(r)
  <2>1. Stays(r)
    BY <1>19, <1>a DEF SaveMark, Stays, Stayed
  <2>. QED BY <2>1 DEF OneOf
<1>20. CASE ClearStickyForDeployment(r)
  <2>1. Moves(r) \/ Stays(r)
    BY <1>20, <1>a DEF ClearStickyForDeployment, Moves, Moved, Stays, Stayed
  <2>. QED BY <2>1 DEF OneOf
<1>21. CASE AllFailed(r)
  <2>1. SameHist(r)
    BY <1>21, <1>b DEF AllFailed, Replies
  <2>2. Stays(r)
    BY <1>21, <2>1 DEF AllFailed, Stays, Stayed
  <2>. QED BY <2>2 DEF OneOf
<1>. QED
  BY <1>1, <1>2, <1>3, <1>4, <1>5, <1>6, <1>7, <1>8, <1>10, <1>11, <1>12,
     <1>13, <1>14, <1>15, <1>16, <1>17, <1>18, <1>19, <1>20, <1>21
  DEF Step, Execute

----------------------------------------------------------------------------
(* Where the loop index goes. *)

LEMMA HerePlanned ==
  ASSUME TypeOK, NEW r \in Requests, pos[r] <= Len(plan[r])
  PROVE  /\ plan[r] \in Seq(Attempt) /\ pos[r] \in 1..Len(plan[r])
         /\ pos[r] \in Nat \ {0}
         /\ at(r) = plan[r][pos[r]] /\ dep(r) = plan[r][pos[r]].dep
         /\ dep(r) \in Deployments
<1>1. plan[r] \in Seq(Attempt) /\ pos[r] \in Nat \ {0}
  BY DEF TypeOK
<1>2. pos[r] \in 1..Len(plan[r])
  BY <1>1
<1>3. at(r) = plan[r][pos[r]] /\ dep(r) = plan[r][pos[r]].dep
  BY DEF at, dep
<1>. QED BY <1>1, <1>2, <1>3, AttemptTypes

\* Moving on passes the current attempt and those of the same deployment that a
\* failure gives up, and nothing else.
LEMMA MoveFacts ==
  ASSUME TypeOK, NEW r \in Requests, PlanInv(r), pos[r] <= Len(plan[r])
  PROVE  /\ NextPos(r) \in Nat /\ NextPos(r) >= pos[r] + 1
         /\ NextPos(r) - 1 \in 1..Len(plan[r])
         /\ \A i \in 1..Len(plan[r]) : pos[r] <= i /\ i < NextPos(r) =>
              plan[r][i].dep = dep(r)
         /\ plan[r][NextPos(r) - 1].dep = dep(r)
         /\ outcome[r] = "none" => NextPos(r) = pos[r] + 1
<1>. DEFINE p == plan[r]
            i == pos[r]
            n == IF SkipsRemaining(at(r), outcome[r])
                 THEN RemainingModelAttempts(at(r)) ELSE 0
<1>1. p \in Seq(Attempt) /\ i \in 1..Len(p) /\ i \in Nat /\ at(r) = p[i] /\ dep(r) = p[i].dep
  BY HerePlanned
<1>2. PlanShape(p)
  BY DEF PlanInv
<1>3. NextPos(r) = i + 1 + n
  BY DEF NextPos
<1>4. outcome[r] = "none" => n = 0
  BY DEF SkipsRemaining, Failures, AllOutcomes
<1>5. RemainingModelAttempts(p[i]) \in Nat
  BY <1>1, AttemptTypes
<1>6. n \in Nat /\ n <= RemainingModelAttempts(p[i])
  BY <1>1, <1>5
<1>. HIDE DEF p, i, n
<1>7. ASSUME NEW m \in Nat, m <= n
      PROVE  i + m \in 1..Len(p) /\ p[i + m].dep = p[i].dep
  <2>1. m <= RemainingModelAttempts(p[i])
    BY <1>5, <1>6, <1>7
  <2>. QED BY <1>1, <1>2, <1>7, <2>1, RestOfBlock
<1>8. ASSUME NEW j \in 1..Len(p), i <= j, j < i + 1 + n
      PROVE  p[j].dep = p[i].dep
  <2>. DEFINE m == j - i
  <2>1. m \in Nat /\ m <= n /\ i + m = j
    BY <1>1, <1>6, <1>8
  <2>. HIDE DEF m
  <2>. QED BY <1>7, <2>1
<1>9. i + n \in 1..Len(p) /\ p[i + n].dep = p[i].dep
  BY <1>6, <1>7
<1>10. i + 1 + n - 1 = i + n /\ i + 1 + n \in Nat /\ i + 1 + n >= i + 1
  BY <1>1, <1>6
<1>11. NextPos(r) - 1 = i + n
  BY <1>1, <1>3, <1>6
<1>12. outcome[r] = "none" => NextPos(r) = i + 1
  BY <1>1, <1>3, <1>4
<1>13. /\ NextPos(r) \in Nat /\ NextPos(r) >= i + 1
       /\ NextPos(r) - 1 \in 1..Len(p)
       /\ p[NextPos(r) - 1].dep = dep(r)
  BY <1>1, <1>3, <1>9, <1>10, <1>11
<1>14. \A j \in 1..Len(p) : i <= j /\ j < NextPos(r) => p[j].dep = dep(r)
  BY <1>1, <1>3, <1>8
<1>. QED BY <1>12, <1>13, <1>14 DEF p, i

----------------------------------------------------------------------------
(* Each part of the invariant is kept. *)

LEMMA PlanKept ==
  ASSUME ConstantsAssumption, TypeOK, NEW r \in Requests, PlanInv(r), OneOf(r)
  PROVE  PlanInv(r)'
<1>a. ASSUME plan'[r] = plan[r], todo'[r] = todo[r], pc'[r] \notin {"idle", "plan"},
             pc'[r] \in {"check", "channel", "acquire", "execute"} =>
               outcome'[r] = "none"
      PROVE  PlanInv(r)'
  BY <1>a DEF PlanInv
<1>1. CASE Begins(r)
  <2>1. plan'[r] = <<>> /\ PlanShape(plan'[r]) /\ Len(plan'[r]) = 0
    BY <1>1 DEF Begins, PlanInv
  <2>2. /\ pos'[r] = 1 /\ prev'[r] = NoDep /\ hist'[r] = NoHist
        /\ outcome'[r] = "none" /\ pc'[r] # "idle"
    BY <1>1 DEF Begins, PlanInv
  <2>. QED BY <2>1, <2>2 DEF PlanInv
<1>2. CASE Plans(r)
  <2>1. PICK d \in todo[r] : \E b \in Blocks(r, d) :
          plan'[r] = plan[r] \o b /\ todo'[r] = todo[r] \ {d}
    BY <1>2 DEF Plans
  <2>2. PICK b \in Blocks(r, d) :
          plan'[r] = plan[r] \o b /\ todo'[r] = todo[r] \ {d}
    BY <2>1
  <2>3. plan[r] \in Seq(Attempt) /\ d \in Deployments
    BY DEF TypeOK
  <2>4. /\ b \in Seq(Attempt) /\ PlanShape(b)
        /\ \A i \in 1..Len(b) : b[i].dep = d
    <3>1. d \in Deployments /\ b \in Blocks(r, d)
      BY <2>2, <2>3
    <3>. QED BY <3>1, BlockShape
  <2>5. /\ PlanShape(plan[r])
        /\ \A i \in 1..Len(plan[r]) : plan[r][i].dep # d
        /\ \A i \in 1..Len(plan[r]) : plan[r][i].dep \notin todo[r]
    BY DEF PlanInv
  <2>6. PlanShape(plan'[r])
    <3>1. PlanShape(plan[r] \o b)
      BY <2>3, <2>4, <2>5, ConcatShape, Zenon
    <3>. QED BY <2>2, <3>1
  <2>7. ASSUME NEW i \in 1..Len(plan'[r])
        PROVE  plan'[r][i].dep \notin todo'[r]
    <3>1. CASE i \in 1..Len(plan[r])
      <4>1. plan'[r][i] = plan[r][i]
        BY <2>2, <2>3, <2>4, <3>1
      <4>. QED BY <2>2, <2>5, <3>1, <4>1
    <3>2. CASE i \notin 1..Len(plan[r])
      <4>. DEFINE j == i - Len(plan[r])
      <4>1. j \in 1..Len(b) /\ plan'[r][i] = b[j]
        BY <2>2, <2>3, <2>4, <2>7, <3>2
      <4>. HIDE DEF j
      <4>. QED BY <2>2, <2>4, <4>1
    <3>. QED BY <3>1, <3>2
  <2>8. /\ pos'[r] = 1 /\ prev'[r] = NoDep /\ hist'[r] = NoHist
        /\ outcome'[r] = "none" /\ pc'[r] # "idle"
    BY <1>2 DEF Plans, PlanInv
  <2>. QED BY <2>6, <2>7, <2>8 DEF PlanInv
<1>3. CASE Looks(r)
  BY <1>3, <1>a DEF Looks, Moved, Stayed, PlanInv
<1>4. CASE Stays(r)
  BY <1>4, <1>a DEF Stays, Stayed, PlanInv
<1>5. CASE Moves(r)
  BY <1>5, <1>a DEF Moves, Moved
<1>6. CASE Acquires(r)
  BY <1>6, <1>a DEF Acquires, Stayed, PlanInv
<1>7. ASSUME NEW o \in AllOutcomes \ {"panic"}, NEW w \in BOOLEAN, Answers(r, o, w)
      PROVE  PlanInv(r)'
  <2>1. pc'[r] \in {"success", "invalid", "done", "model", "charge"}
    BY <1>7 DEF Answers, AfterFailure
  <2>. QED BY <1>7, <1>a, <2>1 DEF Answers
<1>8. CASE Panics(r)
  BY <1>8, <1>a DEF Panics
<1>9. CASE Charges(r)
  BY <1>9, <1>a DEF Charges, Moved, Stayed
<1>. QED BY <1>1, <1>2, <1>3, <1>4, <1>5, <1>6, <1>7, <1>8, <1>9 DEF OneOf

LEMMA PassedKept ==
  ASSUME ConstantsAssumption, TypeOK, LoopInv, NEW r \in Requests, PlanInv(r),
         PassedInv(r), OneOf(r)
  PROVE  PassedInv(r)'
<1>. USE DEF OnAttempt
<1>0. pos[r] \in Nat \ {0} /\ plan[r] \in Seq(Attempt)
  BY DEF TypeOK
<1>a. ASSUME Moved(r), pos[r] <= Len(plan[r]), dep(r) \in hist'[r].visited,
             hist[r].visited \subseteq hist'[r].visited
      PROVE  PassedInv(r)'
  <2>1. /\ plan'[r] = plan[r] /\ pos'[r] = NextPos(r) /\ prev'[r] = dep(r)
        /\ pc'[r] = "check"
    BY <1>a DEF Moved
  <2>2. /\ NextPos(r) \in Nat /\ NextPos(r) >= pos[r] + 1
        /\ NextPos(r) - 1 \in 1..Len(plan[r])
        /\ \A i \in 1..Len(plan[r]) : pos[r] <= i /\ i < NextPos(r) =>
             plan[r][i].dep = dep(r)
        /\ plan[r][NextPos(r) - 1].dep = dep(r)
    BY <1>a, MoveFacts
  <2>3. ASSUME NEW i \in 1..Len(plan[r]), i < NextPos(r)
        PROVE  plan[r][i].dep \in hist'[r].visited
    <3>1. CASE i < pos[r]
      BY <1>a, <3>1 DEF PassedInv
    <3>2. CASE ~(i < pos[r])
      <4>1. pos[r] <= i
        BY <1>0, <3>2
      <4>. QED BY <1>a, <2>2, <2>3, <4>1
    <3>. QED BY <3>1, <3>2
  <2>4. NextPos(r) > 1 /\ NextPos(r) - 1 <= Len(plan[r]) /\ NextPos(r) # 1
    BY <1>0, <2>2
  <2>. QED BY <2>1, <2>2, <2>3, <2>4 DEF PassedInv
<1>b. ASSUME plan'[r] = plan[r], pos'[r] = pos[r], prev'[r] = prev[r],
             hist[r].visited \subseteq hist'[r].visited,
             pc'[r] \in OnAttempt => dep(r) \in hist'[r].visited
      PROVE  PassedInv(r)'
  BY <1>b DEF PassedInv, dep, at
<1>1. CASE Begins(r)
  BY <1>1, <1>b DEF Begins
<1>2. CASE Plans(r)
  <2>1. pos'[r] = 1 /\ prev'[r] = NoDep /\ pc'[r] \notin OnAttempt
    BY <1>2 DEF Plans, PlanInv
  <2>. QED BY <2>1 DEF PassedInv
<1>3. CASE Looks(r)
  BY <1>3, <1>a, <1>b DEF Looks, Stayed
<1>4. CASE Stays(r)
  BY <1>4, <1>b DEF Stays, Stayed, SameHist, PassedInv
<1>5. CASE Moves(r)
  <2>1. pc[r] \in OnAttempt
    BY <1>5 DEF Moves
  <2>2. pos[r] <= Len(plan[r]) /\ dep(r) \in hist[r].visited
    BY <2>1 DEF LoopInv, PassedInv
  <2>. QED BY <1>5, <1>a, <2>2 DEF Moves, SameHist
<1>6. CASE Acquires(r)
  BY <1>6, <1>b DEF Acquires, Stayed, PassedInv
<1>7. ASSUME NEW o \in AllOutcomes \ {"panic"}, NEW w \in BOOLEAN, Answers(r, o, w)
      PROVE  PassedInv(r)'
  BY <1>7, <1>b DEF Answers, PassedInv
<1>8. CASE Panics(r)
  BY <1>8, <1>b DEF Panics, SameHist
<1>9. CASE Charges(r)
  <2>1. pos[r] <= Len(plan[r]) /\ dep(r) \in hist[r].visited
    BY <1>9 DEF Charges, LoopInv, PassedInv
  <2>. QED BY <1>9, <1>a, <1>b, <2>1 DEF Charges, Stayed
<1>. QED BY <1>1, <1>2, <1>3, <1>4, <1>5, <1>6, <1>7, <1>8, <1>9 DEF OneOf

\* The part of the plan that is still to come only shrinks.
LEMMA UpcomingType ==
  ASSUME TypeOK, LoopInv, NEW r \in Requests, PlanInv(r),
         pc[r] \in OnAttempt \cup {"idle", "plan", "check"}
  PROVE  /\ Upcoming(r) \in Nat /\ Upcoming(r) >= pos[r]
         /\ outcome[r] = "none" => Upcoming(r) = pos[r]
         /\ pos[r] <= Len(plan[r]) => Upcoming(r) <= NextPos(r)
<1>1. pos[r] \in Nat
  BY DEF TypeOK
<1>2. CASE outcome[r] = "none"
  <2>1. pos[r] <= Len(plan[r]) => NextPos(r) \in Nat /\ NextPos(r) >= pos[r] + 1
    BY MoveFacts
  <2>. QED BY <1>1, <1>2, <2>1 DEF Upcoming
<1>3. CASE outcome[r] # "none"
  <2>1. pos[r] <= Len(plan[r])
    BY <1>3 DEF PlanInv, LoopInv
  <2>2. NextPos(r) \in Nat /\ NextPos(r) >= pos[r] + 1
    BY <2>1, MoveFacts
  <2>. QED BY <1>1, <1>3, <2>2 DEF Upcoming
<1>. QED BY <1>2, <1>3

LEMMA ClosedSame ==
  ASSUME NEW r \in Requests, ClosedInv(r), SameLog(r), plan'[r] = plan[r],
         Upcoming(r) \in Nat, Upcoming(r)' \in Nat, Upcoming(r) <= Upcoming(r)'
  PROVE  ClosedInv(r)'
<1>1. ASSUME NEW j \in 1..Len(hist[r].log), Closing(hist[r].log[j]),
             NEW i \in 1..Len(plan[r]), i >= Upcoming(r)'
      PROVE  plan[r][i].dep # hist[r].log[j].dep
  <2>1. i >= Upcoming(r)
    BY <1>1
  <2>. QED BY <1>1, <2>1 DEF ClosedInv
<1>2. hist'[r].log = hist[r].log
  BY DEF SameLog
<1>3. \A j \in 1..Len(hist[r].log) : Closing(hist[r].log[j]) =>
        \A k \in 1..Len(hist[r].log) :
          j < k => hist[r].log[k].dep # hist[r].log[j].dep
  BY DEF ClosedInv
<1>. HIDE DEF Upcoming, Closing
<1>. QED BY <1>1, <1>2, <1>3 DEF ClosedInv

\* What a closing entry says about the rest of the plan.
LEMMA ClosesRest ==
  ASSUME TypeOK, NEW r \in Requests, PlanInv(r), pos[r] <= Len(plan[r]),
         NEW o \in AllOutcomes, Closing(LogEntry(r, o)),
         NEW i \in 1..Len(plan[r]),
         i >= pos[r] + 1 + (IF SkipsRemaining(at(r), o)
                            THEN RemainingModelAttempts(at(r)) ELSE 0)
  PROVE  plan[r][i].dep # dep(r)
<1>. DEFINE p == plan[r]
            n == RemainingModelAttempts(at(r))
<1>1. /\ p \in Seq(Attempt) /\ pos[r] \in 1..Len(p) /\ at(r) = p[pos[r]]
      /\ dep(r) = p[pos[r]].dep
  BY HerePlanned
<1>2. PlanShape(p)
  BY DEF PlanInv
<1>3. n \in Nat
  BY <1>1, AttemptTypes
<1>4. o \in Failures /\ ~(Confirmed429(o) /\ HasNextModel(at(r)))
  BY DEF Closing, LogEntry
<1>5. CASE SkipsRemaining(at(r), o)
  <2>1. i > pos[r] + n
    BY <1>1, <1>3, <1>5
  <2>. QED BY <1>1, <1>2, <2>1, BeyondBlock
<1>6. CASE ~SkipsRemaining(at(r), o)
  <2>1. ~HasNextModel(at(r))
    BY <1>4, <1>6 DEF SkipsRemaining, HasNextModel
  <2>2. n = 0
    <3>1. CASE ~at(r).rotatable
      BY <3>1 DEF RemainingModelAttempts
    <3>2. CASE at(r).rotatable
      <4>1. ~(n > 0)
        BY <2>1, <3>2 DEF HasNextModel
      <4>. HIDE DEF n
      <4>. QED BY <1>3, <4>1
    <3>. QED BY <3>1, <3>2
  <2>3. i > pos[r] + n
    BY <1>1, <1>6, <2>2
  <2>. QED BY <1>1, <1>2, <2>3, BeyondBlock
<1>. QED BY <1>5, <1>6

LEMMA ClosedKept ==
  ASSUME ConstantsAssumption, TypeOK, LoopInv, HistType, NEW r \in Requests,
         PlanInv(r), ClosedInv(r), OneOf(r)
  PROVE  ClosedInv(r)'
<1>. USE DEF OnAttempt
<1>0. /\ pos[r] \in Nat \ {0} /\ plan[r] \in Seq(Attempt)
      /\ hist[r].log \in Seq(LogEntries)
  BY DEF TypeOK, HistType, Hist
<1>t. ASSUME pc[r] \in OnAttempt \cup {"idle", "plan", "check"}
      PROVE  /\ Upcoming(r) \in Nat /\ Upcoming(r) >= pos[r]
             /\ outcome[r] = "none" => Upcoming(r) = pos[r]
             /\ pos[r] <= Len(plan[r]) => Upcoming(r) <= NextPos(r)
  BY <1>t, UpcomingType
<1>n. ASSUME hist'[r] = NoHist
      PROVE  ClosedInv(r)'
  <2>1. Len(hist'[r].log) = 0
    BY <1>n DEF NoHist
  <2>. QED BY <2>1 DEF ClosedInv
<1>a. ASSUME SameLog(r), Moved(r), pos[r] <= Len(plan[r]),
             pc[r] \in OnAttempt \cup {"idle", "plan", "check"}
      PROVE  ClosedInv(r)'
  <2>1. Upcoming(r)' = NextPos(r) /\ plan'[r] = plan[r]
    BY <1>a DEF Moved, Upcoming
  <2>2. NextPos(r) \in Nat
    BY <1>a, MoveFacts
  <2>3. Upcoming(r) \in Nat /\ Upcoming(r) <= NextPos(r)
    BY <1>a, <1>t
  <2>. QED BY <1>a, <2>1, <2>2, <2>3, ClosedSame
<1>b. ASSUME SameLog(r), Stayed(r),
             pc[r] \in OnAttempt \cup {"idle", "plan", "check"}
      PROVE  ClosedInv(r)'
  <2>1. Upcoming(r)' = Upcoming(r) /\ plan'[r] = plan[r]
    BY <1>b DEF Stayed, Upcoming, NextPos, at
  <2>2. Upcoming(r) \in Nat
    BY <1>b, <1>t
  <2>. QED BY <1>b, <2>1, <2>2, ClosedSame
<1>1. CASE Begins(r)
  BY <1>1, <1>n DEF Begins, PlanInv
<1>2. CASE Plans(r)
  BY <1>2, <1>n DEF Plans, PlanInv
<1>3. CASE Looks(r)
  BY <1>3, <1>a, <1>b DEF Looks
<1>4. CASE Stays(r)
  BY <1>4, <1>b DEF Stays, SameHist
<1>5. CASE Moves(r)
  <2>1. pc[r] \in OnAttempt
    BY <1>5 DEF Moves
  <2>2. pos[r] <= Len(plan[r])
    BY <2>1 DEF LoopInv
  <2>. QED BY <1>5, <1>a, <2>1, <2>2 DEF Moves, SameHist
<1>6. CASE Acquires(r)
  BY <1>6, <1>b DEF Acquires
<1>7. ASSUME NEW o \in AllOutcomes \ {"panic"}, NEW w \in BOOLEAN, Answers(r, o, w)
      PROVE  ClosedInv(r)'
  <2>. DEFINE log == hist[r].log
              e == LogEntry(r, o)
              n == Len(log)
              p == plan[r]
              up == pos[r] + 1 + (IF SkipsRemaining(at(r), o)
                                  THEN RemainingModelAttempts(at(r)) ELSE 0)
  <2>1. pc[r] = "execute" /\ pos[r] <= Len(p) /\ outcome[r] = "none"
    BY <1>7 DEF Answers, LoopInv, PlanInv
  <2>2. /\ pos[r] \in 1..Len(p) /\ e.dep = dep(r) /\ dep(r) = p[pos[r]].dep
        /\ Upcoming(r) = pos[r]
    <3>1. pos[r] \in 1..Len(p) /\ dep(r) = p[pos[r]].dep
      BY <2>1, HerePlanned
    <3>2. e.dep = dep(r)
      BY DEF LogEntry
    <3>. QED BY <2>1, <3>1, <3>2 DEF Upcoming
  <2>3. /\ hist'[r].log = Append(log, e) /\ plan'[r] = p
        /\ outcome'[r] = o /\ pos'[r] = pos[r]
    BY <1>7 DEF Answers
  <2>4. Upcoming(r)' = up
    <3>1. o # "none"
      BY DEF AllOutcomes
    <3>. QED BY <2>3, <3>1 DEF Upcoming, NextPos, at
  <2>5. up \in Nat /\ up >= pos[r] + 1
    <3>1. RemainingModelAttempts(at(r)) \in Nat
      BY <2>1, HerePlanned, AttemptTypes
    <3>. QED BY <1>0, <3>1
  <2>6. /\ n \in Nat /\ Len(hist'[r].log) = n + 1
        /\ hist'[r].log[n + 1] = e
        /\ \A k \in 1..n : hist'[r].log[k] = log[k]
    <3>1. Len(Append(log, e)) = n + 1 /\ Append(log, e)[n + 1] = e
      BY <1>0
    <3>2. \A k \in 1..n : Append(log, e)[k] = log[k]
      BY <1>0
    <3>. QED BY <1>0, <2>3, <3>1, <3>2
  <2>7. \A j \in 1..n : Closing(log[j]) =>
          /\ \A k \in 1..n : j < k => log[k].dep # log[j].dep
          /\ \A i \in 1..Len(p) : i >= pos[r] => p[i].dep # log[j].dep
    BY <2>2 DEF ClosedInv
  <2>8. Closing(e) => \A i \in 1..Len(p) : i >= up => p[i].dep # e.dep
    BY <2>1, <2>2, ClosesRest
  <2>. HIDE DEF log, e, n, p, up
  <2>9. ASSUME NEW j \in 1..n, Closing(log[j])
        PROVE  /\ \A k \in 1..(n + 1) : j < k => hist'[r].log[k].dep # log[j].dep
               /\ \A i \in 1..Len(p) : i >= up => p[i].dep # log[j].dep
    <3>1. e.dep # log[j].dep
      <4>1. \A i \in 1..Len(p) : i >= pos[r] => p[i].dep # log[j].dep
        BY <2>7, <2>9
      <4>2. pos[r] \in 1..Len(p) /\ pos[r] >= pos[r]
        BY <1>0, <2>2
      <4>3. p[pos[r]].dep # log[j].dep
        BY <4>1, <4>2
      <4>. QED BY <2>2, <4>3
    <3>2. ASSUME NEW k \in 1..(n + 1), j < k
          PROVE  hist'[r].log[k].dep # log[j].dep
      <4>1. CASE k = n + 1
        BY <2>6, <3>1, <4>1
      <4>2. CASE k # n + 1
        <5>1. k \in 1..n
          BY <2>6, <4>2
        <5>. QED BY <2>6, <2>7, <2>9, <3>2, <5>1
      <4>. QED BY <4>1, <4>2
    <3>3. ASSUME NEW i \in 1..Len(p), i >= up
          PROVE  p[i].dep # log[j].dep
      <4>1. i >= pos[r]
        BY <1>0, <2>5, <3>3
      <4>. QED BY <2>7, <2>9, <4>1
    <3>. QED BY <3>2, <3>3
  <2>10. ASSUME NEW j \in 1..(n + 1), Closing(hist'[r].log[j])
         PROVE  /\ \A k \in 1..(n + 1) :
                     j < k => hist'[r].log[k].dep # hist'[r].log[j].dep
                /\ \A i \in 1..Len(p) : i >= up => p[i].dep # hist'[r].log[j].dep
    <3>1. CASE j = n + 1
      <4>1. hist'[r].log[j] = e
        BY <2>6, <3>1
      <4>2. \A k \in 1..(n + 1) : ~(j < k)
        BY <2>6, <3>1
      <4>. QED BY <2>8, <2>10, <4>1, <4>2
    <3>2. CASE j # n + 1
      <4>1. j \in 1..n /\ hist'[r].log[j] = log[j]
        BY <2>6, <3>2
      <4>. QED BY <2>9, <2>10, <4>1
    <3>. QED BY <3>1, <3>2
  <2>11. Upcoming(r)' = up /\ plan'[r] = p /\ Len(hist'[r].log) = n + 1
    BY <2>3, <2>4, <2>6 DEF p
  <2>. QED BY <2>10, <2>11 DEF ClosedInv
<1>8. CASE Panics(r)
  <2>1. pc[r] = "execute" /\ outcome[r] = "none"
    BY <1>8 DEF Panics, PlanInv
  <2>2. Upcoming(r) = pos[r] /\ Upcoming(r) \in Nat
    BY <1>0, <2>1 DEF Upcoming
  <2>3. Upcoming(r)' = pos[r] + 1
    BY <1>0, <1>8 DEF Panics, Upcoming, NextPos, SkipsRemaining, Failures
  <2>4. plan'[r] = plan[r] /\ SameLog(r)
    BY <1>8 DEF Panics, SameHist
  <2>5. pos[r] + 1 \in Nat /\ pos[r] <= pos[r] + 1
    BY <1>0
  <2>. QED BY <2>2, <2>3, <2>4, <2>5, ClosedSame
<1>9. CASE Charges(r)
  <2>1. pos[r] <= Len(plan[r])
    BY <1>9 DEF Charges, LoopInv
  <2>. QED BY <1>9, <1>a, <1>b, <2>1 DEF Charges
<1>. QED BY <1>1, <1>2, <1>3, <1>4, <1>5, <1>6, <1>7, <1>8, <1>9 DEF OneOf

\* The failures charged to a supplier are closing ones.
LEMMA FailuresClose ==
  ASSUME NEW r \in Requests, HistType, NEW d, NEW k \in SupplierFailures(r, d)
  PROVE  /\ k \in 1..Len(hist[r].log) /\ hist[r].log[k].dep = d
         /\ Closing(hist[r].log[k]) /\ k \notin hist[r].wrote
<1>1. hist[r].log \in Seq(LogEntries)
  BY DEF HistType, Hist
<1>2. DOMAIN hist[r].log = 1..Len(hist[r].log)
  BY <1>1
<1>. QED BY <1>2 DEF SupplierFailures, Closing

LEMMA SameFailures ==
  ASSUME NEW r \in Requests, SameLog(r), NEW d
  PROVE  SupplierFailures(r, d)' = SupplierFailures(r, d)
BY DEF SameLog, SupplierFailures

LEMMA ChargeSame ==
  ASSUME NEW r \in Requests, ChargeInv(r), SameLog(r),
         hist'[r].charged = hist[r].charged,
         Due(r)' <=> Due(r), Due(r) => dep(r)' = dep(r),
         pc'[r] \in {"save", "unstick"} =>
           \/ outcome'[r] = "none"
           \/ SupplierFailures(r, dep(r)') # {}
  PROVE  ChargeInv(r)'
<1>1. ASSUME NEW d
      PROVE  SupplierFailures(r, d)' = SupplierFailures(r, d)
  BY SameFailures
<1>2. Due(r)' => SupplierFailures(r, dep(r)') # {} /\ dep(r)' = dep(r)
  BY DEF ChargeInv
<1>3. \A d \in Deployments : hist'[r].charged[d] =
        IF SupplierFailures(r, d) = {} \/ (Due(r)' /\ d = dep(r)') THEN 0 ELSE 1
  BY DEF ChargeInv
<1>4. ASSUME NEW d, d = dep(r)'
      PROVE  SupplierFailures(r, dep(r))' = SupplierFailures(r, d)
  <2>1. SupplierFailures(r, dep(r))' = SupplierFailures(r, d)'
    BY <1>4 DEF SupplierFailures
  <2>. QED BY <1>1, <2>1
<1>5. SupplierFailures(r, dep(r))' = SupplierFailures(r, dep(r)')
  BY <1>4
<1>. HIDE DEF SupplierFailures, Due, dep
<1>6. Due(r)' => SupplierFailures(r, dep(r))' # {}
  BY <1>2, <1>5
<1>7. pc'[r] \in {"save", "unstick"} =>
        outcome'[r] = "none" \/ SupplierFailures(r, dep(r))' # {}
  BY <1>5
<1>8. \A d \in Deployments : hist'[r].charged[d] =
        IF SupplierFailures(r, d)' = {} \/ (Due(r)' /\ d = dep(r)') THEN 0 ELSE 1
  BY <1>1, <1>3
<1>. QED BY <1>6, <1>7, <1>8 DEF ChargeInv

\* The answer of an attempt is due to be charged exactly when it is a failure that
\* closes the deployment and nothing has been written.
LEMMA AnswerDue ==
  ASSUME NEW r \in Requests, NEW o \in AllOutcomes, NEW w \in BOOLEAN,
         Answers(r, o, w)
  PROVE  Due(r)' <=> (Closing(LogEntry(r, o)) /\ ~w)
<1>1. at(r)' = at(r) /\ outcome'[r] = o
  BY DEF Answers, at
<1>2. Closing(LogEntry(r, o)) <=>
        o \in Failures /\ ~(Confirmed429(o) /\ HasNextModel(at(r)))
  BY DEF Closing, LogEntry
<1>3. Due(r)' <=> \/ pc'[r] = "charge"
                  \/ pc'[r] = "model" /\ ~Rotates(at(r), o)
  BY <1>1 DEF Due
<1>4. CASE o \notin Failures
  <2>1. pc'[r] \in {"success", "invalid"}
    BY <1>4 DEF Answers
  <2>. QED BY <1>2, <1>3, <1>4, <2>1
<1>5. CASE o \in Failures /\ w
  <2>1. pc'[r] = "done"
    BY <1>5 DEF Answers, AfterFailure
  <2>. QED BY <1>3, <1>5, <2>1
<1>6. CASE o \in Failures /\ ~w
  <2>1. pc'[r] = IF RecordsModelRateLimit(at(r), o) THEN "model" ELSE "charge"
    BY <1>6 DEF Answers, AfterFailure
  <2>2. HasNextModel(at(r)) => at(r).rotatable
    BY DEF HasNextModel
  <2>3. Rotates(at(r), o) <=> RecordsModelRateLimit(at(r), o) /\ HasNextModel(at(r))
    BY DEF Rotates
  <2>4. RecordsModelRateLimit(at(r), o) <=> at(r).rotatable /\ Confirmed429(o)
    BY DEF RecordsModelRateLimit
  <2>. QED BY <1>2, <1>3, <1>6, <2>1, <2>2, <2>3, <2>4
<1>. QED BY <1>4, <1>5, <1>6

\* And it is the one failure that is added to those of its supplier.
LEMMA AnswerFailures ==
  ASSUME HistType, OneWriter, NEW r \in Requests, NEW o \in AllOutcomes,
         NEW w \in BOOLEAN, Answers(r, o, w), NEW d
  PROVE  SupplierFailures(r, d)' =
           IF d = dep(r) /\ Closing(LogEntry(r, o)) /\ ~w
           THEN SupplierFailures(r, d) \cup {Len(hist[r].log) + 1}
           ELSE SupplierFailures(r, d)
<1>. DEFINE log == hist[r].log
            e == LogEntry(r, o)
            n == Len(log) + 1
            Fails(x) == x.dep = d /\ Closing(x)
<1>1. log \in Seq(LogEntries) /\ hist[r].wrote = {}
  BY DEF HistType, Hist, OneWriter, Answers
<1>2. hist'[r].log = Append(log, e) /\ hist'[r].wrote = IF w THEN {n} ELSE {}
  BY <1>1 DEF Answers
<1>3. /\ DOMAIN log = 1..Len(log) /\ DOMAIN hist'[r].log = 1..n
      /\ Len(log) \in Nat /\ hist'[r].log[n] = e
      /\ \A k \in 1..Len(log) : hist'[r].log[k] = log[k]
  <2>1. /\ DOMAIN Append(log, e) = 1..n /\ Append(log, e)[n] = e
        /\ \A k \in 1..Len(log) : Append(log, e)[k] = log[k]
    BY <1>1
  <2>. QED BY <1>1, <1>2, <2>1
<1>4. \A k : k \in SupplierFailures(r, d) <=>
        k \in 1..Len(log) /\ Fails(log[k])
  BY <1>1, <1>3 DEF SupplierFailures, Closing
<1>5. \A k : k \in SupplierFailures(r, d)' <=>
        k \in 1..n /\ Fails(hist'[r].log[k]) /\ k \notin (IF w THEN {n} ELSE {})
  BY <1>2, <1>3 DEF SupplierFailures, Closing
<1>6. e.dep = dep(r)
  BY DEF LogEntry
<1>. HIDE DEF log, e, n
<1>7. \A k : k \in 1..n <=> k \in 1..Len(log) \/ k = n
  BY <1>3 DEF n
<1>8. n \notin 1..Len(log)
  BY <1>3 DEF n
<1>9. Fails(e) <=> d = dep(r) /\ Closing(e)
  BY <1>6
<1>. HIDE DEF Fails
<1>10. \A k : k \in SupplierFailures(r, d)' <=>
         \/ k \in SupplierFailures(r, d)
         \/ k = n /\ d = dep(r) /\ Closing(e) /\ ~w
  <2>1. ASSUME NEW k, k \in 1..Len(log)
        PROVE  k \in SupplierFailures(r, d)' <=> k \in SupplierFailures(r, d)
    BY <1>3, <1>4, <1>5, <1>7, <1>8, <2>1
  <2>2. n \notin SupplierFailures(r, d)
    BY <1>4, <1>8
  <2>3. n \in SupplierFailures(r, d)' <=> d = dep(r) /\ Closing(e) /\ ~w
    BY <1>3, <1>5, <1>7, <1>9
  <2>4. ASSUME NEW k, k \notin 1..Len(log), k # n
        PROVE  k \notin SupplierFailures(r, d)' /\ k \notin SupplierFailures(r, d)
    BY <1>4, <1>5, <1>7, <2>4
  <2>. QED BY <2>1, <2>2, <2>3, <2>4, <1>8
<1>. QED BY <1>10 DEF e, n, log

LEMMA ChargeKept ==
  ASSUME ConstantsAssumption, TypeOK, LoopInv, HistType, OneWriter,
         NEW r \in Requests, PlanInv(r), ClosedInv(r), ChargeInv(r), OneOf(r)
  PROVE  ChargeInv(r)'
<1>. USE DEF OnAttempt
<1>n. ASSUME hist'[r] = NoHist, pc'[r] \in {"plan", "check"}
      PROVE  ChargeInv(r)'
  <2>1. \A d : SupplierFailures(r, d)' = {}
    BY <1>n DEF NoHist, SupplierFailures
  <2>2. ~Due(r)'
    BY <1>n DEF Due
  <2>3. \A d \in Deployments : hist'[r].charged[d] = 0
    BY <1>n DEF NoHist
  <2>. QED BY <1>n, <2>1, <2>2, <2>3 DEF ChargeInv
<1>a. ASSUME SameLog(r), hist'[r].charged = hist[r].charged, ~Due(r),
             pc'[r] \notin {"charge", "model"},
             pc'[r] \in {"save", "unstick"} => outcome'[r] = "none"
      PROVE  ChargeInv(r)'
  <2>1. ~Due(r)'
    BY <1>a DEF Due
  <2>. QED BY <1>a, <2>1, ChargeSame
<1>1. CASE Begins(r)
  BY <1>1, <1>n DEF Begins, PlanInv
<1>2. CASE Plans(r)
  BY <1>2, <1>n DEF Plans, PlanInv
<1>3. CASE Looks(r)
  <2>1. ~Due(r) /\ outcome[r] = "none"
    BY <1>3 DEF Looks, Due, PlanInv
  <2>. QED BY <1>3, <1>a, <2>1 DEF Looks, Moved, Stayed
<1>4. CASE Stays(r)
  <2>1. SameLog(r) /\ hist'[r].charged = hist[r].charged /\ Stayed(r)
    BY <1>4 DEF Stays, SameHist
  <2>2. at(r)' = at(r) /\ dep(r)' = dep(r) /\ outcome'[r] = outcome[r]
    BY <2>1 DEF Stayed, at, dep
  <2>3. CASE pc[r] = "channel" /\ pc'[r] \in {"acquire", "save"}
    <3>1. ~Due(r) /\ outcome[r] = "none"
      BY <2>3 DEF Due, PlanInv
    <3>. QED BY <1>a, <2>1, <2>2, <2>3, <3>1
  <2>4. CASE pc[r] \in {"success", "account", "check"} /\ pc'[r] \in {"account", "done"}
    <3>1. ~Due(r)
      BY <2>4 DEF Due
    <3>. QED BY <1>a, <2>1, <2>4, <3>1
  <2>5. CASE pc[r] = "model" /\ ~Rotates(at(r), outcome[r]) /\ pc'[r] = "charge"
    <3>1. Due(r) /\ Due(r)'
      BY <2>5 DEF Due
    <3>. QED BY <2>1, <2>2, <2>5, <3>1, ChargeSame
  <2>6. CASE pc[r] \in {"save", "unstick"} /\ pc'[r] \in {"save", "unstick"}
    <3>1. ~Due(r) /\ ~Due(r)'
      BY <2>6 DEF Due
    <3>2. outcome'[r] = "none" \/ SupplierFailures(r, dep(r)') # {}
      BY <2>2, <2>6 DEF ChargeInv
    <3>. QED BY <2>1, <2>2, <3>1, <3>2, ChargeSame
  <2>. QED BY <1>4, <2>3, <2>4, <2>5, <2>6 DEF Stays
<1>5. CASE Moves(r)
  <2>1. ~Due(r)
    BY <1>5 DEF Moves, Due
  <2>. QED BY <1>5, <1>a, <2>1 DEF Moves, Moved, SameHist
<1>6. CASE Acquires(r)
  <2>1. ~Due(r)
    BY <1>6 DEF Acquires, Due
  <2>. QED BY <1>6, <1>a, <2>1 DEF Acquires
<1>7. ASSUME NEW o \in AllOutcomes \ {"panic"}, NEW w \in BOOLEAN, Answers(r, o, w)
      PROVE  ChargeInv(r)'
  <2>. DEFINE closes == Closing(LogEntry(r, o)) /\ ~w
              n == Len(hist[r].log) + 1
  <2>1. \A d : SupplierFailures(r, d)' =
                 IF d = dep(r) /\ closes THEN SupplierFailures(r, d) \cup {n}
                                         ELSE SupplierFailures(r, d)
    BY <1>7, AnswerFailures
  <2>2. Due(r)' <=> closes
    BY <1>7, AnswerDue
  <2>. HIDE DEF closes, n
  <2>3. /\ pc[r] = "execute" /\ ~Due(r) /\ pos[r] \in 1..Len(plan[r])
        /\ dep(r) = plan[r][pos[r]].dep /\ Upcoming(r) = pos[r] /\ pos[r] \in Nat
    <3>1. pc[r] = "execute" /\ pos[r] <= Len(plan[r]) /\ outcome[r] = "none"
      BY <1>7 DEF Answers, LoopInv, PlanInv
    <3>2. pos[r] \in 1..Len(plan[r]) /\ dep(r) = plan[r][pos[r]].dep /\ pos[r] \in Nat
      BY <3>1, HerePlanned
    <3>. QED BY <3>1, <3>2 DEF Due, Upcoming
  <2>4. SupplierFailures(r, dep(r)) = {}
    <3>. SUFFICES ASSUME NEW k \in SupplierFailures(r, dep(r)) PROVE FALSE
      OBVIOUS
    <3>1. /\ k \in 1..Len(hist[r].log) /\ hist[r].log[k].dep = dep(r)
          /\ Closing(hist[r].log[k])
      BY FailuresClose
    <3>. QED BY <2>3, <3>1 DEF ClosedInv
  <2>5. /\ dep(r)' = dep(r) /\ hist'[r].charged = hist[r].charged
        /\ pc'[r] \notin {"save", "unstick"}
    BY <1>7 DEF Answers, dep, at, AfterFailure
  <2>6. \A d \in Deployments :
          hist[r].charged[d] = IF SupplierFailures(r, d) = {} THEN 0 ELSE 1
    BY <2>3 DEF ChargeInv
  <2>7. ASSUME NEW d, d = dep(r)'
        PROVE  SupplierFailures(r, dep(r))' = SupplierFailures(r, d)'
    BY <2>7 DEF SupplierFailures
  <2>8. Due(r)' => SupplierFailures(r, dep(r))' # {}
    <3>1. ASSUME NEW d, d = dep(r), closes
          PROVE  SupplierFailures(r, d)' # {}
      BY <2>1, <3>1
    <3>. QED BY <2>2, <2>5, <2>7, <3>1
  <2>9. ASSUME NEW d \in Deployments
        PROVE  hist'[r].charged[d] =
                 IF SupplierFailures(r, d)' = {} \/ (Due(r)' /\ d = dep(r)')
                 THEN 0 ELSE 1
    <3>1. CASE d = dep(r)
      <4>1. hist'[r].charged[d] = 0
        BY <2>4, <2>5, <2>6, <3>1
      <4>2. SupplierFailures(r, d)' = {} \/ (Due(r)' /\ d = dep(r)')
        BY <2>1, <2>2, <2>4, <2>5, <3>1
      <4>. QED BY <4>1, <4>2
    <3>2. CASE d # dep(r)
      <4>1. SupplierFailures(r, d)' = SupplierFailures(r, d)
        BY <2>1, <3>2
      <4>2. ~(d = dep(r)')
        BY <2>5, <3>2
      <4>. QED BY <2>5, <2>6, <4>1, <4>2
    <3>. QED BY <3>1, <3>2
  <2>. QED BY <2>5, <2>8, <2>9 DEF ChargeInv
<1>8. CASE Panics(r)
  <2>1. ~Due(r)
    BY <1>8 DEF Panics, Due
  <2>. QED BY <1>8, <1>a, <2>1 DEF Panics, SameHist
<1>9. CASE Charges(r)
  <2>1. pos[r] <= Len(plan[r]) /\ Due(r) /\ SameLog(r)
    BY <1>9 DEF Charges, LoopInv, Due
  <2>2. dep(r) \in Deployments
    BY <2>1, HerePlanned
  <2>3. hist[r].charged \in [Deployments -> Nat]
    BY DEF HistType, Hist
  <2>4. ~Due(r)'
    BY <1>9 DEF Charges, Due, Moved
  <2>5. SupplierFailures(r, dep(r)) # {}
    BY <2>1 DEF ChargeInv
  <2>6. ASSUME NEW d \in Deployments
        PROVE  hist'[r].charged[d] =
                 IF SupplierFailures(r, d)' = {} THEN 0 ELSE 1
    <3>1. SupplierFailures(r, d)' = SupplierFailures(r, d)
      BY <2>1, SameFailures
    <3>2. hist[r].charged[d] =
            IF SupplierFailures(r, d) = {} \/ d = dep(r) THEN 0 ELSE 1
      BY <2>1 DEF ChargeInv
    <3>3. hist'[r].charged[d] = IF d = dep(r) THEN hist[r].charged[d] + 1
                                              ELSE hist[r].charged[d]
      BY <1>9, <2>2, <2>3 DEF Charges
    <3>. QED BY <2>5, <3>1, <3>2, <3>3
  <2>7. pc'[r] = "save" => SupplierFailures(r, dep(r))' # {}
    <3>1. ASSUME pc'[r] = "save" PROVE dep(r)' = dep(r)
      BY <1>9, <3>1 DEF Charges, Moved, Stayed, dep, at
    <3>2. ASSUME NEW d, d = dep(r)
          PROVE  SupplierFailures(r, d)' # {}
      <4>1. SupplierFailures(r, d)' = SupplierFailures(r, d)
        BY <2>1, SameFailures
      <4>. QED BY <2>5, <3>2, <4>1
    <3>3. ASSUME NEW d, d = dep(r)'
          PROVE  SupplierFailures(r, dep(r))' = SupplierFailures(r, d)'
      BY <3>3 DEF SupplierFailures
    <3>. QED BY <3>1, <3>2, <3>3
  <2>8. pc'[r] # "unstick"
    BY <1>9 DEF Charges, Moved
  <2>. QED BY <2>4, <2>6, <2>7, <2>8 DEF ChargeInv
<1>. QED BY <1>1, <1>2, <1>3, <1>4, <1>5, <1>6, <1>7, <1>8, <1>9 DEF OneOf

\* Nothing is opened by a step that is neither the start nor the end of an attempt.
LEMMA SwitchSame ==
  ASSUME NEW r \in Requests, SwitchInv(r), SameLog(r), ~Holding(r), ~Holding(r)',
         plan'[r] = plan[r], hist'[r].switches = hist[r].switches,
         pos[r] \in Nat, pos'[r] \in Nat,
         \/ pos'[r] > pos[r]
         \/ pos'[r] = pos[r] /\ outcome'[r] = outcome[r]
  PROVE  SwitchInv(r)'
<1>1. Opened(r)' = Opened(r)
  BY DEF Opened, SameLog
<1>2. \A d \in Opened(r) : \E i \in 1..Len(plan[r]) :
        /\ plan[r][i].dep = d
        /\ \/ i < pos[r]
           \/ i = pos[r] /\ outcome[r] # "none"
  BY DEF SwitchInv, Holding
<1>3. \A d \in Opened(r) : \E i \in 1..Len(plan[r]) :
        /\ plan[r][i].dep = d
        /\ \/ i < pos'[r]
           \/ i = pos'[r] /\ outcome'[r] # "none"
  <2>. SUFFICES ASSUME NEW d \in Opened(r)
                PROVE  \E i \in 1..Len(plan[r]) :
                         /\ plan[r][i].dep = d
                         /\ \/ i < pos'[r]
                            \/ i = pos'[r] /\ outcome'[r] # "none"
    OBVIOUS
  <2>1. PICK i \in 1..Len(plan[r]) :
          /\ plan[r][i].dep = d
          /\ \/ i < pos[r]
             \/ i = pos[r] /\ outcome[r] # "none"
    BY <1>2
  <2>2. i \in Int
    OBVIOUS
  <2>3. i < pos'[r] \/ (i = pos'[r] /\ outcome'[r] # "none")
    BY <2>1, <2>2
  <2>. QED BY <2>1, <2>3
<1>. HIDE DEF Opened
<1>. QED BY <1>1, <1>3 DEF SwitchInv

\* A switch goes to the first attempt of a deployment that is not the first planned
\* one, and what is opened was not opened before.
LEMMA SwitchIsNew ==
  ASSUME ConstantsAssumption, TypeOK, LoopInv, NEW r \in Requests, PlanInv(r),
         PassedInv(r), SwitchInv(r), pc[r] = "acquire"
  PROVE  /\ IsSwitch(r) <=> at(r).index = 0 /\ dep(r) # plan[r][1].dep
         /\ at(r).index = 0 => dep(r) \notin Opened(r)
<1>. DEFINE p == plan[r]
            j == pos[r]
<1>1. j <= Len(p) /\ outcome[r] = "none"
  BY DEF LoopInv, OnAttempt, PlanInv
<1>2. /\ p \in Seq(Attempt) /\ j \in 1..Len(p) /\ j \in Nat \ {0}
      /\ at(r) = p[j] /\ dep(r) = p[j].dep
  BY <1>1, HerePlanned
<1>3. PlanShape(p)
  BY DEF PlanInv
<1>4. /\ j = 1 => prev[r] = NoDep
      /\ j > 1 => prev[r] = p[j - 1].dep
  BY DEF PassedInv
<1>5. \A d \in Opened(r) : \E i \in 1..Len(p) : p[i].dep = d /\ i < j
  BY <1>1 DEF SwitchInv
<1>6. IsSwitch(r) <=> prev[r] # NoDep /\ prev[r] # dep(r)
  BY DEF IsSwitch
<1>. HIDE DEF p, j, Opened, IsSwitch, at, dep
<1>7. CASE j = 1
  <2>1. ~IsSwitch(r) /\ dep(r) = p[1].dep
    BY <1>2, <1>4, <1>6, <1>7
  <2>2. \A i \in 1..Len(p) : ~(i < j)
    BY <1>7
  <2>3. dep(r) \notin Opened(r)
    BY <1>5, <2>2
  <2>. QED BY <2>1, <2>3 DEF p
<1>8. CASE j # 1
  <2>1. j > 1 /\ j \in 2..Len(p) /\ j - 1 \in 1..Len(p)
    BY <1>2, <1>8
  <2>2. p[j - 1].dep \in Deployments
    BY <1>2, <2>1, AttemptTypes
  <2>3. IsSwitch(r) <=> p[j - 1].dep # p[j].dep
    BY <1>2, <1>4, <1>6, <2>1, <2>2 DEF ConstantsAssumption
  <2>4. p[j].index # 0 => p[j - 1].dep = p[j].dep
    BY <1>2, <1>3 DEF PlanShape
  <2>5. p[j - 1].dep = p[j].dep => p[j].index # 0
    <3>. SUFFICES ASSUME p[j - 1].dep = p[j].dep PROVE p[j].index # 0
      OBVIOUS
    <3>1. p[j - 1].index + j = p[j].index + (j - 1)
      BY <1>2, <1>3, <2>1 DEF PlanShape
    <3>2. p[j - 1].index \in Nat /\ p[j].index \in Nat
      BY <1>2, <2>1, AttemptTypes
    <3>3. \A x, y \in Nat : x + j = y + (j - 1) => y # 0
      BY <1>2
    <3>. QED BY <3>1, <3>2, <3>3
  <2>6. ASSUME p[j].index = 0
        PROVE  \A i \in 1..Len(p) : i < j => p[i].dep # p[j].dep
    BY <1>2, <1>3, <2>1, <2>5, <2>6, BlocksApart
  <2>7. p[j].index = 0 => dep(r) # p[1].dep /\ dep(r) \notin Opened(r)
    <3>1. 1 \in 1..Len(p) /\ 1 < j
      BY <1>2, <2>1
    <3>. QED BY <1>2, <1>5, <2>6, <3>1
  <2>. QED BY <1>2, <2>3, <2>4, <2>5, <2>7 DEF p
<1>. QED BY <1>7, <1>8

LEMMA SwitchKept ==
  ASSUME ConstantsAssumption, TypeOK, LoopInv, HistType, NEW r \in Requests,
         PlanInv(r), PassedInv(r), SwitchInv(r), OneOf(r)
  PROVE  SwitchInv(r)'
<1>. USE DEF OnAttempt
<1>0. pos[r] \in Nat \ {0} /\ plan[r] \in Seq(Attempt) /\ hist[r].switches \in Nat
  BY DEF TypeOK, HistType, Hist
<1>h. ASSUME pc[r] \notin {"execute", "done"} PROVE ~Holding(r)
  BY <1>h DEF Holding, LoopInv
<1>n. ASSUME hist'[r] = NoHist, ~Holding(r)'
      PROVE  SwitchInv(r)'
  <2>1. Opened(r)' = {}
    BY <1>n DEF Opened, NoHist
  <2>2. hist'[r].switches = 0
    BY <1>n DEF NoHist
  <2>3. \A S : {} \ S = {}
    OBVIOUS
  <2>4. IsFiniteSet({}) /\ Cardinality({}) = 0
    BY FS_EmptySet
  <2>. HIDE DEF Opened
  <2>5. Cardinality(Opened(r)' \ {plan'[r][1].dep}) = 0
    BY <2>1, <2>3, <2>4
  <2>. QED BY <2>1, <2>2, <2>4, <2>5 DEF SwitchInv
<1>a. ASSUME Moved(r), SameLog(r), hist'[r].switches = hist[r].switches,
             pos[r] <= Len(plan[r]), pc[r] \notin {"execute", "done"}
      PROVE  SwitchInv(r)'
  <2>1. NextPos(r) \in Nat /\ NextPos(r) > pos[r]
    BY <1>0, <1>a, MoveFacts
  <2>2. pos'[r] = NextPos(r) /\ plan'[r] = plan[r] /\ ~Holding(r)'
    BY <1>a DEF Moved, Holding
  <2>. QED BY <1>0, <1>a, <1>h, <2>1, <2>2, SwitchSame
<1>b. ASSUME Stayed(r), SameLog(r), hist'[r].switches = hist[r].switches,
             pc[r] \notin {"execute", "done"}, pc'[r] # "execute"
      PROVE  SwitchInv(r)'
  <2>1. /\ pos'[r] = pos[r] /\ plan'[r] = plan[r] /\ outcome'[r] = outcome[r]
        /\ ~Holding(r)'
    BY <1>b, <1>h DEF Stayed, Holding
  <2>. QED BY <1>0, <1>b, <1>h, <2>1, SwitchSame
<1>1. CASE Begins(r)
  <2>1. ~Holding(r)' /\ hist'[r] = NoHist
    BY <1>1 DEF Begins, Holding, PlanInv
  <2>. QED BY <1>n, <2>1
<1>2. CASE Plans(r)
  <2>1. ~Holding(r)' /\ hist'[r] = NoHist
    BY <1>2 DEF Plans, Holding, PlanInv
  <2>. QED BY <1>n, <2>1
<1>3. CASE Looks(r)
  BY <1>3, <1>a, <1>b DEF Looks
<1>4. CASE Stays(r)
  BY <1>4, <1>b DEF Stays, SameHist
<1>5. CASE Moves(r)
  <2>1. pos[r] <= Len(plan[r]) /\ pc[r] \notin {"execute", "done"}
    BY <1>5 DEF Moves, LoopInv
  <2>. QED BY <1>5, <1>a, <2>1 DEF Moves, SameHist
<1>6. CASE Acquires(r)
  <2>1. /\ pc[r] = "acquire" /\ pos[r] \in 1..Len(plan[r]) /\ outcome[r] = "none"
        /\ dep(r) = plan[r][pos[r]].dep
    <3>1. pc[r] = "acquire" /\ pos[r] <= Len(plan[r]) /\ outcome[r] = "none"
      BY <1>6 DEF Acquires, LoopInv, PlanInv
    <3>. QED BY <3>1, HerePlanned
  <2>2. /\ plan'[r] = plan[r] /\ pos'[r] = pos[r] /\ pc'[r] = "execute"
        /\ Holding(r)' /\ dep(r)' = dep(r) /\ at(r)' = at(r) /\ SameLog(r)
    BY <1>6 DEF Acquires, Stayed, Holding, dep, at
  <2>. DEFINE new == IF at(r).index = 0 THEN {dep(r)} ELSE {}
  <2>3. Opened(r)' = Opened(r) \cup new
    BY <1>h, <2>1, <2>2 DEF Opened, SameLog
  <2>. DEFINE A == Opened(r)
              f == plan[r][1].dep
  <2>4. /\ IsFiniteSet(A)
        /\ \A d \in A : \E i \in 1..Len(plan[r]) :
             plan[r][i].dep = d /\ i < pos[r]
        /\ plan[r] # <<>> => hist[r].switches = Cardinality(A \ {f})
    BY <2>1 DEF SwitchInv
  <2>5. /\ IsSwitch(r) <=> at(r).index = 0 /\ dep(r) # f
        /\ at(r).index = 0 => dep(r) \notin A
    BY <2>1, SwitchIsNew
  <2>6. hist'[r].switches = IF IsSwitch(r) THEN hist[r].switches + 1
                                           ELSE hist[r].switches
    BY <1>6 DEF Acquires
  <2>. HIDE DEF A, f
  <2>7. IsFiniteSet(A \cup new)
    <3>1. IsFiniteSet(A \cup {dep(r)})
      BY <2>4, FS_AddElement
    <3>. QED BY <2>4, <3>1
  <2>8. \A d \in A \cup new : \E i \in 1..Len(plan[r]) :
          plan[r][i].dep = d /\ (i < pos[r] \/ i = pos[r])
    BY <2>1, <2>4
  <2>9. ASSUME plan[r] # <<>>
        PROVE  hist'[r].switches = Cardinality((A \cup new) \ {f})
    <3>1. IsFiniteSet(A \ {f}) /\ Cardinality(A \ {f}) \in Nat
      BY <2>4, FS_Subset, FS_CardinalityType
    <3>2. CASE IsSwitch(r)
      <4>1. (A \cup new) \ {f} = (A \ {f}) \cup {dep(r)} /\ dep(r) \notin A \ {f}
        BY <2>5, <3>2
      <4>2. Cardinality((A \ {f}) \cup {dep(r)}) = Cardinality(A \ {f}) + 1
        BY <3>1, <4>1, FS_AddElement
      <4>3. /\ hist'[r].switches = hist[r].switches + 1
            /\ hist[r].switches = Cardinality(A \ {f})
        BY <2>4, <2>6, <2>9, <3>2
      <4>. QED BY <4>1, <4>2, <4>3, Zenon
    <3>3. CASE ~IsSwitch(r)
      <4>1. (A \cup new) \ {f} = A \ {f}
        BY <2>5, <3>3
      <4>2. hist'[r].switches = Cardinality(A \ {f})
        BY <2>4, <2>6, <2>9, <3>3
      <4>. QED BY <4>1, <4>2, Zenon
    <3>. QED BY <3>2, <3>3
  <2>10. Opened(r)' = A \cup new /\ plan'[r][1].dep = f
    BY <2>2, <2>3 DEF A, f
  <2>. HIDE DEF Opened, new
  <2>. QED BY <2>2, <2>7, <2>8, <2>9, <2>10 DEF SwitchInv
<1>7. ASSUME NEW o \in AllOutcomes \ {"panic"}, NEW w \in BOOLEAN, Answers(r, o, w)
      PROVE  SwitchInv(r)'
  <2>1. pc[r] = "execute" /\ Holding(r) /\ outcome[r] = "none"
    BY <1>7 DEF Answers, Holding, PlanInv
  <2>2. /\ plan'[r] = plan[r] /\ pos'[r] = pos[r] /\ outcome'[r] # "none"
        /\ ~Holding(r)' /\ hist'[r].switches = hist[r].switches
    BY <1>7 DEF Answers, Holding, AfterFailure, AllOutcomes
  <2>3. Opened(r)' = Opened(r)
    <3>. DEFINE log == hist[r].log
                e == LogEntry(r, o)
                new == IF at(r).index = 0 THEN {dep(r)} ELSE {}
    <3>1. /\ log \in Seq(LogEntries) /\ hist'[r].log = Append(log, e)
          /\ e.dep = dep(r) /\ e.index = at(r).index
      BY <1>7 DEF HistType, Hist, Answers, LogEntry
    <3>. HIDE DEF log, e
    <3>2. /\ DOMAIN log = 1..Len(log) /\ Len(log) \in Nat
          /\ DOMAIN Append(log, e) = 1..(Len(log) + 1)
          /\ Append(log, e)[Len(log) + 1] = e
          /\ \A i \in 1..Len(log) : Append(log, e)[i] = log[i]
      BY <3>1
    <3>3. {Append(log, e)[k].dep :
             k \in {i \in DOMAIN Append(log, e) : Append(log, e)[i].index = 0}}
            = {log[k].dep : k \in {i \in DOMAIN log : log[i].index = 0}} \cup new
      <4>1. 1..(Len(log) + 1) = 1..Len(log) \cup {Len(log) + 1}
        BY <3>2
      <4>. QED BY <3>1, <3>2, <4>1
    <3>4. Opened(r) = {log[k].dep : k \in {i \in DOMAIN log : log[i].index = 0}} \cup new
      BY <2>1 DEF Opened, log
    <3>5. Opened(r)' = {Append(log, e)[k].dep :
                          k \in {i \in DOMAIN Append(log, e) : Append(log, e)[i].index = 0}}
      BY <2>2, <3>1 DEF Opened
    <3>. QED BY <3>3, <3>4, <3>5
  <2>4. \A d \in Opened(r) : \E i \in 1..Len(plan[r]) :
          plan[r][i].dep = d /\ (i < pos[r] \/ i = pos[r])
    BY DEF SwitchInv
  <2>. HIDE DEF Opened
  <2>. QED BY <2>2, <2>3, <2>4 DEF SwitchInv
<1>8. CASE Panics(r)
  <2>1. pc[r] = "execute" /\ Holding(r) /\ outcome[r] = "none"
    BY <1>8 DEF Panics, Holding, PlanInv
  <2>2. /\ plan'[r] = plan[r] /\ pos'[r] = pos[r] /\ outcome'[r] # "none"
        /\ Holding(r)' /\ dep(r)' = dep(r) /\ at(r)' = at(r) /\ SameLog(r)
        /\ hist'[r].switches = hist[r].switches
    BY <1>8 DEF Panics, Holding, SameHist, dep, at
  <2>3. Opened(r)' = Opened(r)
    BY <2>1, <2>2 DEF Opened, SameLog
  <2>4. \A d \in Opened(r) : \E i \in 1..Len(plan[r]) :
          plan[r][i].dep = d /\ (i < pos[r] \/ i = pos[r])
    BY DEF SwitchInv
  <2>. HIDE DEF Opened
  <2>. QED BY <2>2, <2>3, <2>4 DEF SwitchInv
<1>9. CASE Charges(r)
  <2>1. pos[r] <= Len(plan[r]) /\ pc[r] \notin {"execute", "done"}
    BY <1>9 DEF Charges, LoopInv
  <2>. QED BY <1>9, <1>a, <1>b, <2>1 DEF Charges
<1>. QED BY <1>1, <1>2, <1>3, <1>4, <1>5, <1>6, <1>7, <1>8, <1>9 DEF OneOf

----------------------------------------------------------------------------
(* The contracts. *)

\* What a step does not touch keeps its part.
LEMMA ContractsFrame ==
  ASSUME NEW q \in Requests, ContractInv(q), plan'[q] = plan[q], pos'[q] = pos[q],
         prev'[q] = prev[q], outcome'[q] = outcome[q], todo'[q] = todo[q],
         pc'[q] = pc[q], hist'[q] = hist[q]
  PROVE  ContractInv(q)'
<1>1. PlanInv(q)'
  BY DEF ContractInv, PlanInv
<1>2. PassedInv(q)'
  BY DEF ContractInv, PassedInv, dep, at
<1>3. ClosedInv(q)'
  BY DEF ContractInv, ClosedInv, Upcoming, NextPos, at
<1>4. SupplierFailures(q, dep(q))' = SupplierFailures(q, dep(q))
  BY DEF SupplierFailures, dep, at
<1>5. \A d : SupplierFailures(q, d)' = SupplierFailures(q, d)
  BY DEF SupplierFailures
<1>6. (Due(q)' <=> Due(q)) /\ dep(q)' = dep(q)
  BY DEF Due, dep, at
<1>7. ChargeInv(q)'
  <2>. HIDE DEF SupplierFailures, Due, dep
  <2>. QED BY <1>4, <1>5, <1>6 DEF ContractInv, ChargeInv
<1>8. Opened(q)' = Opened(q)
  BY DEF Opened, Holding, dep, at
<1>9. SwitchInv(q)'
  <2>. HIDE DEF Opened
  <2>. QED BY <1>8 DEF ContractInv, SwitchInv
<1>. QED BY <1>1, <1>2, <1>3, <1>7, <1>9 DEF ContractInv

LEMMA ContractsInit ==
  ASSUME Init
  PROVE  Contracts
<1>. SUFFICES ASSUME NEW r \in Requests PROVE ContractInv(r)
  BY DEF Contracts
<1>1. /\ pc[r] = "idle" /\ plan[r] = <<>> /\ pos[r] = 1 /\ outcome[r] = "none"
      /\ prev[r] = NoDep /\ hist[r] = NoHist /\ Len(plan[r]) = 0
  BY DEF Init
<1>2. PlanInv(r)
  BY <1>1 DEF PlanInv, PlanShape
<1>3. PassedInv(r)
  BY <1>1 DEF PassedInv, OnAttempt
<1>4. ClosedInv(r)
  <2>1. Len(hist[r].log) = 0
    BY <1>1 DEF NoHist
  <2>. QED BY <2>1 DEF ClosedInv
<1>5. ChargeInv(r)
  <2>1. \A d : SupplierFailures(r, d) = {}
    BY <1>1 DEF NoHist, SupplierFailures
  <2>2. ~Due(r)
    BY <1>1 DEF Due
  <2>3. \A d \in Deployments : hist[r].charged[d] = 0
    BY <1>1 DEF NoHist
  <2>. QED BY <1>1, <2>1, <2>2, <2>3 DEF ChargeInv
<1>6. SwitchInv(r)
  <2>1. Opened(r) = {}
    BY <1>1 DEF Opened, NoHist, Holding
  <2>2. IsFiniteSet({})
    BY FS_EmptySet
  <2>. HIDE DEF Opened
  <2>. QED BY <1>1, <2>1, <2>2 DEF SwitchInv
<1>. QED BY <1>2, <1>3, <1>4, <1>5, <1>6 DEF ContractInv

LEMMA ContractsStep ==
  ASSUME ConstantsAssumption, IInv, WriterInv, Contracts, [Next]_vars
  PROVE  Contracts'
<1>. USE DEF IInv, WriterInv
<1>1. ASSUME NEW r \in Requests, Begin(r) \/ Step(r)
      PROVE  Contracts'
  <2>1. Frame(r) /\ OneOf(r)
    BY <1>1, StepFrame, StepKinds
  <2>2. PlanInv(r) /\ PassedInv(r) /\ ClosedInv(r) /\ ChargeInv(r) /\ SwitchInv(r)
    BY DEF Contracts, ContractInv
  <2>3. PlanInv(r)' /\ PassedInv(r)'
    BY <2>1, <2>2, PlanKept, PassedKept
  <2>4. ClosedInv(r)' /\ ChargeInv(r)' /\ SwitchInv(r)'
    BY <2>1, <2>2, ClosedKept, ChargeKept, SwitchKept
  <2>5. ContractInv(r)'
    BY <2>3, <2>4 DEF ContractInv
  <2>6. ASSUME NEW q \in Requests, q # r
        PROVE  ContractInv(q)'
    <3>1. ContractInv(q)
      BY DEF Contracts
    <3>2. /\ plan'[q] = plan[q] /\ pos'[q] = pos[q] /\ prev'[q] = prev[q]
          /\ outcome'[q] = outcome[q] /\ todo'[q] = todo[q] /\ pc'[q] = pc[q]
          /\ hist'[q] = hist[q]
      BY <2>1, <2>6 DEF Frame
    <3>. QED BY <3>1, <3>2, ContractsFrame
  <2>. QED BY <2>5, <2>6 DEF Contracts
<1>2. CASE UNCHANGED <<localVars, hist>>
  <2>1. ASSUME NEW q \in Requests PROVE ContractInv(q)'
    BY <1>2, <2>1, ContractsFrame DEF Contracts, localVars
  <2>. QED BY <2>1 DEF Contracts
<1>3. CASE Environment
  <2>1. UNCHANGED <<localVars, hist>>
    BY <1>3 DEF Environment, CooldownLapse, HealthFlip, ResetDeployment,
       ResetCooldown, ResetModels, ModelLapse, ChannelFlip, NewDay
  <2>. QED BY <1>2, <2>1
<1>4. CASE UNCHANGED vars
  BY <1>2, <1>4 DEF vars
<1>. QED BY <1>1, <1>3, <1>4 DEF Next, AllServed

\* The bookkeeping of one request (what it has passed, closed, charged and switched)
\* agrees with the history of its attempts in every reachable state.
THEOREM ContractsHold == Spec => []Contracts
<1>1. Init => Contracts
  BY ContractsInit
<1>2. IInv /\ WriterInv /\ Contracts /\ [Next]_vars => Contracts'
  BY ContractsStep, ConstantsAssumption
<1>. QED BY <1>1, <1>2, Invariance, WriterInvariance, PTL DEF Spec

\* Contract 2 of relay.go, for any number of requests and deployments, any plans and
\* any answers: a request charges a supplier once for the failures of the supplier,
\* and not for a 429 after which it goes on to another model.
THEOREM SupplierCharged == Spec => []SupplierChargedOnce
<1>1. ASSUME HistType, Contracts, NEW r \in Requests, NEW d \in Deployments
      PROVE  /\ Cardinality(SupplierFailures(r, d)) <= 1
             /\ pc[r] \in {"check", "done"} =>
                  hist[r].charged[d] = Cardinality(SupplierFailures(r, d))
  <2>. DEFINE F == SupplierFailures(r, d)
  <2>1. ContractInv(r)
    BY <1>1 DEF Contracts
  <2>2. ASSUME NEW j \in F, NEW k \in F, j # k
        PROVE  FALSE
    <3>1. /\ j \in 1..Len(hist[r].log) /\ k \in 1..Len(hist[r].log)
          /\ hist[r].log[j].dep = d /\ hist[r].log[k].dep = d
          /\ Closing(hist[r].log[j]) /\ Closing(hist[r].log[k])
      BY <1>1, FailuresClose
    <3>2. j < k \/ k < j
      BY <2>2, <3>1
    <3>. QED BY <2>1, <3>1, <3>2 DEF ContractInv, ClosedInv
  <2>3. pc[r] \in {"check", "done"} => hist[r].charged[d] = IF F = {} THEN 0 ELSE 1
    <3>1. pc[r] \in {"check", "done"} => ~Due(r)
      BY DEF Due
    <3>. QED BY <2>1, <3>1 DEF ContractInv, ChargeInv
  <2>. HIDE DEF F
  <2>4. Cardinality(F) = IF F = {} THEN 0 ELSE 1
    <3>1. CASE F = {}
      BY <3>1, FS_EmptySet
    <3>2. CASE F # {}
      <4>1. PICK k \in F : TRUE
        BY <3>2
      <4>2. F = {k}
        BY <2>2, <4>1
      <4>. QED BY <3>2, <4>2, FS_Singleton
    <3>. QED BY <3>1, <3>2
  <2>. QED BY <2>3, <2>4 DEF F
<1>2. WriterInv /\ Contracts => SupplierChargedOnce
  BY <1>1 DEF SupplierChargedOnce, WriterInv
<1>. QED BY <1>2, ContractsHold, WriterInvariance, PTL

\* Contract 3: after a failure that is not a 429 nothing more is sent to the
\* deployment, whatever models of it were planned.
THEOREM HardFailureEnds == Spec => []HardFailureEndsDeployment
<1>1. ASSUME HistType, Contracts, NEW r \in Requests,
             NEW j \in DOMAIN hist[r].log, NEW k \in DOMAIN hist[r].log,
             j < k, hist[r].log[j].out \in Failures \ {"rate429"}
      PROVE  hist[r].log[k].dep # hist[r].log[j].dep
  <2>1. hist[r].log \in Seq(LogEntries)
    BY <1>1 DEF HistType, Hist
  <2>2. j \in 1..Len(hist[r].log) /\ k \in 1..Len(hist[r].log)
    BY <1>1, <2>1
  <2>3. Closing(hist[r].log[j])
    BY <1>1 DEF Closing, Confirmed429
  <2>4. ClosedInv(r)
    BY <1>1 DEF Contracts, ContractInv
  <2>. QED BY <1>1, <2>2, <2>3, <2>4 DEF ClosedInv
<1>2. WriterInv /\ Contracts => HardFailureEndsDeployment
  BY <1>1 DEF HardFailureEndsDeployment, WriterInv
<1>. QED BY <1>2, ContractsHold, WriterInvariance, PTL

\* Skipping the models that are left lands on the next deployment of the plan.
THEOREM NobodyPassedOver == Spec => []NoDeploymentPassedOver
<1>1. ASSUME TypeOK, Contracts, NEW r \in Requests, NEW i \in DOMAIN plan[r],
             i < pos[r]
      PROVE  plan[r][i].dep \in hist[r].visited
  <2>1. plan[r] \in Seq(Attempt)
    BY <1>1 DEF TypeOK
  <2>2. i \in 1..Len(plan[r])
    BY <2>1
  <2>. QED BY <1>1, <2>2 DEF Contracts, ContractInv, PassedInv
<1>2. TypeOK /\ Contracts => NoDeploymentPassedOver
  BY <1>1 DEF NoDeploymentPassedOver
<1>. QED BY <1>2, ContractsHold, TypeCorrect, PTL

\* Contract 4, for any plan: a switch is counted exactly when the first planned
\* attempt of a deployment other than the first planned one is sent, so rotating the
\* models of a deployment is none.
THEOREM SwitchesAreChanges == Spec => []SwitchOnlyOnDeploymentChange
<1>1. Contracts => SwitchOnlyOnDeploymentChange
  BY DEF Contracts, ContractInv, SwitchInv, SwitchOnlyOnDeploymentChange
<1>. QED BY <1>1, ContractsHold, PTL

\* Contracts 1 and 2 over the stored state: the loop marks a deployment after it has
\* charged it, or for a reason it found before the attempt.
THEOREM MarksAreCharged == Spec => MarkNeedsCharge
<1>. DEFINE A == \A d \in Deployments :
                   \/ cooldown[d] = "free" /\ cooldown'[d] # "free"
                   \/ d \in exhausted' \ exhausted
                   => \E r \in Requests :
                        /\ pc[r] = "save" /\ dep(r) = d
                        /\ (hist[r].charged[d] = 1 \/ outcome[r] = "none")
<1>1. ASSUME IInv, Contracts, [Next]_vars
      PROVE  [A]_vars
  <2>. SUFFICES ASSUME NEW d \in Deployments,
                       \/ cooldown[d] = "free" /\ cooldown'[d] # "free"
                       \/ d \in exhausted' \ exhausted
                PROVE  \E r \in Requests :
                         /\ pc[r] = "save" /\ dep(r) = d
                         /\ (hist[r].charged[d] = 1 \/ outcome[r] = "none")
    OBVIOUS
  <2>t. TypeOK /\ LoopInv
    BY <1>1 DEF IInv
  <2>1. \E r \in Requests : SaveMark(r)
    <3>1. ~(UNCHANGED <<cooldown, exhausted>>)
      OBVIOUS
    <3>2. ~Environment
      <4>1. ASSUME NEW e \in Deployments,
                   \/ CooldownLapse(e) \/ HealthFlip(e) \/ ResetDeployment(e)
                   \/ ResetCooldown(e) \/ ResetModels(e)
            PROVE  FALSE
        BY <2>t, <4>1 DEF TypeOK, CooldownLapse, HealthFlip, ResetDeployment,
           ResetCooldown, ResetModels, depVars
      <4>2. ASSUME NEW e \in Deployments, NEW m \in Models, ModelLapse(e, m)
            PROVE  FALSE
        BY <3>1, <4>2 DEF ModelLapse, depVars
      <4>3. ASSUME NEW c \in Channels, ChannelFlip(c)
            PROVE  FALSE
        BY <3>1, <4>3 DEF ChannelFlip, depVars
      <4>4. ~NewDay
        BY DEF NewDay
      <4>. QED BY <4>1, <4>2, <4>3, <4>4 DEF Environment
    <3>3. ASSUME NEW r \in Requests, Begin(r) \/ Step(r), ~SaveMark(r)
          PROVE  FALSE
      BY <3>1, <3>3 DEF Begin, Step, PlanDeployment, SkipUnavailable, SkipModelState,
         PassAvailable, CheckChannel, SkipQuota, SkipConcurrency, Acquire, Execute,
         ExecuteOk, ExecuteBadTools, ExecuteFails, ExecutePanics, SetSticky, Account,
         MarkFalsePositive, MarkModel, Charge, ClearStickyForDeployment, AllFailed,
         sharedVars, depVars
    <3>. QED BY <1>1, <3>1, <3>2, <3>3 DEF Next, AllServed, vars, sharedVars, depVars
  <2>2. PICK r \in Requests : SaveMark(r)
    BY <2>1
  <2>3. pc[r] = "save" /\ pos[r] <= Len(plan[r]) /\ dep(r) \in Deployments
    <3>1. pc[r] = "save" /\ pos[r] <= Len(plan[r])
      BY <2>t, <2>2 DEF SaveMark, LoopInv, OnAttempt
    <3>. QED BY <2>t, <3>1, HerePlanned
  <2>4. dep(r) = d
    BY <2>t, <2>2, <2>3 DEF SaveMark, TypeOK
  <2>5. outcome[r] = "none" \/ SupplierFailures(r, dep(r)) # {}
    BY <1>1, <2>3 DEF Contracts, ContractInv, ChargeInv
  <2>6. ~Due(r)
    BY <2>3 DEF Due
  <2>7. hist[r].charged[d] = IF SupplierFailures(r, d) = {} THEN 0 ELSE 1
    BY <1>1, <2>6 DEF Contracts, ContractInv, ChargeInv
  <2>8. outcome[r] = "none" \/ SupplierFailures(r, d) # {}
    BY <2>4, <2>5
  <2>. QED BY <2>3, <2>4, <2>7, <2>8
<1>2. IInv /\ Contracts /\ [Next]_vars => [A]_vars
  BY <1>1
<1>. HIDE DEF A
<1>3. Spec => [][A]_vars
  BY <1>2, Invariance, ContractsHold, PTL DEF Spec
<1>. QED BY <1>3 DEF A, MarkNeedsCharge
=============================================================================
