---------------------------- MODULE FallbackRelay ----------------------------
(***************************************************************************)
(* The multi-deployment fallback loop of the gateway: relayWithFallbackUsing *)
(* in controller/relay.go with the request planner (fallback/orchestrator.go, *)
(* fallback/free_provider_model_plan.go) and the process-wide state it reads *)
(* and writes (fallback/state.go, concurrency.go, cooldown.go,             *)
(* relay_decision.go, free_provider_model_runtime.go).                     *)
(*                                                                         *)
(* Every request is a goroutine.  One action is one access to shared state *)
(* (a database row, a map behind its mutex, a slot counter) with the local *)
(* work around it, so the requests interleave where the goroutines do.     *)
(*                                                                         *)
(* Abstractions.  Times are ordered classes: a cooldown row is free, short *)
(* (at most 300 s), long (24 h) or of 24 h for a daily token limit, which  *)
(* is what its stored reason says, and lapses at any moment.  Scores only  *)
(* order the plan, so the planner picks any order.  Upstream answers are   *)
(* the classes ClassifyRelayError tells apart.  The counters that only     *)
(* other modules read (RecordDeploymentError, RecordFailure, RecordUsage)  *)
(* are no state here; charged in hist says when they are called.           *)
(*                                                                         *)
(* An operator named Mutant... is a wrong version of the definition after   *)
(* it, a bug the code could plausibly have.  No action uses one: it is put  *)
(* in place of that definition to see the property meant to catch the bug   *)
(* fail.                                                                   *)
(***************************************************************************)
EXTENDS Naturals, Sequences, FiniteSets

CONSTANTS
  Requests,        \* client requests; each is served once
  Deployments,     \* deployments of the virtual models' pools
  Kilo,            \* the automatically generated Kilo deployments
  Models,          \* catalog positions of a Kilo deployment's models; the
                   \* configured model comes first
  Channels,        \* upstream channels
  ChannelOf,       \* the channel of each deployment
  VirtualModels,   \* virtual models, each backed by all the deployments
  VirtualModelOf,  \* the virtual model a request names
  Preferred,       \* the configured preferred deployment, or NoDep
  MaxConcurrent,   \* max_concurrent_requests; 0 means no limit
  Limited,         \* deployments with a daily token limit
  QuotaLimited,    \* deployments with RPM/RPD/TPM/TPD limits
  Doubao,          \* deployments IsDoubaoDeployment recognises
  ToolRequests,    \* requests that carry tools
  StreamRequests,  \* requests that stream
  Outcomes,        \* upstream outcomes an instance explores
  EnvEvents,       \* environment events an instance explores
  NoDep            \* the empty deployment id

AllOutcomes ==
  {"ok", "badTools", "rate429", "rateSoft", "temporary", "quota", "denied",
   "notFound", "client", "panic"}

\* The upstream answers that are failures of the attempt.
Failures == AllOutcomes \ {"ok", "badTools", "panic"}

AllEnvEvents ==
  {"cooldownLapse", "modelLapse", "health", "channel", "recover", "newDay"}

ASSUME ConstantsAssumption ==
  /\ IsFiniteSet(Requests)
  /\ Kilo \subseteq Deployments
  /\ Models \subseteq Nat \ {0}
  /\ IsFiniteSet(Models)
  /\ ChannelOf \in [Deployments -> Channels]
  /\ VirtualModelOf \in [Requests -> VirtualModels]
  /\ NoDep \notin Deployments
  /\ Preferred \in Deployments \cup {NoDep}
  /\ MaxConcurrent \in [Deployments -> Nat]
  /\ Limited \subseteq Deployments
  /\ QuotaLimited \subseteq Deployments
  /\ Doubao \subseteq Deployments
  /\ ToolRequests \subseteq Requests
  /\ StreamRequests \subseteq Requests
  /\ Outcomes \subseteq AllOutcomes
  /\ EnvEvents \subseteq AllEnvEvents

VARIABLES
  pc,           \* where each request's goroutine is
  plan,         \* modelAttempts of the request
  pos,          \* the loop index i, from 1
  todo,         \* deployments the planner has still to flatten
  first,        \* preferred or sticky deployment read by the planner
  outcome,      \* what the current upstream attempt returned
  marks,        \* deployment state writes still due for this failure
  cooldown,     \* deployment_cooldown_states row
  exhausted,    \* ExhaustedUntil of the deployment_states row lies ahead
  overLimit,    \* used tokens reached the soft or hard daily limit
  channelUp,    \* channels whose status is enabled
  healthy,      \* deployments the health checker lets through
  recovering,   \* what a manual recovery has still to clear
  inFlight,     \* perDeploymentLock.inFlight
  sticky,       \* stickyDep: virtual model -> deployment
  cooling,      \* <<deployment, model>> pairs in a 429 cooldown
  falsePos,     \* <<deployment, model>> pairs marked unfit for tools
  prev,         \* prevDeployment of the request
  hist          \* what has happened to each request so far (history)

localVars  == <<pc, plan, pos, todo, first, outcome, marks, prev>>
depVars    == <<cooldown, exhausted, overLimit>>
envVars    == <<channelUp, healthy, recovering>>
modelVars  == <<cooling, falsePos>>
sharedVars == <<depVars, envVars, modelVars, inFlight, sticky>>
vars       == <<localVars, sharedVars, hist>>

----------------------------------------------------------------------------
(* Attempts and plans. *)

NoModel == 0

Attempt == [dep : Deployments, model : Models \cup {NoModel}, index : Nat,
            count : Nat, rotatable : BOOLEAN, skip : BOOLEAN]

RemainingModelAttempts(a) ==
  IF a.rotatable /\ a.count > a.index + 1 THEN a.count - a.index - 1 ELSE 0

HasNextModel(a) == a.rotatable /\ RemainingModelAttempts(a) > 0

\* The catalog models of a Kilo deployment that are neither cooling nor, for a
\* request with tools, marked as a tools false positive.
AvailableModels(r, d) ==
  {m \in Models : /\ <<d, m>> \notin cooling
                  /\ r \in ToolRequests => <<d, m>> \notin falsePos}

Single(d) == [dep |-> d, model |-> NoModel, index |-> 0, count |-> 1,
              rotatable |-> FALSE, skip |-> FALSE]

AllModelsUnavailable(d) == [dep |-> d, model |-> NoModel, index |-> 0,
                            count |-> 0, rotatable |-> TRUE, skip |-> TRUE]

\* The (one) enumeration of a set of models in catalog order.
InCatalogOrder(S) ==
  {f \in [1..Cardinality(S) -> S] :
     \A i, j \in 1..Cardinality(S) : i < j => f[i] < f[j]}

\* One attempt per model, in the order f gives them.
KiloBlock(d, f, n) ==
  [i \in 1..n |-> [dep |-> d, model |-> f[i], index |-> i - 1,
                   count |-> n, rotatable |-> TRUE, skip |-> FALSE]]

\* A Kilo deployment of which no catalog is stored has one attempt, with its
\* configured model, and does not rotate.
Uncatalogued(d) ==
  {[Single(d) EXCEPT !.model = m] : m \in {c \in Models : \A n \in Models : c <= n}}

\* The attempts one deployment contributes.  An ordinary deployment has one
\* attempt; a Kilo deployment one per available model, or a single attempt with
\* a skip reason when every model is unavailable.  The synchronisation of the
\* catalogs, which is not part of this module, may have stored one or not.
Blocks(r, d) ==
  LET avail == AvailableModels(r, d)
  IN IF d \notin Kilo THEN {<<Single(d)>>}
     ELSE {<<a>> : a \in Uncatalogued(d)} \cup
          IF avail = {} THEN {<<AllModelsUnavailable(d)>>}
          ELSE {KiloBlock(d, f, Cardinality(avail)) : f \in InCatalogOrder(avail)}

at(r)  == plan[r][pos[r]]
dep(r) == at(r).dep

\* relay.go buffers a non-streaming tools response of a Kilo deployment so that
\* the tool calls can be validated before the client sees them.
Buffered(r) == r \in ToolRequests \ StreamRequests /\ dep(r) \in Kilo

----------------------------------------------------------------------------
(* Decisions on a failed attempt. *)

\* HTTP 429 classified as a rate limit.
Confirmed429(o) == o = "rate429"

\* DecideDeploymentModelAttempt.
RecordsModelRateLimit(a, o) == a.rotatable /\ Confirmed429(o)

MutantRotates(a, o) == FALSE
Rotates(a, o) == RecordsModelRateLimit(a, o) /\ HasNextModel(a)

MutantSkipsRemaining(a, o) == FALSE
SkipsRemaining(a, o) ==
  a.rotatable /\ o \in Failures /\ ~Confirmed429(o) /\ HasNextModel(a)

ShouldFallback(o) == o # "client"

\* ApplyRelayCooldown, and the Doubao write that follows a quota error.
CooldownMarks(d, o) ==
  CASE o \in {"rate429", "rateSoft", "temporary"} -> <<"short">>
    [] o = "denied" -> <<"long">>
    [] o = "quota"  -> IF d \in Doubao THEN <<"exhausted", "long">>
                                       ELSE <<"exhausted">>
    [] OTHER        -> <<>>

----------------------------------------------------------------------------
(* History of a request, for the properties only. *)

(* log: the answered upstream attempts.  wrote: which of them put bytes on *)
(* the client's connection.  charged: supplier-level failures recorded.     *)
(* visited: deployments the loop looked at.  reply: how the request ended.  *)

NoHist == [log |-> <<>>, wrote |-> {},
           charged |-> [d \in Deployments |-> 0], visited |-> {},
           switches |-> 0, reply |-> "none"]

\* Type invariant.  Every variable keeps its type: the loop index stays positive
\* and the in-flight counters never go below zero, though every action that
\* moves them subtracts (relay.go's i, concurrency.go's inFlight).
TypeOK ==
  /\ pc \in [Requests -> {"idle", "plan", "check", "channel", "acquire",
                          "execute", "success", "account", "invalid", "model",
                          "charge", "save", "unstick", "done"}]
  /\ plan \in [Requests -> Seq(Attempt)]
  /\ pos \in [Requests -> Nat \ {0}]
  /\ todo \in [Requests -> SUBSET Deployments]
  /\ first \in [Requests -> Deployments \cup {NoDep}]
  /\ outcome \in [Requests -> AllOutcomes \cup {"none"}]
  /\ marks \in [Requests -> Seq({"short", "long", "limit", "exhausted"})]
  /\ prev \in [Requests -> Deployments \cup {NoDep}]
  /\ cooldown \in [Deployments -> {"free", "short", "long", "limit"}]
  /\ exhausted \subseteq Deployments
  /\ overLimit \subseteq Deployments
  /\ channelUp \subseteq Channels
  /\ healthy \subseteq Deployments
  /\ recovering \in [Deployments -> {"none", "cooldown", "models", "falsePos"}]
  /\ inFlight \in [Deployments -> Nat]
  /\ sticky \in [VirtualModels -> Deployments \cup {NoDep}]
  /\ cooling \subseteq Deployments \X Models
  /\ falsePos \subseteq Deployments \X Models

Init ==
  /\ pc = [r \in Requests |-> "idle"]
  /\ plan = [r \in Requests |-> <<>>]
  /\ pos = [r \in Requests |-> 1]
  /\ todo = [r \in Requests |-> {}]
  /\ first = [r \in Requests |-> NoDep]
  /\ outcome = [r \in Requests |-> "none"]
  /\ marks = [r \in Requests |-> <<>>]
  /\ prev = [r \in Requests |-> NoDep]
  /\ cooldown = [d \in Deployments |-> "free"]
  /\ exhausted = {}
  /\ overLimit = {}
  /\ channelUp = Channels
  /\ healthy = Deployments
  /\ recovering = [d \in Deployments |-> "none"]
  /\ inFlight = [d \in Deployments |-> 0]
  /\ sticky = [v \in VirtualModels |-> NoDep]
  /\ cooling = {}
  /\ falsePos = {}
  /\ hist = [r \in Requests |-> NoHist]

----------------------------------------------------------------------------
(* Planning: PrepareDeploymentPlanForRequest and                           *)
(* PrepareDeploymentModelAttempts, which flattens one deployment at a time. *)

Goto(r, l) == pc' = [pc EXCEPT ![r] = l]

Begin(r) ==
  /\ pc[r] = "idle"
  /\ first' = [first EXCEPT ![r] = IF Preferred # NoDep THEN Preferred
                                   ELSE sticky[VirtualModelOf[r]]]
  /\ todo' = [todo EXCEPT ![r] = healthy]
  /\ Goto(r, IF healthy = {} THEN "check" ELSE "plan")
  /\ UNCHANGED <<plan, pos, outcome, marks, prev, sharedVars, hist>>

PlanDeployment(r, d) ==
  /\ pc[r] = "plan"
  /\ d \in todo[r]
  /\ first[r] \in todo[r] => d = first[r]
  /\ \E block \in Blocks(r, d) : plan' = [plan EXCEPT ![r] = @ \o block]
  /\ todo' = [todo EXCEPT ![r] = @ \ {d}]
  /\ Goto(r, IF todo[r] = {d} THEN "check" ELSE "plan")
  /\ UNCHANGED <<pos, first, outcome, marks, prev, sharedVars, hist>>

----------------------------------------------------------------------------
(* The checks before an upstream attempt. *)

InLoop(r) == pos[r] <= Len(plan[r])

\* The loop's continue: prevDeployment is this deployment, and i moves past
\* the Kilo models a non-429 failure gives up on.
MutantNextPosBeyond(r) ==
  pos[r] + 1 + IF SkipsRemaining(at(r), outcome[r])
               THEN RemainingModelAttempts(at(r)) + 1 ELSE 0
MutantNextPosStuck(r) ==
  IF outcome[r] = "none" THEN pos[r]
  ELSE pos[r] + 1 + IF SkipsRemaining(at(r), outcome[r])
                    THEN RemainingModelAttempts(at(r)) ELSE 0
NextPos(r) ==
  pos[r] + 1 + IF SkipsRemaining(at(r), outcome[r])
               THEN RemainingModelAttempts(at(r)) ELSE 0

Advance(r) ==
  /\ pos' = [pos EXCEPT ![r] = NextPos(r)]
  /\ prev' = [prev EXCEPT ![r] = dep(r)]
  /\ outcome' = [outcome EXCEPT ![r] = "none"]
  /\ Goto(r, "check")

Visit(r) == hist' = [hist EXCEPT ![r].visited = @ \cup {dep(r)}]

Available(d) == cooldown[d] = "free" /\ d \notin exhausted /\ d \notin overLimit

\* The reason given is a daily token limit: nothing else keeps the deployment
\* out, or its cooldown row was saved with that reason, which is given again.
ForTokenLimit(d) ==
  \/ cooldown[d] = "free" /\ d \notin exhausted /\ d \in overLimit
  \/ cooldown[d] = "limit"

\* IsDeploymentAvailable is false: skip, and cool a Doubao deployment that
\* reached its daily token limit for 24 hours, from each request on again.
SkipUnavailable(r) ==
  /\ pc[r] = "check" /\ InLoop(r)
  /\ ~Available(dep(r))
  /\ Visit(r)
  /\ \/ /\ dep(r) \in Doubao /\ ForTokenLimit(dep(r))
        /\ marks' = [marks EXCEPT ![r] = <<"limit">>]
        /\ Goto(r, "save")
        /\ UNCHANGED <<pos, prev, outcome>>
     \/ /\ ~(dep(r) \in Doubao /\ ForTokenLimit(dep(r)))
        /\ Advance(r)
        /\ UNCHANGED marks
  /\ UNCHANGED <<plan, todo, first, sharedVars>>

\* Every compatible model was cooling when the plan was made.
SkipModelState(r) ==
  /\ pc[r] = "check" /\ InLoop(r)
  /\ Available(dep(r)) /\ at(r).skip
  /\ Visit(r)
  /\ Advance(r)
  /\ UNCHANGED <<plan, todo, first, marks, sharedVars>>

PassAvailable(r) ==
  /\ pc[r] = "check" /\ InLoop(r)
  /\ Available(dep(r)) /\ ~at(r).skip
  /\ Visit(r)
  /\ Goto(r, "channel")
  /\ UNCHANGED <<plan, pos, todo, first, outcome, marks, prev, sharedVars>>

\* GetChannelById: a missing or disabled channel cools the deployment for 60 s.
CheckChannel(r) ==
  /\ pc[r] = "channel"
  /\ \/ /\ ChannelOf[dep(r)] \in channelUp
        /\ Goto(r, "acquire")
        /\ UNCHANGED marks
     \/ /\ ChannelOf[dep(r)] \notin channelUp
        /\ marks' = [marks EXCEPT ![r] = <<"short">>]
        /\ Goto(r, "save")
  /\ UNCHANGED <<plan, pos, todo, first, outcome, prev, sharedVars, hist>>

\* PassQuotaCheck refuses; the window counters are not part of this module.
SkipQuota(r) ==
  /\ pc[r] = "acquire"
  /\ dep(r) \in QuotaLimited
  /\ Advance(r)
  /\ UNCHANGED <<plan, todo, first, marks, sharedVars, hist>>

\* TryAcquireDeploymentSlot refuses.
MutantSlotFree(d) == MaxConcurrent[d] = 0 \/ inFlight[d] <= MaxConcurrent[d]
SlotFree(d) == MaxConcurrent[d] = 0 \/ inFlight[d] < MaxConcurrent[d]

SkipConcurrency(r) ==
  /\ pc[r] = "acquire"
  /\ ~SlotFree(dep(r))
  /\ Advance(r)
  /\ UNCHANGED <<plan, todo, first, marks, sharedVars, hist>>

\* Contract 4: a supplier switch is an attempt on another deployment than the
\* last one the loop looked at.
MutantIsSwitch(r) == prev[r] # NoDep
IsSwitch(r) == prev[r] # NoDep /\ prev[r] # dep(r)

\* TryAcquireDeploymentSlot succeeds and the attempt starts.
Acquire(r) ==
  /\ pc[r] = "acquire"
  /\ SlotFree(dep(r))
  /\ inFlight' = [inFlight EXCEPT ![dep(r)] =
                    IF MaxConcurrent[dep(r)] = 0 THEN @ ELSE @ + 1]
  /\ hist' = [hist EXCEPT ![r].switches = IF IsSwitch(r) THEN @ + 1 ELSE @]
  /\ Goto(r, "execute")
  /\ UNCHANGED <<plan, pos, todo, first, outcome, marks, prev, depVars,
                 envVars, modelVars, sticky>>

----------------------------------------------------------------------------
(* The upstream attempt. *)

\* The slot's release function.
Release(d) ==
  inFlight' = [inFlight EXCEPT ![d] = IF @ <= 1 THEN 0 ELSE @ - 1]

\* Giving the slot back; a deployment without a limit never took one.
MutantReleaseSlot(d) == inFlight' = [inFlight EXCEPT ![d] = @ - 1]
ReleaseSlot(d) ==
  IF MaxConcurrent[d] = 0 THEN UNCHANGED inFlight ELSE Release(d)

LogEntry(r, o) == [dep |-> dep(r), model |-> at(r).model, index |-> at(r).index,
                   out |-> o, more |-> HasNextModel(at(r))]

Answered(r, o, wrote, reply) ==
  hist' = [hist EXCEPT ![r].log = Append(@, LogEntry(r, o)),
                       ![r].wrote = IF wrote THEN @ \cup {Len(hist[r].log) + 1}
                                             ELSE @,
                       ![r].reply = reply]

\* The attempt succeeds.  A buffered response has valid tool calls: it is
\* settled and flushed; any other has been streamed to the client already.
ExecuteOk(r) ==
  /\ pc[r] = "execute" /\ "ok" \in Outcomes
  /\ ReleaseSlot(dep(r))
  /\ outcome' = [outcome EXCEPT ![r] = "ok"]
  /\ Answered(r, "ok", TRUE, "none")
  /\ Goto(r, "success")
  /\ UNCHANGED <<plan, pos, todo, first, marks, prev, depVars, envVars,
                 modelVars, sticky>>

\* The buffered response fails validateToolCallsForChoice: its deferred
\* settlement is rolled back and nothing is flushed.
ExecuteBadTools(r) ==
  /\ pc[r] = "execute" /\ "badTools" \in Outcomes /\ Buffered(r)
  /\ ReleaseSlot(dep(r))
  /\ outcome' = [outcome EXCEPT ![r] = "badTools"]
  /\ Answered(r, "badTools", FALSE, "none")
  /\ Goto(r, "invalid")
  /\ UNCHANGED <<plan, pos, todo, first, marks, prev, depVars, envVars,
                 modelVars, sticky>>

\* Where the loop goes after a failed attempt.  Contract 5: when part of the
\* response has reached the client the request ends.
MutantAfterFailure(a, o, written) ==
  IF RecordsModelRateLimit(a, o) THEN "model" ELSE "charge"
AfterFailure(a, o, written) ==
  IF written THEN "done"
  ELSE IF RecordsModelRateLimit(a, o) THEN "model" ELSE "charge"

ExecuteFails(r, o, written) ==
  /\ pc[r] = "execute" /\ o \in Outcomes \cap Failures
  /\ written => ~Buffered(r)
  /\ ReleaseSlot(dep(r))
  /\ outcome' = [outcome EXCEPT ![r] = o]
  /\ Answered(r, o, written,
              IF AfterFailure(at(r), o, written) = "done" THEN "partial" ELSE "none")
  /\ Goto(r, AfterFailure(at(r), o, written))
  /\ UNCHANGED <<plan, pos, todo, first, marks, prev, depVars, envVars,
                 modelVars, sticky>>

\* The attempt panics.  RelayPanicRecover answers for the request, but the
\* statement that gives the slot back is never reached; and when the response
\* was being buffered, the answer goes to the abandoned buffer.
ExecutePanics(r) ==
  /\ pc[r] = "execute" /\ "panic" \in Outcomes
  /\ outcome' = [outcome EXCEPT ![r] = "panic"]
  /\ hist' = [hist EXCEPT ![r].reply = IF Buffered(r) THEN "lost" ELSE "panic"]
  /\ Goto(r, "done")
  /\ UNCHANGED <<plan, pos, todo, first, marks, prev, sharedVars>>

----------------------------------------------------------------------------
(* After a success. *)

SetSticky(r) ==
  /\ pc[r] = "success"
  /\ sticky' = [sticky EXCEPT ![VirtualModelOf[r]] = dep(r)]
  /\ Goto(r, "account")
  /\ UNCHANGED <<plan, pos, todo, first, outcome, marks, prev, depVars,
                 envVars, modelVars, inFlight, hist>>

\* RecordFreeProviderModelSuccess and the usage records, which may bring the
\* deployment to its daily token limit.
Account(r) ==
  /\ pc[r] = "account"
  /\ cooling' = cooling \ {<<dep(r), at(r).model>>}
  /\ \/ UNCHANGED overLimit
     \/ dep(r) \in Limited /\ overLimit' = overLimit \cup {dep(r)}
  /\ hist' = [hist EXCEPT ![r].reply = "ok"]
  /\ Goto(r, "done")
  /\ UNCHANGED <<plan, pos, todo, first, outcome, marks, prev, cooldown,
                 exhausted, envVars, falsePos, inFlight, sticky>>

MarkFalsePositive(r) ==
  /\ pc[r] = "invalid"
  /\ falsePos' = falsePos \cup {<<dep(r), at(r).model>>}
  /\ Advance(r)
  /\ UNCHANGED <<plan, todo, first, marks, depVars, envVars, cooling,
                 inFlight, sticky, hist>>

----------------------------------------------------------------------------
(* After a failure. *)

\* Contract 1: MarkFreeProviderModelRateLimited, then the next model when the
\* deployment has one.
MutantMarkModel(r) ==
  /\ pc[r] = "model"
  /\ cooling' = cooling \cup {<<dep(r), at(r).model>>}
  /\ marks' = [marks EXCEPT ![r] = <<"short">>]
  /\ Goto(r, "save")
  /\ UNCHANGED <<plan, pos, todo, first, outcome, prev, depVars, envVars,
                 falsePos, inFlight, sticky, hist>>
MarkModel(r) ==
  /\ pc[r] = "model"
  /\ cooling' = cooling \cup {<<dep(r), at(r).model>>}
  /\ \/ Rotates(at(r), outcome[r]) /\ Advance(r)
     \/ /\ ~Rotates(at(r), outcome[r])
        /\ Goto(r, "charge")
        /\ UNCHANGED <<pos, prev, outcome>>
  /\ UNCHANGED <<plan, todo, first, marks, depVars, envVars, falsePos,
                 inFlight, sticky, hist>>

\* Contract 2: RecordDeploymentError and RecordFailure.  A failure that must
\* not fall back is the answer; otherwise the monitor may disable the channel
\* and the deployment's state is marked.
Charge(r) ==
  /\ pc[r] = "charge"
  /\ LET due == CooldownMarks(dep(r), outcome[r])
         final == ~ShouldFallback(outcome[r])
     IN /\ hist' = [hist EXCEPT ![r].charged[dep(r)] = @ + 1,
                                ![r].reply = IF final THEN "error" ELSE @]
        /\ \/ UNCHANGED channelUp
           \/ /\ ~final /\ "channel" \in EnvEvents
              /\ channelUp' = channelUp \ {ChannelOf[dep(r)]}
        /\ \/ /\ final
              /\ Goto(r, "done")
              /\ UNCHANGED <<pos, prev, outcome, marks>>
           \/ /\ ~final /\ due = <<>>
              /\ Advance(r)
              /\ UNCHANGED marks
           \/ /\ ~final /\ due # <<>>
              /\ marks' = [marks EXCEPT ![r] = due]
              /\ Goto(r, "save")
              /\ UNCHANGED <<pos, prev, outcome>>
  /\ UNCHANGED <<plan, todo, first, depVars, healthy, recovering, modelVars,
                 inFlight, sticky>>

\* MarkDeploymentExhausted and saveDeploymentCooldown: first the row ...
SaveMark(r) ==
  /\ pc[r] = "save"
  /\ LET m == Head(marks[r])
     IN IF m = "exhausted"
        THEN exhausted' = exhausted \cup {dep(r)} /\ UNCHANGED cooldown
        ELSE cooldown' = [cooldown EXCEPT ![dep(r)] = m] /\ UNCHANGED exhausted
  /\ Goto(r, "unstick")
  /\ UNCHANGED <<plan, pos, todo, first, outcome, marks, prev, overLimit,
                 envVars, modelVars, inFlight, sticky, hist>>

\* ... then ClearStickyDeploymentForDeployment.
ClearStickyForDeployment(r) ==
  /\ pc[r] = "unstick"
  /\ sticky' = [v \in VirtualModels |->
                  IF sticky[v] = dep(r) THEN NoDep ELSE sticky[v]]
  /\ marks' = [marks EXCEPT ![r] = Tail(@)]
  /\ \/ Tail(marks[r]) = <<>> /\ Advance(r)
     \/ /\ Tail(marks[r]) # <<>>
        /\ Goto(r, "save")
        /\ UNCHANGED <<pos, prev, outcome>>
  /\ UNCHANGED <<plan, todo, first, depVars, envVars, modelVars, inFlight, hist>>

\* The loop ran out of attempts: ClearStickyDeployment and the unified 503.
AllFailed(r) ==
  /\ pc[r] = "check" /\ ~InLoop(r)
  /\ sticky' = [sticky EXCEPT ![VirtualModelOf[r]] = NoDep]
  /\ hist' = [hist EXCEPT ![r].reply = "unavailable"]
  /\ Goto(r, "done")
  /\ UNCHANGED <<plan, pos, todo, first, outcome, marks, prev, depVars,
                 envVars, modelVars, inFlight>>

----------------------------------------------------------------------------
(* The environment: time passing, the health checker, administrators. *)

CooldownLapse(d) ==
  /\ "cooldownLapse" \in EnvEvents
  /\ cooldown[d] # "free"
  /\ cooldown' = [cooldown EXCEPT ![d] = "free"]
  /\ UNCHANGED <<localVars, exhausted, overLimit, envVars, modelVars, inFlight,
                 sticky, hist>>

ModelLapse(d, m) ==
  /\ "modelLapse" \in EnvEvents
  /\ \/ <<d, m>> \in cooling /\ cooling' = cooling \ {<<d, m>>}
        /\ UNCHANGED falsePos
     \/ <<d, m>> \in falsePos /\ falsePos' = falsePos \ {<<d, m>>}
        /\ UNCHANGED cooling
  /\ UNCHANGED <<localVars, depVars, envVars, inFlight, sticky, hist>>

\* The quota period turns: the exhausted mark and the usage are yesterday's.
NewDay ==
  /\ "newDay" \in EnvEvents
  /\ exhausted \cup overLimit # {}
  /\ exhausted' = {} /\ overLimit' = {}
  /\ UNCHANGED <<localVars, cooldown, envVars, modelVars, inFlight, sticky, hist>>

\* setHealthStatus by the background checker.  Only the planner reads it, so the
\* flips after the last request has begun change nothing here and are left out.
HealthFlip(d) ==
  /\ "health" \in EnvEvents
  /\ \E r \in Requests : pc[r] = "idle"
  /\ healthy' = IF d \in healthy THEN healthy \ {d} ELSE healthy \cup {d}
  /\ UNCHANGED <<localVars, depVars, channelUp, recovering, modelVars, inFlight,
                 sticky, hist>>

\* DisableChannel and EnableChannel by the monitor or an administrator.
ChannelFlip(c) ==
  /\ "channel" \in EnvEvents
  /\ channelUp' = IF c \in channelUp THEN channelUp \ {c} ELSE channelUp \cup {c}
  /\ UNCHANGED <<localVars, depVars, healthy, recovering, modelVars, inFlight,
                 sticky, hist>>

\* ResetDeploymentState: an administrator recovers a deployment.  Its writes are
\* separate: the daily row, the cooldown row, the model cooldowns, the tools
\* false positives.  Recoveries of one deployment do not overlap here.
ResetDeployment(d) ==
  /\ "recover" \in EnvEvents
  /\ recovering[d] = "none"
  /\ recovering' = [recovering EXCEPT ![d] = "cooldown"]
  /\ exhausted' = exhausted \ {d} /\ overLimit' = overLimit \ {d}
  /\ UNCHANGED <<localVars, cooldown, channelUp, healthy, modelVars, inFlight,
                 sticky, hist>>

ResetCooldown(d) ==
  /\ recovering[d] = "cooldown"
  /\ recovering' = [recovering EXCEPT ![d] = "models"]
  /\ cooldown' = [cooldown EXCEPT ![d] = "free"]
  /\ UNCHANGED <<localVars, exhausted, overLimit, channelUp, healthy, modelVars,
                 inFlight, sticky, hist>>

ResetModels(d) ==
  \/ /\ recovering[d] = "models"
     /\ recovering' = [recovering EXCEPT ![d] = "falsePos"]
     /\ cooling' = cooling \ ({d} \X Models)
     /\ UNCHANGED <<localVars, depVars, channelUp, healthy, falsePos, inFlight,
                    sticky, hist>>
  \/ /\ recovering[d] = "falsePos"
     /\ recovering' = [recovering EXCEPT ![d] = "none"]
     /\ falsePos' = falsePos \ ({d} \X Models)
     /\ UNCHANGED <<localVars, depVars, channelUp, healthy, cooling, inFlight,
                    sticky, hist>>

Environment ==
  \/ \E d \in Deployments :
       \/ CooldownLapse(d) \/ HealthFlip(d)
       \/ ResetDeployment(d) \/ ResetCooldown(d) \/ ResetModels(d)
  \/ \E d \in Deployments, m \in Models : ModelLapse(d, m)
  \/ \E c \in Channels : ChannelFlip(c)
  \/ NewDay

----------------------------------------------------------------------------

Execute(r) ==
  \/ ExecuteOk(r) \/ ExecuteBadTools(r) \/ ExecutePanics(r)
  \/ \E o \in Failures, w \in BOOLEAN : ExecuteFails(r, o, w)

Step(r) ==
  \/ \E d \in Deployments : PlanDeployment(r, d)
  \/ SkipUnavailable(r) \/ SkipModelState(r) \/ PassAvailable(r)
  \/ CheckChannel(r) \/ SkipQuota(r) \/ SkipConcurrency(r) \/ Acquire(r)
  \/ Execute(r) \/ SetSticky(r) \/ Account(r) \/ MarkFalsePositive(r)
  \/ MarkModel(r) \/ Charge(r) \/ SaveMark(r) \/ ClearStickyForDeployment(r)
  \/ AllFailed(r)

\* Every request has been answered and no other arrives.
AllServed == (\A r \in Requests : pc[r] = "done") /\ UNCHANGED vars

Next == (\E r \in Requests : Begin(r) \/ Step(r)) \/ Environment \/ AllServed

Spec == Init /\ [][Next]_vars

\* The scheduler runs every goroutine, and an upstream call ends: an answer, an
\* error, or the HTTP client's timeout (RELAY_TIMEOUT).
Fairness == \A r \in Requests : WF_vars(Step(r))

FairSpec == Spec /\ Fairness

----------------------------------------------------------------------------
(* Properties. *)

\* The requests whose slot on d has not been given back: those executing there
\* and those whose attempt panicked.
Holding(r) == pc[r] = "execute" \/ outcome[r] = "panic"

SlotHolders(d) == {r \in Requests : Holding(r) /\ dep(r) = d}

\* The deployments whose first planned attempt the request has sent.
Opened(r) ==
  {hist[r].log[k].dep : k \in {i \in DOMAIN hist[r].log : hist[r].log[i].index = 0}} \cup
    (IF Holding(r) /\ at(r).index = 0 THEN {dep(r)} ELSE {})

\* The in-flight counter of a deployment with a limit equals the number of
\* requests that took a slot there and have not given it back: nothing is
\* released twice, and only a panic in the attempt loses a slot
\* (concurrency.go TryAcquireDeploymentSlot, relay.go around execute).
SlotAccounting ==
  \A d \in Deployments :
    inFlight[d] = IF MaxConcurrent[d] = 0 THEN 0 ELSE Cardinality(SlotHolders(d))

\* However the requests interleave, never more than max_concurrent_requests of
\* them execute on a deployment that has a limit.
SlotLimit ==
  \A d \in Deployments :
    MaxConcurrent[d] > 0 => Cardinality(SlotHolders(d)) <= MaxConcurrent[d]

\* The failed attempts that count against the supplier: every failure but a 429
\* with another model to rotate to, and but one that had already written.
SupplierFailures(r, d) ==
  {k \in DOMAIN hist[r].log :
     LET e == hist[r].log[k]
     IN /\ e.dep = d /\ e.out \in Failures /\ k \notin hist[r].wrote
        /\ ~(Confirmed429(e.out) /\ e.more)}

\* Contract 2: a request charges a supplier (RecordDeploymentError and
\* RecordFailure) exactly when its attempts there ended in a failure of the
\* deployment and not in a rotated model 429, and then only once.
SupplierChargedOnce ==
  \A r \in Requests, d \in Deployments :
    /\ Cardinality(SupplierFailures(r, d)) <= 1
    /\ pc[r] \in {"check", "done"} =>
         hist[r].charged[d] = Cardinality(SupplierFailures(r, d))

\* Contract 3: after a failure that is not an HTTP 429 the request never sends
\* anything to the same deployment again, whatever models it still had.
HardFailureEndsDeployment ==
  \A r \in Requests : \A j, k \in DOMAIN hist[r].log :
    /\ j < k
    /\ hist[r].log[j].out \in Failures \ {"rate429"}
    => hist[r].log[k].dep # hist[r].log[j].dep

\* Skipping the remaining models lands on the next deployment and not beyond
\* it: the loop has looked at every deployment its index has passed.
NoDeploymentPassedOver ==
  \A r \in Requests : pc[r] \in {"check", "done"} =>
    \A i \in DOMAIN plan[r] : i < pos[r] => plan[r][i].dep \in hist[r].visited

\* Contract 4: a supplier switch is recorded once for every deployment after the
\* first planned one whose first planned attempt is sent, and at no other time: a
\* rotation to another model of the deployment is none.  prevDeployment is the
\* last deployment the loop looked at, sent to or not, so the first attempt of a
\* request is a switch when the deployments before it were skipped, and there is
\* none when only the first model of the deployment was.
SwitchOnlyOnDeploymentChange ==
  \A r \in Requests : plan[r] # <<>> =>
    hist[r].switches = Cardinality(Opened(r) \ {plan[r][1].dep})

\* Contract 5: once bytes of an attempt have reached the client no further
\* attempt is made, so no client sees the output of two attempts.
OneWriter ==
  \A r \in Requests : hist[r].wrote # {} =>
    /\ hist[r].wrote = {Len(hist[r].log)}
    /\ pc[r] \in {"success", "account", "done"}

\* Contracts 1 and 2, over the stored state: a request marks a deployment
\* (cooldown, exhaustion) only after charging it, or for a reason found before
\* the attempt (channel down, Doubao limit).  A rotated model 429 never does.
MarkNeedsCharge ==
  [][\A d \in Deployments :
       \/ cooldown[d] = "free" /\ cooldown'[d] # "free"
       \/ d \in exhausted' \ exhausted
       => \E r \in Requests : /\ pc[r] = "save" /\ dep(r) = d
                              /\ (hist[r].charged[d] = 1 \/ outcome[r] = "none")]_vars

\* Every request the gateway accepts is answered or ends.
RequestsEnd == \A r \in Requests : pc[r] = "plan" ~> pc[r] = "done"

\* The relay loop implements the abstract slots: whatever a request does between,
\* it takes one slot at a time, on a deployment that has room, and gives it back
\* before it takes the next one (relay.go around TryAcquireDeploymentSlot).
Serving == [r \in Requests |-> IF Holding(r) THEN dep(r) ELSE NoDep]
Slots == INSTANCE DeploymentSlots WITH serving <- Serving
ImplementsSlots == Slots!SlotsSpec
=============================================================================
