-------------------------- MODULE WebFallback_proofs --------------------------
(***************************************************************************)
(* Theorems about the Fallback page and what it shows.  The page, for any   *)
(* number of loads under way, any deployments and any bounds: its types,    *)
(* that the spinner always belongs to a load that will take it down, and    *)
(* that the buttons are locked while exactly one manual action is under     *)
(* way.  The model editor, for any models, deployments and other            *)
(* administrators: a save does what was asked and nothing else.  The        *)
(* metrics panel, for any times and restarts of the gateway: its statistics *)
(* are of what happened.  The free pool page, for any providers, keys and   *)
(* administrators: what is selected is visible, what is staged is not       *)
(* refused for its keys, and what is enabled has one.  Last, the free pool  *)
(* page beside the tables and the option pages of WebConsole_proofs.        *)
(***************************************************************************)
EXTENDS MCWebFallback, WebConsole_proofs

ActionKeys == {ActionKey(d, a) : d \in Deployments, a \in {"cooldown", "recover"}}
Op == [key : ActionKeys,
       phase : {"posted", "done", "loading"}, load : 0..Slots]

\* One operation and a locked button, or neither.
Locked ==
  \/ ops = {} /\ acting = Nobody
  \/ \E o \in Op : ops = {o} /\ acting # Nobody

PageInv == PageTypeOK /\ SpinnerHasALoad /\ Locked

LoadType == [panel : Panels \cup {"orphan"}, since : Versions,
             silent : BOOLEAN, meta : BOOLEAN]

LoadMap == [1..Slots -> LoadType]
ShownMap == [Resources -> Versions]
Acting == {Nobody} \cup {ActionKey(d, a) : d \in Deployments, a \in {"cooldown", "recover"}}

----------------------------------------------------------------------------
(* Lemmas. *)

\* The type invariant with its function spaces named, before and after a step.
LEMMA Types ==
  ASSUME PageTypeOK
  PROVE  /\ panel \in Panels /\ shown \in ShownMap
         /\ loading \in BOOLEAN /\ unread \in BOOLEAN
         /\ acting \in Acting /\ loads \in LoadMap
         /\ summaryGet \in Versions
         /\ version \in 0..MaxVersion /\ readAt \subseteq 0..MaxVersion
BY DEF PageTypeOK, ShownMap, Acting, LoadMap, LoadType

LEMMA TypesKept ==
  ASSUME panel' \in Panels, shown' \in ShownMap,
         loading' \in BOOLEAN, unread' \in BOOLEAN,
         acting' \in Acting, loads' \in LoadMap,
         summaryGet' \in Versions,
         version' \in 0..MaxVersion, readAt' \subseteq 0..MaxVersion
  PROVE  PageTypeOK'
BY DEF PageTypeOK, ShownMap, Acting, LoadMap, LoadType

LEMMA LoadFields ==
  ASSUME PageTypeOK, NEW s \in 1..Slots
  PROVE  /\ loads[s] \in LoadType
         /\ loads[s].panel \in Panels \cup {"orphan"} /\ loads[s].since \in Versions
         /\ loads[s].silent \in BOOLEAN /\ loads[s].meta \in BOOLEAN
BY DEF PageTypeOK, LoadType

LEMMA IdleIsALoad ==
  ASSUME PageAssumption
  PROVE  Idle \in LoadType
BY DEF Idle, LoadType, Versions, Never, Panels, PageAssumption

\* One load replaced by another.
LEMMA LoadReplaced ==
  ASSUME loads \in LoadMap, NEW s \in 1..Slots, NEW l \in LoadType,
         loads' = [loads EXCEPT ![s] = l]
  PROVE  /\ loads' \in LoadMap /\ loads'[s] = l
         /\ \A t \in 1..Slots : t # s => loads'[t] = loads[t]
BY DEF LoadMap

\* A free slot is a slot of which no load is active.
LEMMA NextSlotFree ==
  ASSUME Free # {}
  PROVE  NextSlot \in 1..Slots /\ loads[NextSlot] = Idle /\ ~Active(NextSlot)
<1>1. NextSlot \in Free
  BY DEF NextSlot
<1>. QED BY <1>1 DEF Free, Active, Idle

\* A new load is active, and has the spinner unless it is silent.
LEMMA NewLoadActive ==
  ASSUME PageAssumption, PageTypeOK, NEW p \in Panels, NEW b \in BOOLEAN
  PROVE  /\ NewLoad(p, b) \in LoadType
         /\ NewLoad(p, b).since # Never /\ NewLoad(p, b).panel # "orphan"
         /\ NewLoad(p, b).silent = b
BY DEF NewLoad, LoadType, PageTypeOK, Versions, Never, Panels, PageAssumption

\* Loads that leave the spinner's load alone keep it.
LEMMA SpinnerKept ==
  ASSUME SpinnerHasALoad, loading' => loading,
         \A s \in 1..Slots : Active(s) /\ ~loads[s].silent =>
            \/ Active(s)' /\ ~loads'[s].silent
            \/ ~loading'
  PROVE  SpinnerHasALoad'
BY DEF SpinnerHasALoad

LEMMA OpLoading ==
  ASSUME NEW o \in Op, NEW n \in 0..Slots
  PROVE  [o EXCEPT !.phase = "loading", !.load = n] \in Op
BY DEF Op

LEMMA SlotNumbers == ASSUME PageAssumption PROVE 1..Slots \subseteq 0..Slots /\ 0 \in 0..Slots
BY DEF PageAssumption

\* Actions have keys.
LEMMA KeyIsSomebody ==
  \A d, a : ActionKey(d, a) # Nobody
BY DEF ActionKey, Nobody

\* The panel's resources and the summary are among those the page holds.
LEMMA WantedResources ==
  ASSUME NEW p \in Panels
  PROVE  Wanted(p) \subseteq Resources
BY DEF Resources

LEMMA KnownPanel ==
  ASSUME NEW name
  PROVE  getPanelKey(name) \in Panels
BY DEF getPanelKey, Panels

----------------------------------------------------------------------------
(* One lemma per group of actions. *)

LEMMA ConfigMetaStep ==
  ASSUME PageAssumption, PageInv, NEW s \in 1..Slots, loadConfigMeta(s)
  PROVE  PageInv'
<1>. USE DEF PageInv
<1>0. /\ \E v \in loads[s].since..version : shown' = [shown EXCEPT !["config"] = v]
      /\ loads[s].since # Never
      /\ loads' = [loads EXCEPT ![s] =
             IF loads[s].panel = "orphan" THEN Idle ELSE [loads[s] EXCEPT !.meta = TRUE]]
      /\ UNCHANGED <<panel, unread, loading, acting, summaryGet, ops, version, readAt>>
  BY Types DEF loadConfigMeta, gateway, LoadMap
<1>. DEFINE l == IF loads[s].panel = "orphan" THEN Idle ELSE [loads[s] EXCEPT !.meta = TRUE]
<1>1. shown' \in ShownMap
  <2>1. PICK v \in loads[s].since..version : shown' = [shown EXCEPT !["config"] = v]
    BY <1>0
  <2>2. v \in Versions
    BY <1>0, LoadFields, Types DEF Versions, Never, PageAssumption
  <2>3. shown \in ShownMap
    BY Types
  <2>. QED BY <2>1, <2>2, <2>3 DEF ShownMap
<1>2. l \in LoadType
  BY LoadFields, IdleIsALoad DEF LoadType
<1>3. /\ loads' \in LoadMap /\ loads'[s] = l
      /\ \A t \in 1..Slots : t # s => loads'[t] = loads[t]
  <2>1. loads \in LoadMap /\ loads' = [loads EXCEPT ![s] = l]
    BY <1>0, Types
  <2>2. l \in LoadType
    BY <1>2
  <2>. HIDE DEF l
  <2>. QED BY <2>1, <2>2, LoadReplaced
<1>4. PageTypeOK'
  BY <1>0, <1>1, <1>3, Types, TypesKept
<1>5. ASSUME NEW t \in 1..Slots, Active(t), ~loads[t].silent
      PROVE  Active(t)' /\ ~loads'[t].silent
  <2>1. CASE t # s
    <3>1. loads'[t] = loads[t]
      BY <1>3, <2>1
    <3>. QED BY <1>5, <3>1 DEF Active
  <2>2. CASE t = s
    <3>1. loads'[t] = [loads[s] EXCEPT !.meta = TRUE]
      BY <1>3, <1>5, <2>2 DEF Active
    <3>2. loads[s] \in LoadType
      BY LoadFields
    <3>3. /\ loads'[t].since = loads[t].since /\ loads'[t].panel = loads[t].panel
          /\ loads'[t].silent = loads[t].silent
      BY <2>2, <3>1, <3>2 DEF LoadType
    <3>. QED BY <1>5, <3>3 DEF Active
  <2>. QED BY <2>1, <2>2
<1>6. SpinnerHasALoad'
  BY <1>0, <1>5, SpinnerKept
<1>7. Locked'
  BY <1>0 DEF Locked
<1>. QED BY <1>4, <1>6, <1>7

\* FinishOps ends the only operation or none.
LEMMA FinishOpsLocked ==
  ASSUME Locked, NEW s, FinishOps(s)
  PROVE  Locked' /\ acting' \in {acting, Nobody}
BY DEF Locked, FinishOps

LEMMA LoadDoneStep ==
  ASSUME PageAssumption, PageInv, NEW s \in 1..Slots, LoadDone(s)
  PROVE  PageInv'
<1>. USE DEF PageInv
<1>1. /\ loading' = (loading /\ loads[s].silent)
      /\ loads' = [loads EXCEPT ![s] = Idle]
      /\ FinishOps(s)
      /\ UNCHANGED <<panel, summaryGet, marks, version, readAt, failures, moves>>
  BY DEF LoadDone, SpinnerAfter, gateway, bounds
<1>2. /\ loads' \in LoadMap
      /\ \A t \in 1..Slots : t # s => loads'[t] = loads[t]
  BY <1>1, Types, IdleIsALoad, LoadReplaced
<1>3. shown' \in ShownMap /\ unread' \in BOOLEAN
  <2>1. loads[s].since \in Versions /\ loads[s].since # Never /\ version \in 0..MaxVersion
    BY LoadFields, Types DEF LoadDone, Active
  <2>2. PICK got \in [Wanted(loads[s].panel) \ {"config"} -> loads[s].since..version] :
          /\ shown' = [r \in Resources |-> IF r \in DOMAIN got THEN got[r] ELSE shown[r]]
          /\ unread' = IF loads[s].panel = "alerts" THEN got["alerts"] \notin readAt ELSE unread
    BY DEF LoadDone
  <2>3. \A r \in DOMAIN got : got[r] \in Versions
    BY <2>1, <2>2 DEF Versions, Never, PageAssumption
  <2>4. shown' \in ShownMap
    BY <2>2, <2>3, Types DEF ShownMap
  <2>5. unread' \in BOOLEAN
    <3>1. CASE loads[s].panel = "alerts"
      <4>1. unread' = (got["alerts"] \notin readAt)
        BY <2>2, <3>1
      <4>. QED BY <4>1
    <3>2. CASE loads[s].panel # "alerts"
      <4>1. unread' = unread
        BY <2>2, <3>2
      <4>. QED BY <4>1, Types
    <3>. QED BY <3>1, <3>2
  <2>. QED BY <2>4, <2>5
<1>4. ASSUME NEW t \in 1..Slots, Active(t), ~loads[t].silent
      PROVE  (Active(t)' /\ ~loads'[t].silent) \/ ~loading'
  <2>1. CASE t = s
    BY <1>1, <1>4, <2>1
  <2>2. CASE t # s
    <3>1. loads'[t] = loads[t]
      BY <1>2, <2>2
    <3>. QED BY <1>4, <3>1 DEF Active
  <2>. QED BY <2>1, <2>2
<1>5. SpinnerHasALoad'
  BY <1>1, <1>4, SpinnerKept
<1>6. Locked' /\ acting' \in Acting
  BY <1>1, FinishOpsLocked, Types DEF Acting
<1>7. loading' \in BOOLEAN
  BY <1>1
<1>8. PageTypeOK'
  BY <1>1, <1>2, <1>3, <1>6, <1>7, Types, TypesKept
<1>. QED BY <1>5, <1>6, <1>8

LEMMA LoadFailedStep ==
  ASSUME PageAssumption, PageInv, NEW s \in 1..Slots, LoadFailed(s)
  PROVE  PageInv'
<1>. USE DEF PageInv
<1>1. /\ loading' = (loading /\ loads[s].silent)
      /\ \/ loads' = [loads EXCEPT ![s] = Idle]
         \/ loads' = [loads EXCEPT ![s].panel = "orphan", ![s].silent = TRUE]
      /\ FinishOps(s)
      /\ UNCHANGED <<panel, shown, unread, summaryGet, marks, version, readAt, moves>>
  BY DEF LoadFailed, SpinnerAfter, gateway
<1>2. /\ loads' \in LoadMap
      /\ \A t \in 1..Slots : t # s => loads'[t] = loads[t]
  <2>1. CASE loads' = [loads EXCEPT ![s] = Idle]
    BY <2>1, Types, IdleIsALoad, LoadReplaced
  <2>2. CASE loads' = [loads EXCEPT ![s].panel = "orphan", ![s].silent = TRUE]
    <3>. DEFINE o == [loads[s] EXCEPT !.panel = "orphan", !.silent = TRUE]
    <3>1. o \in LoadType
      BY LoadFields DEF LoadType
    <3>2. loads' = [loads EXCEPT ![s] = o]
      BY <2>2, Types DEF LoadMap
    <3>. HIDE DEF o
    <3>. QED BY <3>1, <3>2, Types, LoadReplaced
  <2>. QED BY <1>1, <2>1, <2>2
<1>3. ASSUME NEW t \in 1..Slots, Active(t), ~loads[t].silent
      PROVE  (Active(t)' /\ ~loads'[t].silent) \/ ~loading'
  <2>1. CASE t = s
    BY <1>1, <1>3, <2>1
  <2>2. CASE t # s
    <3>1. loads'[t] = loads[t]
      BY <1>2, <2>2
    <3>. QED BY <1>3, <3>1 DEF Active
  <2>. QED BY <2>1, <2>2
<1>4. SpinnerHasALoad'
  BY <1>1, <1>3, SpinnerKept
<1>5. Locked' /\ acting' \in Acting
  BY <1>1, FinishOpsLocked, Types DEF Acting
<1>6. loading' \in BOOLEAN
  BY <1>1
<1>7. PageTypeOK'
  BY <1>1, <1>2, <1>5, <1>6, Types, TypesKept
<1>. QED BY <1>4, <1>5, <1>7

\* A load is put into a free slot; every other load stays.
LEMMA LoadPut ==
  ASSUME PageAssumption, PageTypeOK, Free # {}, NEW p \in Panels, NEW b \in BOOLEAN,
         loads' = [loads EXCEPT ![NextSlot] = NewLoad(p, b)]
  PROVE  /\ loads' \in LoadMap
         /\ \A t \in 1..Slots : Active(t) => Active(t)' /\ loads'[t] = loads[t]
         /\ ~b => \E t \in 1..Slots : Active(t)' /\ ~loads'[t].silent
<1>1. PICK n \in 1..Slots : n = NextSlot /\ ~Active(n)
  BY NextSlotFree
<1>2. /\ NewLoad(p, b) \in LoadType
      /\ NewLoad(p, b).since # Never /\ NewLoad(p, b).panel # "orphan"
      /\ NewLoad(p, b).silent = b
  BY NewLoadActive
<1>3. /\ loads' \in LoadMap /\ loads'[n] = NewLoad(p, b)
      /\ \A t \in 1..Slots : t # n => loads'[t] = loads[t]
  BY <1>1, <1>2, Types, LoadReplaced
<1>4. ASSUME NEW t \in 1..Slots, Active(t)
      PROVE  Active(t)' /\ loads'[t] = loads[t]
  <2>1. t # n
    BY <1>1, <1>4
  <2>2. loads'[t] = loads[t]
    BY <1>3, <2>1
  <2>. QED BY <1>4, <2>2 DEF Active
<1>5. Active(n)' /\ loads'[n].silent = b
  BY <1>2, <1>3 DEF Active
<1>. QED BY <1>3, <1>4, <1>5

LEMMA StartStep ==
  ASSUME PageAssumption, PageInv,
         \/ \E name \in Visited : GoTo(name)
         \/ Poll
         \/ \E o \in ops : ActionReload(o)
  PROVE  PageInv'
<1>. USE DEF PageInv, gateway, bounds
<1>1. ASSUME NEW name \in Visited, GoTo(name)
      PROVE  PageInv'
  <2>. DEFINE p == getPanelKey(name)
  <2>1. p \in Panels /\ panel' = p
        /\ UNCHANGED <<shown, unread, acting, summaryGet, ops, marks, version, readAt>>
    BY <1>1, KnownPanel DEF GoTo
  <2>2. CASE loading' = FALSE /\ UNCHANGED loads
    <3>1. PageTypeOK'
      BY <2>1, <2>2, Types, TypesKept
    <3>2. SpinnerHasALoad' /\ Locked'
      BY <2>1, <2>2 DEF SpinnerHasALoad, Locked
    <3>. QED BY <3>1, <3>2
  <2>3. CASE /\ loading' = TRUE /\ Free # {}
             /\ loads' = [loads EXCEPT ![NextSlot] = NewLoad(p, FALSE)]
    <3>1. /\ loads' \in LoadMap
          /\ \E t \in 1..Slots : Active(t)' /\ ~loads'[t].silent
      BY <2>1, <2>3, LoadPut
    <3>2. PageTypeOK'
      BY <2>1, <2>3, <3>1, Types, TypesKept
    <3>3. SpinnerHasALoad' /\ Locked'
      BY <2>1, <3>1 DEF SpinnerHasALoad, Locked
    <3>. QED BY <3>2, <3>3
  <2>. QED BY <1>1, <2>2, <2>3 DEF GoTo
<1>2. CASE Poll
  <2>1. /\ Free # {} /\ loads' = [loads EXCEPT ![NextSlot] = NewLoad(panel, TRUE)]
        /\ UNCHANGED <<panel, shown, unread, loading, acting, summaryGet, ops, marks,
                       version, readAt>>
    BY <1>2 DEF Poll
  <2>2. /\ loads' \in LoadMap
        /\ \A t \in 1..Slots : Active(t) => Active(t)' /\ loads'[t] = loads[t]
    BY <2>1, Types, LoadPut
  <2>3. PageTypeOK'
    BY <2>1, <2>2, Types, TypesKept
  <2>4. SpinnerHasALoad' /\ Locked'
    BY <2>1, <2>2, SpinnerKept DEF Locked
  <2>. QED BY <2>3, <2>4
<1>3. ASSUME NEW o \in ops, ActionReload(o)
      PROVE  PageInv'
  <2>1. /\ Free # {} /\ loads' = [loads EXCEPT ![NextSlot] = NewLoad("status", TRUE)]
        /\ ops' = (ops \ {o}) \cup {[o EXCEPT !.phase = "loading", !.load = NextSlot]}
        /\ UNCHANGED <<panel, shown, unread, loading, acting, summaryGet, marks,
                       version, readAt>>
    BY <1>3 DEF ActionReload
  <2>2. /\ loads' \in LoadMap
        /\ \A t \in 1..Slots : Active(t) => Active(t)' /\ loads'[t] = loads[t]
    <3>1. "status" \in Panels
      BY DEF Panels
    <3>. QED BY <2>1, <3>1, LoadPut
  <2>3. PageTypeOK'
    BY <2>1, <2>2, Types, TypesKept
  <2>4. SpinnerHasALoad'
    BY <2>1, <2>2, SpinnerKept
  <2>5. Locked'
    <3>1. ops = {o} /\ acting # Nobody /\ o \in Op
      BY DEF Locked
    <3>2. [o EXCEPT !.phase = "loading", !.load = NextSlot] \in Op
      <4>1. NextSlot \in 0..Slots
        BY <2>1, NextSlotFree, SlotNumbers
      <4>. QED BY <3>1, <4>1, OpLoading
    <3>3. ops' = {[o EXCEPT !.phase = "loading", !.load = NextSlot]}
      BY <2>1, <3>1
    <3>. QED BY <2>1, <3>1, <3>2, <3>3 DEF Locked
  <2>. QED BY <2>3, <2>4, <2>5
<1>. QED BY <1>1, <1>2, <1>3

LEMMA SummaryStep ==
  ASSUME PageAssumption, PageInv, loadSummary
  PROVE  PageInv'
<1>. USE DEF PageInv, gateway, bounds
<1>1. UNCHANGED <<panel, unread, loading, acting, loads, ops, marks, version, readAt>>
  BY DEF loadSummary
<1>2. shown' \in ShownMap /\ summaryGet' \in Versions
  <2>1. version \in Versions /\ Never \in Versions
    BY Types DEF Versions, Never, PageAssumption
  <2>2. summaryGet' \in Versions
    BY <2>1 DEF loadSummary
  <2>3. CASE shown' = shown
    BY <2>2, <2>3, Types
  <2>4. CASE summaryGet # Never /\ \E v \in summaryGet..version : shown' = [shown EXCEPT !["summary"] = v]
    <3>1. PICK v \in summaryGet..version : shown' = [shown EXCEPT !["summary"] = v]
      BY <2>4
    <3>2. v \in Versions
      BY <2>4, Types DEF Versions, Never, PageAssumption
    <3>3. shown' \in ShownMap
      BY <3>1, <3>2, Types DEF ShownMap
    <3>. QED BY <2>2, <3>3
  <2>. QED BY <2>3, <2>4 DEF loadSummary
<1>3. PageTypeOK'
  BY <1>1, <1>2, Types, TypesKept
<1>4. SpinnerHasALoad' /\ Locked'
  BY <1>1 DEF SpinnerHasALoad, Active, Locked
<1>. QED BY <1>3, <1>4

LEMMA ActionStep ==
  ASSUME PageAssumption, PageInv,
         \/ \E d \in Deployments, a \in {"cooldown", "recover"} : runDeploymentAction(d, a)
         \/ \E o \in ops : ActionDone(o) \/ ActionFailed(o)
  PROVE  PageInv'
<1>. USE DEF PageInv, gateway, bounds
<1>1. ASSUME NEW d \in Deployments, NEW a \in {"cooldown", "recover"},
             runDeploymentAction(d, a)
      PROVE  PageInv'
  <2>1. /\ acting = Nobody /\ acting' = ActionKey(d, a)
        /\ ops' = ops \cup {[key |-> ActionKey(d, a), phase |-> "posted", load |-> 0]}
        /\ UNCHANGED <<panel, shown, unread, loading, loads, summaryGet, marks,
                       version, readAt>>
    BY <1>1 DEF runDeploymentAction, ButtonsEnabled
  <2>2. ops' = {[key |-> ActionKey(d, a), phase |-> "posted", load |-> 0]}
    BY <2>1 DEF Locked
  <2>3. [key |-> ActionKey(d, a), phase |-> "posted", load |-> 0] \in Op
    BY SlotNumbers DEF Op, ActionKeys
  <2>4. Locked'
    BY <2>1, <2>2, <2>3, KeyIsSomebody DEF Locked
  <2>5. PageTypeOK'
    <3>1. acting' \in Acting
      BY <2>1 DEF Acting
    <3>. QED BY <2>1, <3>1, Types, TypesKept
  <2>6. SpinnerHasALoad'
    BY <2>1 DEF SpinnerHasALoad, Active
  <2>. QED BY <2>4, <2>5, <2>6
<1>2. ASSUME NEW o \in ops, ActionDone(o)
      PROVE  PageInv'
  <2>1. /\ version < MaxVersion /\ version' = version + 1
        /\ ops' = (ops \ {o}) \cup {[o EXCEPT !.phase = "done"]}
        /\ UNCHANGED <<panel, shown, unread, loading, acting, loads, summaryGet, marks,
                       readAt>>
    BY <1>2 DEF ActionDone
  <2>2. ops = {o} /\ acting # Nobody /\ o \in Op
    BY DEF Locked
  <2>3. ops' = {[o EXCEPT !.phase = "done"]} /\ [o EXCEPT !.phase = "done"] \in Op
    BY <2>1, <2>2 DEF Op
  <2>4. Locked'
    BY <2>1, <2>2, <2>3 DEF Locked
  <2>5. PageTypeOK'
    BY <2>1 DEF PageTypeOK, PageAssumption
  <2>6. SpinnerHasALoad'
    BY <2>1 DEF SpinnerHasALoad, Active
  <2>. QED BY <2>4, <2>5, <2>6
<1>3. ASSUME NEW o \in ops, ActionFailed(o)
      PROVE  PageInv'
  <2>1. /\ ops' = ops \ {o} /\ acting' = Nobody
        /\ UNCHANGED <<panel, shown, unread, loading, loads, summaryGet, marks,
                       version, readAt>>
    BY <1>3 DEF ActionFailed
  <2>2. ops' = {}
    BY <2>1 DEF Locked
  <2>3. PageTypeOK'
    <3>1. acting' \in Acting
      BY <2>1 DEF Acting
    <3>. QED BY <2>1, <3>1, Types, TypesKept
  <2>4. SpinnerHasALoad' /\ Locked'
    BY <2>1, <2>2 DEF SpinnerHasALoad, Active, Locked
  <2>. QED BY <2>3, <2>4
<1>. QED BY <1>1, <1>2, <1>3

LEMMA MarkStep ==
  ASSUME PageAssumption, PageInv,
         markAllAlertsRead \/ MarkStored \/ MarkShown \/ GatewayChanges
  PROVE  PageInv'
<1>. USE DEF PageInv, gateway, bounds
<1>1. UNCHANGED <<panel, shown, loading, acting, loads, summaryGet, ops>>
  BY DEF markAllAlertsRead, MarkStored, MarkShown, GatewayChanges
<1>2. version' \in 0..MaxVersion /\ readAt' \subseteq 0..MaxVersion
  <2>1. \/ version' = version /\ readAt' = readAt
        \/ /\ version < MaxVersion /\ version' = version + 1
           /\ readAt' = readAt \/ readAt' = readAt \cup {version + 1}
    BY DEF markAllAlertsRead, MarkStored, MarkShown, GatewayChanges
  <2>2. version < MaxVersion => version + 1 \in 0..MaxVersion
    BY Types DEF PageAssumption
  <2>. QED BY <2>1, <2>2, Types
<1>2a. unread' \in BOOLEAN
  <2>1. unread' = unread \/ unread' = FALSE
    BY DEF markAllAlertsRead, MarkStored, MarkShown, GatewayChanges
  <2>. QED BY <2>1, Types
<1>3. PageTypeOK'
  BY <1>1, <1>2, <1>2a, Types, TypesKept
<1>4. SpinnerHasALoad' /\ Locked'
  BY <1>1 DEF SpinnerHasALoad, Active, Locked
<1>. QED BY <1>3, <1>4

LEMMA InitPageInv ==
  ASSUME PageAssumption, PageInit
  PROVE  PageInv
<1>1. panel \in Panels
  BY KnownPanel DEF PageInit
<1>2. /\ NewLoad(panel, FALSE) \in LoadType
      /\ NewLoad(panel, FALSE).since # Never /\ NewLoad(panel, FALSE).panel # "orphan"
      /\ NewLoad(panel, FALSE).silent = FALSE
  BY <1>1 DEF NewLoad, LoadType, Versions, Never, Panels, PageAssumption, PageInit
<1>3. loads = [s \in 1..Slots |-> IF s = 1 /\ loading THEN NewLoad(panel, FALSE) ELSE Idle]
  BY DEF PageInit
<1>4. loads \in LoadMap
  BY <1>2, <1>3, IdleIsALoad DEF LoadMap
<1>5. shown \in ShownMap
  BY DEF PageInit, ShownMap, Versions, Never, PageAssumption
<1>6. /\ version = 0 /\ summaryGet = 0 /\ readAt = {} /\ acting = Nobody
      /\ unread = FALSE /\ loading \in BOOLEAN
  BY DEF PageInit
<1>7. 0 \in 0..MaxVersion /\ 0 \in Versions
  BY DEF Versions, Never, PageAssumption
<1>8. PageTypeOK
  <2>1. acting \in Acting
    BY <1>6 DEF Acting
  <2>1a. unread \in BOOLEAN
    BY <1>6
  <2>1b. readAt \subseteq 0..MaxVersion
    BY <1>6
  <2>2. version \in 0..MaxVersion /\ summaryGet \in Versions
    BY <1>6, <1>7
  <2>. QED BY <1>1, <1>4, <1>5, <1>6, <2>1, <2>1a, <2>1b, <2>2
           DEF PageTypeOK, ShownMap, Acting, LoadMap, LoadType
<1>9. SpinnerHasALoad
  <2>1. ASSUME loading
        PROVE  1 \in 1..Slots /\ loads[1] = NewLoad(panel, FALSE)
    <3>1. 1 \in 1..Slots
      BY DEF PageAssumption
    <3>. QED BY <1>3, <2>1, <3>1
  <2>. QED BY <1>2, <2>1 DEF SpinnerHasALoad, Active
<1>10. Locked
  BY DEF PageInit, Locked
<1>. QED BY <1>8, <1>9, <1>10 DEF PageInv

LEMMA NextPageInv ==
  ASSUME PageAssumption, PageInv, [PageNext]_pageVars
  PROVE  PageInv'
<1>1. ASSUME NEW s \in 1..Slots, LoadStep(s)
      PROVE  PageInv'
  BY <1>1, ConfigMetaStep, LoadDoneStep, LoadFailedStep DEF LoadStep
<1>2. CASE OpStep
  BY <1>2, ActionStep, StartStep DEF OpStep
<1>3. CASE UNCHANGED pageVars
  BY <1>3 DEF pageVars, PageInv, PageTypeOK, SpinnerHasALoad, Active, Locked,
     gateway, bounds
<1>. QED BY <1>1, <1>2, <1>3, StartStep, SummaryStep, ActionStep, MarkStep DEF PageNext

----------------------------------------------------------------------------
(* The theorems. *)

THEOREM PageInvariance == PageSpec => []PageInv
<1>1. PageInit => PageInv
  BY InitPageInv, PageAssumption
<1>2. PageInv /\ [PageNext]_pageVars => PageInv'
  BY NextPageInv, PageAssumption
<1>. QED BY <1>1, <1>2, PTL DEF PageSpec

\* Whatever the panels visited and the answers' order, every variable of the page
\* keeps its type.
THEOREM PageTypeCorrect == PageSpec => []PageTypeOK
<1>1. PageInv => PageTypeOK
  BY DEF PageInv
<1>. QED BY <1>1, PageInvariance, PTL

\* useFallbackPage's spinner is up only while a load that takes it down is under way,
\* however many loads there are; of the manual cooldowns and recoveries at most one is
\* under way, and the buttons are locked exactly then (runDeploymentAction).
THEOREM LocksBelongToCalls == PageSpec => []LocksHaveCalls
<1>1. PageInv => SpinnerHasALoad
  BY DEF PageInv
<1>2. PageInv => OneManualAction
  BY FS_EmptySet, FS_Singleton DEF PageInv, Locked, OneManualAction
<1>3. PageInv => LocksHaveCalls
  BY <1>1, <1>2 DEF LocksHaveCalls
<1>. QED BY <1>3, PageInvariance, PTL

----------------------------------------------------------------------------
(* The model editor.  The fields that a save may touch belong to the shape   *)
(* of a configuration, of a draft and of a request; the content of an order  *)
(* and of the modes is whatever the page has put together.                   *)

ModelSound(m) ==
  m = [exists |-> m.exists, order |-> m.order, preferred |-> m.preferred, degrade |-> m.degrade]

DeploymentSound(x) ==
  x = [known |-> x.known, enabled |-> x.enabled, limit |-> x.limit, ratio |-> x.ratio]

Configuration(cfg) ==
  /\ cfg = [vms |-> cfg.vms, deps |-> cfg.deps]
  /\ cfg.vms = [v \in VMs |-> cfg.vms[v]] /\ cfg.deps = [d \in EditorDeployments |-> cfg.deps[d]]
  /\ \A v \in VMs : ModelSound(cfg.vms[v])
  /\ \A d \in EditorDeployments : DeploymentSound(cfg.deps[d])

\* every configuration that the gateway has had
PastSound(cfgs) ==
  /\ cfgs \in Seq(ToSet(cfgs)) /\ cfgs # <<>>
  /\ \A i \in DOMAIN cfgs : Configuration(cfgs[i])

\* what a draft holds, it has been given
DraftSound(dr) ==
  /\ dr = [touched |-> dr.touched, enabled |-> dr.enabled, limit |-> dr.limit]
  /\ dr.enabled # Unset \/ dr.limit # -1 => dr.touched

DraftsSound(drs) ==
  /\ drs = [d \in EditorDeployments |-> drs[d]]
  /\ \A d \in EditorDeployments : DraftSound(drs[d])

\* the mutator does not give up on the configuration that was fetched
Applicable(o, cfg) ==
  /\ Configuration(cfg)
  /\ o.kind = "addDep" => o.dep \notin Known(cfg)
  /\ o.kind = "delDep" => o.dep \in Known(cfg) /\ cfg.vms[o.vm].exists
  /\ o.kind = "addVM" => ~cfg.vms[o.vm].exists
  /\ o.kind = "delVM" => cfg.vms[o.vm].exists

RequestSound(o) ==
  /\ o = [kind |-> o.kind, dep |-> o.dep, vm |-> o.vm, phase |-> o.phase, fresh |-> o.fresh,
          drafts |-> o.drafts, modes |-> o.modes, owners |-> o.owners]
  /\ o.kind \in {"save", "addDep", "delDep", "addVM", "delVM"}
  /\ o.phase \in {"get", "put", "stored", "reload"}
  /\ o.kind \in {"addDep", "delDep"} => o.dep \in EditorDeployments
  /\ o.kind \in {"addDep", "delDep", "addVM", "delVM"} => o.vm \in VMs
  /\ DraftsSound(o.drafts)
  /\ o.phase # "get" => Applicable(o, o.fresh)

EditorInv ==
  /\ PastSound(past)
  /\ DraftsSound(drafts)
  /\ op = Nothing \/ RequestSound(op)

----------------------------------------------------------------------------
\* What a payload is made of keeps its shape.

LEMMA FirstGatewayIsSound == Configuration(FirstGateway)
<1>1. \A v \in VMs : ModelSound(FirstGateway.vms[v])
  BY DEF FirstGateway, ModelSound, NoVM
<1>2. \A d \in EditorDeployments : DeploymentSound(FirstGateway.deps[d])
  BY DEF FirstGateway, DeploymentSound, NoDeployment
<1>. QED BY <1>1, <1>2 DEF FirstGateway, Configuration

LEMMA DraftedIsSound ==
  ASSUME NEW cfg, Configuration(cfg), NEW drs
  PROVE  Configuration(applyDraftEdits(cfg, drs)) /\ applyDraftEdits(cfg, drs).vms = cfg.vms
<1>. DEFINE c == applyDraftEdits(cfg, drs)
<1>1. c.vms = cfg.vms
  BY DEF Configuration, applyDraftEdits
<1>2. c = [vms |-> c.vms, deps |-> c.deps]
  BY DEF Configuration, applyDraftEdits
<1>3. c.deps = [d \in EditorDeployments |->
        IF cfg.deps[d].known /\ drs[d].touched THEN Drafted(cfg.deps[d], drs[d]) ELSE cfg.deps[d]]
  BY DEF Configuration, applyDraftEdits
<1>4. ASSUME NEW d \in EditorDeployments
      PROVE  DeploymentSound(Drafted(cfg.deps[d], drs[d]))
  <2>. DEFINE x == cfg.deps[d]
              e == IF drs[d].enabled # Unset THEN drs[d].enabled ELSE x.enabled
              l == IF drs[d].limit # -1 THEN drs[d].limit ELSE x.limit
  <2>1. x = [known |-> x.known, enabled |-> x.enabled, limit |-> x.limit, ratio |-> x.ratio]
    BY DEF Configuration, DeploymentSound
  <2>2. Drafted(x, drs[d]) = [x EXCEPT !.enabled = e, !.limit = l, !.ratio = "default"]
    BY DEF Drafted
  <2>. HIDE DEF x, e, l
  <2>3. Drafted(x, drs[d]) = [known |-> x.known, enabled |-> e, limit |-> l, ratio |-> "default"]
    BY <2>1, <2>2
  <2>. QED BY <2>3 DEF DeploymentSound, x
<1>. QED BY <1>1, <1>2, <1>3, <1>4 DEF Configuration

\* The modes change the preferred deployment and the degrade flags of the models that own
\* one of their deployments, and the limits of their deployments.
LEMMA ModedIsSound ==
  ASSUME NEW cfg, Configuration(cfg), NEW ms, NEW owners
  PROVE  LET c == applyDeploymentModes(cfg, ms, owners) IN
         /\ Configuration(c)
         /\ \A v \in VMs : /\ c.vms[v].exists = cfg.vms[v].exists
                           /\ c.vms[v].order = cfg.vms[v].order
                           /\ (\A i \in DOMAIN ms : v \notin owners[ms[i][1]]) =>
                                c.vms[v] = cfg.vms[v]
         /\ \A d \in EditorDeployments :
              /\ c.deps[d].known = cfg.deps[d].known
              /\ c.deps[d].enabled = cfg.deps[d].enabled
              /\ <<d, "fixed">> \notin ToSet(ms) => c.deps[d] = cfg.deps[d]
<1>. DEFINE c == applyDeploymentModes(cfg, ms, owners)
            Entries(v) == {i \in DOMAIN ms : Concerns(cfg, owners, ms[i], v)}
            LastOf(v) == ms[CHOOSE i \in Entries(v) : \A j \in Entries(v) : j <= i]
            Fixed(d) == \E v \in VMs : \E i \in Entries(v) : ms[i] = <<d, "fixed">>
<1>1. c = [vms |-> [v \in VMs |-> IF Entries(v) = {} THEN cfg.vms[v]
                      ELSE [cfg.vms[v] EXCEPT !.preferred = LastOf(v)[1],
                                              !.degrade = (LastOf(v)[2] = "error")]],
           deps |-> [d \in EditorDeployments |->
                      IF Fixed(d) THEN [cfg.deps[d] EXCEPT !.limit = 0] ELSE cfg.deps[d]]]
  BY DEF applyDeploymentModes
<1>2. \A v \in VMs : (\A i \in DOMAIN ms : v \notin owners[ms[i][1]]) => Entries(v) = {}
  BY DEF Concerns
<1>3. \A d \in EditorDeployments : <<d, "fixed">> \notin ToSet(ms) => ~Fixed(d)
  BY DEF ToSet
<1>. HIDE DEF c, Entries, LastOf, Fixed
<1>4. ASSUME NEW v \in VMs
      PROVE  /\ ModelSound(c.vms[v]) /\ c.vms[v].exists = cfg.vms[v].exists
             /\ c.vms[v].order = cfg.vms[v].order
             /\ Entries(v) = {} => c.vms[v] = cfg.vms[v]
  <2>1. ModelSound(cfg.vms[v])
    BY DEF Configuration
  <2>. QED BY <1>1, <2>1 DEF ModelSound
<1>5. ASSUME NEW d \in EditorDeployments
      PROVE  /\ DeploymentSound(c.deps[d]) /\ c.deps[d].known = cfg.deps[d].known
             /\ c.deps[d].enabled = cfg.deps[d].enabled
             /\ ~Fixed(d) => c.deps[d] = cfg.deps[d]
  <2>1. DeploymentSound(cfg.deps[d])
    BY DEF Configuration
  <2>. QED BY <1>1, <2>1 DEF DeploymentSound
<1>6. Configuration(c)
  BY <1>1, <1>4, <1>5 DEF Configuration
<1>. QED BY <1>2, <1>3, <1>4, <1>5, <1>6 DEF c

LEMMA AdditionIsSound ==
  ASSUME NEW cfg, Configuration(cfg), NEW d \in EditorDeployments, NEW v, d \notin Known(cfg)
  PROVE  LET c == addDeployment(cfg, d, v) IN
         /\ Configuration(c)
         /\ \A w \in VMs \ {v} : c.vms[w] = cfg.vms[w]
         /\ \A x \in EditorDeployments \ {d} : c.deps[x] = cfg.deps[x]
         /\ c.deps[d].known
<1>. DEFINE c == addDeployment(cfg, d, v)
            new == [known |-> TRUE, enabled |-> "on", limit |-> 0, ratio |-> "default"]
<1>1. c = [vms |-> IF cfg.vms[v].exists
                   THEN [cfg.vms EXCEPT ![v].order = Append(Listed(cfg, v), d)] ELSE cfg.vms,
           deps |-> [cfg.deps EXCEPT ![d] = new]]
  BY DEF addDeployment
<1>. HIDE DEF c
<1>2. c.vms = [w \in VMs |-> c.vms[w]] /\ \A w \in VMs \ {v} : c.vms[w] = cfg.vms[w]
  BY <1>1 DEF Configuration
<1>3. \A w \in VMs : ModelSound(c.vms[w])
  BY <1>1 DEF Configuration, ModelSound
<1>4. /\ c.deps = [x \in EditorDeployments |-> c.deps[x]] /\ c.deps[d] = new
      /\ \A x \in EditorDeployments \ {d} : c.deps[x] = cfg.deps[x]
  BY <1>1 DEF Configuration
<1>5. DeploymentSound(new)
  BY DEF DeploymentSound
<1>6. \A x \in EditorDeployments : DeploymentSound(c.deps[x])
  BY <1>4, <1>5 DEF Configuration
<1>7. Configuration(c)
  BY <1>1, <1>2, <1>3, <1>4, <1>6 DEF Configuration
<1>. QED BY <1>2, <1>4, <1>7 DEF c

\* A change of one model.
LEMMA ModelChangeIsSound ==
  ASSUME NEW cfg, Configuration(cfg), NEW v \in VMs, NEW m, ModelSound(m)
  PROVE  LET c == [cfg EXCEPT !.vms[v] = m] IN
         /\ Configuration(c) /\ c.deps = cfg.deps
         /\ \A w \in VMs \ {v} : c.vms[w] = cfg.vms[w]
<1>. DEFINE c == [cfg EXCEPT !.vms[v] = m]
<1>1. c = [vms |-> [cfg.vms EXCEPT ![v] = m], deps |-> cfg.deps]
  BY DEF Configuration
<1>. HIDE DEF c
<1>2. c.vms = [w \in VMs |-> IF w = v THEN m ELSE cfg.vms[w]] /\ c.deps = cfg.deps
  BY <1>1 DEF Configuration
<1>3. \A w \in VMs : ModelSound(c.vms[w])
  BY <1>2 DEF Configuration
<1>4. Configuration(c)
  BY <1>1, <1>2, <1>3 DEF Configuration
<1>. QED BY <1>2, <1>4 DEF c

LEMMA RemovalIsSound ==
  ASSUME NEW cfg, Configuration(cfg), NEW d \in Known(cfg), NEW v \in VMs, cfg.vms[v].exists
  PROVE  LET c == deleteDeployment(cfg, d, v) IN
         /\ Configuration(c) /\ c.deps = cfg.deps
         /\ \A w \in VMs \ {v} : c.vms[w] = cfg.vms[w]
<1>. DEFINE listed == Listed(cfg, v)
            kept == Picked(listed, {i \in DOMAIN listed : listed[i] # d})
            m == [cfg.vms[v] EXCEPT !.order = kept]
<1>1. deleteDeployment(cfg, d, v) = [cfg EXCEPT !.vms[v].order = kept]
  BY DEF deleteDeployment
<1>. HIDE DEF kept
<1>2. [cfg EXCEPT !.vms[v].order = kept] = [cfg EXCEPT !.vms[v] = m]
  BY DEF Configuration
<1>3. ModelSound(m)
  <2>1. ModelSound(cfg.vms[v])
    BY DEF Configuration
  <2>. QED BY <2>1 DEF ModelSound
<1>. QED BY <1>1, <1>2, <1>3, ModelChangeIsSound

LEMMA ModelsComeAndGo ==
  ASSUME NEW cfg, Configuration(cfg), NEW v \in VMs
  PROVE  /\ addVirtualModel(cfg, v) # Nothing => Configuration(addVirtualModel(cfg, v))
         /\ deleteVirtualModel(cfg, v) # Nothing => Configuration(deleteVirtualModel(cfg, v))
         /\ ~cfg.vms[v].exists => Configuration(addVirtualModel(cfg, v))
         /\ cfg.vms[v].exists => Configuration(deleteVirtualModel(cfg, v))
<1>1. ModelSound(NoVM) /\ ModelSound([NoVM EXCEPT !.exists = TRUE])
  <2>1. ModelSound(NoVM)
    BY DEF ModelSound, NoVM
  <2>2. \A m, e : ModelSound(m) => ModelSound([m EXCEPT !.exists = e])
    BY DEF ModelSound
  <2>. QED BY <2>1, <2>2
<1>2. Configuration([cfg EXCEPT !.vms[v] = NoVM])
  BY <1>1, ModelChangeIsSound
<1>3. Configuration([cfg EXCEPT !.vms[v] = [NoVM EXCEPT !.exists = TRUE]])
  BY <1>1, ModelChangeIsSound
<1>. QED BY <1>2, <1>3 DEF addVirtualModel, deleteVirtualModel

\* The payload of a request is a configuration.
LEMMA PayloadIsSound ==
  ASSUME NEW o, RequestSound(o), o.phase # "get"
  PROVE  Configuration(Mutator(o, o.fresh))
<1>. DEFINE cfg == o.fresh
<1>1. Applicable(o, cfg) /\ Configuration(cfg)
  BY DEF RequestSound, Applicable
<1>2. CASE o.kind = "save"
  <2>1. Configuration(applyDraftEdits(cfg, o.drafts))
    BY <1>1, DraftedIsSound
  <2>2. Configuration(applyDeploymentModes(applyDraftEdits(cfg, o.drafts), o.modes, o.owners))
    BY <2>1, ModedIsSound
  <2>. QED BY <1>2, <2>2 DEF Mutator, buildSavePayload
<1>3. CASE o.kind = "addDep"
  BY <1>1, <1>3, AdditionIsSound DEF Mutator, Applicable, RequestSound
<1>4. CASE o.kind = "delDep"
  BY <1>1, <1>4, RemovalIsSound DEF Mutator, Applicable, RequestSound
<1>5. CASE o.kind = "addVM"
  BY <1>1, <1>5, ModelsComeAndGo DEF Mutator, Applicable, RequestSound
<1>6. CASE o.kind = "delVM"
  BY <1>1, <1>6, ModelsComeAndGo DEF Mutator, Applicable, RequestSound
<1>. QED BY <1>2, <1>3, <1>4, <1>5, <1>6 DEF RequestSound

\* The handler stores the payload, but for the orders that are empty.
LEMMA HandlerStores ==
  ASSUME NEW current, Configuration(current), NEW payload, Configuration(payload)
  PROVE  LET c == updateManualConfig(current, payload) IN
         /\ Configuration(c) /\ c.deps = payload.deps
         /\ \A v \in VMs :
              /\ c.vms[v].preferred = payload.vms[v].preferred
              /\ c.vms[v].degrade = payload.vms[v].degrade
              /\ payload.vms[v].order = current.vms[v].order => c.vms[v] = payload.vms[v]
<1>. DEFINE c == updateManualConfig(current, payload)
            f == [v \in VMs |->
                   IF payload.vms[v].exists /\ payload.vms[v].order = <<>>
                   THEN [payload.vms[v] EXCEPT !.order = current.vms[v].order]
                   ELSE payload.vms[v]]
<1>1. c = [payload EXCEPT !.vms = f]
  BY DEF updateManualConfig
<1>. HIDE DEF c, f
<1>2. c = [vms |-> f, deps |-> payload.deps]
  BY <1>1 DEF Configuration
<1>3. ASSUME NEW v \in VMs
      PROVE  /\ ModelSound(f[v])
             /\ f[v].preferred = payload.vms[v].preferred
             /\ f[v].degrade = payload.vms[v].degrade
             /\ payload.vms[v].order = current.vms[v].order => f[v] = payload.vms[v]
  <2>1. ModelSound(payload.vms[v])
    BY DEF Configuration
  <2>. QED BY <2>1 DEF ModelSound, f
<1>4. f = [v \in VMs |-> f[v]]
  BY DEF f
<1>5. Configuration(c)
  BY <1>2, <1>3, <1>4 DEF Configuration
<1>. QED BY <1>2, <1>3, <1>5 DEF c

\* What is stored follows what was, and the configurations before it stay.
LEMMA GatewayGrows ==
  ASSUME NEW cfgs, PastSound(cfgs), NEW c, Configuration(c)
  PROVE  /\ PastSound(Append(cfgs, c)) /\ Last(Append(cfgs, c)) = c
         /\ Configuration(Last(cfgs))
<1>. DEFINE S == ToSet(cfgs) \cup {c}
            after == Append(cfgs, c)
<1>1. cfgs \in Seq(S) /\ Len(cfgs) \in Nat /\ DOMAIN cfgs = 1..Len(cfgs) /\ Len(cfgs) # 0
  BY DEF PastSound
<1>2. /\ after \in Seq(S) /\ Len(after) = Len(cfgs) + 1 /\ after[Len(cfgs) + 1] = c
      /\ \A i \in 1..Len(cfgs) : after[i] = cfgs[i]
  BY <1>1
<1>. HIDE DEF after
<1>3. \A i \in DOMAIN after : after[i] \in ToSet(after)
  BY DEF ToSet
<1>4. after \in Seq(ToSet(after))
  BY <1>2, <1>3
<1>5. Last(after) = c /\ after # <<>>
  BY <1>1, <1>2 DEF Last
<1>6. \A i \in DOMAIN after : Configuration(after[i])
  BY <1>1, <1>2 DEF PastSound
<1>7. Configuration(Last(cfgs))
  BY <1>1 DEF PastSound, Last
<1>. QED BY <1>4, <1>5, <1>6, <1>7 DEF PastSound, after

LEMMA EditorInitially == EditorInit => EditorInv
<1>. SUFFICES ASSUME EditorInit PROVE EditorInv
  OBVIOUS
<1>1. PastSound(past)
  <2>1. past = <<FirstGateway>> /\ past[1] = FirstGateway /\ Len(past) = 1
    BY DEF EditorInit
  <2>2. past \in Seq(ToSet(past))
    BY <2>1 DEF ToSet
  <2>. QED BY <2>1, <2>2, FirstGatewayIsSound DEF PastSound
<1>2. DraftsSound(drafts)
  BY DEF EditorInit, NoDrafts, NoDraft, DraftsSound, DraftSound
<1>. QED BY <1>1, <1>2 DEF EditorInv, EditorInit

\* The edits of a row.
LEMMA EditOfDraft ==
  ASSUME NEW x, DraftSound(x), NEW y, NEW r,
         \/ r = [x EXCEPT !.touched = TRUE, !.limit = y]
         \/ r = [x EXCEPT !.touched = TRUE, !.enabled = y]
  PROVE  DraftSound(r)
<1>1. x = [touched |-> x.touched, enabled |-> x.enabled, limit |-> x.limit]
  BY DEF DraftSound
<1>2. \/ r = [touched |-> TRUE, enabled |-> x.enabled, limit |-> y]
      \/ r = [touched |-> TRUE, enabled |-> y, limit |-> x.limit]
  BY <1>1
<1>. QED BY <1>2 DEF DraftSound

LEMMA EditsAreSound ==
  ASSUME DraftsSound(drafts), NEW d \in EditorDeployments, NEW y
  PROVE  /\ DraftsSound([drafts EXCEPT ![d].touched = TRUE, ![d].limit = y])
         /\ DraftsSound([drafts EXCEPT ![d].touched = TRUE, ![d]["enabled"] = y])
         /\ DraftsSound([drafts EXCEPT ![d].touched = TRUE, ![d]["limit"] = y])
         /\ DraftsSound([drafts EXCEPT ![d] = NoDraft])
<1>. DEFINE limited == [drafts[d] EXCEPT !.touched = TRUE, !.limit = y]
            switched == [drafts[d] EXCEPT !.touched = TRUE, !.enabled = y]
<1>1. DraftSound(limited) /\ DraftSound(switched)
  BY EditOfDraft DEF DraftsSound
<1>2. DraftSound(NoDraft)
  BY DEF DraftSound, NoDraft
<1>3. /\ [drafts EXCEPT ![d].touched = TRUE, ![d].limit = y] = [drafts EXCEPT ![d] = limited]
      /\ [drafts EXCEPT ![d].touched = TRUE, ![d]["limit"] = y] = [drafts EXCEPT ![d] = limited]
      /\ [drafts EXCEPT ![d].touched = TRUE, ![d]["enabled"] = y] = [drafts EXCEPT ![d] = switched]
  BY DEF DraftsSound
<1>. HIDE DEF limited, switched
<1>4. \A x : DraftSound(x) => DraftsSound([drafts EXCEPT ![d] = x])
  BY DEF DraftsSound
<1>. QED BY <1>1, <1>2, <1>3, <1>4

LEMMA NoDraftsAreSound == DraftsSound(NoDrafts)
BY DEF DraftsSound, NoDrafts, DraftSound, NoDraft

----------------------------------------------------------------------------
\* The inductive invariant of the editor.

LEMMA RequestIsSound ==
  ASSUME DraftsSound(drafts), NEW kind \in {"save", "addDep", "delDep", "addVM", "delVM"},
         NEW d, kind \in {"addDep", "delDep"} => d \in EditorDeployments,
         NEW v, kind # "save" => v \in VMs
  PROVE  RequestSound(Request(kind, d, v))
<1>. DEFINE o == Request(kind, d, v)
<1>1. o = [kind |-> kind, dep |-> d, vm |-> v, phase |-> "get", fresh |-> Nothing,
           drafts |-> drafts, modes |-> modes, owners |-> deploymentOwnerVm(config)]
  BY DEF Request
<1>. HIDE DEF o
<1>2. /\ o = [kind |-> o.kind, dep |-> o.dep, vm |-> o.vm, phase |-> o.phase, fresh |-> o.fresh,
              drafts |-> o.drafts, modes |-> o.modes, owners |-> o.owners]
      /\ o.kind = kind /\ o.dep = d /\ o.vm = v /\ o.phase = "get" /\ o.drafts = drafts
  BY <1>1
<1>. QED BY <1>2 DEF RequestSound, o

\* The fields of a request that moves on to its next phase.
LEMMA NextPhase ==
  ASSUME NEW o, RequestSound(o), NEW p, NEW c, NEW r,
         \/ r = [o EXCEPT !.phase = p] /\ c = o.fresh
         \/ r = [o EXCEPT !.phase = p, !.fresh = c]
  PROVE  r = [kind |-> o.kind, dep |-> o.dep, vm |-> o.vm, phase |-> p, fresh |-> c,
              drafts |-> o.drafts, modes |-> o.modes, owners |-> o.owners]
<1>1. o = [kind |-> o.kind, dep |-> o.dep, vm |-> o.vm, phase |-> o.phase, fresh |-> o.fresh,
           drafts |-> o.drafts, modes |-> o.modes, owners |-> o.owners]
  BY DEF RequestSound
<1>. QED BY <1>1

LEMMA PhaseIsSound ==
  ASSUME NEW o, RequestSound(o), NEW p \in {"put", "stored", "reload"}, NEW c, NEW r,
         \/ r = [o EXCEPT !.phase = p] /\ c = o.fresh
         \/ r = [o EXCEPT !.phase = p, !.fresh = c],
         Applicable(o, c)
  PROVE  RequestSound(r)
<1>1. r = [kind |-> o.kind, dep |-> o.dep, vm |-> o.vm, phase |-> p, fresh |-> c,
           drafts |-> o.drafts, modes |-> o.modes, owners |-> o.owners]
  BY NextPhase
<1>2. /\ r = [kind |-> r.kind, dep |-> r.dep, vm |-> r.vm, phase |-> r.phase, fresh |-> r.fresh,
              drafts |-> r.drafts, modes |-> r.modes, owners |-> r.owners]
      /\ r.kind = o.kind /\ r.dep = o.dep /\ r.vm = o.vm /\ r.phase = p /\ r.fresh = c
      /\ r.drafts = o.drafts
  BY <1>1
<1>3. Applicable(r, c)
  BY <1>2 DEF Applicable
<1>. QED BY <1>2, <1>3 DEF RequestSound

\* A mutator that does not give up was applicable.
LEMMA MutatorGivesUp ==
  ASSUME NEW o, RequestSound(o), NEW cfg, Configuration(cfg), Mutator(o, cfg) # Nothing
  PROVE  Applicable(o, cfg)
BY DEF Mutator, addDeployment, deleteDeployment, addVirtualModel, deleteVirtualModel,
       Applicable, RequestSound

\* What the handler stores for a sound payload.
LEMMA StoringIsSound ==
  ASSUME PastSound(past), NEW payload, Configuration(payload), Store(payload)
  PROVE  PastSound(past') /\ Last(past') = updateManualConfig(running, payload)
<1>1. Configuration(running)
  BY GatewayGrows, FirstGatewayIsSound DEF running
<1>2. Configuration(updateManualConfig(running, payload))
  BY <1>1, HandlerStores
<1>. QED BY <1>2, GatewayGrows DEF Store

LEMMA OtherPayloadsAreSound ==
  ASSUME PastSound(past), NEW payload \in OtherPayloads \ {Nothing}
  PROVE  Configuration(payload)
<1>. DEFINE quick(kind, d, v) == Mutator([kind |-> kind, dep |-> d, vm |-> v], running)
<1>1. Configuration(running)
  BY GatewayGrows, FirstGatewayIsSound DEF running
<1>2. ASSUME NEW d \in EditorDeployments, NEW v \in VMs, payload = quick("addDep", d, v)
      PROVE  Configuration(payload)
  <2>1. payload = addDeployment(running, d, v)
    BY <1>2 DEF Mutator
  <2>2. d \notin Known(running)
    BY <2>1 DEF addDeployment
  <2>. QED BY <1>1, <2>1, <2>2, AdditionIsSound
<1>3. ASSUME NEW d \in EditorDeployments, NEW v \in VMs, payload = quick("delDep", d, v)
      PROVE  Configuration(payload)
  <2>1. payload = deleteDeployment(running, d, v)
    BY <1>3 DEF Mutator
  <2>2. d \in Known(running) /\ running.vms[v].exists
    BY <2>1 DEF deleteDeployment
  <2>. QED BY <1>1, <2>1, <2>2, RemovalIsSound
<1>4. ASSUME NEW v \in VMs, payload \in {quick("addVM", Unset, v), quick("delVM", Unset, v)}
      PROVE  Configuration(payload)
  <2>1. payload \in {addVirtualModel(running, v), deleteVirtualModel(running, v)}
    BY <1>4 DEF Mutator
  <2>. QED BY <1>1, <2>1, ModelsComeAndGo
<1>5. ASSUME NEW d \in Known(running), payload = [running EXCEPT !.deps[d].enabled = "off"]
      PROVE  Configuration(payload)
  <2>. DEFINE x == [running.deps[d] EXCEPT !.enabled = "off"]
  <2>1. d \in EditorDeployments /\ DeploymentSound(running.deps[d])
    BY <1>1 DEF Known, Configuration
  <2>2. DeploymentSound(x)
    BY <2>1 DEF DeploymentSound
  <2>3. payload = [vms |-> running.vms, deps |-> [running.deps EXCEPT ![d] = x]]
    BY <1>1, <1>5 DEF Configuration
  <2>. HIDE DEF x
  <2>. QED BY <1>1, <2>1, <2>2, <2>3 DEF Configuration
<1>6. OtherPayloads =
        {quick("addDep", d, v) : d \in EditorDeployments, v \in {x \in VMs : running.vms[x].exists}}
          \cup {quick("delDep", d, v) : d \in EditorDeployments, v \in VMs}
          \cup {quick("addVM", Unset, v) : v \in VMs} \cup {quick("delVM", Unset, v) : v \in VMs}
          \cup {[running EXCEPT !.deps[d].enabled = "off"] : d \in Known(running)}
  BY DEF OtherPayloads
<1>. HIDE DEF quick
<1>. QED BY <1>2, <1>3, <1>4, <1>5, <1>6

LEMMA EditorStep == EditorInv /\ [EditorNext]_editorVars => EditorInv'
<1>. SUFFICES ASSUME EditorInv, [EditorNext]_editorVars PROVE EditorInv'
  OBVIOUS
<1>. USE DEF EditorInv
<1>1. CASE UNCHANGED editorVars
  BY <1>1 DEF editorVars, PastSound, DraftsSound
<1>2. ASSUME UNCHANGED <<past, drafts>>, op' \in {op, Nothing}
      PROVE  EditorInv'
  BY <1>2 DEF PastSound, DraftsSound
<1>3. ASSUME NEW who \in Loads, ConfigArrives(who)
      PROVE  EditorInv'
  BY <1>2, <1>3 DEF ConfigArrives, ConfigLoaded, ConfigLoadFailed, OpAfterLoad
<1>4. CASE FreshArrived
  <2>1. CASE op' = Nothing
    BY <1>2, <1>4, <2>1 DEF FreshArrived
  <2>2. CASE op' # Nothing
    <3>1. /\ op' = [op EXCEPT !.phase = "put", !.fresh = running]
          /\ Mutator(op, running) # Nothing /\ RequestSound(op)
      BY <1>4, <2>2 DEF FreshArrived
    <3>2. Configuration(running)
      BY GatewayGrows, FirstGatewayIsSound DEF running
    <3>3. Applicable(op, running)
      BY <3>1, <3>2, MutatorGivesUp
    <3>4. RequestSound(op')
      BY <3>1, <3>3, PhaseIsSound
    <3>. QED BY <1>4, <3>4 DEF FreshArrived, PastSound, DraftsSound
  <2>. QED BY <2>1, <2>2
<1>5. CASE PutHandled
  <2>. DEFINE payload == Mutator(op, op.fresh)
  <2>1. RequestSound(op) /\ op.phase = "put"
    BY <1>5 DEF PutHandled
  <2>2. CASE Acceptable(running, payload)
    <3>1. Configuration(payload) /\ Applicable(op, op.fresh)
      BY <2>1, PayloadIsSound DEF RequestSound
    <3>2. Store(payload) /\ op' = [op EXCEPT !.phase = "stored"] /\ UNCHANGED drafts
      BY <1>5, <2>2 DEF PutHandled
    <3>. HIDE DEF payload
    <3>3. PastSound(past)'
      BY <3>1, <3>2, StoringIsSound
    <3>4. RequestSound(op')
      BY <2>1, <3>1, <3>2, PhaseIsSound
    <3>. QED BY <3>2, <3>3, <3>4 DEF DraftsSound
  <2>3. CASE ~Acceptable(running, payload)
    BY <1>2, <1>5, <2>3 DEF PutHandled
  <2>. QED BY <2>2, <2>3
<1>6. CASE PutAnswered
  <2>1. RequestSound(op) /\ op.phase = "stored" /\ Applicable(op, op.fresh)
    BY <1>6 DEF PutAnswered, RequestSound
  <2>2. RequestSound(op')
    BY <1>6, <2>1, PhaseIsSound DEF PutAnswered
  <2>3. DraftsSound(drafts')
    <3>1. CASE op.kind = "delDep"
      BY <1>6, <2>1, <3>1, EditsAreSound DEF PutAnswered, RequestSound
    <3>2. CASE op.kind # "delDep"
      <4>1. drafts' \in {drafts, NoDrafts}
        BY <1>6, <3>2 DEF PutAnswered
      <4>. QED BY <4>1, NoDraftsAreSound
    <3>. QED BY <3>1, <3>2
  <2>. QED BY <1>6, <2>2, <2>3 DEF PutAnswered, PastSound
<1>7. CASE ExecuteFails
  BY <1>2, <1>7 DEF ExecuteFails
<1>8. CASE Refresh \/ Retry
  BY <1>2, <1>8 DEF Refresh, Retry
<1>9. ASSUME NEW d \in EditorDeployments, NEW value,
             setDraftField(d, "enabled", value) \/ setDraftField(d, "limit", value)
      PROVE  EditorInv'
  <2>1. DraftsSound(drafts')
    BY <1>9, EditsAreSound DEF setDraftField
  <2>. QED BY <1>9, <2>1 DEF setDraftField, PastSound
<1>10. ASSUME NEW d \in EditorDeployments, NEW m, NEW v, handleModeChange(d, m, v)
       PROVE  EditorInv'
  <2>1. DraftsSound(drafts')
    BY <1>10, EditsAreSound DEF handleModeChange
  <2>. QED BY <1>10, <2>1 DEF handleModeChange, PastSound
<1>11. ASSUME NEW kind \in {"save", "addDep", "delDep", "addVM", "delVM"}, NEW d, NEW v,
              kind \in {"addDep", "delDep"} => d \in EditorDeployments,
              kind # "save" => v \in VMs,
              Execute(kind, d, v)
       PROVE  EditorInv'
  <2>1. RequestSound(Request(kind, d, v))
    BY <1>11, RequestIsSound
  <2>. QED BY <1>11, <2>1 DEF Execute, PastSound, DraftsSound
<1>12. CASE handleSave
  BY <1>11, <1>12 DEF handleSave
<1>13. ASSUME NEW d \in EditorDeployments, NEW v \in VMs,
              handleAddDeployment(d, v) \/ handleDeleteDeployment(d, v)
       PROVE  EditorInv'
  BY <1>11, <1>13 DEF handleAddDeployment, handleDeleteDeployment
<1>14. ASSUME NEW v \in VMs, handleAddVirtualModel(v) \/ handleDeleteVirtualModel(v)
       PROVE  EditorInv'
  BY <1>11, <1>14 DEF handleAddVirtualModel, handleDeleteVirtualModel
<1>15. CASE OtherSaves
  <2>1. PICK payload \in OtherPayloads \ {Nothing} : Store(payload)
    BY <1>15 DEF OtherSaves
  <2>2. PastSound(past)'
    BY <2>1, OtherPayloadsAreSound, StoringIsSound
  <2>. QED BY <1>15, <2>2 DEF OtherSaves, DraftsSound
<1>. QED BY <1>1, <1>3, <1>4, <1>5, <1>6, <1>7, <1>8, <1>9, <1>10, <1>12, <1>13, <1>14, <1>15
         DEF EditorNext, SaveStep

LEMMA EditorInvariant == EditorSpec => []EditorInv
BY EditorInitially, EditorStep, PTL DEF EditorSpec

----------------------------------------------------------------------------
\* What a save makes of the configuration that it has fetched.

\* A request is stored by the handler alone, and as its payload.
LEMMA WhatIsStored ==
  ASSUME EditorInv, [EditorNext]_editorVars, Stored
  PROVE  /\ RequestSound(op) /\ Applicable(op, op.fresh) /\ Configuration(running)
         /\ Configuration(Mutator(op, op.fresh))
         /\ After = updateManualConfig(running, Mutator(op, op.fresh))
<1>1. op # Nothing /\ op.phase = "put" /\ op' # Nothing /\ op'.phase = "stored"
  BY DEF Stored
<1>2. RequestSound(op) /\ Applicable(op, op.fresh) /\ Configuration(Mutator(op, op.fresh))
  BY <1>1, PayloadIsSound DEF EditorInv, RequestSound
<1>3. Configuration(running)
  BY GatewayGrows, FirstGatewayIsSound DEF running, EditorInv
<1>4. PutHandled
  <2>1. op' # op /\ op # Nothing /\ op.phase = "put"
    BY <1>1
  <2>2. \A who : ~ConfigArrives(who)
    BY <1>1, <2>1 DEF ConfigArrives, ConfigLoaded, ConfigLoadFailed, OpAfterLoad
  <2>3. \A kind, d, v : ~Execute(kind, d, v)
    BY <2>1 DEF Execute
  <2>4. ~FreshArrived /\ ~PutAnswered /\ ~ExecuteFails
    BY <1>1 DEF FreshArrived, PutAnswered, ExecuteFails
  <2>5. ~Refresh /\ ~Retry /\ ~OtherSaves /\ ~UNCHANGED editorVars
    BY <2>1 DEF Refresh, Retry, OtherSaves, editorVars
  <2>6. \A d, f, x : ~setDraftField(d, f, x)
    BY <2>1 DEF setDraftField
  <2>7. \A d, m, v : ~handleModeChange(d, m, v)
    BY <2>1 DEF handleModeChange
  <2>8. \A d, v : ~handleAddDeployment(d, v) /\ ~handleDeleteDeployment(d, v)
    BY <2>3 DEF handleAddDeployment, handleDeleteDeployment
  <2>9. ~handleSave /\ \A v : ~handleAddVirtualModel(v) /\ ~handleDeleteVirtualModel(v)
    BY <2>3 DEF handleSave, handleAddVirtualModel, handleDeleteVirtualModel
  <2>. QED BY <2>2, <2>4, <2>5, <2>6, <2>7, <2>8, <2>9 DEF EditorNext, SaveStep
<1>5. Store(Mutator(op, op.fresh))
  BY <1>1, <1>4 DEF PutHandled
<1>6. After = updateManualConfig(running, Mutator(op, op.fresh))
  BY <1>2, <1>5, StoringIsSound DEF EditorInv, After
<1>. QED BY <1>2, <1>3, <1>6

\* What the save of a page does to the deployments, and to the models.
LEMMA WhatASaveStores ==
  ASSUME EditorInv, [EditorNext]_editorVars, Stored, op.kind = "save"
  PROVE  LET cfg == applyDraftEdits(op.fresh, op.drafts) IN
         /\ DraftsSound(op.drafts) /\ Configuration(op.fresh) /\ Configuration(cfg)
         /\ cfg.vms = op.fresh.vms
         /\ \A d \in EditorDeployments :
              /\ cfg.deps[d] = IF op.fresh.deps[d].known /\ op.drafts[d].touched
                               THEN Drafted(op.fresh.deps[d], op.drafts[d]) ELSE op.fresh.deps[d]
              /\ After.deps[d].known = cfg.deps[d].known
              /\ After.deps[d].enabled = cfg.deps[d].enabled
              /\ <<d, "fixed">> \notin ToSet(op.modes) => After.deps[d] = cfg.deps[d]
         /\ \A v \in VMs :
              /\ op.fresh = running => After.vms[v].order = op.fresh.vms[v].order
              /\ (\A i \in DOMAIN op.modes : v \notin op.owners[op.modes[i][1]]) =>
                   /\ After.vms[v].preferred = op.fresh.vms[v].preferred
                   /\ After.vms[v].degrade = op.fresh.vms[v].degrade
<1>. DEFINE cfg == applyDraftEdits(op.fresh, op.drafts)
            payload == applyDeploymentModes(cfg, op.modes, op.owners)
<1>1. /\ RequestSound(op) /\ Configuration(op.fresh) /\ Configuration(running)
      /\ DraftsSound(op.drafts)
      /\ After = updateManualConfig(running, payload)
  BY WhatIsStored DEF Mutator, buildSavePayload, RequestSound, Applicable
<1>2. Configuration(cfg) /\ cfg.vms = op.fresh.vms
  BY <1>1, DraftedIsSound
<1>3. \A d \in EditorDeployments :
        cfg.deps[d] = IF op.fresh.deps[d].known /\ op.drafts[d].touched
                      THEN Drafted(op.fresh.deps[d], op.drafts[d]) ELSE op.fresh.deps[d]
  BY <1>1 DEF applyDraftEdits, Configuration
<1>. HIDE DEF cfg
<1>4. /\ Configuration(payload)
      /\ \A v \in VMs : /\ payload.vms[v].order = cfg.vms[v].order
                        /\ (\A i \in DOMAIN op.modes : v \notin op.owners[op.modes[i][1]]) =>
                             payload.vms[v] = cfg.vms[v]
      /\ \A d \in EditorDeployments :
              /\ payload.deps[d].known = cfg.deps[d].known
              /\ payload.deps[d].enabled = cfg.deps[d].enabled
              /\ <<d, "fixed">> \notin ToSet(op.modes) => payload.deps[d] = cfg.deps[d]
  BY <1>2, ModedIsSound
<1>. HIDE DEF payload
<1>5. /\ After.deps = payload.deps
      /\ \A v \in VMs :
           /\ After.vms[v].preferred = payload.vms[v].preferred
           /\ After.vms[v].degrade = payload.vms[v].degrade
           /\ payload.vms[v].order = running.vms[v].order => After.vms[v] = payload.vms[v]
  BY <1>1, <1>4, HandlerStores
<1>. QED BY <1>1, <1>2, <1>3, <1>4, <1>5 DEF cfg

\* every edit of the page
EditsApplied ==
  Stored /\ op.kind = "save" =>
    \A d \in Known(op.fresh) :
        /\ op.drafts[d].enabled # Unset => After.deps[d].enabled = op.drafts[d].enabled
        /\ op.drafts[d].limit > 0 /\ <<d, "fixed">> \notin ToSet(op.modes) =>
              After.deps[d].limit = op.drafts[d].limit

LEMMA EditsAreApplied ==
  ASSUME EditorInv, [EditorNext]_editorVars
  PROVE  EditsApplied
<1>. SUFFICES ASSUME Stored, op.kind = "save", NEW d \in Known(op.fresh)
              PROVE  /\ op.drafts[d].enabled # Unset => After.deps[d].enabled = op.drafts[d].enabled
                     /\ op.drafts[d].limit > 0 /\ <<d, "fixed">> \notin ToSet(op.modes) =>
                           After.deps[d].limit = op.drafts[d].limit
  BY DEF EditsApplied
<1>. DEFINE dep == op.fresh.deps[d]
            dr == op.drafts[d]
            x == applyDraftEdits(op.fresh, op.drafts).deps[d]
<1>1. /\ d \in EditorDeployments /\ dep.known /\ DraftSound(dr) /\ DeploymentSound(dep)
      /\ x = IF dep.known /\ dr.touched THEN Drafted(dep, dr) ELSE dep
      /\ After.deps[d].enabled = x.enabled
      /\ <<d, "fixed">> \notin ToSet(op.modes) => After.deps[d] = x
  BY WhatASaveStores DEF Known, DraftsSound, Configuration
<1>. HIDE DEF dep, dr, x
<1>2. dr.enabled # Unset \/ dr.limit # -1 => x = Drafted(dep, dr)
  BY <1>1 DEF DraftSound
<1>3. /\ dr.enabled # Unset => Drafted(dep, dr).enabled = dr.enabled
      /\ dr.limit # -1 => Drafted(dep, dr).limit = dr.limit
  BY <1>1 DEF Drafted, DeploymentSound
<1>4. dr.limit > 0 => dr.limit # -1
  OBVIOUS
<1>. QED BY <1>1, <1>2, <1>3, <1>4 DEF dr

\* ... and nothing else
RestKept ==
  Stored /\ op.kind = "save" =>
    LET moded == {op.modes[i][1] : i \in DOMAIN op.modes} IN
    /\ \A d \in EditorDeployments : ~op.drafts[d].touched /\ d \notin moded =>
          After.deps[d] = op.fresh.deps[d]
    /\ \A v \in VMs :
          /\ (\A d \in moded : v \notin op.owners[d]) =>
                /\ After.vms[v].preferred = op.fresh.vms[v].preferred
                /\ After.vms[v].degrade = op.fresh.vms[v].degrade
          /\ op.fresh = running => After.vms[v].order = op.fresh.vms[v].order
    /\ Known(After) = Known(op.fresh)

LEMMA TheRestIsKept ==
  ASSUME EditorInv, [EditorNext]_editorVars
  PROVE  RestKept
<1>. DEFINE moded == {op.modes[i][1] : i \in DOMAIN op.modes}
<1>1. ASSUME Stored, op.kind = "save", NEW d \in EditorDeployments
      PROVE  /\ ~op.drafts[d].touched /\ d \notin moded => After.deps[d] = op.fresh.deps[d]
             /\ After.deps[d].known = op.fresh.deps[d].known
  <2>. DEFINE dep == op.fresh.deps[d]
              dr == op.drafts[d]
              x == applyDraftEdits(op.fresh, op.drafts).deps[d]
  <2>1. /\ DeploymentSound(dep)
        /\ x = IF dep.known /\ dr.touched THEN Drafted(dep, dr) ELSE dep
        /\ After.deps[d].known = x.known
        /\ <<d, "fixed">> \notin ToSet(op.modes) => After.deps[d] = x
    BY <1>1, WhatASaveStores DEF Configuration
  <2>2. d \notin moded => <<d, "fixed">> \notin ToSet(op.modes)
    BY DEF ToSet
  <2>. HIDE DEF dep, dr, x, moded
  <2>3. Drafted(dep, dr).known = dep.known
    BY <2>1 DEF Drafted, DeploymentSound
  <2>. QED BY <2>1, <2>2, <2>3 DEF dep, dr
<1>2. ASSUME Stored, op.kind = "save", NEW v \in VMs
      PROVE  /\ (\A d \in moded : v \notin op.owners[d]) =>
                   /\ After.vms[v].preferred = op.fresh.vms[v].preferred
                   /\ After.vms[v].degrade = op.fresh.vms[v].degrade
             /\ op.fresh = running => After.vms[v].order = op.fresh.vms[v].order
  <2>1. (\A d \in moded : v \notin op.owners[d])
          => \A i \in DOMAIN op.modes : v \notin op.owners[op.modes[i][1]]
    OBVIOUS
  <2>. HIDE DEF moded
  <2>. QED BY <1>2, <2>1, WhatASaveStores
<1>3. Stored /\ op.kind = "save" => Known(After) = Known(op.fresh)
  BY <1>1 DEF Known
<1>. QED BY <1>1, <1>2, <1>3 DEF RestKept

\* a deployment of one model
OneModelChanged ==
  Stored /\ op.kind \in {"addDep", "delDep"} =>
    /\ \A v \in VMs \ {op.vm} : op.fresh = running => After.vms[v] = running.vms[v]
    /\ \A d \in EditorDeployments \ {op.dep} : After.deps[d] = op.fresh.deps[d]
    /\ op.dep \in Known(After)

LEMMA OneModelChanges ==
  ASSUME EditorInv, [EditorNext]_editorVars
  PROVE  OneModelChanged
<1>. DEFINE payload == Mutator(op, op.fresh)
<1>1. ASSUME Stored, op.kind \in {"addDep", "delDep"}
      PROVE  /\ \A v \in VMs \ {op.vm} : payload.vms[v] = op.fresh.vms[v]
             /\ \A d \in EditorDeployments \ {op.dep} : payload.deps[d] = op.fresh.deps[d]
             /\ op.dep \in EditorDeployments /\ payload.deps[op.dep].known
  <2>1. /\ Configuration(op.fresh) /\ Applicable(op, op.fresh)
        /\ op.dep \in EditorDeployments /\ op.vm \in VMs
    BY <1>1, WhatIsStored DEF Applicable, RequestSound
  <2>2. CASE op.kind = "addDep"
    <3>1. payload = addDeployment(op.fresh, op.dep, op.vm) /\ op.dep \notin Known(op.fresh)
      BY <2>1, <2>2 DEF Mutator, Applicable
    <3>. QED BY <2>1, <3>1, AdditionIsSound
  <2>3. CASE op.kind = "delDep"
    <3>1. /\ payload = deleteDeployment(op.fresh, op.dep, op.vm)
          /\ op.dep \in Known(op.fresh) /\ op.fresh.vms[op.vm].exists
      BY <2>1, <2>3 DEF Mutator, Applicable
    <3>2. payload.deps = op.fresh.deps /\ \A w \in VMs \ {op.vm} : payload.vms[w] = op.fresh.vms[w]
      BY <2>1, <3>1, RemovalIsSound
    <3>. QED BY <2>1, <3>1, <3>2 DEF Known
  <2>. QED BY <1>1, <2>2, <2>3
<1>. HIDE DEF payload
<1>2. ASSUME Stored, op.kind \in {"addDep", "delDep"}
      PROVE  /\ After.deps = payload.deps
             /\ \A v \in VMs : payload.vms[v].order = running.vms[v].order =>
                  After.vms[v] = payload.vms[v]
  BY <1>2, WhatIsStored, HandlerStores DEF payload
<1>3. ASSUME Stored, op.kind \in {"addDep", "delDep"}, op.fresh = running,
             NEW v \in VMs \ {op.vm}
      PROVE  After.vms[v] = running.vms[v]
  BY <1>1, <1>2, <1>3
<1>. QED BY <1>1, <1>2, <1>3 DEF OneModelChanged, Known

\* A save of the model editor applies every edit of the page to the configuration that it
\* has just fetched, keeps what the page did not edit, and a deployment is added to or
\* removed from one model alone, for any models, deployments, edits and other
\* administrators (buildSavePayload and the mutators of useFallbackSave's execute,
\* stored by updateManualConfig).
THEOREM SavesAreExact == EditorSpec => SaveIsExact
<1>1. EditorInv /\ [EditorNext]_editorVars => EditsApplied /\ RestKept /\ OneModelChanged
  BY EditsAreApplied, TheRestIsKept, OneModelChanges
<1>2. EditorSpec => [][EditsApplied]_editorVars /\ [][RestKept]_editorVars
                      /\ [][OneModelChanged]_editorVars
  BY <1>1, EditorInvariant, PTL DEF EditorSpec
<1>. QED BY <1>2 DEF EditsApplied, RestKept, OneModelChanged, SaveIsExact, SaveAppliesEdits,
         SaveKeepsTheRest, OneModelAtATime

----------------------------------------------------------------------------
\* The types of the editor.

Modes == {"fixed", "quota", "error"}
ModeList == Seq(EditorDeployments \X Modes)

ModelTyped(m) ==
  m.order \in Seq(EditorDeployments) /\ m.preferred \in EditorDeployments \cup {Unset}

ConfigTyped(cfg) ==
  /\ Configuration(cfg)
  /\ \A v \in VMs : ModelTyped(cfg.vms[v])
  /\ \A d \in EditorDeployments : cfg.deps[d].limit \in 0..1

LimitsTyped(drs) == \A d \in EditorDeployments : drs[d].limit \in -1..1

PastTyped(cfgs) == \A i \in DOMAIN cfgs : ConfigTyped(cfgs[i])

RequestTyped(o) ==
  /\ o.modes \in ModeList /\ LimitsTyped(o.drafts)
  /\ o.phase # "get" => ConfigTyped(o.fresh)

EditorTyped ==
  /\ EditorInv
  /\ PastTyped(past)
  /\ config # Nothing => ConfigTyped(config)
  /\ configLoads \in [Loads -> 0..Len(past)]
  /\ modes \in ModeList
  /\ LimitsTyped(drafts)
  /\ op # Nothing => RequestTyped(op)

LEMMA ListedIsTyped ==
  ASSUME EditorAssumption, NEW cfg, ConfigTyped(cfg), NEW v \in VMs
  PROVE  Listed(cfg, v) \in Seq(EditorDeployments)
<1>1. IsFiniteSet(Known(cfg)) /\ Known(cfg) \subseteq EditorDeployments
  <2>1. Known(cfg) \in SUBSET EditorDeployments
    BY DEF Known
  <2>. QED BY <2>1, FS_Subset DEF EditorAssumption
<1>2. SetToSeq(Known(cfg)) \in Seq(EditorDeployments)
  <2>1. SetToSeq(Known(cfg)) \in Seq(Known(cfg))
    BY <1>1, SetsAreListed
  <2>. QED BY <1>1, <2>1
<1>. QED BY <1>2 DEF Listed, ConfigTyped, ModelTyped

LEMMA FirstGatewayIsTyped ==
  ASSUME EditorAssumption
  PROVE  ConfigTyped(FirstGateway)
<1>1. SetToSeq(InitialDeployments) \in Seq(EditorDeployments)
  <2>1. IsFiniteSet(InitialDeployments)
    BY FS_Subset DEF EditorAssumption
  <2>2. SetToSeq(InitialDeployments) \in Seq(InitialDeployments)
    BY <2>1, SetsAreListed
  <2>. QED BY <2>2 DEF EditorAssumption
<1>2. ModelTyped(NoVM) /\ NoVM.order = <<>>
  BY DEF ModelTyped, NoVM
<1>3. \A v \in VMs : ModelTyped(FirstGateway.vms[v])
  <2>. DEFINE first == [NoVM EXCEPT !.exists = TRUE, !.order = SetToSeq(InitialDeployments),
                                    !.preferred = InitialPreferred]
  <2>1. first = [exists |-> TRUE, order |-> SetToSeq(InitialDeployments),
                 preferred |-> InitialPreferred, degrade |-> FALSE]
    <3>1. ASSUME NEW x, NEW o, NEW p, NEW y,
                 x = [exists |-> FALSE, order |-> <<>>, preferred |-> Unset, degrade |-> FALSE],
                 y = [x EXCEPT !.exists = TRUE, !.order = o, !.preferred = p]
          PROVE  y = [exists |-> TRUE, order |-> o, preferred |-> p, degrade |-> FALSE]
      BY <3>1
    <3>. QED BY <3>1 DEF NoVM
  <2>2. ModelTyped(first)
    BY <1>1, <2>1 DEF ModelTyped, EditorAssumption, Unset
  <2>. HIDE DEF first
  <2>3. FirstGateway.vms = [v \in VMs |-> IF v \in InitialVMs THEN first ELSE NoVM]
    BY DEF FirstGateway, first
  <2>. QED BY <1>2, <2>2, <2>3
<1>4. \A d \in EditorDeployments : FirstGateway.deps[d].limit = 0
  BY DEF FirstGateway, NoDeployment
<1>. QED BY <1>3, <1>4, FirstGatewayIsSound DEF ConfigTyped

\* The modes of a page.
LEMMA SetModeIsTyped ==
  ASSUME NEW ms \in ModeList, NEW d \in EditorDeployments, NEW mode \in Modes
  PROVE  SetMode(ms, d, mode) \in ModeList
<1>1. <<d, mode>> \in EditorDeployments \X Modes
  OBVIOUS
<1>2. Append(ms, <<d, mode>>) \in ModeList
  BY <1>1 DEF ModeList
<1>3. [i \in DOMAIN ms |-> IF ms[i][1] = d THEN <<d, mode>> ELSE ms[i]] \in ModeList
  <2>1. DOMAIN ms = 1..Len(ms) /\ Len(ms) \in Nat
        /\ \A i \in DOMAIN ms : ms[i] \in EditorDeployments \X Modes
    BY DEF ModeList
  <2>. QED BY <1>1, <2>1 DEF ModeList
<1>. QED BY <1>2, <1>3 DEF SetMode

LEMMA SelectionIsTyped ==
  ASSUME EditorAssumption, NEW v \in VMs, NEW d \in EditorDeployments, NEW mode \in Modes,
         modes \in ModeList, ConfigTyped(config)
  PROVE  applyVmModeSelection(d, mode, v) \in ModeList
<1>. DEFINE next == SetMode(modes, d, mode)
            listed == Listed(config, v)
            others == {x \in getVirtualModelDeploymentIds(config, v) \ {d} :
                         mode \in {"fixed", "quota"} /\ ModeOf(next, x, v) = mode}
            keyed == {next[i][1] : i \in DOMAIN next}
            places == {i \in DOMAIN listed : /\ listed[i] \in others \ keyed
                                            /\ \A j \in 1..(i - 1) : listed[j] # listed[i]}
            new == Picked(listed, places)
            changed == [i \in DOMAIN next |->
                          IF next[i][1] \in others THEN <<next[i][1], "error">> ELSE next[i]]
            added == [k \in DOMAIN new |-> <<new[k], "error">>]
<1>1. applyVmModeSelection(d, mode, v) = changed \o added
  BY DEF applyVmModeSelection
<1>2. next \in ModeList
  BY SetModeIsTyped
<1>3. listed \in Seq(EditorDeployments) /\ places \in SUBSET (DOMAIN listed)
  BY ListedIsTyped
<1>. HIDE DEF next, listed, others, places, new
<1>4. new \in Seq(EditorDeployments)
  BY <1>3, PicksAreKept DEF new
<1>5. changed \in ModeList
  <2>1. DOMAIN next = 1..Len(next) /\ Len(next) \in Nat
        /\ \A i \in DOMAIN next : next[i] \in EditorDeployments \X Modes
    BY <1>2 DEF ModeList
  <2>2. \A i \in DOMAIN next : <<next[i][1], "error">> \in EditorDeployments \X Modes
    BY <2>1 DEF Modes
  <2>. QED BY <2>1, <2>2 DEF ModeList
<1>6. added \in ModeList
  <2>1. DOMAIN new = 1..Len(new) /\ Len(new) \in Nat
        /\ \A i \in DOMAIN new : new[i] \in EditorDeployments
    BY <1>4
  <2>2. \A i \in DOMAIN new : <<new[i], "error">> \in EditorDeployments \X Modes
    BY <2>1 DEF Modes
  <2>. QED BY <2>1, <2>2 DEF ModeList
<1>. HIDE DEF changed, added
<1>. QED BY <1>1, <1>5, <1>6 DEF ModeList

----------------------------------------------------------------------------
\* What a payload is made of keeps its type.

LEMMA DraftedIsTyped ==
  ASSUME NEW cfg, ConfigTyped(cfg), NEW drs, LimitsTyped(drs)
  PROVE  ConfigTyped(applyDraftEdits(cfg, drs))
<1>. DEFINE c == applyDraftEdits(cfg, drs)
<1>1. Configuration(c) /\ c.vms = cfg.vms
  BY DraftedIsSound DEF ConfigTyped
<1>2. c.deps = [d \in EditorDeployments |->
        IF cfg.deps[d].known /\ drs[d].touched THEN Drafted(cfg.deps[d], drs[d]) ELSE cfg.deps[d]]
  BY DEF ConfigTyped, Configuration, applyDraftEdits
<1>3. ASSUME NEW d \in EditorDeployments
      PROVE  Drafted(cfg.deps[d], drs[d]).limit \in 0..1
  <2>. DEFINE x == cfg.deps[d]
              e == IF drs[d].enabled # Unset THEN drs[d].enabled ELSE x.enabled
              l == IF drs[d].limit # -1 THEN drs[d].limit ELSE x.limit
  <2>1. x = [known |-> x.known, enabled |-> x.enabled, limit |-> x.limit, ratio |-> x.ratio]
    BY DEF ConfigTyped, Configuration, DeploymentSound
  <2>2. Drafted(x, drs[d]) = [x EXCEPT !.enabled = e, !.limit = l, !.ratio = "default"]
    BY DEF Drafted
  <2>3. l \in 0..1
    BY DEF ConfigTyped, LimitsTyped
  <2>. HIDE DEF x, e, l
  <2>4. Drafted(x, drs[d]).limit = l
    BY <2>1, <2>2
  <2>. QED BY <2>3, <2>4 DEF x
<1>. HIDE DEF c
<1>4. \A d \in EditorDeployments : c.deps[d].limit \in 0..1
  BY <1>2, <1>3 DEF ConfigTyped
<1>. QED BY <1>1, <1>4 DEF ConfigTyped, c

\* The last of a list's places that are kept.
LEMMA Latest ==
  ASSUME NEW n \in Nat, NEW T \in SUBSET (1..n), T # {}
  PROVE  \E i \in T : \A j \in T : j <= i
<1>. DEFINE above == {m \in Nat : \A j \in T : j <= m}
<1>1. n \in above /\ above \in SUBSET Nat
  OBVIOUS
<1>. HIDE DEF above
<1>2. PICK m \in above : \A x \in above : m <= x
  BY <1>1, Least
<1>3. m \in Nat /\ \A j \in T : j <= m
  BY <1>2 DEF above
<1>4. m \in T
  <2>. SUFFICES ASSUME m \notin T PROVE FALSE
    OBVIOUS
  <2>1. \A j \in T : j \in Nat /\ j >= 1 /\ j <= m - 1
    BY <1>3
  <2>2. m - 1 \in Nat
    <3>1. PICK j \in T : TRUE
      OBVIOUS
    <3>2. j \in Nat /\ j >= 1 /\ j <= m - 1
      BY <2>1
    <3>. QED BY <1>3, <3>2
  <2>3. m - 1 \in above
    BY <2>1, <2>2 DEF above
  <2>. QED BY <1>2, <1>3, <2>3
<1>. QED BY <1>3, <1>4

LEMMA ModedIsTyped ==
  ASSUME NEW cfg, ConfigTyped(cfg), NEW ms \in ModeList, NEW owners
  PROVE  ConfigTyped(applyDeploymentModes(cfg, ms, owners))
<1>. DEFINE c == applyDeploymentModes(cfg, ms, owners)
            Entries(v) == {i \in DOMAIN ms : Concerns(cfg, owners, ms[i], v)}
            LastOf(v) == ms[CHOOSE i \in Entries(v) : \A j \in Entries(v) : j <= i]
            Fixed(d) == \E v \in VMs : \E i \in Entries(v) : ms[i] = <<d, "fixed">>
<1>1. c = [vms |-> [v \in VMs |-> IF Entries(v) = {} THEN cfg.vms[v]
                      ELSE [cfg.vms[v] EXCEPT !.preferred = LastOf(v)[1],
                                              !.degrade = (LastOf(v)[2] = "error")]],
           deps |-> [d \in EditorDeployments |->
                      IF Fixed(d) THEN [cfg.deps[d] EXCEPT !.limit = 0] ELSE cfg.deps[d]]]
  BY DEF applyDeploymentModes
<1>2. Configuration(c) /\ \A v \in VMs : c.vms[v].order = cfg.vms[v].order
  BY ModedIsSound DEF ConfigTyped
<1>3. /\ DOMAIN ms = 1..Len(ms) /\ Len(ms) \in Nat
      /\ \A i \in DOMAIN ms : ms[i][1] \in EditorDeployments
  BY DEF ModeList
<1>4. ASSUME NEW v \in VMs, Entries(v) # {}
      PROVE  LastOf(v)[1] \in EditorDeployments
  <2>1. Entries(v) \in SUBSET (1..Len(ms))
    BY <1>3
  <2>. HIDE DEF Entries
  <2>2. \E i \in Entries(v) : \A j \in Entries(v) : j <= i
    BY <1>3, <1>4, <2>1, Latest
  <2>3. (CHOOSE i \in Entries(v) : \A j \in Entries(v) : j <= i) \in Entries(v)
    BY <2>2
  <2>. QED BY <1>3, <2>1, <2>3
<1>. HIDE DEF c, Entries, LastOf, Fixed
<1>5. ASSUME NEW v \in VMs
      PROVE  c.vms[v].preferred \in EditorDeployments \cup {Unset}
  <2>1. ModelSound(cfg.vms[v]) /\ ModelTyped(cfg.vms[v])
    BY DEF ConfigTyped, Configuration
  <2>2. CASE Entries(v) = {}
    BY <1>1, <2>1, <2>2 DEF ModelTyped
  <2>3. CASE Entries(v) # {}
    <3>1. c.vms[v].preferred = LastOf(v)[1]
      BY <1>1, <2>1, <2>3 DEF ModelSound
    <3>. QED BY <1>4, <2>3, <3>1
  <2>. QED BY <2>2, <2>3
<1>6. ASSUME NEW d \in EditorDeployments
      PROVE  c.deps[d].limit \in 0..1
  <2>1. DeploymentSound(cfg.deps[d]) /\ cfg.deps[d].limit \in 0..1
    BY DEF ConfigTyped, Configuration
  <2>2. c.deps[d].limit \in {0, cfg.deps[d].limit}
    BY <1>1, <2>1 DEF DeploymentSound
  <2>. QED BY <2>1, <2>2
<1>7. \A v \in VMs : ModelTyped(c.vms[v])
  BY <1>2, <1>5 DEF ConfigTyped, ModelTyped
<1>. QED BY <1>2, <1>6, <1>7 DEF ConfigTyped, c

LEMMA AdditionIsTyped ==
  ASSUME EditorAssumption, NEW cfg, ConfigTyped(cfg), NEW d \in EditorDeployments, NEW v \in VMs,
         d \notin Known(cfg)
  PROVE  ConfigTyped(addDeployment(cfg, d, v))
<1>. DEFINE c == addDeployment(cfg, d, v)
            new == [known |-> TRUE, enabled |-> "on", limit |-> 0, ratio |-> "default"]
            order == Append(Listed(cfg, v), d)
<1>1. c = [vms |-> IF cfg.vms[v].exists THEN [cfg.vms EXCEPT ![v].order = order] ELSE cfg.vms,
           deps |-> [cfg.deps EXCEPT ![d] = new]]
  BY DEF addDeployment
<1>2. Configuration(c)
  BY AdditionIsSound DEF ConfigTyped
<1>3. order \in Seq(EditorDeployments)
  BY ListedIsTyped
<1>. HIDE DEF c, order
<1>4. \A w \in VMs : ModelTyped(c.vms[w])
  <2>1. \A w \in VMs : ModelSound(cfg.vms[w]) /\ ModelTyped(cfg.vms[w])
    BY DEF ConfigTyped, Configuration
  <2>2. ASSUME NEW w \in VMs
        PROVE  /\ c.vms[w].order \in {cfg.vms[w].order, order}
               /\ c.vms[w].preferred = cfg.vms[w].preferred
    BY <1>1, <2>1 DEF ConfigTyped, Configuration, ModelSound
  <2>. QED BY <1>3, <2>1, <2>2 DEF ModelTyped
<1>5. \A x \in EditorDeployments : c.deps[x].limit \in 0..1
  BY <1>1 DEF ConfigTyped, Configuration
<1>. QED BY <1>2, <1>4, <1>5 DEF ConfigTyped, c

LEMMA ModelChangeIsTyped ==
  ASSUME NEW cfg, ConfigTyped(cfg), NEW v \in VMs, NEW m, ModelSound(m), ModelTyped(m)
  PROVE  ConfigTyped([cfg EXCEPT !.vms[v] = m])
<1>. DEFINE c == [cfg EXCEPT !.vms[v] = m]
<1>1. c = [vms |-> [cfg.vms EXCEPT ![v] = m], deps |-> cfg.deps]
  BY DEF ConfigTyped, Configuration
<1>2. Configuration(c)
  BY ModelChangeIsSound DEF ConfigTyped
<1>. HIDE DEF c
<1>3. c.vms = [w \in VMs |-> IF w = v THEN m ELSE cfg.vms[w]] /\ c.deps = cfg.deps
  BY <1>1 DEF ConfigTyped, Configuration
<1>4. \A w \in VMs : ModelTyped(c.vms[w])
  BY <1>3 DEF ConfigTyped
<1>. QED BY <1>2, <1>3, <1>4 DEF ConfigTyped, c

LEMMA RemovalIsTyped ==
  ASSUME EditorAssumption, NEW cfg, ConfigTyped(cfg), NEW d \in Known(cfg), NEW v \in VMs,
         cfg.vms[v].exists
  PROVE  ConfigTyped(deleteDeployment(cfg, d, v))
<1>. DEFINE listed == Listed(cfg, v)
            places == {i \in DOMAIN listed : listed[i] # d}
            kept == Picked(listed, places)
            m == [cfg.vms[v] EXCEPT !.order = kept]
<1>1. deleteDeployment(cfg, d, v) = [cfg EXCEPT !.vms[v].order = kept]
  BY DEF deleteDeployment
<1>2. kept \in Seq(EditorDeployments)
  <2>1. listed \in Seq(EditorDeployments) /\ places \in SUBSET (DOMAIN listed)
    BY ListedIsTyped
  <2>. HIDE DEF listed, places
  <2>. QED BY <2>1, PicksAreKept
<1>. HIDE DEF kept
<1>3. [cfg EXCEPT !.vms[v].order = kept] = [cfg EXCEPT !.vms[v] = m]
  BY DEF ConfigTyped, Configuration
<1>4. ModelSound(m) /\ ModelTyped(m)
  <2>1. ModelSound(cfg.vms[v]) /\ ModelTyped(cfg.vms[v])
    BY DEF ConfigTyped, Configuration
  <2>2. m.order = kept /\ m.preferred = cfg.vms[v].preferred /\ ModelSound(m)
    BY <2>1 DEF ModelSound
  <2>. QED BY <1>2, <2>1, <2>2 DEF ModelTyped
<1>. QED BY <1>1, <1>3, <1>4, ModelChangeIsTyped

LEMMA ComingAndGoingIsTyped ==
  ASSUME NEW cfg, ConfigTyped(cfg), NEW v \in VMs
  PROVE  /\ addVirtualModel(cfg, v) # Nothing => ConfigTyped(addVirtualModel(cfg, v))
         /\ deleteVirtualModel(cfg, v) # Nothing => ConfigTyped(deleteVirtualModel(cfg, v))
         /\ ~cfg.vms[v].exists => ConfigTyped(addVirtualModel(cfg, v))
         /\ cfg.vms[v].exists => ConfigTyped(deleteVirtualModel(cfg, v))
<1>. DEFINE m == [NoVM EXCEPT !.exists = TRUE]
<1>1. /\ NoVM = [exists |-> FALSE, order |-> <<>>, preferred |-> Unset, degrade |-> FALSE]
      /\ m = [exists |-> TRUE, order |-> <<>>, preferred |-> Unset, degrade |-> FALSE]
  <2>1. ASSUME NEW x, NEW y,
               x = [exists |-> FALSE, order |-> <<>>, preferred |-> Unset, degrade |-> FALSE],
               y = [x EXCEPT !.exists = TRUE]
        PROVE  y = [exists |-> TRUE, order |-> <<>>, preferred |-> Unset, degrade |-> FALSE]
    BY <2>1
  <2>. QED BY <2>1, ZenonT(30) DEF NoVM
<1>2. ModelSound(NoVM) /\ ModelSound(m) /\ ModelTyped(NoVM) /\ ModelTyped(m)
  BY <1>1 DEF ModelSound, ModelTyped
<1>3. ConfigTyped([cfg EXCEPT !.vms[v] = NoVM]) /\ ConfigTyped([cfg EXCEPT !.vms[v] = m])
  BY <1>2, ModelChangeIsTyped
<1>. QED BY <1>3 DEF addVirtualModel, deleteVirtualModel

LEMMA PayloadIsTyped ==
  ASSUME EditorAssumption, NEW o, RequestSound(o), o.phase # "get", ConfigTyped(o.fresh),
         o.modes \in ModeList, LimitsTyped(o.drafts)
  PROVE  ConfigTyped(Mutator(o, o.fresh))
<1>. DEFINE cfg == o.fresh
<1>1. Applicable(o, cfg)
  BY DEF RequestSound
<1>2. CASE o.kind = "save"
  <2>1. ConfigTyped(applyDraftEdits(cfg, o.drafts))
    BY DraftedIsTyped
  <2>2. ConfigTyped(applyDeploymentModes(applyDraftEdits(cfg, o.drafts), o.modes, o.owners))
    BY <2>1, ModedIsTyped
  <2>. QED BY <1>2, <2>2 DEF Mutator, buildSavePayload
<1>3. CASE o.kind = "addDep"
  BY <1>1, <1>3, AdditionIsTyped DEF Mutator, Applicable, RequestSound
<1>4. CASE o.kind = "delDep"
  BY <1>1, <1>4, RemovalIsTyped DEF Mutator, Applicable, RequestSound
<1>5. CASE o.kind = "addVM"
  BY <1>1, <1>5, ComingAndGoingIsTyped DEF Mutator, Applicable, RequestSound
<1>6. CASE o.kind = "delVM"
  BY <1>1, <1>6, ComingAndGoingIsTyped DEF Mutator, Applicable, RequestSound
<1>. QED BY <1>2, <1>3, <1>4, <1>5, <1>6 DEF RequestSound

LEMMA HandlerTypes ==
  ASSUME NEW current, ConfigTyped(current), NEW payload, ConfigTyped(payload)
  PROVE  ConfigTyped(updateManualConfig(current, payload))
<1>. DEFINE c == updateManualConfig(current, payload)
            f == [v \in VMs |->
                   IF payload.vms[v].exists /\ payload.vms[v].order = <<>>
                   THEN [payload.vms[v] EXCEPT !.order = current.vms[v].order]
                   ELSE payload.vms[v]]
<1>1. /\ Configuration(c) /\ c.deps = payload.deps
      /\ \A v \in VMs : c.vms[v].preferred = payload.vms[v].preferred
  BY HandlerStores DEF ConfigTyped
<1>2. c.vms = f
  BY DEF updateManualConfig, ConfigTyped, Configuration
<1>3. \A v \in VMs : c.vms[v].order \in {payload.vms[v].order, current.vms[v].order}
  <2>. SUFFICES ASSUME NEW v \in VMs
                PROVE  f[v].order \in {payload.vms[v].order, current.vms[v].order}
    BY <1>2
  <2>1. ModelSound(payload.vms[v])
    BY DEF ConfigTyped, Configuration
  <2>. QED BY <2>1 DEF ModelSound
<1>. HIDE DEF c, f
<1>4. \A v \in VMs : ModelTyped(c.vms[v])
  BY <1>1, <1>3 DEF ConfigTyped, ModelTyped
<1>. QED BY <1>1, <1>4 DEF ConfigTyped, c

LEMMA RunningIsTyped ==
  ASSUME EditorTyped
  PROVE  ConfigTyped(running) /\ Len(past) \in Nat /\ DOMAIN past = 1..Len(past)
<1>1. past \in Seq(ToSet(past)) /\ past # <<>>
  BY DEF EditorTyped, EditorInv, PastSound
<1>2. Len(past) \in Nat /\ DOMAIN past = 1..Len(past) /\ Len(past) \in DOMAIN past
  BY <1>1
<1>3. running = past[Len(past)]
  BY DEF running, Last
<1>. QED BY <1>2, <1>3 DEF EditorTyped, PastTyped

\* A configuration is stored, and the loads under way may be answered with it.
LEMMA StoringIsTyped ==
  ASSUME EditorTyped, NEW payload, ConfigTyped(payload), Store(payload),
         configLoads' = configLoads
  PROVE  PastTyped(past') /\ configLoads' \in [Loads -> 0..Len(past')]
<1>. DEFINE c == updateManualConfig(running, payload)
<1>1. ConfigTyped(running) /\ Len(past) \in Nat /\ DOMAIN past = 1..Len(past)
  BY RunningIsTyped
<1>2. ConfigTyped(c)
  BY <1>1, HandlerTypes
<1>3. past' = Append(past, c) /\ past \in Seq(ToSet(past) \cup {c})
  BY DEF Store, EditorTyped, EditorInv, PastSound
<1>. HIDE DEF c
<1>4. /\ Len(past') = Len(past) + 1 /\ DOMAIN past' = 1..(Len(past) + 1)
      /\ past'[Len(past) + 1] = c /\ \A i \in 1..Len(past) : past'[i] = past[i]
  BY <1>1, <1>3
<1>5. PastTyped(past')
  <2>. SUFFICES ASSUME NEW i \in DOMAIN past' PROVE ConfigTyped(past'[i])
    BY DEF PastTyped
  <2>1. i \in DOMAIN past \/ i = Len(past) + 1
    BY <1>1, <1>4
  <2>. QED BY <1>1, <1>2, <1>4, <2>1 DEF EditorTyped, PastTyped
<1>6. \A n \in 0..Len(past) : n \in 0..Len(past')
  BY <1>1, <1>4
<1>. QED BY <1>5, <1>6 DEF EditorTyped

\* What the operations of the other administrator make of a typed configuration.
LEMMA OtherPayloadsAreTyped ==
  ASSUME EditorAssumption, EditorTyped, NEW payload \in OtherPayloads \ {Nothing}
  PROVE  ConfigTyped(payload)
<1>. DEFINE quick(kind, d, v) == Mutator([kind |-> kind, dep |-> d, vm |-> v], running)
<1>1. ConfigTyped(running)
  BY RunningIsTyped
<1>2. ASSUME NEW d \in EditorDeployments, NEW v \in VMs, payload = quick("addDep", d, v)
      PROVE  ConfigTyped(payload)
  <2>1. payload = addDeployment(running, d, v)
    BY <1>2 DEF Mutator
  <2>2. d \notin Known(running)
    BY <2>1 DEF addDeployment
  <2>. QED BY <1>1, <2>1, <2>2, AdditionIsTyped
<1>3. ASSUME NEW d \in EditorDeployments, NEW v \in VMs, payload = quick("delDep", d, v)
      PROVE  ConfigTyped(payload)
  <2>1. payload = deleteDeployment(running, d, v)
    BY <1>3 DEF Mutator
  <2>2. d \in Known(running) /\ running.vms[v].exists
    BY <2>1 DEF deleteDeployment
  <2>. QED BY <1>1, <2>1, <2>2, RemovalIsTyped
<1>4. ASSUME NEW v \in VMs, payload \in {quick("addVM", Unset, v), quick("delVM", Unset, v)}
      PROVE  ConfigTyped(payload)
  <2>1. payload \in {addVirtualModel(running, v), deleteVirtualModel(running, v)}
    BY <1>4 DEF Mutator
  <2>. QED BY <1>1, <2>1, ComingAndGoingIsTyped
<1>5. ASSUME NEW d \in Known(running), payload = [running EXCEPT !.deps[d].enabled = "off"]
      PROVE  ConfigTyped(payload)
  <2>. DEFINE x == [running.deps[d] EXCEPT !.enabled = "off"]
  <2>1. d \in EditorDeployments /\ DeploymentSound(running.deps[d])
    BY <1>1 DEF Known, ConfigTyped, Configuration
  <2>2. Configuration(payload)
    BY OtherPayloadsAreSound DEF EditorTyped, EditorInv
  <2>3. x.limit = running.deps[d].limit
    BY <2>1 DEF DeploymentSound
  <2>4. payload = [vms |-> running.vms, deps |-> [running.deps EXCEPT ![d] = x]]
    BY <1>1, <1>5 DEF ConfigTyped, Configuration
  <2>. HIDE DEF x
  <2>. QED BY <1>1, <2>1, <2>2, <2>3, <2>4 DEF ConfigTyped, Configuration
<1>6. OtherPayloads =
        {quick("addDep", d, v) : d \in EditorDeployments, v \in {x \in VMs : running.vms[x].exists}}
          \cup {quick("delDep", d, v) : d \in EditorDeployments, v \in VMs}
          \cup {quick("addVM", Unset, v) : v \in VMs} \cup {quick("delVM", Unset, v) : v \in VMs}
          \cup {[running EXCEPT !.deps[d].enabled = "off"] : d \in Known(running)}
  BY DEF OtherPayloads
<1>. HIDE DEF quick
<1>. QED BY <1>2, <1>3, <1>4, <1>5, <1>6

\* A load starts.
LEMMA StartIsTyped ==
  ASSUME EditorTyped, NEW who \in Loads, StartLoad(who), past' = past
  PROVE  configLoads' \in [Loads -> 0..Len(past')]
BY RunningIsTyped DEF StartLoad, Sent, EditorTyped

\* The edits of a row.
LEMMA LimitsStayTyped ==
  ASSUME EditorTyped, NEW d \in EditorDeployments
  PROVE  /\ \A y \in 0..1 : /\ LimitsTyped([drafts EXCEPT ![d].touched = TRUE, ![d].limit = y])
                           /\ LimitsTyped([drafts EXCEPT ![d].touched = TRUE, ![d]["limit"] = y])
         /\ \A y : LimitsTyped([drafts EXCEPT ![d].touched = TRUE, ![d]["enabled"] = y])
         /\ LimitsTyped([drafts EXCEPT ![d] = NoDraft])
         /\ LimitsTyped(NoDrafts)
<1>1. drafts = [x \in EditorDeployments |-> drafts[x]] /\ LimitsTyped(drafts)
      /\ drafts[d] = [touched |-> drafts[d].touched, enabled |-> drafts[d].enabled,
                      limit |-> drafts[d].limit]
  BY DEF EditorTyped, EditorInv, DraftsSound, DraftSound
<1>2. \A x : x.limit \in -1..1 => LimitsTyped([drafts EXCEPT ![d] = x])
  BY <1>1 DEF LimitsTyped
<1>3. ASSUME NEW y
      PROVE  /\ [drafts EXCEPT ![d].touched = TRUE, ![d].limit = y]
                   = [drafts EXCEPT ![d] = [touched |-> TRUE, enabled |-> drafts[d].enabled, limit |-> y]]
             /\ [drafts EXCEPT ![d].touched = TRUE, ![d]["limit"] = y]
                   = [drafts EXCEPT ![d] = [touched |-> TRUE, enabled |-> drafts[d].enabled, limit |-> y]]
             /\ [drafts EXCEPT ![d].touched = TRUE, ![d]["enabled"] = y]
                   = [drafts EXCEPT ![d] = [touched |-> TRUE, enabled |-> y, limit |-> drafts[d].limit]]
  <2>. DEFINE x == drafts[d]
              limited == [x EXCEPT !.touched = TRUE, !.limit = y]
              switched == [x EXCEPT !.touched = TRUE, !.enabled = y]
  <2>1. /\ [drafts EXCEPT ![d].touched = TRUE, ![d].limit = y] = [drafts EXCEPT ![d] = limited]
        /\ [drafts EXCEPT ![d].touched = TRUE, ![d]["limit"] = y] = [drafts EXCEPT ![d] = limited]
        /\ [drafts EXCEPT ![d].touched = TRUE, ![d]["enabled"] = y] = [drafts EXCEPT ![d] = switched]
    BY <1>1
  <2>2. ASSUME NEW z, z = [touched |-> z.touched, enabled |-> z.enabled, limit |-> z.limit], NEW r,
               r \in {[z EXCEPT !.touched = TRUE, !.limit = y]}
        PROVE  r = [touched |-> TRUE, enabled |-> z.enabled, limit |-> y]
    BY <2>2
  <2>3. ASSUME NEW z, z = [touched |-> z.touched, enabled |-> z.enabled, limit |-> z.limit], NEW r,
               r \in {[z EXCEPT !.touched = TRUE, !.enabled = y]}
        PROVE  r = [touched |-> TRUE, enabled |-> y, limit |-> z.limit]
    BY <2>3
  <2>4. /\ limited = [touched |-> TRUE, enabled |-> drafts[d].enabled, limit |-> y]
        /\ switched = [touched |-> TRUE, enabled |-> y, limit |-> drafts[d].limit]
    BY <1>1, <2>2, <2>3
  <2>. HIDE DEF limited, switched
  <2>. QED BY <2>1, <2>4
<1>4. \A y \in 0..1 : y \in -1..1
  OBVIOUS
<1>5. drafts[d].limit \in -1..1 /\ NoDraft.limit \in -1..1
  BY <1>1 DEF LimitsTyped, NoDraft
<1>6. ASSUME NEW y \in 0..1
      PROVE  /\ LimitsTyped([drafts EXCEPT ![d].touched = TRUE, ![d].limit = y])
             /\ LimitsTyped([drafts EXCEPT ![d].touched = TRUE, ![d]["limit"] = y])
  BY <1>2, <1>3, <1>4
<1>7. ASSUME NEW y
      PROVE  LimitsTyped([drafts EXCEPT ![d].touched = TRUE, ![d]["enabled"] = y])
  <2>1. [touched |-> TRUE, enabled |-> y, limit |-> drafts[d].limit].limit \in -1..1
    BY <1>5
  <2>. QED BY <1>2, <1>3, <2>1
<1>8. LimitsTyped(NoDrafts)
  BY DEF LimitsTyped, NoDrafts, NoDraft
<1>. QED BY <1>2, <1>5, <1>6, <1>7, <1>8

\* A request that moves on, with a typed configuration, stays typed.
LEMMA PhaseIsTyped ==
  ASSUME NEW o, RequestSound(o), RequestTyped(o), NEW p \in {"put", "stored", "reload"},
         NEW c, NEW r,
         \/ r = [o EXCEPT !.phase = p] /\ c = o.fresh
         \/ r = [o EXCEPT !.phase = p, !.fresh = c],
         ConfigTyped(c)
  PROVE  RequestTyped(r)
<1>1. r = [kind |-> o.kind, dep |-> o.dep, vm |-> o.vm, phase |-> p, fresh |-> c,
           drafts |-> o.drafts, modes |-> o.modes, owners |-> o.owners]
  BY NextPhase
<1>. QED BY <1>1 DEF RequestTyped

LEMMA EditorStaysTyped ==
  ASSUME EditorAssumption, EditorTyped, [EditorNext]_editorVars
  PROVE  EditorTyped'
<1>1. EditorInv'
  BY EditorStep DEF EditorTyped
<1>. DEFINE PastSame == UNCHANGED past
<1>2. ASSUME UNCHANGED <<past, config>>, configLoads' \in [Loads -> 0..Len(past')],
             modes' \in ModeList, LimitsTyped(drafts'), op' # Nothing => RequestTyped(op')
      PROVE  EditorTyped'
  BY <1>1, <1>2 DEF EditorTyped, PastTyped
<1>3. ASSUME UNCHANGED <<past, config, configLoads, modes, drafts>>,
             op' # Nothing => RequestTyped(op')
      PROVE  EditorTyped'
  BY <1>2, <1>3 DEF EditorTyped
<1>4. CASE UNCHANGED editorVars
  BY <1>3, <1>4 DEF editorVars, EditorTyped
<1>5. ASSUME NEW who \in Loads, ConfigLoaded(who)
      PROVE  EditorTyped'
  <2>1. PICK i \in configLoads[who]..Len(past) : config' = past[i]
    BY <1>5 DEF ConfigLoaded
  <2>2. i \in DOMAIN past
    BY <1>5, <2>1, RunningIsTyped DEF ConfigLoaded, EditorTyped
  <2>3. ConfigTyped(config')
    BY <2>1, <2>2 DEF EditorTyped, PastTyped
  <2>4. /\ past' = past /\ drafts' = drafts /\ modes' = <<>> /\ op' \in {op, Nothing}
        /\ configLoads' = [configLoads EXCEPT ![who] = 0]
    BY <1>5 DEF ConfigLoaded, OpAfterLoad
  <2>5. configLoads' \in [Loads -> 0..Len(past')]
    BY <2>4, RunningIsTyped DEF EditorTyped
  <2>6. modes' \in ModeList
    BY <2>4 DEF ModeList
  <2>. QED BY <1>1, <2>3, <2>4, <2>5, <2>6 DEF EditorTyped, PastTyped
<1>6. ASSUME NEW who \in Loads, ConfigLoadFailed(who)
      PROVE  EditorTyped'
  <2>1. /\ UNCHANGED <<past, config, modes, drafts>> /\ op' \in {op, Nothing}
        /\ configLoads' = [configLoads EXCEPT ![who] = 0]
    BY <1>6 DEF ConfigLoadFailed, OpAfterLoad
  <2>2. configLoads' \in [Loads -> 0..Len(past')]
    BY <2>1, RunningIsTyped DEF EditorTyped
  <2>. QED BY <1>2, <2>1, <2>2 DEF EditorTyped
<1>7. CASE FreshArrived
  <2>1. CASE op' = Nothing
    BY <1>3, <1>7, <2>1 DEF FreshArrived
  <2>2. CASE op' # Nothing
    <3>1. op' = [op EXCEPT !.phase = "put", !.fresh = running] /\ op # Nothing
      BY <1>7, <2>2 DEF FreshArrived
    <3>2. RequestSound(op) /\ RequestTyped(op)
      BY <3>1 DEF EditorTyped, EditorInv
    <3>3. ConfigTyped(running)
      BY RunningIsTyped
    <3>4. RequestTyped(op')
      BY <3>1, <3>2, <3>3, PhaseIsTyped
    <3>. QED BY <1>3, <1>7, <3>4 DEF FreshArrived
  <2>. QED BY <2>1, <2>2
<1>8. CASE PutHandled
  <2>. DEFINE payload == Mutator(op, op.fresh)
  <2>1. /\ op # Nothing /\ op.phase = "put"
        /\ UNCHANGED <<config, configLoading, configError, configLoads, modes, drafts, saves,
                       editorEdits, editorFailures>>
    BY <1>8 DEF PutHandled
  <2>2. RequestSound(op) /\ RequestTyped(op) /\ ConfigTyped(op.fresh)
    BY <2>1 DEF EditorTyped, EditorInv, RequestTyped
  <2>3. CASE Acceptable(running, payload)
    <3>1. Store(payload) /\ op' = [op EXCEPT !.phase = "stored"]
      BY <1>8, <2>3 DEF PutHandled
    <3>2. ConfigTyped(payload)
      BY <2>1, <2>2, PayloadIsTyped DEF RequestTyped
    <3>. HIDE DEF payload
    <3>3. PastTyped(past') /\ configLoads' \in [Loads -> 0..Len(past')]
      BY <2>1, <3>1, <3>2, StoringIsTyped
    <3>4. RequestTyped(op')
      BY <2>2, <3>1, PhaseIsTyped
    <3>. QED BY <1>1, <2>1, <3>3, <3>4 DEF EditorTyped
  <2>4. CASE ~Acceptable(running, payload)
    BY <1>3, <1>8, <2>1, <2>4 DEF PutHandled
  <2>. QED BY <2>3, <2>4
<1>9. CASE PutAnswered
  <2>1. /\ op # Nothing /\ op.phase = "stored" /\ op' = [op EXCEPT !.phase = "reload"]
        /\ StartLoad("reload") /\ UNCHANGED <<past, config, modes>>
    BY <1>9 DEF PutAnswered
  <2>2. RequestSound(op) /\ RequestTyped(op) /\ ConfigTyped(op.fresh)
    BY <2>1 DEF EditorTyped, EditorInv, RequestTyped
  <2>4. RequestTyped(op')
    BY <2>1, <2>2, PhaseIsTyped
  <2>5. LimitsTyped(drafts')
    <3>1. CASE op.kind = "delDep"
      <4>1. drafts' = [drafts EXCEPT ![op.dep] = NoDraft] /\ op.dep \in EditorDeployments
        BY <1>9, <2>2, <3>1 DEF PutAnswered, RequestSound
      <4>. QED BY <4>1, LimitsStayTyped
    <3>2. CASE op.kind # "delDep"
      <4>1. drafts' \in {drafts, NoDrafts}
        BY <1>9, <3>2 DEF PutAnswered
      <4>2. LimitsTyped(NoDrafts)
        BY DEF LimitsTyped, NoDrafts, NoDraft
      <4>. QED BY <4>1, <4>2 DEF EditorTyped
    <3>. QED BY <3>1, <3>2
  <2>6. configLoads' \in [Loads -> 0..Len(past')]
    BY <2>1, StartIsTyped DEF Loads
  <2>. QED BY <1>2, <2>1, <2>4, <2>5, <2>6 DEF EditorTyped
<1>10. CASE ExecuteFails
  BY <1>3, <1>10 DEF ExecuteFails
<1>11. CASE Refresh \/ Retry
  <2>1. StartLoad("refresh") /\ UNCHANGED <<past, config, modes, drafts, op>>
    BY <1>11 DEF Refresh, Retry
  <2>2. configLoads' \in [Loads -> 0..Len(past')]
    BY <2>1, StartIsTyped DEF Loads
  <2>. QED BY <1>2, <2>1, <2>2 DEF EditorTyped
<1>12. ASSUME NEW d \in EditorDeployments, NEW value,
              setDraftField(d, "enabled", value) \/ (value \in 0..1 /\ setDraftField(d, "limit", value))
       PROVE  EditorTyped'
  <2>1. UNCHANGED <<past, config, configLoads, modes, op>>
    BY <1>12 DEF setDraftField
  <2>2. LimitsTyped(drafts')
    BY <1>12, LimitsStayTyped DEF setDraftField
  <2>. QED BY <1>2, <2>1, <2>2 DEF EditorTyped
<1>13. ASSUME NEW d \in EditorDeployments, NEW m \in Modes, NEW v \in VMs, handleModeChange(d, m, v)
       PROVE  EditorTyped'
  <2>1. /\ UNCHANGED <<past, config, configLoads, op>> /\ config # Nothing
        /\ modes' = applyVmModeSelection(d, m, v)
    BY <1>13 DEF handleModeChange, EditorShown
  <2>2. modes' \in ModeList
    BY <2>1, SelectionIsTyped DEF EditorTyped
  <2>3. drafts' \in {[drafts EXCEPT ![d].touched = TRUE, ![d].limit = 1],
                    [drafts EXCEPT ![d].touched = TRUE, ![d].limit = 0], drafts}
    BY <1>13 DEF handleModeChange
  <2>4. LimitsTyped(drafts')
    <3>1. 0 \in 0..1 /\ 1 \in 0..1 /\ LimitsTyped(drafts)
      BY DEF EditorTyped
    <3>2. \A y \in 0..1 : LimitsTyped([drafts EXCEPT ![d].touched = TRUE, ![d].limit = y])
      BY LimitsStayTyped
    <3>. QED BY <2>3, <3>1, <3>2
  <2>. QED BY <1>2, <2>1, <2>2, <2>4 DEF EditorTyped
<1>14. ASSUME NEW kind, NEW d, NEW v, Execute(kind, d, v)
       PROVE  EditorTyped'
  <2>1. op' = Request(kind, d, v) /\ UNCHANGED <<past, config, configLoads, modes, drafts>>
    BY <1>14 DEF Execute
  <2>2. RequestTyped(op')
    BY <2>1 DEF Request, RequestTyped, EditorTyped
  <2>. QED BY <1>3, <2>1, <2>2
<1>15. ASSUME NEW d \in EditorDeployments, NEW v \in VMs,
              handleAddDeployment(d, v) \/ handleDeleteDeployment(d, v)
       PROVE  EditorTyped'
  BY <1>14, <1>15 DEF handleAddDeployment, handleDeleteDeployment
<1>16. ASSUME NEW v \in VMs, handleAddVirtualModel(v) \/ handleDeleteVirtualModel(v)
       PROVE  EditorTyped'
  BY <1>14, <1>16 DEF handleAddVirtualModel, handleDeleteVirtualModel
<1>17. CASE handleSave
  BY <1>14, <1>17 DEF handleSave
<1>18. CASE OtherSaves
  <2>1. /\ UNCHANGED <<config, configLoads, modes, drafts, op>>
        /\ \E payload \in OtherPayloads \ {Nothing} : Store(payload)
    BY <1>18 DEF OtherSaves
  <2>2. PICK payload \in OtherPayloads \ {Nothing} : Store(payload)
    BY <2>1
  <2>3. PastTyped(past') /\ configLoads' \in [Loads -> 0..Len(past')]
    BY <2>1, <2>2, OtherPayloadsAreTyped, StoringIsTyped
  <2>. QED BY <1>1, <2>1, <2>3 DEF EditorTyped
<1>. QED BY <1>4, <1>5, <1>6, <1>7, <1>8, <1>9, <1>10, <1>11, <1>12, <1>13, <1>15, <1>16, <1>17,
            <1>18 DEF EditorNext, SaveStep, ConfigArrives, Modes

LEMMA EditorInitiallyTyped ==
  ASSUME EditorAssumption, EditorInit
  PROVE  EditorTyped
<1>1. EditorInv
  BY EditorInitially
<1>2. PastTyped(past) /\ Len(past) = 1
  <2>1. past = <<FirstGateway>> /\ DOMAIN past = 1..1 /\ past[1] = FirstGateway /\ Len(past) = 1
    BY DEF EditorInit
  <2>. QED BY <2>1, FirstGatewayIsTyped DEF PastTyped
<1>3. LimitsTyped(drafts)
  BY DEF EditorInit, LimitsTyped, NoDrafts, NoDraft
<1>4. modes \in ModeList
  BY DEF EditorInit, ModeList
<1>5. configLoads \in [Loads -> 0..Len(past)]
  BY <1>2 DEF EditorInit
<1>. QED BY <1>1, <1>2, <1>3, <1>4, <1>5 DEF EditorTyped, EditorInit

LEMMA EditorHasTypes ==
  ASSUME EditorTyped
  PROVE  EditorTypeOK
<1>1. \A cfg : ConfigTyped(cfg) => ConfigTypeOK(cfg)
  <2>. SUFFICES ASSUME NEW cfg, ConfigTyped(cfg) PROVE ConfigTypeOK(cfg)
    OBVIOUS
  <2>1. \A v \in VMs : ToSet(cfg.vms[v].order) \subseteq EditorDeployments
    BY DEF ConfigTyped, ModelTyped, ToSet
  <2>. QED BY <2>1 DEF ConfigTyped, ModelTyped, ConfigTypeOK
<1>2. \A i \in DOMAIN modes : modes[i] \in EditorDeployments \X Modes
  BY DEF EditorTyped, ModeList
<1>. QED BY <1>1, <1>2 DEF EditorTyped, EditorTypeOK, PastTyped, Modes

----------------------------------------------------------------------------
(* The statistics of the metrics panel.                                      *)

Outcomes == {"success", "failed"}
Answer == [counters : Counts, total : Counts, epoch : Nat]
Sample == [timestamp : Nat, counters : Counts, total : Counts, epoch : Nat]

Ordered(ss) == \A i, j \in DOMAIN ss : i <= j => ss[i].timestamp <= ss[j].timestamp

\* the same counters are not recorded twice within TooSoon
Spaced(ss) ==
  \A i \in 1..(Len(ss) - 1) :
    SameCounters(ss[i], ss[i + 1]) => ss[i + 1].timestamp - ss[i].timestamp >= TooSoon

ListSound(ss, now) ==
  /\ ss \in Seq(Sample) /\ Ordered(ss) /\ Spaced(ss)
  /\ \A i \in DOMAIN ss : ss[i].timestamp \in 1..now
  /\ \A i, j \in DOMAIN ss : ss[j].timestamp - ss[i].timestamp <= Retention

\* what two answers of the gateway, or samples of them, say of each other: in one life
\* the counters count what happened, in a later one only what happened since
Consistent(a, b) ==
  \A o \in Outcomes :
    /\ a.epoch = b.epoch => a.total[o] - a.counters[o] = b.total[o] - b.counters[o]
    /\ a.epoch < b.epoch => a.total[o] <= b.total[o] - b.counters[o]

Taken == answers \cup ToSet(samples) \cup ToSet(storage)

HistoryInv ==
  /\ \A a \in Taken :
       /\ a.epoch <= restarts /\ \A o \in Outcomes : a.total[o] <= total[o]
       /\ Consistent(a, Snapshot)
  /\ \A a, b \in Taken : Consistent(a, b)

CountsInv ==
  /\ clock \in 1..MaxTime /\ restarts \in Nat
  /\ counters \in Counts /\ total \in Counts /\ answers \subseteq Answer
  /\ \A o \in Outcomes : counters[o] <= total[o]

MetricsInv ==
  /\ CountsInv /\ HistoryInv
  /\ ListSound(samples, clock) /\ ListSound(storage, clock)

----------------------------------------------------------------------------
\* Lists of samples.

LEMMA SamplesOfAList ==
  ASSUME NEW ss \in Seq(Sample)
  PROVE  /\ DOMAIN ss = 1..Len(ss) /\ Len(ss) \in Nat
         /\ \A i \in DOMAIN ss : ss[i] \in Sample /\ ss[i].timestamp \in Nat
<1>1. \A x \in Sample : x.timestamp \in Nat
  BY DEF Sample
<1>. QED BY <1>1

\* A list in order is as it is when it is sorted.
LEMMA SortedStays ==
  ASSUME NEW ss \in Seq(Sample), Ordered(ss)
  PROVE  normalizeMetricSamples(ss) = ss
<1>1. DOMAIN ss = 1..Len(ss) /\ Len(ss) \in Nat
      /\ \A i \in DOMAIN ss : ss[i].timestamp \in Nat
  BY SamplesOfAList
<1>2. ASSUME NEW i \in DOMAIN ss
      PROVE  Cardinality(UpTo(ss, i)) = i
  <2>1. i \in Nat /\ i >= 1 /\ \A j \in DOMAIN ss : j \in Nat /\ j >= 1
    BY <1>1
  <2>2. \A j \in DOMAIN ss : j <= i => ss[j].timestamp <= ss[i].timestamp
    BY DEF Ordered
  <2>3. \A j \in DOMAIN ss : i <= j => ss[i].timestamp <= ss[j].timestamp
    BY DEF Ordered
  <2>4. \A j \in DOMAIN ss : j \in UpTo(ss, i) <=> j <= i
    BY <1>1, <2>1, <2>2, <2>3 DEF UpTo
  <2>5. UpTo(ss, i) \subseteq DOMAIN ss
    BY DEF UpTo
  <2>6. \A j : j \in UpTo(ss, i) <=> j \in 1..i
    <3>1. i \in 1..Len(ss) /\ 1..i \subseteq DOMAIN ss
      BY <1>1
    <3>. QED BY <2>1, <2>4, <2>5, <3>1
  <2>7. UpTo(ss, i) = 1..i
    BY <2>6
  <2>. QED BY <2>1, <2>7, FS_Interval
<1>3. \A k \in DOMAIN ss : (CHOOSE i \in DOMAIN ss : Cardinality(UpTo(ss, i)) = k) = k
  BY <1>2
<1>. DEFINE place(k) == CHOOSE i \in DOMAIN ss : Cardinality(UpTo(ss, i)) = k
<1>4. normalizeMetricSamples(ss) = [k \in DOMAIN ss |-> ss[place(k)]]
  BY DEF normalizeMetricSamples
<1>5. \A k \in DOMAIN ss : place(k) = k
  BY <1>3
<1>. HIDE DEF place
<1>6. normalizeMetricSamples(ss) = [k \in DOMAIN ss |-> ss[k]]
  BY <1>4, <1>5
<1>. QED BY <1>1, <1>6

\* The samples from a time on.
LEMMA SinceIsTheEnd ==
  ASSUME NEW ss \in Seq(Sample), Ordered(ss), NEW cutoff \in Int
  PROVE  \E k \in 1..(Len(ss) + 1) :
           /\ Since(ss, cutoff) = SubSeq(ss, k, Len(ss))
           /\ \A i \in DOMAIN ss : ss[i].timestamp < cutoff <=> i < k
<1>1. DOMAIN ss = 1..Len(ss) /\ Len(ss) \in Nat
      /\ \A i \in DOMAIN ss : ss[i].timestamp \in Nat
  BY SamplesOfAList
<1>. DEFINE inside == {i \in DOMAIN ss : ss[i].timestamp >= cutoff} \cup {Len(ss) + 1}
            fits(k) == \A i \in DOMAIN ss : ss[i].timestamp < cutoff <=> i < k
<1>2. inside \in SUBSET Nat /\ inside # {}
  BY <1>1
<1>3. PICK k \in inside : \A i \in inside : k <= i
  BY <1>2, Least
<1>4. k \in 1..(Len(ss) + 1)
  BY <1>1, <1>3
<1>5. fits(k)
  <2>1. ASSUME NEW i \in DOMAIN ss, ss[i].timestamp < cutoff, ~(i < k)
        PROVE  FALSE
    <3>1. k \in DOMAIN ss /\ k <= i
      BY <1>1, <1>4, <2>1
    <3>2. ss[k].timestamp <= ss[i].timestamp
      BY <3>1 DEF Ordered
    <3>3. ss[k].timestamp >= cutoff
      BY <1>1, <1>3, <3>1
    <3>. QED BY <1>1, <2>1, <3>1, <3>2, <3>3
  <2>2. ASSUME NEW i \in DOMAIN ss, i < k
        PROVE  ss[i].timestamp < cutoff
    <3>1. i \notin inside /\ i \in Nat /\ k \in Nat
      BY <1>1, <1>2, <1>3, <2>2
    <3>. QED BY <1>1, <3>1
  <2>. QED BY <2>1, <2>2
<1>. DEFINE first == CHOOSE x \in 1..(Len(ss) + 1) : fits(x)
<1>6. first \in 1..(Len(ss) + 1) /\ fits(first)
  BY <1>4, <1>5
<1>7. Since(ss, cutoff) = SubSeq(ss, first, Len(ss))
  BY DEF Since
<1>. QED BY <1>6, <1>7

LEMMA EndOfAList ==
  ASSUME NEW now \in Nat, NEW ss, ListSound(ss, now), NEW k \in 1..(Len(ss) + 1)
  PROVE  LET r == SubSeq(ss, k, Len(ss)) IN
         /\ ListSound(r, now)
         /\ \A i \in DOMAIN r : i + k - 1 \in DOMAIN ss /\ r[i] = ss[i + k - 1]
<1>. DEFINE r == SubSeq(ss, k, Len(ss))
<1>1. /\ ss \in Seq(Sample) /\ DOMAIN ss = 1..Len(ss) /\ Len(ss) \in Nat
      /\ \A i \in DOMAIN ss : ss[i].timestamp \in Nat /\ ss[i] \in Sample
  BY SamplesOfAList DEF ListSound
<1>2. /\ r \in Seq(Sample) /\ Len(r) = Len(ss) - k + 1 /\ DOMAIN r = 1..Len(r)
      /\ \A i \in DOMAIN r : r[i] = ss[i + k - 1]
  BY <1>1
<1>. HIDE DEF r
<1>3. \A i \in DOMAIN r : i + k - 1 \in DOMAIN ss
  BY <1>1, <1>2
<1>4. Ordered(r)
  BY <1>1, <1>2, <1>3, SMTT(20) DEF ListSound, Ordered
<1>5. Spaced(r)
  <2>. SUFFICES ASSUME NEW i \in 1..(Len(r) - 1), SameCounters(r[i], r[i + 1])
                PROVE  r[i + 1].timestamp - r[i].timestamp >= TooSoon
    BY DEF Spaced
  <2>. DEFINE j == i + k - 1
  <2>1. /\ j \in 1..(Len(ss) - 1) /\ i \in DOMAIN r /\ i + 1 \in DOMAIN r
        /\ (i + 1) + k - 1 = j + 1
    <3>1. \A l, m, n, x \in Int : m = l - n + 1 /\ 1 <= n /\ 1 <= x /\ x <= m - 1 =>
            /\ 1 <= x + n - 1 /\ x + n - 1 <= l - 1 /\ x <= m /\ 1 <= x + 1 /\ x + 1 <= m
            /\ (x + 1) + n - 1 = (x + n - 1) + 1
      OBVIOUS
    <3>2. /\ Len(ss) \in Int /\ Len(r) \in Int /\ k \in Int /\ i \in Int
          /\ Len(r) = Len(ss) - k + 1 /\ 1 <= k /\ 1 <= i /\ i <= Len(r) - 1
      BY <1>1, <1>2
    <3>3. /\ 1 <= j /\ j <= Len(ss) - 1 /\ i <= Len(r) /\ 1 <= i + 1 /\ i + 1 <= Len(r)
          /\ (i + 1) + k - 1 = j + 1
      BY <3>1, <3>2
    <3>. HIDE DEF j
    <3>4. j \in Int
      BY <3>2 DEF j
    <3>. QED BY <1>2, <3>2, <3>3, <3>4
  <2>2. r[i] = ss[j] /\ r[i + 1] = ss[j + 1]
    <3>1. r[i] = ss[j] /\ r[i + 1] = ss[(i + 1) + k - 1]
      BY <1>2, <2>1, Zenon
    <3>. QED BY <2>1, <3>1, Zenon
  <2>. QED BY <2>1, <2>2 DEF ListSound, Spaced
<1>6. \A i \in DOMAIN r : r[i].timestamp \in 1..now
  BY <1>2, <1>3 DEF ListSound
<1>7. \A i, j \in DOMAIN r : r[j].timestamp - r[i].timestamp <= Retention
  BY <1>2, <1>3 DEF ListSound
<1>. QED BY <1>2, <1>3, <1>4, <1>5, <1>6, <1>7 DEF ListSound, r

LEMMA RetainedIsSound ==
  ASSUME MetricsAssumption, NEW now \in Nat, NEW ss, ListSound(ss, now)
  PROVE  LET r == Retained(ss, now) IN
         /\ ListSound(r, now) /\ ToSet(r) \subseteq ToSet(ss)
         /\ \A i \in DOMAIN r : r[i].timestamp >= now - Retention
<1>. DEFINE r == Retained(ss, now)
<1>1. ss \in Seq(Sample) /\ Ordered(ss) /\ now - Retention \in Int
  BY DEF ListSound, MetricsAssumption
<1>2. r = Since(ss, now - Retention)
  BY <1>1, SortedStays DEF Retained
<1>3. PICK k \in 1..(Len(ss) + 1) :
        /\ r = SubSeq(ss, k, Len(ss))
        /\ \A i \in DOMAIN ss : ss[i].timestamp < now - Retention <=> i < k
  BY <1>1, <1>2, SinceIsTheEnd
<1>. HIDE DEF r
<1>4. /\ ListSound(r, now)
      /\ \A i \in DOMAIN r : i + k - 1 \in DOMAIN ss /\ r[i] = ss[i + k - 1]
  BY <1>3, EndOfAList
<1>5. ToSet(r) \subseteq ToSet(ss)
  BY <1>4 DEF ToSet
<1>6. \A i \in DOMAIN r : r[i].timestamp >= now - Retention
  <2>. SUFFICES ASSUME NEW i \in DOMAIN r PROVE r[i].timestamp >= now - Retention
    OBVIOUS
  <2>1. i \in Nat /\ i >= 1 /\ i + k - 1 >= k
    BY <1>4 DEF ListSound
  <2>2. r[i].timestamp \in Nat
    BY <1>4, SamplesOfAList DEF ListSound
  <2>3. ~(ss[i + k - 1].timestamp < now - Retention)
    BY <1>3, <1>4, <2>1
  <2>. QED BY <1>1, <1>4, <2>2, <2>3
<1>. QED BY <1>4, <1>5, <1>6 DEF r

\* A new sample keeps a list sound.
LEMMA AppendIsSound ==
  ASSUME MetricsAssumption, NEW now \in Nat \ {0}, NEW ss, ListSound(ss, now),
         NEW s \in Sample, s.timestamp = now
  PROVE  LET next == AppendSample(ss, s, now) IN
         ListSound(next, now) /\ ToSet(next) \subseteq ToSet(ss) \cup {s}
<1>. DEFINE kept == Retained(ss, now)
            next == Append(kept, s)
            skip == /\ kept # <<>> /\ SameCounters(Last(kept), s)
                    /\ now - Last(kept).timestamp < TooSoon
<1>1. /\ ListSound(kept, now) /\ ToSet(kept) \subseteq ToSet(ss)
      /\ \A i \in DOMAIN kept : kept[i].timestamp >= now - Retention
  BY RetainedIsSound
<1>2. AppendSample(ss, s, now) = IF skip THEN kept ELSE next
  BY DEF AppendSample
<1>. HIDE DEF kept
<1>3. CASE skip
  BY <1>1, <1>2, <1>3
<1>4. CASE ~skip
  <2>1. /\ kept \in Seq(Sample) /\ Len(kept) \in Nat /\ DOMAIN kept = 1..Len(kept)
        /\ \A i \in DOMAIN kept : kept[i].timestamp \in Nat /\ kept[i] \in Sample
    BY <1>1, SamplesOfAList DEF ListSound
  <2>2. /\ next \in Seq(Sample) /\ Len(next) = Len(kept) + 1 /\ DOMAIN next = 1..(Len(kept) + 1)
        /\ \A i \in 1..Len(kept) : next[i] = kept[i]
        /\ next[Len(kept) + 1] = s
    BY <2>1
  <2>. HIDE DEF next
  <2>3. \A i \in DOMAIN next : /\ next[i].timestamp \in 1..now
                               /\ next[i].timestamp >= now - Retention
    <3>1. now >= now - Retention /\ now \in 1..now
      BY DEF MetricsAssumption
    <3>2. ASSUME NEW i \in DOMAIN next
          PROVE  i \in DOMAIN kept \/ i = Len(kept) + 1
      BY <2>1, <2>2
    <3>. QED BY <1>1, <2>1, <2>2, <3>1, <3>2 DEF ListSound
  <2>4. Ordered(next)
    <3>. SUFFICES ASSUME NEW i \in DOMAIN next, NEW j \in DOMAIN next, i <= j
                  PROVE  next[i].timestamp <= next[j].timestamp
      BY DEF Ordered
    <3>1. CASE j = Len(kept) + 1
      BY <2>2, <2>3, <3>1
    <3>2. CASE j # Len(kept) + 1
      <4>1. i \in DOMAIN kept /\ j \in DOMAIN kept
        BY <2>1, <2>2, <3>2
      <4>. QED BY <1>1, <2>1, <2>2, <4>1 DEF ListSound, Ordered
    <3>. QED BY <3>1, <3>2
  <2>5. Spaced(next)
    <3>. SUFFICES ASSUME NEW i \in 1..Len(kept), SameCounters(next[i], next[i + 1])
                  PROVE  next[i + 1].timestamp - next[i].timestamp >= TooSoon
      BY <2>1, <2>2 DEF Spaced
    <3>1. CASE i = Len(kept)
      <4>1. Last(kept) = kept[i] /\ kept # <<>>
        BY <2>1, <3>1 DEF Last
      <4>2. next[i] = kept[i] /\ next[i + 1] = s
        BY <2>1, <2>2, <3>1
      <4>3. ~(now - kept[i].timestamp < TooSoon)
        BY <1>4, <4>1, <4>2
      <4>. QED BY <2>1, <4>2, <4>3 DEF MetricsAssumption
    <3>2. CASE i # Len(kept)
      <4>1. i \in 1..(Len(kept) - 1) /\ next[i] = kept[i] /\ next[i + 1] = kept[i + 1]
        BY <2>1, <2>2, <3>2
      <4>. QED BY <1>1, <4>1 DEF ListSound, Spaced
    <3>. QED BY <3>1, <3>2
  <2>6. \A i, j \in DOMAIN next : next[j].timestamp - next[i].timestamp <= Retention
    <3>. SUFFICES ASSUME NEW i \in DOMAIN next, NEW j \in DOMAIN next
                  PROVE  next[j].timestamp - next[i].timestamp <= Retention
      OBVIOUS
    <3>1. Retention \in Int
      BY DEF MetricsAssumption
    <3>2. /\ next[i].timestamp \in Int /\ next[i].timestamp >= now - Retention
          /\ next[j].timestamp \in Int /\ next[j].timestamp <= now
      BY <2>3
    <3>3. \A p, q, n, d \in Int : p <= n /\ q >= n - d => p - q <= d
      OBVIOUS
    <3>4. now \in Int
      OBVIOUS
    <3>. QED BY <3>1, <3>2, <3>3, <3>4
  <2>7. ToSet(next) \subseteq ToSet(ss) \cup {s}
    <3>1. ToSet(kept) = {kept[i] : i \in DOMAIN kept} /\ ToSet(next) = {next[i] : i \in DOMAIN next}
      BY DEF ToSet
    <3>2. ASSUME NEW i \in DOMAIN next
          PROVE  next[i] \in {kept[j] : j \in DOMAIN kept} \cup {s}
      <4>1. i \in DOMAIN kept \/ i = Len(kept) + 1
        BY <2>1, <2>2
      <4>2. CASE i \in DOMAIN kept
        BY <2>1, <2>2, <4>2
      <4>3. CASE i = Len(kept) + 1
        BY <2>2, <4>3
      <4>. QED BY <4>1, <4>2, <4>3
    <3>. QED BY <1>1, <3>1, <3>2
  <2>8. ListSound(next, now)
    BY <2>2, <2>3, <2>4, <2>5, <2>6 DEF ListSound
  <2>. QED BY <1>2, <1>4, <2>7, <2>8 DEF next
<1>. QED BY <1>3, <1>4

----------------------------------------------------------------------------
\* The steps.

\* What a sample is taken from.
Same(a, b) == a.counters = b.counters /\ a.total = b.total /\ a.epoch = b.epoch

LEMMA TakenTyped ==
  ASSUME MetricsInv
  PROVE  \A a \in Taken : a.epoch \in Nat /\ a.counters \in Counts /\ a.total \in Counts
<1>1. \A a \in answers : a.epoch \in Nat /\ a.counters \in Counts /\ a.total \in Counts
  BY DEF MetricsInv, CountsInv, Answer
<1>2. \A s \in Sample : s.epoch \in Nat /\ s.counters \in Counts /\ s.total \in Counts
  BY DEF Sample
<1>3. ToSet(samples) \subseteq Sample /\ ToSet(storage) \subseteq Sample
  BY SamplesOfAList DEF MetricsInv, ListSound, ToSet
<1>. QED BY <1>1, <1>2, <1>3 DEF Taken

LEMMA HistoryStays ==
  ASSUME MetricsInv, UNCHANGED <<counters, total, restarts>>,
         \A a \in Taken' : \E b \in Taken \cup {Snapshot} : Same(a, b)
  PROVE  HistoryInv'
<1>1. Snapshot' = Snapshot /\ restarts' = restarts /\ total' = total
  BY DEF Snapshot
<1>2. Consistent(Snapshot, Snapshot) /\ Snapshot.epoch = restarts
      /\ \A o \in Outcomes : Snapshot.total[o] <= total[o]
  BY DEF Consistent, Snapshot, MetricsInv, CountsInv, Counts, Outcomes
<1>3. \A a \in Taken \cup {Snapshot} :
        /\ a.epoch <= restarts /\ \A o \in Outcomes : a.total[o] <= total[o]
        /\ Consistent(a, Snapshot)
  <2>1. \A a \in Taken :
          /\ a.epoch <= restarts /\ \A o \in Outcomes : a.total[o] <= total[o]
          /\ Consistent(a, Snapshot)
    BY DEF MetricsInv, HistoryInv
  <2>2. Snapshot.epoch <= restarts
    BY <1>2 DEF MetricsInv, CountsInv
  <2>. QED BY <1>2, <2>1, <2>2
<1>4. \A a \in Taken : Consistent(Snapshot, a)
  <2>. SUFFICES ASSUME NEW a \in Taken PROVE Consistent(Snapshot, a)
    OBVIOUS
  <2>1. Consistent(a, Snapshot) /\ a.epoch <= Snapshot.epoch /\ Snapshot.epoch \in Nat
    BY <1>2, <1>3 DEF MetricsInv, CountsInv
  <2>2. a.epoch \in Nat
    BY TakenTyped
  <2>. QED BY <2>1, <2>2 DEF Consistent
<1>5. \A a, b \in Taken \cup {Snapshot} : Consistent(a, b)
  BY <1>2, <1>3, <1>4 DEF MetricsInv, HistoryInv
<1>6. ASSUME NEW a \in Taken', NEW b \in Taken'
      PROVE  Consistent(a, b)
  <2>1. PICK c \in Taken \cup {Snapshot}, d \in Taken \cup {Snapshot} : Same(a, c) /\ Same(b, d)
    OBVIOUS
  <2>2. Consistent(c, d)
    BY <1>5
  <2>. QED BY <2>1, <2>2 DEF Consistent, Same
<1>7. ASSUME NEW a \in Taken'
      PROVE  /\ a.epoch <= restarts /\ \A o \in Outcomes : a.total[o] <= total[o]
             /\ Consistent(a, Snapshot)
  <2>1. PICK c \in Taken \cup {Snapshot} : Same(a, c)
    OBVIOUS
  <2>2. /\ c.epoch <= restarts /\ \A o \in Outcomes : c.total[o] <= total[o]
        /\ Consistent(c, Snapshot)
    BY <1>3
  <2>. QED BY <2>1, <2>2 DEF Consistent, Same
<1>. QED BY <1>1, <1>6, <1>7 DEF HistoryInv

LEMMA TakeSampleStep ==
  ASSUME MetricsAssumption, MetricsInv, NEW ss, ListSound(ss, clock),
         NEW a \in Answer
  PROVE  LET next == AppendSample(ss, SampleOf(a), clock) IN
         /\ ListSound(next, clock)
         /\ \A s \in ToSet(next) : s \in ToSet(ss) \/ Same(s, a)
<1>1. clock \in Nat \ {0}
  BY DEF MetricsInv, CountsInv, MetricsAssumption
<1>2. SampleOf(a) \in Sample /\ SampleOf(a).timestamp = clock /\ Same(SampleOf(a), a)
  BY <1>1 DEF SampleOf, Sample, Answer, Same
<1>. QED BY <1>1, <1>2, AppendIsSound

LEMMA MetricsInitially == MetricsAssumption /\ MetricsInit => MetricsInv
<1>. SUFFICES ASSUME MetricsAssumption, MetricsInit PROVE MetricsInv
  OBVIOUS
<1>1. \A o \in Outcomes : counters[o] = 0 /\ total[o] = 0
  BY DEF MetricsInit, Outcomes
<1>2. CountsInv
  BY <1>1 DEF MetricsInit, CountsInv, Counts, MetricsAssumption
<1>3. ListSound(<<>>, clock)
  <2>1. <<>> \in Seq(Sample) /\ DOMAIN <<>> = {} /\ Len(<<>>) = 0
    OBVIOUS
  <2>. QED BY <2>1 DEF ListSound, Ordered, Spaced
<1>4. Taken = {}
  BY DEF MetricsInit, Taken, ToSet
<1>. QED BY <1>2, <1>3, <1>4 DEF MetricsInv, HistoryInv, MetricsInit

\* The clock moves on, and the samples stay.
LEMMA LaterIsSound ==
  ASSUME NEW now \in Nat, NEW ss, ListSound(ss, now)
  PROVE  ListSound(ss, now + 1)
<1>1. \A n \in 1..now : n \in 1..(now + 1)
  OBVIOUS
<1>. QED BY <1>1 DEF ListSound

LEMMA TickStep ==
  ASSUME MetricsAssumption, MetricsInv, MetricsTick
  PROVE  MetricsInv'
<1>1. clock \in Nat /\ clock' = clock + 1 /\ clock' \in 1..MaxTime
  BY DEF MetricsInv, CountsInv, MetricsTick, MetricsAssumption
<1>2. CountsInv'
  BY <1>1 DEF MetricsInv, CountsInv, MetricsTick
<1>3. HistoryInv'
  <2>1. Taken' = Taken /\ \A a \in Taken : Same(a, a)
    BY DEF MetricsTick, Taken, Same
  <2>. QED BY <2>1, HistoryStays DEF MetricsTick
<1>4. ListSound(samples, clock') /\ ListSound(storage, clock')
  BY <1>1, LaterIsSound DEF MetricsInv
<1>. QED BY <1>2, <1>3, <1>4 DEF MetricsInv, MetricsTick

\* A request adds the same to the counters and to what really happened.
LEMMA CompletesStep ==
  ASSUME MetricsAssumption, MetricsInv, NEW o \in Outcomes, Completes(o)
  PROVE  MetricsInv'
<1>1. /\ counters \in [Outcomes -> 0..MaxCount] /\ total \in [Outcomes -> 0..MaxCount]
      /\ \A x \in Outcomes : counters[x] \in Nat /\ total[x] \in Nat /\ counters[x] <= total[x]
  <2>1. counters \in Counts /\ total \in Counts
    BY DEF MetricsInv, CountsInv
  <2>2. Counts = [Outcomes -> 0..MaxCount]
    BY DEF Counts, Outcomes
  <2>3. \A n \in 0..MaxCount : n \in Nat
    BY DEF MetricsAssumption
  <2>. QED BY <2>1, <2>2, <2>3 DEF MetricsInv, CountsInv
<1>2. /\ counters' = [counters EXCEPT ![o] = counters[o] + 1]
      /\ total' = [total EXCEPT ![o] = total[o] + 1] /\ total[o] < MaxCount
      /\ UNCHANGED <<clock, answers, samples, storage, restarts, reloads>>
  BY DEF Completes
<1>3. \A x \in Outcomes : /\ counters'[x] = counters[x] + (IF x = o THEN 1 ELSE 0)
                          /\ total'[x] = total[x] + (IF x = o THEN 1 ELSE 0)
  BY <1>1, <1>2
<1>4. CountsInv'
  <2>1. counters' \in [Outcomes -> 0..MaxCount] /\ total' \in [Outcomes -> 0..MaxCount]
    BY <1>1, <1>2 DEF MetricsAssumption
  <2>2. \A x \in Outcomes : counters'[x] <= total'[x]
    BY <1>1, <1>3
  <2>3. Counts = [Outcomes -> 0..MaxCount]
    BY DEF Counts, Outcomes
  <2>. QED BY <1>2, <2>1, <2>2, <2>3 DEF MetricsInv, CountsInv
<1>5. Taken' = Taken
  BY <1>2 DEF Taken
<1>6. ASSUME NEW a \in Taken
      PROVE  /\ a.epoch <= restarts /\ \A x \in Outcomes : a.total[x] <= total'[x]
             /\ Consistent(a, Snapshot')
  <2>1. /\ a.epoch <= restarts /\ \A x \in Outcomes : a.total[x] <= total[x]
        /\ Consistent(a, Snapshot)
    BY DEF MetricsInv, HistoryInv
  <2>2. \A x \in Outcomes : a.total[x] \in Nat /\ a.counters[x] \in Nat
    <3>1. a.total \in [Outcomes -> 0..MaxCount] /\ a.counters \in [Outcomes -> 0..MaxCount]
      BY TakenTyped DEF Counts, Outcomes
    <3>. QED BY <3>1 DEF MetricsAssumption
  <2>3. /\ Snapshot'.epoch = Snapshot.epoch /\ Snapshot.total = total /\ Snapshot.counters = counters
        /\ Snapshot'.total = total' /\ Snapshot'.counters = counters'
    BY <1>2 DEF Snapshot
  <2>4. \A x \in Outcomes : /\ total'[x] >= total[x]
                            /\ total'[x] - counters'[x] = total[x] - counters[x]
    BY <1>1, <1>3
  <2>5. \A x \in Outcomes : a.total[x] <= total'[x]
    BY <1>1, <1>3, <2>1, <2>2
  <2>. QED BY <2>1, <2>3, <2>4, <2>5 DEF Consistent
<1>7. HistoryInv'
  BY <1>2, <1>5, <1>6 DEF HistoryInv, MetricsInv
<1>. QED BY <1>2, <1>4, <1>7 DEF MetricsInv

\* After a restart of the gateway every sample is of an earlier life.
LEMMA RestartStep ==
  ASSUME MetricsAssumption, MetricsInv, GatewayRestarts
  PROVE  MetricsInv'
<1>1. /\ restarts' = restarts + 1 /\ restarts \in Nat
      /\ \A o \in Outcomes : counters'[o] = 0
      /\ UNCHANGED <<clock, total, answers, samples, storage, reloads>>
  BY DEF GatewayRestarts, MetricsInv, CountsInv, Outcomes
<1>2. \A o \in Outcomes : total[o] \in Nat
  BY DEF MetricsInv, CountsInv, Counts, Outcomes, MetricsAssumption
<1>3. CountsInv'
  <2>1. counters' \in Counts
    BY DEF GatewayRestarts, Counts, MetricsAssumption
  <2>. QED BY <1>1, <1>2, <2>1 DEF MetricsInv, CountsInv
<1>4. Taken' = Taken
  BY <1>1 DEF Taken
<1>5. ASSUME NEW a \in Taken
      PROVE  /\ a.epoch <= restarts' /\ \A o \in Outcomes : a.total[o] <= total[o]
             /\ Consistent(a, Snapshot')
  <2>1. a.epoch <= restarts /\ \A o \in Outcomes : a.total[o] <= total[o]
    BY DEF MetricsInv, HistoryInv
  <2>2. a.epoch \in Nat
    BY TakenTyped
  <2>3. a.epoch < restarts'
    BY <1>1, <2>1, <2>2
  <2>4. Snapshot'.epoch = restarts' /\ Snapshot'.total = total /\ Snapshot'.counters = counters'
    BY <1>1 DEF Snapshot
  <2>5. \A o \in Outcomes : a.total[o] <= Snapshot'.total[o] - Snapshot'.counters[o]
    BY <1>1, <1>2, <2>1, <2>4
  <2>6. a.epoch # Snapshot'.epoch
    BY <1>1, <2>2, <2>3, <2>4
  <2>. QED BY <1>1, <2>1, <2>2, <2>3, <2>5, <2>6 DEF Consistent
<1>6. HistoryInv'
  BY <1>1, <1>4, <1>5 DEF HistoryInv, MetricsInv
<1>. QED BY <1>1, <1>3, <1>6 DEF MetricsInv

LEMMA SnapshotIsAnswer ==
  ASSUME MetricsInv
  PROVE  Snapshot \in Answer
BY DEF MetricsInv, CountsInv, Snapshot, Answer

LEMMA AnsweredStep ==
  ASSUME MetricsAssumption, MetricsInv, MetricsAnswered
  PROVE  MetricsInv'
<1>1. /\ answers' = answers \cup {Snapshot}
      /\ UNCHANGED <<clock, counters, total, samples, storage, restarts, reloads>>
  BY DEF MetricsAnswered
<1>2. CountsInv'
  BY <1>1, SnapshotIsAnswer DEF MetricsInv, CountsInv
<1>3. HistoryInv'
  <2>1. \A a \in Taken' : a \in Taken \cup {Snapshot} /\ Same(a, a)
    BY <1>1 DEF Taken, Same
  <2>. QED BY <1>1, <2>1, HistoryStays
<1>. QED BY <1>1, <1>2, <1>3 DEF MetricsInv

LEMMA SampleStep ==
  ASSUME MetricsAssumption, MetricsInv, NEW a \in answers, TakeSample(a)
  PROVE  MetricsInv'
<1>. DEFINE next == AppendSample(samples, SampleOf(a), clock)
<1>1. a \in Answer /\ ListSound(samples, clock)
  BY DEF MetricsInv, CountsInv
<1>2. /\ ListSound(next, clock)
      /\ \A s \in ToSet(next) : s \in ToSet(samples) \/ Same(s, a)
  BY <1>1, TakeSampleStep
<1>3. /\ samples' = next /\ storage' = next /\ answers' = answers \ {a}
      /\ UNCHANGED <<clock, counters, total, restarts, reloads>>
  BY DEF TakeSample
<1>. HIDE DEF next
<1>4. CountsInv'
  BY <1>3 DEF MetricsInv, CountsInv
<1>5. HistoryInv'
  <2>1. \A s \in Taken' : s \in Taken \/ Same(s, a)
    <3>1. Taken' = (answers \ {a}) \cup ToSet(next) \cup ToSet(next)
      BY <1>3 DEF Taken
    <3>. QED BY <1>2, <3>1 DEF Taken
  <2>2. a \in Taken /\ \A s : Same(s, s)
    BY DEF Taken, Same
  <2>3. \A s \in Taken' : \E b \in Taken \cup {Snapshot} : Same(s, b)
    BY <2>1, <2>2
  <2>. QED BY <1>3, <2>3, HistoryStays
<1>. QED BY <1>2, <1>3, <1>4, <1>5 DEF MetricsInv

LEMMA ReopenStep ==
  ASSUME MetricsAssumption, MetricsInv, Reopen
  PROVE  MetricsInv'
<1>. DEFINE found == Retained(storage, clock)
<1>1. clock \in Nat /\ ListSound(storage, clock)
  BY DEF MetricsInv, CountsInv, MetricsAssumption
<1>2. ListSound(found, clock) /\ ToSet(found) \subseteq ToSet(storage)
  BY <1>1, RetainedIsSound
<1>3. /\ samples' = found /\ answers' = {}
      /\ UNCHANGED <<clock, counters, total, storage, restarts>>
  BY DEF Reopen, loadMetricSamples
<1>. HIDE DEF found
<1>4. CountsInv'
  BY <1>3 DEF MetricsInv, CountsInv
<1>5. HistoryInv'
  <2>1. \A a \in Taken' : a \in Taken /\ Same(a, a)
    BY <1>2, <1>3 DEF Taken, Same
  <2>. QED BY <1>3, <2>1, HistoryStays
<1>. QED BY <1>1, <1>2, <1>3, <1>4, <1>5 DEF MetricsInv

LEMMA OtherTabStep ==
  ASSUME MetricsAssumption, MetricsInv, OtherTab
  PROVE  MetricsInv'
<1>. DEFINE found == Retained(storage, clock)
            next == AppendSample(found, SampleOf(Snapshot), clock)
<1>1. clock \in Nat /\ ListSound(storage, clock) /\ Snapshot \in Answer
  BY SnapshotIsAnswer DEF MetricsInv, CountsInv, MetricsAssumption
<1>2. ListSound(found, clock) /\ ToSet(found) \subseteq ToSet(storage)
  BY <1>1, RetainedIsSound
<1>3. /\ ListSound(next, clock)
      /\ \A s \in ToSet(next) : s \in ToSet(found) \/ Same(s, Snapshot)
  BY <1>1, <1>2, TakeSampleStep
<1>4. /\ storage' = next
      /\ UNCHANGED <<clock, counters, total, answers, samples, restarts>>
  BY DEF OtherTab, loadMetricSamples
<1>. HIDE DEF found, next
<1>5. CountsInv'
  BY <1>4 DEF MetricsInv, CountsInv
<1>6. HistoryInv'
  <2>1. \A a \in Taken' : a \in Taken \/ Same(a, Snapshot)
    BY <1>2, <1>3, <1>4 DEF Taken
  <2>2. \A s : Same(s, s)
    BY DEF Same
  <2>3. \A a \in Taken' : \E b \in Taken \cup {Snapshot} : Same(a, b)
    BY <2>1, <2>2
  <2>. QED BY <1>4, <2>3, HistoryStays
<1>. QED BY <1>3, <1>4, <1>5, <1>6 DEF MetricsInv

LEMMA MetricsStep ==
  ASSUME MetricsAssumption, MetricsInv, [MetricsNext]_metricsVars
  PROVE  MetricsInv'
<1>1. ASSUME UNCHANGED metricsVars
      PROVE  MetricsInv'
  <2>1. /\ clock' = clock /\ counters' = counters /\ total' = total /\ answers' = answers
        /\ samples' = samples /\ storage' = storage /\ restarts' = restarts
    BY <1>1 DEF metricsVars
  <2>2. Taken' = Taken /\ Snapshot' = Snapshot
    BY <2>1 DEF Taken, Snapshot
  <2>3. CountsInv' /\ HistoryInv'
    BY <2>1, <2>2 DEF MetricsInv, CountsInv, HistoryInv
  <2>. QED BY <2>1, <2>3 DEF MetricsInv
<1>2. ASSUME NEW o \in {"success", "failed"}, Completes(o)
      PROVE  MetricsInv'
  BY <1>2, CompletesStep DEF Outcomes
<1>. QED BY <1>1, <1>2, TickStep, RestartStep, AnsweredStep, SampleStep, ReopenStep,
            OtherTabStep DEF MetricsNext

THEOREM MetricsInvariant == MetricsSpec => []MetricsInv
<1>1. MetricsInit => MetricsInv
  BY MetricsAssumption, MetricsInitially
<1>2. MetricsInv /\ [MetricsNext]_metricsVars => MetricsInv'
  BY MetricsAssumption, MetricsStep
<1>. QED BY <1>1, <1>2, PTL DEF MetricsSpec

----------------------------------------------------------------------------
\* What is shown.

\* The sample a window is compared with is one of the list.
LEMMA BaselineIsASample ==
  ASSUME NEW ss \in Seq(Sample), Ordered(ss), ss # <<>>, NEW window \in Nat
  PROVE  \E i \in DOMAIN ss : Baseline(ss, window) = ss[i]
<1>. DEFINE cutoff == Last(ss).timestamp - window
            starts(i) == /\ ss[i].timestamp >= cutoff
                         /\ \A j \in 1..(i - 1) : ss[j].timestamp < cutoff
            inside == {i \in DOMAIN ss : ss[i].timestamp >= cutoff}
            first == CHOOSE i \in DOMAIN ss : starts(i)
<1>1. /\ DOMAIN ss = 1..Len(ss) /\ Len(ss) \in Nat /\ Len(ss) \in DOMAIN ss
      /\ \A i \in DOMAIN ss : ss[i].timestamp \in Nat
  BY SamplesOfAList
<1>2. Last(ss) = ss[Len(ss)] /\ cutoff \in Int
  BY <1>1 DEF Last
<1>3. Len(ss) \in inside /\ inside \in SUBSET Nat
  BY <1>1, <1>2
<1>. HIDE DEF cutoff
<1>4. PICK k \in inside : \A i \in inside : k <= i
  BY <1>3, Least
<1>5. starts(k)
  <2>1. ASSUME NEW j \in 1..(k - 1)
        PROVE  ss[j].timestamp < cutoff
    <3>1. j \in DOMAIN ss /\ j \notin inside
      BY <1>1, <1>3, <1>4
    <3>. QED BY <1>1, <1>2, <3>1
  <2>. QED BY <1>4, <2>1
<1>6. first \in DOMAIN ss
  BY <1>4, <1>5
<1>7. Baseline(ss, window) = ss[IF first > 1 THEN first - 1 ELSE first]
  BY DEF Baseline, cutoff
<1>. HIDE DEF first
<1>8. (IF first > 1 THEN first - 1 ELSE first) \in DOMAIN ss
  BY <1>1, <1>6
<1>. QED BY <1>7, <1>8

\* What the counters of two samples differ by is no more than what really happened.
LEMMA DifferenceIsReal ==
  ASSUME MetricsAssumption, MetricsInv, NEW a \in Taken, NEW b \in Taken, InOrder(a, b),
         NEW o \in Outcomes
  PROVE  /\ b.counters[o] - a.counters[o] \in Int /\ Real(a, b, o) \in Nat
         /\ b.counters[o] - a.counters[o] <= Real(a, b, o)
<1>1. /\ a.counters[o] \in Nat /\ b.counters[o] \in Nat
      /\ a.total[o] \in Nat /\ b.total[o] \in Nat
  <2>1. /\ a.counters \in [Outcomes -> 0..MaxCount] /\ b.counters \in [Outcomes -> 0..MaxCount]
        /\ a.total \in [Outcomes -> 0..MaxCount] /\ b.total \in [Outcomes -> 0..MaxCount]
    BY TakenTyped DEF Counts, Outcomes
  <2>. QED BY <2>1 DEF MetricsAssumption
<1>2. a.epoch \in Nat /\ b.epoch \in Nat /\ a.epoch <= b.epoch /\ b.total[o] - a.total[o] >= 0
  BY TakenTyped DEF InOrder, Real, Outcomes
<1>3. /\ a.epoch = b.epoch => a.total[o] - a.counters[o] = b.total[o] - b.counters[o]
      /\ a.epoch < b.epoch => a.total[o] <= b.total[o] - b.counters[o]
  BY DEF MetricsInv, HistoryInv, Consistent
<1>4. CASE a.epoch = b.epoch
  BY <1>1, <1>2, <1>3, <1>4 DEF Real
<1>5. CASE a.epoch < b.epoch
  BY <1>1, <1>2, <1>3, <1>5 DEF Real
<1>. QED BY <1>2, <1>4, <1>5

LEMMA RatesHold ==
  ASSUME MetricsAssumption, MetricsInv
  PROVE  RateIsReal
<1>. SUFFICES ASSUME NEW window \in {FiveMinutes, OneHour},
                     calculateWindowRate(samples, window).state \in {"ready", "idle"},
                     InOrder(Baseline(samples, window), Last(samples))
              PROVE  LET rate == calculateWindowRate(samples, window)
                         base == Baseline(samples, window) IN
                     /\ rate.success \in 0..Real(base, Last(samples), "success")
                     /\ rate.failed \in 0..Real(base, Last(samples), "failed")
  <2>1. normalizeMetricSamples(samples) = samples
    BY SortedStays DEF MetricsInv, ListSound
  <2>. QED BY <2>1 DEF RateIsReal
<1>. DEFINE rate == calculateWindowRate(samples, window)
            base == Baseline(samples, window)
            success == Last(samples).counters.success - base.counters.success
            failed == Last(samples).counters.failed - base.counters.failed
<1>1. samples \in Seq(Sample) /\ Ordered(samples) /\ window \in Nat
  BY DEF MetricsInv, ListSound, MetricsAssumption
<1>2. normalizeMetricSamples(samples) = samples
  BY <1>1, SortedStays
<1>3. /\ ~(Len(samples) < 2) /\ ~WentBackwards(success, failed)
      /\ rate.success = success /\ rate.failed = failed
  <2>1. rate = IF Len(samples) < 2 THEN NoRate("sampling")
               ELSE IF base.timestamp = Last(samples).timestamp THEN NoRate("sampling")
               ELSE IF WentBackwards(success, failed) THEN NoRate("reset")
               ELSE [state |-> IF success + failed > 0 THEN "ready" ELSE "idle",
                     success |-> success, failed |-> failed]
    BY <1>2 DEF calculateWindowRate
  <2>2. /\ NoRate("sampling").state \notin {"ready", "idle"}
        /\ NoRate("reset").state \notin {"ready", "idle"}
    BY DEF NoRate
  <2>3. rate.state \in {"ready", "idle"}
    OBVIOUS
  <2>. HIDE DEF rate, base, success, failed
  <2>. QED BY <2>1, <2>2, <2>3
<1>4. PICK i \in DOMAIN samples : base = samples[i]
  BY <1>1, <1>3, BaselineIsASample
<1>5. Last(samples) = samples[Len(samples)] /\ Len(samples) \in DOMAIN samples
  BY <1>1, <1>3 DEF Last
<1>6. base \in Taken /\ Last(samples) \in Taken
  BY <1>4, <1>5 DEF Taken, ToSet
<1>7. \A o \in Outcomes :
        /\ Last(samples).counters[o] - base.counters[o] \in Int
        /\ Real(base, Last(samples), o) \in Nat
        /\ Last(samples).counters[o] - base.counters[o] <= Real(base, Last(samples), o)
  BY <1>6, DifferenceIsReal
<1>8. /\ success \in Int /\ Real(base, Last(samples), "success") \in Nat
      /\ success <= Real(base, Last(samples), "success")
      /\ failed \in Int /\ Real(base, Last(samples), "failed") \in Nat
      /\ failed <= Real(base, Last(samples), "failed")
  BY <1>7 DEF Outcomes
<1>9. success >= 0 /\ failed >= 0
  <2>. HIDE DEF success, failed
  <2>. QED BY <1>3, <1>8 DEF WentBackwards
<1>. HIDE DEF rate, base, success, failed
<1>10. rate.success \in 0..Real(base, Last(samples), "success")
  BY <1>3, <1>8, <1>9
<1>11. rate.failed \in 0..Real(base, Last(samples), "failed")
  BY <1>3, <1>8, <1>9
<1>. QED BY <1>10, <1>11 DEF rate, base

LEMMA TrendHolds ==
  ASSUME MetricsAssumption, MetricsInv
  PROVE  TrendIsReal
<1>. DEFINE recent == Since(samples, clock - OneHour)
            data == metricTrendData(samples, clock)
<1>1. samples \in Seq(Sample) /\ Ordered(samples) /\ clock - OneHour \in Int /\ clock \in Nat
  BY DEF MetricsInv, CountsInv, ListSound, MetricsAssumption
<1>2. normalizeMetricSamples(samples) = samples
  BY <1>1, SortedStays
<1>3. PICK k \in 1..(Len(samples) + 1) : recent = SubSeq(samples, k, Len(samples))
  BY <1>1, SinceIsTheEnd
<1>4. /\ recent \in Seq(Sample)
      /\ \A i \in DOMAIN recent : i + k - 1 \in DOMAIN samples /\ recent[i] = samples[i + k - 1]
  <2>. HIDE DEF recent
  <2>1. ListSound(samples, clock)
    BY DEF MetricsInv
  <2>2. /\ ListSound(recent, clock)
        /\ \A i \in DOMAIN recent : i + k - 1 \in DOMAIN samples /\ recent[i] = samples[i + k - 1]
    BY <1>1, <1>3, <2>1, EndOfAList
  <2>. QED BY <2>2 DEF ListSound
<1>5. \A i \in DOMAIN recent : recent[i] \in Taken
  BY <1>4 DEF Taken, ToSet
<1>6. data = [i \in 1..(Len(recent) - 1) |->
           [from |-> recent[i], to |-> recent[i + 1],
            success |-> Positive(recent[i + 1].counters.success - recent[i].counters.success),
            failed  |-> Positive(recent[i + 1].counters.failed - recent[i].counters.failed)]]
  BY <1>2 DEF metricTrendData
<1>. HIDE DEF recent, data
<1>7. ASSUME NEW i \in DOMAIN data, InOrder(data[i].from, data[i].to), NEW o \in Outcomes
      PROVE  data[i][o] \in 0..Real(data[i].from, data[i].to, o)
  <2>. DEFINE a == recent[i]
              b == recent[i + 1]
  <2>1. i \in 1..(Len(recent) - 1) /\ i \in DOMAIN recent /\ i + 1 \in DOMAIN recent
    BY <1>4, <1>6
  <2>2. a \in Taken /\ b \in Taken
    BY <1>5, <2>1
  <2>3. /\ data[i].from = a /\ data[i].to = b
        /\ data[i].success = Positive(b.counters.success - a.counters.success)
        /\ data[i].failed = Positive(b.counters.failed - a.counters.failed)
    BY <1>6, <2>1
  <2>. HIDE DEF a, b
  <2>4. data[i][o] = Positive(b.counters[o] - a.counters[o])
    BY <2>3 DEF Outcomes
  <2>5. /\ b.counters[o] - a.counters[o] \in Int /\ Real(a, b, o) \in Nat
        /\ b.counters[o] - a.counters[o] <= Real(a, b, o)
    BY <1>7, <2>2, <2>3, DifferenceIsReal
  <2>6. Positive(b.counters[o] - a.counters[o]) \in 0..Real(a, b, o)
    BY <2>5 DEF Positive
  <2>. QED BY <2>3, <2>4, <2>6
<1>. QED BY <1>7 DEF TrendIsReal, data, Outcomes

LEMMA OrderHolds ==
  ASSUME MetricsAssumption, MetricsInv
  PROVE  SamplesKeptInOrder
<1>. SUFFICES ASSUME NEW ss \in {samples, storage}
              PROVE  /\ \A i \in 1..(Len(ss) - 1) :
                          /\ ss[i].timestamp <= ss[i + 1].timestamp
                          /\ SameCounters(ss[i], ss[i + 1]) =>
                                ss[i + 1].timestamp - ss[i].timestamp >= TooSoon
                     /\ ss # <<>> => Last(ss).timestamp - Head(ss).timestamp <= Retention
  BY DEF SamplesKeptInOrder
<1>1. ListSound(ss, clock)
  BY DEF MetricsInv
<1>2. ss \in Seq(Sample) /\ DOMAIN ss = 1..Len(ss) /\ Len(ss) \in Nat
  BY <1>1, SamplesOfAList DEF ListSound
<1>3. ASSUME NEW i \in 1..(Len(ss) - 1)
      PROVE  ss[i].timestamp <= ss[i + 1].timestamp
  <2>1. i \in DOMAIN ss /\ i + 1 \in DOMAIN ss /\ i <= i + 1
    BY <1>2
  <2>. QED BY <1>1, <2>1 DEF ListSound, Ordered
<1>4. ASSUME ss # <<>>
      PROVE  Last(ss).timestamp - Head(ss).timestamp <= Retention
  <2>1. /\ Last(ss) = ss[Len(ss)] /\ Head(ss) = ss[1]
        /\ 1 \in DOMAIN ss /\ Len(ss) \in DOMAIN ss
    BY <1>2, <1>4 DEF Last
  <2>. QED BY <1>1, <2>1 DEF ListSound
<1>. QED BY <1>1, <1>3, <1>4 DEF ListSound, Spaced

LEMMA WorstIssueHolds == HealthIsWorstIssue
<1>1. ASSUME NEW a, NEW b, NEW c, NEW d
      PROVE  LET issues == ToSet(<<a, b, c, d>>)
                 level == markIssue(markIssue(markIssue(markIssue("normal", a), b), c), d)
             IN  level = IF "critical" \in issues THEN "critical"
                         ELSE IF "warning" \in issues THEN "warning" ELSE "normal"
  <2>1. ToSet(<<a, b, c, d>>) = {a, b, c, d}
    BY DEF ToSet
  <2>. QED BY <2>1 DEF markIssue
<1>. SUFFICES ASSUME NEW exhausted \in 0..1, NEW cooling \in 0..1
              PROVE  LET five == calculateWindowRate(samples, FiveMinutes)
                         hour == calculateWindowRate(samples, OneHour)
                         issues == ToSet(HealthChecks(five, hour, exhausted, cooling))
                         level == runtimeHealth(five, hour, exhausted, cooling)
                     IN  level = IF "critical" \in issues THEN "critical"
                                 ELSE IF "warning" \in issues THEN "warning" ELSE "normal"
  BY DEF HealthIsWorstIssue
<1>. DEFINE f == getSuccessRateLevel(calculateWindowRate(samples, FiveMinutes))
            g == getFailureRateLevel(calculateWindowRate(samples, OneHour))
            e == IF exhausted > 0 THEN "critical" ELSE "normal"
            c == IF cooling > 0 THEN "warning" ELSE "normal"
            found == HealthChecks(calculateWindowRate(samples, FiveMinutes),
                                  calculateWindowRate(samples, OneHour), exhausted, cooling)
            level == runtimeHealth(calculateWindowRate(samples, FiveMinutes),
                                   calculateWindowRate(samples, OneHour), exhausted, cooling)
<1>2. found = <<f, g, e, c>>
  BY DEF HealthChecks
<1>3. level = markIssue(markIssue(markIssue(markIssue("normal", found[1]), found[2]),
                                  found[3]), found[4])
  BY DEF runtimeHealth
<1>. HIDE DEF f, g, e, c, found, level
<1>4. level = markIssue(markIssue(markIssue(markIssue("normal", f), g), e), c)
  BY <1>2, <1>3
<1>5. level = IF "critical" \in ToSet(found) THEN "critical"
              ELSE IF "warning" \in ToSet(found) THEN "warning" ELSE "normal"
  BY <1>1, <1>2, <1>4
<1>. QED BY <1>5 DEF found, level

\* What the metrics panel shows, for any times, counters and restarts of the
\* gateway, tabs and answers that overtake each other (fallbackHelpers).
THEOREM StatisticsStayReal == MetricsSpec => []StatisticsAreReal
<1>1. MetricsInv => StatisticsAreReal
  BY MetricsAssumption, RatesHold, TrendHolds, OrderHolds, WorstIssueHolds DEF StatisticsAreReal
<1>. QED BY <1>1, MetricsInvariant, PTL

\* The clock, the counters and the times of the samples keep their types.
LEMMA MetricsHaveTypes == MetricsInv => MetricsTypeOK
BY DEF MetricsInv, CountsInv, ListSound, MetricsTypeOK

----------------------------------------------------------------------------
(* The Fallback page with its metrics panel and the model editor.            *)

\* What is inductive of the three holds of all of them at once.
LEMMA PartsInvariance == WebFallbackSpec => [](PageInv /\ MetricsInv /\ EditorTyped)
<1>1. WebFallbackInit => PageInv /\ MetricsInv /\ EditorTyped
  BY InitPageInv, PageAssumption, MetricsInitially, MetricsAssumption, EditorInitiallyTyped,
     EditorAssumption DEF WebFallbackInit
<1>2. [WebFallbackNext]_webFallbackVars =>
        [PageNext]_pageVars /\ [MetricsNext]_metricsVars /\ [EditorNext]_editorVars
  BY DEF WebFallbackNext, webFallbackVars
<1>3. PageInv /\ [PageNext]_pageVars => PageInv'
  BY NextPageInv, PageAssumption
<1>4. MetricsInv /\ [MetricsNext]_metricsVars => MetricsInv'
  BY MetricsStep, MetricsAssumption
<1>5. EditorTyped /\ [EditorNext]_editorVars => EditorTyped'
  BY EditorStaysTyped, EditorAssumption
<1>. QED BY <1>1, <1>2, <1>3, <1>4, <1>5, PTL DEF WebFallbackSpec

\* Every variable of the page, of its metrics panel and of the editor keeps its type,
\* whichever of the three a behaviour exercises.
THEOREM WebFallbackTyped == WebFallbackSpec => []WebFallbackTypeOK
<1>1. PageInv => PageTypeOK
  BY DEF PageInv
<1>2. MetricsInv => MetricsTypeOK
  BY MetricsHaveTypes
<1>3. EditorTyped => EditorTypeOK
  BY EditorHasTypes
<1>. QED BY <1>1, <1>2, <1>3, PartsInvariance, PTL DEF WebFallbackTypeOK

\* The types of the metrics panel and of the editor on their own.
THEOREM MetricsAreTyped == MetricsSpec => []MetricsTypeOK
BY MetricsHaveTypes, MetricsInvariant, PTL

THEOREM EditorTypeCorrect == EditorSpec => []EditorTypeOK
<1>1. EditorInit => EditorTyped
  BY EditorAssumption, EditorInitiallyTyped
<1>2. EditorTyped /\ [EditorNext]_editorVars => EditorTyped'
  BY EditorAssumption, EditorStaysTyped
<1>. QED BY <1>1, <1>2, EditorHasTypes, PTL DEF EditorSpec

----------------------------------------------------------------------------
(* The free pool page. *)

PoolKey == PoolKeys \cup {NoKey}
GatewayMap == [Providers -> [configured : BOOLEAN, enabled : BOOLEAN, key : PoolKey]]
PageMap == [Providers -> [configured : BOOLEAN, enabled : BOOLEAN, count : BOOLEAN,
                          keys : PoolKey, clear : BOOLEAN]]

\* What is enabled has the key it needs; a row stages keys or a clearing.
CanWork(g) == \A p \in Keyed : g[p].enabled => g[p].key # NoKey
OneStaging(cfg) == \A p \in Providers : ~(cfg[p].keys # NoKey /\ cfg[p].clear)

\* Every configuration that a load under way may still bring can work, and so does the
\* one that the handler has merged and not stored yet; its answer stages nothing.
PastWorks ==
  /\ gatewayPast \in Seq(GatewayMap) /\ gatewayPast # <<>>
  /\ \A i \in 1..Len(gatewayPast) : CanWork(gatewayPast[i])
PageHolds ==
  poolConfig # NoConfig => /\ poolConfig \in PageMap /\ OneStaging(poolConfig)
                           /\ selected \subseteq Visible(poolConfig, filter)
SaveSafe ==
  \/ saving = NotSaving
  \/ \E c \in PageMap : saving = <<"sent", c>>
  \/ \E g \in GatewayMap : CanWork(g) /\ saving = <<"merged", g>>
  \/ \E c \in PageMap : OneStaging(c) /\ saving = <<"stored", c>>

PoolInv ==
  /\ PastWorks /\ PageHolds /\ SaveSafe
  /\ filter \in Filters /\ selected \subseteq Providers
  /\ action \in PoolActions \cup {""}
  /\ poolLoads \in [{"loud", "silent"} -> Nat]

LEMMA CurrentWorks ==
  ASSUME PastWorks
  PROVE  /\ Len(gatewayPast) \in Nat /\ Len(gatewayPast) > 0
         /\ poolGateway \in GatewayMap /\ CanWork(poolGateway)
BY DEF PastWorks, poolGateway, Last

LEMMA PastEntries ==
  ASSUME PastWorks, NEW i \in 1..Len(gatewayPast)
  PROVE  gatewayPast[i] \in GatewayMap
<1>1. gatewayPast \in Seq(GatewayMap)
  BY DEF PastWorks
<1>. QED BY <1>1

LEMMA SavePhases ==
  ASSUME SaveSafe, saving # NotSaving
  PROVE  /\ saving[1] = "sent" => \E c \in PageMap : saving = <<"sent", c>>
         /\ saving[1] = "merged" =>
              \E g \in GatewayMap : CanWork(g) /\ saving = <<"merged", g>>
         /\ saving[1] = "stored" =>
              \E c \in PageMap : OneStaging(c) /\ saving = <<"stored", c>>
<1>1. CASE \E c \in PageMap : saving = <<"sent", c>>
  <2>1. saving[1] = "sent"
    BY <1>1
  <2>. QED BY <1>1, <2>1
<1>2. CASE \E g \in GatewayMap : CanWork(g) /\ saving = <<"merged", g>>
  <2>1. saving[1] = "merged"
    BY <1>2
  <2>. QED BY <1>2, <2>1
<1>3. CASE \E c \in PageMap : OneStaging(c) /\ saving = <<"stored", c>>
  <2>1. saving[1] = "stored"
    BY <1>3
  <2>. QED BY <1>3, <2>1
<1>. QED BY <1>1, <1>2, <1>3 DEF SaveSafe

LEMMA PastGrows ==
  ASSUME PastWorks, NEW g \in GatewayMap, CanWork(g), gatewayPast' = Append(gatewayPast, g)
  PROVE  PastWorks'
<1>1. /\ gatewayPast' \in Seq(GatewayMap) /\ gatewayPast' # <<>>
      /\ Len(gatewayPast') = Len(gatewayPast) + 1 /\ Len(gatewayPast) \in Nat
  BY DEF PastWorks
<1>2. ASSUME NEW i \in 1..Len(gatewayPast')
      PROVE  CanWork(gatewayPast'[i])
  <2>1. CASE i = Len(gatewayPast) + 1
    <3>1. gatewayPast'[i] = g
      BY <2>1 DEF PastWorks
    <3>. QED BY <3>1
  <2>2. CASE i # Len(gatewayPast) + 1
    <3>1. i \in 1..Len(gatewayPast)
      BY <1>1, <1>2, <2>2
    <3>2. gatewayPast'[i] = gatewayPast[i]
      BY <3>1 DEF PastWorks
    <3>. QED BY <3>1, <3>2 DEF PastWorks
  <2>. QED BY <2>1, <2>2
<1>. QED BY <1>1, <1>2 DEF PastWorks

\* The projection of the gateway stages nothing.
LEMMA ProjectionStagesNothing ==
  ASSUME NEW g \in GatewayMap
  PROVE  Projection(g) \in PageMap /\ OneStaging(Projection(g))
BY DEF GatewayMap, PageMap, Projection, OneStaging, PoolKey

\* A merge of what was validated can work (validateGatewayFreeProviders,
\* mergeGatewayFreeProviderInput).
LEMMA MergeWorks ==
  ASSUME PoolAssumption, NEW g \in GatewayMap, CanWork(g),
         NEW payload \in PageMap, Valid(g, payload)
  PROVE  Merge(g, payload) \in GatewayMap /\ CanWork(Merge(g, payload))
<1>1. Merge(g, payload) \in GatewayMap
  BY DEF Merge, GatewayMap, PageMap, PoolKey
<1>2. ASSUME NEW p \in Keyed, Merge(g, payload)[p].enabled
      PROVE  Merge(g, payload)[p].key # NoKey
  <2>1. p \in Providers
    BY DEF PoolAssumption
  <2>2. CASE ~payload[p].configured
    BY <1>2, <2>1, <2>2 DEF Merge, CanWork
  <2>3. CASE payload[p].configured
    <3>1. payload[p].enabled
      BY <1>2, <2>1, <2>3 DEF Merge
    <3>2. ~payload[p].clear /\ (g[p].key # NoKey \/ payload[p].keys # NoKey)
      BY <2>1, <2>3, <3>1 DEF Valid, KeyedAfterSave
    <3>. QED BY <2>1, <2>3, <3>2 DEF Merge
  <2>. QED BY <2>2, <2>3
<1>. QED BY <1>1, <1>2 DEF CanWork

\* The page takes another configuration and keeps what is visible of the selection.
LEMMA PageTakes ==
  ASSUME PoolInv, NEW c \in PageMap, OneStaging(c), poolConfig' = c, Prune(c, filter),
         filter' = filter, UNCHANGED gatewayPast,
         SaveSafe', action' \in PoolActions \cup {""},
         poolLoads' \in [{"loud", "silent"} -> Nat]
  PROVE  PoolInv'
<1>1. selected' \subseteq Visible(c, filter) /\ selected' \subseteq Providers
  BY DEF Prune, PoolInv
<1>2. PageHolds'
  BY <1>1 DEF PageHolds, OneStaging, Visible, Matches, PageMap
<1>3. PastWorks'
  BY DEF PoolInv, PastWorks, CanWork
<1>. QED BY <1>1, <1>2, <1>3 DEF PoolInv

LEMMA EditedStep ==
  ASSUME PoolInv, NEW c \in PageMap, OneStaging(c), Edited(c)
  PROVE  PoolInv'
<1>1. /\ poolConfig' = c /\ Prune(c, filter)
      /\ UNCHANGED <<gatewayPast, poolLoads, filter, saving, action>>
  BY DEF Edited
<1>2. SaveSafe'
  BY <1>1 DEF PoolInv, SaveSafe, OneStaging, CanWork
<1>. QED BY <1>1, <1>2, PageTakes DEF PoolInv

\* A step that leaves the page's copy, the past and the save alone.
LEMMA PageStays ==
  ASSUME PoolInv, UNCHANGED <<gatewayPast, poolConfig, saving>>,
         poolConfig # NoConfig => selected' \subseteq Visible(poolConfig, filter'),
         filter' \in Filters, selected' \subseteq Providers,
         action' \in PoolActions \cup {""}, poolLoads' \in [{"loud", "silent"} -> Nat]
  PROVE  PoolInv'
<1>1. PastWorks' /\ SaveSafe'
  BY DEF PoolInv, PastWorks, SaveSafe, CanWork, OneStaging
<1>2. PageHolds'
  BY DEF PoolInv, PageHolds, OneStaging, Visible, Matches
<1>. QED BY <1>1, <1>2 DEF PoolInv

LEMMA LoadsReplaced ==
  ASSUME poolLoads \in [{"loud", "silent"} -> Nat], NEW who \in {"loud", "silent"},
         NEW n \in Nat, poolLoads' = [poolLoads EXCEPT ![who] = n]
  PROVE  poolLoads' \in [{"loud", "silent"} -> Nat]
OBVIOUS

LEMMA LoadAllStep ==
  ASSUME PoolInv, loadAll
  PROVE  PoolInv'
<1>1. Len(gatewayPast) \in Nat
  BY CurrentWorks DEF PoolInv
<1>2. poolLoads' \in [{"loud", "silent"} -> Nat]
  BY <1>1, LoadsReplaced DEF loadAll, SendLoad, PoolInv
<1>3. UNCHANGED <<gatewayPast, poolConfig, saving, action>> /\ filter' = "all" /\ selected' = {}
  BY DEF loadAll, PoolRemounted
<1>. QED BY <1>2, <1>3, PageStays DEF PoolInv, Filters

LEMMA PoolLoadEnds ==
  ASSUME PoolInv, NEW who \in {"loud", "silent"}, PoolLoadStep(who)
  PROVE  PoolInv'
<1>1. /\ poolLoads' \in [{"loud", "silent"} -> Nat]
      /\ action' \in PoolActions \cup {""}
  <2>1. /\ poolLoads' = [poolLoads EXCEPT ![who] = 0]
        /\ action' = IF who = "silent" THEN "" ELSE action
    BY DEF PoolLoadStep, PoolAnswered, PoolLoadFailed, EndLoad, NotLoading
  <2>. QED BY <2>1, LoadsReplaced DEF PoolInv
<1>2. CASE PoolAnswered(who)
  <2>1. PICK i \in poolLoads[who]..Len(gatewayPast) : poolConfig' = Projection(gatewayPast[i])
    BY <1>2 DEF PoolAnswered
  <2>2. gatewayPast[i] \in GatewayMap
    <3>1. poolLoads[who] \in Nat /\ poolLoads[who] # 0 /\ Len(gatewayPast) \in Nat
      BY <1>2, CurrentWorks DEF PoolAnswered, PoolInv, NotLoading
    <3>2. i \in 1..Len(gatewayPast)
      BY <3>1
    <3>. QED BY <3>2, PastEntries DEF PoolInv
  <2>3. poolConfig' \in PageMap /\ OneStaging(Projection(gatewayPast[i]))
    BY <2>1, <2>2, ProjectionStagesNothing
  <2>4. Prune(Projection(gatewayPast[i]), filter) /\ UNCHANGED <<gatewayPast, filter, saving>>
    BY <1>2, <2>1 DEF PoolAnswered, Prune
  <2>5. SaveSafe'
    BY <2>4 DEF PoolInv, SaveSafe, CanWork, OneStaging
  <2>. QED BY <1>1, <2>1, <2>2, <2>4, <2>5, PageTakes, ProjectionStagesNothing
<1>3. CASE PoolLoadFailed(who)
  <2>1. UNCHANGED <<gatewayPast, poolConfig, filter, selected, saving>>
    BY <1>3 DEF PoolLoadFailed
  <2>. QED BY <1>1, <2>1, PageStays DEF PoolInv, PageHolds
<1>. QED BY <1>2, <1>3 DEF PoolLoadStep

\* The edits of the table (updateProvider, buildReplaceKeysProviderConfig,
\* buildClearKeysProviderConfig, buildBulkEnabledProviderConfig).
LEMMA EditStep ==
  ASSUME PoolAssumption, PoolInv,
         \/ \E p \in Providers :
               \/ \E enabled \in BOOLEAN : updateEnabled(p, enabled)
               \/ \E typed \in PoolKeys \cup {NoKey, Masked} : updateKeys(p, typed)
               \/ clearKeys(p)
         \/ \E enabled \in BOOLEAN : applyBulkEnabled(enabled)
  PROVE  PoolInv'
<1>0. ASSUME TableShown
      PROVE  poolConfig \in PageMap /\ OneStaging(poolConfig) /\ selected \subseteq Providers
  BY <1>0 DEF TableShown, PoolInv, PageHolds
<1>1. ASSUME NEW p \in Providers, NEW enabled \in BOOLEAN, updateEnabled(p, enabled)
      PROVE  PoolInv'
  <2>. DEFINE c == [poolConfig EXCEPT ![p].configured = TRUE, ![p].enabled = enabled]
  <2>1. poolConfig \in PageMap /\ OneStaging(poolConfig) /\ Edited(c)
    BY <1>0, <1>1 DEF updateEnabled
  <2>2. c \in PageMap
    BY <2>1 DEF PageMap
  <2>3. OneStaging(c)
    BY <2>1 DEF PageMap, OneStaging
  <2>. QED BY <2>1, <2>2, <2>3, EditedStep
<1>2. ASSUME NEW p \in Providers, NEW typed \in PoolKeys \cup {NoKey, Masked},
             updateKeys(p, typed)
      PROVE  PoolInv'
  <2>. DEFINE c == [poolConfig EXCEPT ![p] = buildReplaceKeysProviderConfig(@, typed)]
  <2>1. poolConfig \in PageMap /\ OneStaging(poolConfig) /\ Edited(c)
    BY <1>0, <1>2 DEF updateKeys
  <2>2. c = [poolConfig EXCEPT ![p].configured = TRUE, ![p].clear = FALSE,
                               ![p].keys = IF typed = Masked THEN NoKey ELSE typed]
    BY DEF buildReplaceKeysProviderConfig
  <2>3. c \in PageMap
    <3>1. (IF typed = Masked THEN NoKey ELSE typed) \in PoolKey
      BY DEF PoolKey
    <3>2. buildReplaceKeysProviderConfig(poolConfig[p], typed)
            \in [configured : BOOLEAN, enabled : BOOLEAN, count : BOOLEAN, keys : PoolKey,
                 clear : BOOLEAN]
      BY <2>1, <3>1 DEF PageMap, buildReplaceKeysProviderConfig
    <3>. QED BY <2>1, <3>2 DEF PageMap
  <2>4. OneStaging(c)
    BY <2>1, <2>2 DEF PageMap, OneStaging
  <2>. QED BY <2>1, <2>3, <2>4, EditedStep
<1>3. ASSUME NEW p \in Providers, clearKeys(p)
      PROVE  PoolInv'
  <2>. DEFINE c == [poolConfig EXCEPT ![p].configured = TRUE, ![p].keys = NoKey,
                                      ![p].clear = TRUE]
  <2>1. poolConfig \in PageMap /\ OneStaging(poolConfig) /\ Edited(c)
    BY <1>0, <1>3 DEF clearKeys
  <2>2. c \in PageMap /\ OneStaging(c)
    <3>. DEFINE shownOn == [poolConfig EXCEPT ![p].configured = TRUE]
                emptied == [shownOn EXCEPT ![p].keys = NoKey]
    <3>1. shownOn \in PageMap /\ OneStaging(shownOn)
      BY <2>1 DEF PageMap, OneStaging
    <3>2. c = [emptied EXCEPT ![p].clear = TRUE]
      OBVIOUS
    <3>. HIDE DEF c, shownOn
    <3>3. emptied \in PageMap /\ OneStaging(emptied) /\ emptied[p].keys = NoKey
      BY <3>1 DEF PageMap, OneStaging, PoolKey
    <3>. HIDE DEF emptied
    <3>. QED BY <3>2, <3>3 DEF PageMap, OneStaging
  <2>. QED BY <2>1, <2>2, EditedStep
<1>4. ASSUME NEW enabled \in BOOLEAN, applyBulkEnabled(enabled)
      PROVE  PoolInv'
  <2>. DEFINE c == [p \in Providers |->
                      IF p \in selected
                      THEN [poolConfig[p] EXCEPT !.configured = TRUE, !.enabled = enabled]
                      ELSE poolConfig[p]]
  <2>1. poolConfig \in PageMap /\ OneStaging(poolConfig) /\ Edited(c)
    BY <1>0, <1>4 DEF applyBulkEnabled
  <2>2. c \in PageMap /\ OneStaging(c)
    BY <2>1 DEF PageMap, OneStaging
  <2>. QED BY <2>1, <2>2, EditedStep
<1>. QED BY <1>1, <1>2, <1>3, <1>4

LEMMA SaveStepKept ==
  ASSUME PoolAssumption, PoolInv, saveFreePoolConfig \/ PoolSaveStep
  PROVE  PoolInv'
<1>1. CASE saveFreePoolConfig
  <2>1. saving' = <<"sent", poolConfig>> /\ poolConfig \in PageMap
    BY <1>1 DEF saveFreePoolConfig, TableShown, PoolInv, PageHolds
  <2>2. SaveSafe'
    BY <2>1 DEF SaveSafe
  <2>3. UNCHANGED <<gatewayPast, poolConfig, poolLoads, filter, selected, action>>
    BY <1>1 DEF saveFreePoolConfig
  <2>. QED BY <2>2, <2>3 DEF PoolInv, PastWorks, PageHolds, CanWork, OneStaging, Visible, Matches
<1>2. CASE Validated
  <2>1. PICK c \in PageMap : saving = <<"sent", c>>
    BY <1>2, SavePhases DEF Validated, PoolInv
  <2>2. saving' = IF Valid(poolGateway, c) THEN <<"merged", Merge(poolGateway, c)>>
                  ELSE NotSaving
    BY <1>2, <2>1 DEF Validated
  <2>3. SaveSafe'
    BY <2>2, CurrentWorks, MergeWorks DEF SaveSafe, PoolInv, NotSaving
  <2>4. UNCHANGED <<gatewayPast, poolConfig, poolLoads, filter, selected, action>>
    BY <1>2 DEF Validated
  <2>. QED BY <2>3, <2>4 DEF PoolInv, PastWorks, PageHolds, CanWork, OneStaging, Visible, Matches
<1>3. CASE SaveStored
  <2>1. PICK g \in GatewayMap : CanWork(g) /\ saving = <<"merged", g>>
    BY <1>3, SavePhases DEF SaveStored, PoolInv
  <2>2. gatewayPast' = Append(gatewayPast, g) /\ saving' = <<"stored", Projection(g)>>
    BY <1>3, <2>1 DEF SaveStored
  <2>3. PastWorks' /\ SaveSafe'
    BY <2>1, <2>2, PastGrows, ProjectionStagesNothing DEF SaveSafe, PoolInv
  <2>4. UNCHANGED <<poolConfig, poolLoads, filter, selected, action>>
    BY <1>3 DEF SaveStored
  <2>. QED BY <2>3, <2>4 DEF PoolInv, PageHolds, OneStaging, Visible, Matches
<1>4. CASE SaveAnswered
  <2>1. PICK c \in PageMap : OneStaging(c) /\ saving = <<"stored", c>>
    BY <1>4, SavePhases DEF SaveAnswered, PoolInv
  <2>2. poolConfig' = c /\ Prune(c, filter) /\ saving' = NotSaving
    BY <1>4, <2>1 DEF SaveAnswered, Prune
  <2>3. SaveSafe' /\ UNCHANGED <<gatewayPast, poolLoads, filter, action>>
    BY <1>4, <2>2 DEF SaveAnswered, SaveSafe, NotSaving
  <2>. QED BY <2>1, <2>2, <2>3, PageTakes DEF PoolInv
<1>5. CASE SaveFailed
  <2>1. SaveSafe' /\ UNCHANGED <<gatewayPast, poolConfig, poolLoads, filter, selected, action>>
    BY <1>5 DEF SaveFailed, SaveSafe, NotSaving
  <2>. QED BY <2>1 DEF PoolInv, PastWorks, PageHolds, CanWork, OneStaging, Visible, Matches
<1>. QED BY <1>1, <1>2, <1>3, <1>4, <1>5 DEF PoolSaveStep

LEMMA TableStep ==
  ASSUME PoolInv,
         \/ \E f \in Filters : SetFilter(f)
         \/ \E ps \in SUBSET Providers : Select(ps)
  PROVE  PoolInv'
<1>1. ASSUME NEW f \in Filters, SetFilter(f)
      PROVE  PoolInv'
  <2>1. /\ filter' = f /\ selected' = selected \cap Visible(poolConfig, f)
        /\ UNCHANGED <<gatewayPast, poolConfig, poolLoads, saving, action>>
    BY <1>1 DEF SetFilter, Prune
  <2>. QED BY <2>1, PageStays DEF PoolInv
<1>2. ASSUME NEW ps \in SUBSET Providers, Select(ps)
      PROVE  PoolInv'
  <2>1. /\ ps \subseteq Visible(poolConfig, filter) /\ selected' = ps
        /\ UNCHANGED <<gatewayPast, poolConfig, poolLoads, filter, saving, action>>
    BY <1>2 DEF Select
  <2>. QED BY <2>1, PageStays DEF PoolInv
<1>. QED BY <1>1, <1>2

LEMMA ButtonStep ==
  ASSUME PoolInv, (\E a \in PoolActions : runAction(a)) \/ ActionAnswered
  PROVE  PoolInv'
<1>1. UNCHANGED <<gatewayPast, poolConfig, filter, selected, saving>>
  BY DEF runAction, ActionAnswered
<1>2. action' \in PoolActions \cup {""}
  BY DEF runAction, ActionAnswered, PoolInv
<1>3. poolLoads' \in [{"loud", "silent"} -> Nat]
  <2>1. Len(gatewayPast) \in Nat
    BY CurrentWorks DEF PoolInv
  <2>2. \/ poolLoads' = poolLoads
        \/ poolLoads' = [poolLoads EXCEPT !["silent"] = Len(gatewayPast)]
    BY DEF runAction, ActionAnswered, SendLoad
  <2>. QED BY <2>1, <2>2, LoadsReplaced DEF PoolInv
<1>. QED BY <1>1, <1>2, <1>3, PageStays DEF PoolInv, PageHolds

LEMMA OtherSaveStep ==
  ASSUME PoolAssumption, PoolInv, OtherPoolSave
  PROVE  PoolInv'
<1>0. poolGateway \in GatewayMap /\ CanWork(poolGateway) /\ PastWorks
  BY CurrentWorks DEF PoolInv
<1>1. PICK p \in Providers, key \in PoolKey, clear \in BOOLEAN, enabled \in BOOLEAN :
        LET payload == [Projection(poolGateway) EXCEPT ![p] =
                [configured |-> TRUE, enabled |-> enabled, count |-> FALSE,
                 keys |-> key, clear |-> clear]] IN
        /\ Valid(poolGateway, payload)
        /\ gatewayPast' = Append(gatewayPast, Merge(poolGateway, payload))
  BY DEF OtherPoolSave, PoolKey
<1>. DEFINE payload == [Projection(poolGateway) EXCEPT ![p] =
                          [configured |-> TRUE, enabled |-> enabled, count |-> FALSE,
                           keys |-> key, clear |-> clear]]
<1>2. payload \in PageMap
  BY <1>0, ProjectionStagesNothing DEF PageMap
<1>3. Valid(poolGateway, payload) /\ gatewayPast' = Append(gatewayPast, Merge(poolGateway, payload))
  BY <1>1
<1>. HIDE DEF payload
<1>4. PastWorks'
  BY <1>0, <1>2, <1>3, MergeWorks, PastGrows
<1>5. UNCHANGED <<poolConfig, poolLoads, filter, selected, saving, action>>
  BY DEF OtherPoolSave
<1>6. SaveSafe' /\ PageHolds'
  BY <1>5 DEF PoolInv, SaveSafe, PageHolds, CanWork, OneStaging, Visible, Matches
<1>. QED BY <1>4, <1>5, <1>6 DEF PoolInv

LEMMA InitPoolInv ==
  ASSUME PoolAssumption, PoolInit
  PROVE  PoolInv
<1>. DEFINE first == [p \in Providers |-> [configured |-> FALSE, enabled |-> FALSE, key |-> NoKey]]
<1>1. gatewayPast = <<first>> /\ first \in GatewayMap
  BY DEF PoolInit, GatewayMap, PoolKey
<1>2. CanWork(first)
  BY DEF CanWork, PoolAssumption
<1>. HIDE DEF first
<1>3. PastWorks
  BY <1>1, <1>2 DEF PastWorks
<1>. QED BY <1>3 DEF PoolInit, PoolInv, PageHolds, SaveSafe, Filters, NotLoading

LEMMA NextPoolInv ==
  ASSUME PoolAssumption, PoolInv, [PoolNext]_poolVars
  PROVE  PoolInv'
<1>1. CASE UNCHANGED poolVars
  <2>1. UNCHANGED <<gatewayPast, poolConfig, poolLoads, filter, selected, saving, action>>
    BY <1>1 DEF poolVars
  <2>. QED BY <2>1, PageStays DEF PoolInv, PageHolds
<1>. QED BY <1>1, LoadAllStep, PoolLoadEnds, EditStep, SaveStepKept, TableStep, ButtonStep,
            OtherSaveStep DEF PoolNext

THEOREM PoolInvariance == PoolSpec => []PoolInv
<1>1. PoolInit => PoolInv
  BY InitPoolInv, PoolAssumption
<1>2. PoolInv /\ [PoolNext]_poolVars => PoolInv'
  BY NextPoolInv, PoolAssumption
<1>. QED BY <1>1, <1>2, PTL DEF PoolSpec

\* Whatever is typed, loaded, saved and saved by others meanwhile, no provider is selected
\* that is not seen, no row stages new keys and a clearing at once, and no provider that
\* requires a key and has none is enabled (freePoolUtils, validateGatewayFreeProviders,
\* mergeGatewayFreeProviderInput).
THEOREM PoolStaysSound == PoolSpec => []PoolIsSound
<1>1. PoolInv => SelectedAreVisible
  BY DEF PoolInv, PageHolds, SelectedAreVisible, TableShown
<1>2. PoolInv => StagedKeysAreClear
  BY DEF PoolInv, PageHolds, StagedKeysAreClear, OneStaging
<1>3. PoolInv => EnabledHasKey
  BY CurrentWorks DEF PoolInv, EnabledHasKey, CanWork
<1>4. PoolInv => PoolIsSound
  BY <1>1, <1>2, <1>3 DEF PoolIsSound
<1>. QED BY <1>4, PoolInvariance, PTL

LEMMA PoolHasTypes == PoolInv => PoolTypeOK
<1>1. PoolInv => PoolTypeOK
  <2>1. ASSUME PoolInv, NEW i \in DOMAIN gatewayPast
        PROVE  gatewayPast[i] \in GatewayMap
    <3>1. gatewayPast \in Seq(GatewayMap)
      BY <2>1 DEF PoolInv, PastWorks
    <3>. QED BY <3>1
  <2>. QED BY <2>1 DEF PoolTypeOK, PoolInv, PageHolds, GatewayMap, PageMap, PoolKey
<1>. QED BY <1>1

\* Every variable of the page keeps its type; what was sent to it are keys that somebody
\* typed, or none.
THEOREM PoolTypeCorrect == PoolSpec => []PoolTypeOK
BY PoolHasTypes, PoolInvariance, PTL

----------------------------------------------------------------------------
(* The free pool page, the tables and the option pages.                      *)

\* What is inductive of the three holds of all of them at once.
LEMMA ConsoleInvariance == WebConsoleSpec => [](PoolInv /\ TablesInv /\ SettingsInv)
<1>1. WebConsoleInit => PoolInv /\ TablesInv /\ SettingsInv
  BY InitPoolInv, PoolAssumption, TablesInitInv, TablesAssumption, SettingsInitially
     DEF WebConsoleInit
<1>2. [WebConsoleNext]_<<poolVars, tableVars, settingVars, focus>> =>
        [PoolNext]_poolVars /\ [TablesNext]_tableVars /\ [SettingsNext]_settingVars
  BY DEF WebConsoleNext
<1>3. PoolInv /\ [PoolNext]_poolVars => PoolInv'
  BY NextPoolInv, PoolAssumption
<1>4. TablesInv /\ [TablesNext]_tableVars => TablesInv'
  BY TablesNextInv, TablesAssumption
<1>5. SettingsInv /\ [SettingsNext]_settingVars => SettingsInv'
  BY SettingsStep
<1>. QED BY <1>1, <1>2, <1>3, <1>4, <1>5, PTL DEF WebConsoleSpec

\* Every variable of the three keeps its type, whichever of them a behaviour exercises.
THEOREM WebConsoleTyped == WebConsoleSpec => []WebConsoleTypeOK
<1>1. PoolInv /\ TablesInv /\ SettingsInv => WebConsoleTypeOK
  BY PoolHasTypes, TablesInvSays, SettingsHaveTypes DEF WebConsoleTypeOK
<1>. QED BY <1>1, ConsoleInvariance, PTL

\* Whichever of the three a behaviour exercises, no secret of an option page is lost.
THEOREM NoSecretIsLost == WebConsoleSpec => []SecretsKept
<1>1. WebConsoleInit => SecretInv
  BY SecretsInitially DEF WebConsoleInit
<1>2. [WebConsoleNext]_<<poolVars, tableVars, settingVars, focus>> => [SettingsNext]_settingVars
  BY DEF WebConsoleNext
<1>3. SettingsInv /\ SecretInv /\ [SettingsNext]_settingVars => SecretInv'
  BY SecretsStep
<1>4. SecretInv => SecretsKept
  BY DEF SecretInv
<1>. QED BY <1>1, <1>2, <1>3, <1>4, ConsoleInvariance, PTL DEF WebConsoleSpec
=============================================================================
