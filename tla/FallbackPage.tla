----------------------------- MODULE FallbackPage -----------------------------
(***************************************************************************)
(* The Fallback page of the default web console: the hook useFallbackPage   *)
(* and the panels it feeds.  One browser tab is modelled with everything    *)
(* that can be under way at once: the load of a panel that was left, the    *)
(* silent polls of the open panel, the poll of the summary, a manual        *)
(* cooldown or recovery of a deployment, and "mark all read".  Every        *)
(* request is answered from the gateway's state at one moment and takes     *)
(* effect at a later one, so answers overtake each other.                   *)
(*                                                                          *)
(* What a response contains is abstracted to the version of the gateway's   *)
(* state it was taken from: some version between the one that was current   *)
(* when the request was sent and the one that is current when the response  *)
(* takes effect.                                                            *)
(***************************************************************************)
EXTENDS Integers, FiniteSets

CONSTANTS
    Slots,        \* panel loads that may be under way at once (a bound)
    Deployments,  \* rows of the status panel
    MaxVersion,   \* how often the gateway's state changes (a bound)
    MaxFailures,  \* how many requests fail (a bound)
    MaxMoves,     \* how often the user changes the panel (a bound)
    Visited       \* what the address names: panels and other words

ASSUME PageAssumption ==
    /\ Slots \in Nat \ {0} /\ IsFiniteSet(Deployments)
    /\ MaxVersion \in Nat /\ MaxFailures \in Nat /\ MaxMoves \in Nat

VARIABLES
    panel,      \* activePanel
    shown,      \* per resource, the version that the state hooks hold
    unread,     \* the alerts shown are not all marked as read
    loading,    \* the spinner in place of the panel
    acting,     \* actingDeployment
    loads,      \* loadPanel calls under way
    summaryGet, \* the loadSummary call under way
    ops,        \* runDeploymentAction calls under way
    marks,      \* the markAllAlertsRead call under way
    version,    \* the gateway: the version of its state
    readAt,     \* the gateway: the versions at which every alert was read
    failures, moves             \* how much of the bounds is used

pageVars == <<panel, shown, unread, loading, acting, loads, summaryGet, ops,
              marks, version, readAt, failures, moves>>
gateway == <<version, readAt>>
bounds  == <<failures, moves>>

-----------------------------------------------------------------------------
(* Panels and the requests that fill them *)

Panels == {"gateway", "free-pool", "status", "metrics", "scores", "alerts",
           "logs"}

\* getPanelKey: an unknown or legacy name in the address opens the editor
AnyPanelKey(name) == name
getPanelKey(name) == IF name \in Panels THEN name ELSE "gateway"

\* what a finished load of a panel has put on the page
Wanted(p) ==
    CASE p = "status"  -> {"status", "config"}
      [] p = "metrics" -> {"metrics", "status", "logs", "config"}
      [] p = "scores"  -> {"scores", "history", "config"}
      [] p = "alerts"  -> {"alerts"}
      [] p = "logs"    -> {"logs"}
      [] OTHER         -> {}

Resources == UNION {Wanted(p) : p \in Panels} \cup {"summary"}

Never == -1
Versions == Never..MaxVersion

\* since is the version at which the requests were sent, Never when there is no
\* load; meta tells whether the configuration was already applied; a load that
\* failed may leave its request for the configuration behind ("orphan")
Idle == [panel |-> "gateway", since |-> Never, silent |-> TRUE, meta |-> FALSE]
NewLoad(p, silent) ==
    [panel |-> p, since |-> version, silent |-> silent,
     meta |-> "config" \notin Wanted(p)]

Free == {s \in 1..Slots : loads[s] = Idle}
NextSlot == CHOOSE s \in Free : TRUE
Active(s) == loads[s].since # Never /\ loads[s].panel # "orphan"

\* actingDeployment: which button is acting
ActionKey(d, a) == <<d, a>>
Nobody == <<>>

-----------------------------------------------------------------------------
(* Answers *)

\* loadConfigMeta: its own continuation sets configMeta, whatever becomes of
\* the load that sent it
loadConfigMeta(s) ==
    /\ loads[s].since # Never /\ ~loads[s].meta
    /\ \E v \in loads[s].since..version : shown' = [shown EXCEPT !["config"] = v]
    /\ loads' = [loads EXCEPT ![s] =
           IF @.panel = "orphan" THEN Idle ELSE [@ EXCEPT !.meta = TRUE]]
    /\ UNCHANGED <<panel, unread, loading, acting, summaryGet, ops, marks,
                   gateway, bounds>>

\* the operation that awaited this load is over
FinishOps(s) ==
    /\ ops' = {o \in ops : o.load # s}
    /\ acting' = IF \E o \in ops : o.load = s THEN Nobody ELSE acting

\* finally: a load with the spinner takes it down
StuckSpinner(l) == loading
SpinnerAfter(l) == loading /\ l.silent

\* every answer is in: the state hooks of the load's panel are set
LoadDone(s) ==
    LET l == loads[s] IN
    /\ Active(s) /\ l.meta
    /\ \E got \in [Wanted(l.panel) \ {"config"} -> l.since..version] :
          /\ shown' = [r \in Resources |-> IF r \in DOMAIN got THEN got[r] ELSE shown[r]]
          /\ unread' = IF l.panel = "alerts" THEN got["alerts"] \notin readAt ELSE unread
    /\ loading' = SpinnerAfter(l)
    /\ loads' = [loads EXCEPT ![s] = Idle]
    /\ FinishOps(s)
    /\ UNCHANGED <<panel, summaryGet, marks, gateway, bounds>>

\* one request failed: the load ends at once (catch, finally), and only a
\* configuration that is still on its way may yet reach the page
LoadFailed(s) ==
    LET l == loads[s] IN
    /\ Active(s)
    /\ failures < MaxFailures
    /\ failures' = failures + 1
    /\ \/ loads' = [loads EXCEPT ![s] = Idle]
       \/ ~l.meta /\ loads' = [loads EXCEPT ![s].panel = "orphan", ![s].silent = TRUE]
    /\ loading' = SpinnerAfter(l)
    /\ FinishOps(s)
    /\ UNCHANGED <<panel, shown, unread, summaryGet, marks, gateway, moves>>

-----------------------------------------------------------------------------
(* What starts a load *)

\* the address changed: loadPanel by the effect on activePanel, with the
\* spinner; a panel that needs no data is loaded in the same turn
GoTo(name) ==
    LET p == getPanelKey(name) IN
    /\ moves < MaxMoves /\ p # panel
    /\ moves' = moves + 1
    /\ panel' = p
    /\ IF Wanted(p) = {}
       THEN loading' = FALSE /\ UNCHANGED loads
       ELSE /\ loading' = TRUE
            /\ Free # {} /\ loads' = [loads EXCEPT ![NextSlot] = NewLoad(p, FALSE)]
    /\ UNCHANGED <<shown, unread, acting, summaryGet, ops, marks, gateway, failures>>

\* the interval of the open panel, and the button that does the same
FirstPollOnly == \E r \in Wanted(panel) : shown[r] = Never
PollDue == Wanted(panel) # {}

Poll ==
    /\ PollDue
    /\ Free # {}
    /\ loads' = [loads EXCEPT ![NextSlot] = NewLoad(panel, TRUE)]
    /\ UNCHANGED <<panel, shown, unread, loading, acting, summaryGet, ops, marks,
                   gateway, bounds>>

\* loadSummary every 30 seconds; a failure is silent
loadSummary ==
    /\ \/ /\ summaryGet = Never
          /\ summaryGet' = version
          /\ UNCHANGED <<shown, failures>>
       \/ /\ summaryGet # Never
          /\ summaryGet' = Never
          /\ \E v \in summaryGet..version : shown' = [shown EXCEPT !["summary"] = v]
          /\ UNCHANGED failures
       \/ /\ summaryGet # Never /\ failures < MaxFailures
          /\ failures' = failures + 1
          /\ summaryGet' = Never
          /\ UNCHANGED shown
    /\ UNCHANGED <<panel, unread, loading, acting, loads, ops, marks, gateway, moves>>

-----------------------------------------------------------------------------
(* Manual cooldown and recovery *)

\* the two buttons of a row of the status panel, disabled while one is acting
ButtonsEnabled ==
    /\ panel = "status" /\ ~loading
    /\ shown["status"] # Never
    /\ acting = Nobody

runDeploymentAction(d, a) ==
    /\ ButtonsEnabled
    /\ version < MaxVersion
    /\ acting' = ActionKey(d, a)
    /\ ops' = ops \cup {[key |-> ActionKey(d, a), phase |-> "posted", load |-> 0]}
    /\ UNCHANGED <<panel, shown, unread, loading, loads, summaryGet, marks,
                   gateway, bounds>>

\* the gateway carries the action out, which changes its state
ActionDone(o) ==
    /\ o.phase = "posted" /\ version < MaxVersion
    /\ version' = version + 1
    /\ ops' = (ops \ {o}) \cup {[o EXCEPT !.phase = "done"]}
    /\ UNCHANGED <<panel, shown, unread, loading, acting, loads, summaryGet, marks,
                   readAt, bounds>>

\* ... or refuses it, or the request is lost: the message and finally
ActionFailed(o) ==
    /\ o.phase = "posted"
    /\ failures < MaxFailures \/ version = MaxVersion
    /\ failures' = IF failures < MaxFailures THEN failures + 1 ELSE failures
    /\ ops' = ops \ {o}
    /\ acting' = Nobody
    /\ UNCHANGED <<panel, shown, unread, loading, loads, summaryGet, marks,
                   gateway, moves>>

\* await loadPanel(true): the function the click captured, of the status
\* panel, even when another panel is open by now
ActionReload(o) ==
    /\ o.phase = "done"
    /\ Free # {}
    /\ loads' = [loads EXCEPT ![NextSlot] = NewLoad("status", TRUE)]
    /\ ops' = (ops \ {o}) \cup {[o EXCEPT !.phase = "loading", !.load = NextSlot]}
    /\ UNCHANGED <<panel, shown, unread, loading, acting, summaryGet, marks,
                   gateway, bounds>>

-----------------------------------------------------------------------------
(* Mark all alerts read *)

markAllAlertsRead ==
    /\ panel = "alerts" /\ ~loading /\ marks = "idle"
    /\ version < MaxVersion
    /\ marks' = "posted"
    /\ UNCHANGED <<panel, shown, unread, loading, acting, loads, summaryGet, ops,
                   gateway, bounds>>

\* the gateway marks them, or the request fails and is only logged
MarkStored ==
    /\ marks = "posted"
    /\ \/ /\ version < MaxVersion
          /\ version' = version + 1
          /\ readAt' = readAt \cup {version + 1}
          /\ marks' = "stored" /\ UNCHANGED failures
       \/ /\ failures < MaxFailures \/ version = MaxVersion
          /\ failures' = IF failures < MaxFailures THEN failures + 1 ELSE failures
          /\ marks' = "idle" /\ UNCHANGED gateway
    /\ UNCHANGED <<panel, shown, unread, loading, acting, loads, summaryGet, ops, moves>>

\* the events on the page, whatever version they are of, are shown as read
MarkShown ==
    /\ marks = "stored"
    /\ marks' = "idle"
    /\ unread' = FALSE
    /\ UNCHANGED <<panel, shown, loading, acting, loads, summaryGet, ops,
                   gateway, bounds>>

\* requests through the gateway and its own timers change what it reports; a
\* new alert is unread
GatewayChanges ==
    /\ version < MaxVersion
    /\ version' = version + 1
    /\ UNCHANGED <<panel, shown, unread, loading, acting, loads, summaryGet, ops,
                   marks, readAt, bounds>>

-----------------------------------------------------------------------------
PageInit ==
    /\ panel \in {getPanelKey(name) : name \in Visited}
    /\ shown = [r \in Resources |-> Never] /\ unread = FALSE
    /\ acting = Nobody /\ ops = {} /\ marks = "idle"
    /\ version = 0 /\ readAt = {} /\ failures = 0 /\ moves = 0
    /\ summaryGet = version
    /\ loading = (Wanted(panel) # {})
    /\ loads = [s \in 1..Slots |-> IF s = 1 /\ loading THEN NewLoad(panel, FALSE)
                                   ELSE Idle]

LoadStep(s) == loadConfigMeta(s) \/ LoadDone(s) \/ LoadFailed(s)
OpStep == \E o \in ops : ActionDone(o) \/ ActionFailed(o) \/ ActionReload(o)

PageNext ==
    \/ \E s \in 1..Slots : LoadStep(s)
    \/ \E name \in Visited : GoTo(name)
    \/ Poll
    \/ loadSummary
    \/ \E d \in Deployments, a \in {"cooldown", "recover"} : runDeploymentAction(d, a)
    \/ OpStep
    \/ markAllAlertsRead \/ MarkStored \/ MarkShown
    \/ GatewayChanges

\* the browser delivers every answer and its timers fire
PageFairness ==
    /\ \A s \in 1..Slots : WF_pageVars(LoadStep(s))
    /\ WF_pageVars(Poll) /\ WF_pageVars(loadSummary) /\ WF_pageVars(OpStep)
    /\ WF_pageVars(MarkStored \/ MarkShown)

PageSpec == PageInit /\ [][PageNext]_pageVars /\ PageFairness

-----------------------------------------------------------------------------
(* Properties *)

PageTypeOK ==
    /\ panel \in Panels
    /\ shown \in [Resources -> Versions]
    /\ loading \in BOOLEAN /\ unread \in BOOLEAN
    /\ acting \in {Nobody} \cup {ActionKey(d, a) : d \in Deployments, a \in {"cooldown", "recover"}}
    /\ loads \in [1..Slots -> [panel : Panels \cup {"orphan"}, since : Versions,
                            silent : BOOLEAN, meta : BOOLEAN]]
    /\ summaryGet \in Versions
    /\ version \in 0..MaxVersion /\ readAt \subseteq 0..MaxVersion

\* The spinner is up only while a load that will take it down is under way:
\* the page is never left behind a spinner by a load that failed or by a
\* panel that was left (the finally of loadPanel).
SpinnerHasALoad ==
    loading => \E s \in 1..Slots : Active(s) /\ ~loads[s].silent

\* However the user moves between panels, the page has at most one manual
\* cooldown or recovery under way, and the buttons are locked exactly then
\* (disabled={Boolean(actingDeployment)} and the finally of
\* runDeploymentAction).
OneManualAction ==
    /\ Cardinality(ops) <= 1
    /\ acting = Nobody <=> ops = {}

\* Whatever is disabled or hidden on the page waits for a call that is under way and
\* that will free it (the finally of loadPanel and of runDeploymentAction).
LocksHaveCalls == SpinnerHasALoad /\ OneManualAction

\* Answers overtake each other and old ones overwrite newer ones, but when the
\* gateway stops changing, the panel that stays open shows its current state
\* in the end, the read marks of its alerts included, and keeps showing it.
PageCatchesUp ==
    <>[]( /\ \A r \in Wanted(panel) \cup {"summary"} : shown[r] = version
          /\ panel = "alerts" => unread = (version \notin readAt) )
=============================================================================
