---------------------------- MODULE HealthChecker ----------------------------
(***************************************************************************)
(* The health checker of the deployments, fallback/health.go, with what    *)
(* else writes the states it reports: the relay's results, the cooldown     *)
(* row and an administrator's recovery.                                    *)
(*                                                                         *)
(* A check is several accesses to shared state with a network call among   *)
(* them.  The checks of a background round run in parallel with one another *)
(* and with those an administrator asks for, also on the same deployment.  *)
(*                                                                         *)
(* Abstractions.  An upstream answer is the class checkOneDeployment        *)
(* switches on; cooldown classes are those of FallbackRelay; of the runtime *)
(* state only whether LastError is set is kept.  StopHealthChecker has no   *)
(* caller and is left out.  Operators named Mutant... are wrong versions of *)
(* the definition after them, used by no action.                           *)
(***************************************************************************)
EXTENDS FiniteSets, Naturals

CONSTANTS
  Deployments,   \* deployments the configuration may hold
  Admins,        \* administrators asking for a check, one at a time each
  Loop,          \* the background checker
  Maintained,    \* FALLBACK_HEALTH_CHECK_ENABLED
  Answers,       \* upstream answers an instance explores
  EnvEvents      \* environment events an instance explores

AllAnswers == {"ok", "refused", "limited", "down", "silent", "rejected"}
AllEvents == {"reload", "channel", "relay", "lapse", "recover"}

ASSUME CheckerAssumption ==
  /\ Loop \notin Admins /\ Maintained \in BOOLEAN
  /\ Answers \subseteq AllAnswers /\ Answers # {}
  /\ EnvEvents \subseteq AllEvents

Probers == Admins \cup {Loop}

VARIABLES
  enabled,     \* deployments enabled in the configuration
  channelUp,   \* deployments whose channel exists and is enabled
  provider,    \* what each deployment's upstream would answer
  loop,        \* runHealthChecker: in its select, in a round, or not started
  step,        \* step[p][d]: how far prober p's check of d is
  answer,      \* answer[p][d]: what that check has found
  status,      \* globalHealth.status; "unknown" when missing
  lastError,   \* deployments with a LastError in their runtime state
  cooldown,    \* deployment_cooldown_states row
  reply        \* reply[a]: what the last health-check request told a

outside == <<enabled, channelUp, provider>>
vars == <<outside, loop, step, answer, status, lastError, cooldown, reply>>

NoReply == [status |-> "none", error |-> FALSE]

Status == {"unknown", "healthy", "rate_limited", "invalid", "error"}

\* Type invariant: besides the types, a check is only ever in a step of
\* checkOneDeployment that its answer leads to.
TypeOK ==
  /\ enabled \subseteq Deployments /\ channelUp \subseteq Deployments
  /\ provider \in [Deployments -> Answers]
  /\ loop \in {"off", "select", "round"}
  /\ step \in [Probers -> [Deployments ->
                {"none", "look", "ping", "record", "status", "cool", "reply", "runtime"}]]
  /\ answer \in [Probers -> [Deployments -> AllAnswers \cup {"none", "noChannel"}]]
  /\ status \in [Deployments -> Status]
  /\ lastError \subseteq Deployments
  /\ cooldown \in [Deployments -> {"free", "short", "long"}]
  /\ reply \in [Admins -> [status : Status \cup {"none"}, error : BOOLEAN]]
  /\ \A p \in Probers, d \in Deployments :
       step[p][d] = "cool" => answer[p][d] \notin {"ok", "rejected", "noChannel", "none"}

Init ==
  /\ enabled = Deployments /\ channelUp = Deployments
  /\ provider \in [Deployments -> Answers]
  /\ loop = IF Maintained THEN "select" ELSE "off"
  /\ step = [p \in Probers |-> [d \in Deployments |-> "none"]]
  /\ answer = [p \in Probers |-> [d \in Deployments |-> "none"]]
  /\ status = [d \in Deployments |-> "unknown"]
  /\ lastError = {}
  /\ cooldown = [d \in Deployments |-> "free"]
  /\ reply = [a \in Admins |-> NoReply]

----------------------------------------------------------------------------
(* What checkOneDeployment makes of an answer. *)

Verdict(a) ==
  CASE a = "ok"      -> "healthy"
    [] a = "refused" -> "invalid"
    [] a = "limited" -> "rate_limited"
    [] OTHER         -> "error"

Cools(a) == a \in {"refused", "limited", "down", "silent"}

CooldownFor(a) == IF a = "refused" THEN "long" ELSE "short"

----------------------------------------------------------------------------
(* The checks. *)

Goto(p, d, s) == step' = [step EXCEPT ![p][d] = s]

\* A check ends; an administrator's request goes on to its answer.
Finish(p, d) == Goto(p, d, IF p = Loop THEN "none" ELSE "reply")

\* checkAllDeployments, when the ticker fires and at the start: a goroutine for
\* every enabled deployment ...
MutantChecked == {d \in enabled : cooldown[d] = "free"}
Checked == enabled

StartRound ==
  /\ loop = "select"
  /\ loop' = "round"
  /\ step' = [step EXCEPT ![Loop] =
                [d \in Deployments |-> IF d \in Checked THEN "look" ELSE "none"]]
  /\ UNCHANGED <<outside, answer, status, lastError, cooldown, reply>>

\* ... and wg.Wait.
EndRound ==
  /\ loop = "round"
  /\ \A d \in Deployments : step[Loop][d] = "none"
  /\ loop' = "select"
  /\ UNCHANGED <<outside, step, answer, status, lastError, cooldown, reply>>

\* TriggerHealthCheckForDeployment.
Trigger(a, d) ==
  /\ \A e \in Deployments : step[a][e] = "none"
  /\ d \in enabled
  /\ Goto(a, d, "look")
  /\ reply' = [reply EXCEPT ![a] = NoReply]
  /\ UNCHANGED <<outside, loop, answer, status, lastError, cooldown>>

\* GetChannelById.
Look(p, d) ==
  /\ step[p][d] = "look"
  /\ \/ /\ d \in channelUp
        /\ Goto(p, d, "ping")
        /\ UNCHANGED answer
     \/ /\ d \notin channelUp
        /\ answer' = [answer EXCEPT ![p][d] = "noChannel"]
        /\ Goto(p, d, "record")
  /\ UNCHANGED <<outside, loop, status, lastError, cooldown, reply>>

\* pingDeployment; the client's timeout bounds it.
Ping(p, d) ==
  /\ step[p][d] = "ping"
  /\ answer' = [answer EXCEPT ![p][d] = provider[d]]
  /\ Goto(p, d, "record")
  /\ UNCHANGED <<outside, loop, status, lastError, cooldown, reply>>

\* clearRuntimeError or RecordFailure.
Record(p, d) ==
  /\ step[p][d] = "record"
  /\ lastError' = IF answer[p][d] = "ok" THEN lastError \ {d} ELSE lastError \cup {d}
  /\ Goto(p, d, "status")
  /\ UNCHANGED <<outside, loop, answer, status, cooldown, reply>>

\* setHealthStatus.
SetStatus(p, d) ==
  /\ step[p][d] = "status"
  /\ status' = [status EXCEPT ![d] = Verdict(answer[p][d])]
  /\ IF Cools(answer[p][d]) THEN Goto(p, d, "cool") ELSE Finish(p, d)
  /\ UNCHANGED <<outside, loop, answer, lastError, cooldown, reply>>

\* MarkInvalid or MarkDeploymentCooldownForDuration.
MarkCooldown(p, d) ==
  /\ step[p][d] = "cool"
  /\ cooldown' = [cooldown EXCEPT ![d] = CooldownFor(answer[p][d])]
  /\ Finish(p, d)
  /\ UNCHANGED <<outside, loop, answer, status, lastError, reply>>

\* triggerDeploymentHealthCheck answers with the status, read first, and the
\* runtime state, read after it.
ReplyStatus(a, d) ==
  /\ step[a][d] = "reply"
  /\ reply' = [reply EXCEPT ![a].status = status[d]]
  /\ Goto(a, d, "runtime")
  /\ UNCHANGED <<outside, loop, answer, status, lastError, cooldown>>

ReplyRuntime(a, d) ==
  /\ step[a][d] = "runtime"
  /\ reply' = [reply EXCEPT ![a].error = d \in lastError]
  /\ Goto(a, d, "none")
  /\ UNCHANGED <<outside, loop, answer, status, lastError, cooldown>>

CheckStep(p, d) ==
  \/ Look(p, d) \/ Ping(p, d) \/ Record(p, d) \/ SetStatus(p, d) \/ MarkCooldown(p, d)
  \/ p # Loop /\ (ReplyStatus(p, d) \/ ReplyRuntime(p, d))

----------------------------------------------------------------------------
(* The rest of the system. *)

ProviderChange(d, a) ==
  /\ provider[d] # a
  /\ provider' = [provider EXCEPT ![d] = a]
  /\ UNCHANGED <<enabled, channelUp, loop, step, answer, status, lastError, cooldown, reply>>

\* A reload enables or disables a deployment; nothing removes its health status.
Reload(d) ==
  /\ "reload" \in EnvEvents
  /\ enabled' = IF d \in enabled THEN enabled \ {d} ELSE enabled \cup {d}
  /\ UNCHANGED <<channelUp, provider, loop, step, answer, status, lastError, cooldown, reply>>

ChannelFlip(d) ==
  /\ "channel" \in EnvEvents
  /\ channelUp' = IF d \in channelUp THEN channelUp \ {d} ELSE channelUp \cup {d}
  /\ UNCHANGED <<enabled, provider, loop, step, answer, status, lastError, cooldown, reply>>

\* RecordSuccess and RecordFailure of a relayed request.
RelayResult(d) ==
  /\ "relay" \in EnvEvents
  /\ lastError' = IF d \in lastError THEN lastError \ {d} ELSE lastError \cup {d}
  /\ UNCHANGED <<outside, loop, step, answer, status, cooldown, reply>>

CooldownLapse(d) ==
  /\ "lapse" \in EnvEvents
  /\ cooldown[d] # "free"
  /\ cooldown' = [cooldown EXCEPT ![d] = "free"]
  /\ UNCHANGED <<outside, loop, step, answer, status, lastError, reply>>

\* ResetDeploymentState, as far as it touches what is modelled here.
Recover(d) ==
  /\ "recover" \in EnvEvents
  /\ cooldown' = [cooldown EXCEPT ![d] = "free"]
  /\ UNCHANGED <<outside, loop, step, answer, status, lastError, reply>>

Environment ==
  \/ \E d \in Deployments : \/ Reload(d) \/ ChannelFlip(d) \/ RelayResult(d)
                            \/ CooldownLapse(d) \/ Recover(d)
  \/ \E d \in Deployments, a \in Answers : ProviderChange(d, a)

Next ==
  \/ StartRound \/ EndRound
  \/ \E a \in Admins, d \in Deployments : Trigger(a, d)
  \/ \E p \in Probers, d \in Deployments : CheckStep(p, d)
  \/ Environment

Spec == Init /\ [][Next]_vars

\* The scheduler runs the goroutines, the ticker fires, and a ping ends by the
\* timeout of its client.  Nothing makes an administrator or the environment act.
FairSpec ==
  /\ Spec
  /\ WF_vars(StartRound) /\ WF_vars(EndRound)
  /\ \A p \in Probers, d \in Deployments : WF_vars(CheckStep(p, d))

----------------------------------------------------------------------------
(* Properties. *)

\* A deployment that keeps answering the same way ends up, for good, with the
\* status of that answer: a failing one gets no traffic and is found again only by
\* the checks, and a slow check that saw an older answer does not win for ever.
StatusFollowsProvider ==
  \A d \in Deployments, a \in Answers :
    <>[](d \in enabled /\ d \in channelUp /\ provider[d] = a)
      => <>[](status[d] = Verdict(a))
=============================================================================
