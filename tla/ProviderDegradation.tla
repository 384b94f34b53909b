------------------------- MODULE ProviderDegradation -------------------------
(***************************************************************************)
(* The rate-limit degradation of one deployment, kept in memory:           *)
(* fallback/provider_rate_limit_degradation.go, its callers in             *)
(* fallback/quota.go and the decay ticker of fallback/health.go.  The       *)
(* short-term RateLimitScore beside it is another counter and not modelled. *)
(*                                                                         *)
(* Times are ticks; 0 is Go's zero time.  A request reads the clock before  *)
(* it takes runtimeStatesMu, so reports can be applied in another order     *)
(* than their timestamps: Stamp and RecordEpisode are two actions.          *)
(***************************************************************************)
EXTENDS Integers, Sequences

CONSTANTS
  Reporters,     \* requests reporting provider-level 429s
  Cooldowns,     \* cooldown durations ApplyRelayCooldown returns
  Observation,   \* providerRateLimitObservationWindow
  Recovery,      \* providerRateLimitRecoveryInterval
  MaxLevel,      \* providerRateLimitDegradationMax
  DecayPeriod,   \* period of runHealthChecker's decay ticker
  Maintained,    \* the health checker runs (FALLBACK_HEALTH_CHECK_ENABLED)
  StampLag,      \* bound: longest wait for runtimeStatesMu
  Horizon        \* bound: the clock stops here

ASSUME DegradationAssumption ==
  /\ Cooldowns \subseteq Nat \ {0}
  /\ Observation \in Nat /\ Recovery \in Nat \ {0} /\ MaxLevel \in Nat \ {0}
  /\ DecayPeriod \in Nat \ {0} /\ Maintained \in BOOLEAN
  /\ StampLag \in Nat /\ Horizon \in Nat

VARIABLES
  now,           \* the clock
  lastTick,      \* last firing of the decay ticker
  stamp,         \* timestamps taken by reports that wait for the mutex
  count,         \* RateLimitEpisodeCount
  level,         \* RateLimitDegradationLevel
  last,          \* LastProviderRateLimitedAt
  until,         \* RateLimitEpisodeCooldownUntil
  next,          \* NextDegradationRecoveryAt
  successes,     \* ConsecutiveRecoverySuccesses
  episodes       \* episodes accepted since the last clearing (history)

degradation == <<count, level, last, until, next, successes, episodes>>
vars == <<now, lastTick, stamp, degradation>>

NoStamp == [at |-> 0, until |-> 0]

\* What the history keeps of an accepted report.
Episode == [at : Nat, until : Nat, level : 0..MaxLevel]

----------------------------------------------------------------------------

\* Type invariant.  The level stays between 0 and its maximum although
\* successes, decay and reports move it in any order.
TypeOK ==
  /\ now \in Nat \ {0}
  /\ lastTick \in Nat \ {0}
  /\ stamp \in [Reporters -> [at : Nat, until : Nat]]
  /\ count \in Nat /\ level \in 0..MaxLevel
  /\ last \in Nat /\ until \in Nat /\ next \in Nat
  /\ successes \in Nat
  /\ episodes \in Seq(Episode)

Init ==
  /\ now = 1 /\ lastTick = 1
  /\ stamp = [r \in Reporters |-> NoStamp]
  /\ count = 0 /\ level = 0 /\ last = 0 /\ until = 0 /\ next = 0
  /\ successes = 0
  /\ episodes = <<>>

\* resetProviderRateLimitDegradationLocked.
Clear ==
  /\ count' = 0 /\ level' = 0 /\ last' = 0 /\ until' = 0 /\ next' = 0
  /\ successes' = 0 /\ episodes' = <<>>

\* Time passes; a report waits for the mutex for at most StampLag, and a running
\* ticker fires at least once in DecayPeriod.
Tick ==
  /\ now < Horizon
  /\ \A r \in Reporters : stamp[r] # NoStamp => now < stamp[r].at + StampLag
  /\ Maintained => now < lastTick + DecayPeriod
  /\ now' = now + 1
  /\ UNCHANGED <<lastTick, stamp, degradation>>

----------------------------------------------------------------------------
(* Reports. *)

\* RecordProviderRateLimitEpisode reads the clock ...
Stamp(r) ==
  /\ stamp[r] = NoStamp
  /\ \E c \in Cooldowns : stamp' = [stamp EXCEPT ![r] = [at |-> now, until |-> now + c]]
  /\ UNCHANGED <<now, lastTick, degradation>>

\* A report from the cooldown of the last episode.
IsDuplicate(t) == until # 0 /\ (t.until = until \/ t.at <= until)

MutantExpired(t) == FALSE
Expired(t) == last # 0 /\ t.at - last > Observation

\* ... and then, under the mutex, counts the episode.  The second one within the
\* observation window is the first to raise the level.
Accept(t) ==
  LET old == IF Expired(t) THEN <<>> ELSE episodes
      n   == IF Expired(t) THEN 1 ELSE count + 1
      l   == IF Expired(t) THEN 0 ELSE level
  IN /\ count' = n
     /\ last' = t.at /\ until' = t.until /\ successes' = 0
     /\ level' = IF n > 1 /\ l < MaxLevel THEN l + 1 ELSE l
     /\ next'  = IF n > 1 THEN t.at + Recovery
                 ELSE IF Expired(t) THEN 0 ELSE next
     /\ episodes' = Append(old, [at |-> t.at, until |-> t.until, level |-> level'])

RecordEpisode(r) ==
  /\ stamp[r] # NoStamp
  /\ \/ IsDuplicate(stamp[r]) /\ UNCHANGED degradation
     \/ ~IsDuplicate(stamp[r]) /\ Accept(stamp[r])
  /\ stamp' = [stamp EXCEPT ![r] = NoStamp]
  /\ UNCHANGED <<now, lastTick>>

----------------------------------------------------------------------------
(* Recovery. *)

DecayDue == level # 0 /\ next # 0 /\ now >= next

MutantElapsedWindows == (now - next) \div Recovery
ElapsedWindows == (now - next) \div Recovery + 1

\* decayProviderRateLimitDegradationAtLocked: the level and the next recovery
\* time it leaves; a level of 0 clears the state.
DecayedLevel ==
  IF ~DecayDue THEN level
  ELSE IF ElapsedWindows >= level THEN 0 ELSE level - ElapsedWindows
MutantDecayedNext == IF DecayDue THEN next + Recovery ELSE next
DecayedNext == IF DecayDue THEN next + ElapsedWindows * Recovery ELSE next

\* RecordSuccess: decay what is due, then one level for the success.  (A level
\* always has a recovery time, so the code's branch that sets a missing one is
\* never taken; RecoveryProgress says so.)
RecordSuccess ==
  /\ \/ DecayedLevel <= 1 /\ Clear
     \/ /\ DecayedLevel > 1
        /\ level' = DecayedLevel - 1
        /\ successes' = successes + 1
        /\ next' = IF DecayedNext = 0 THEN now + Recovery ELSE DecayedNext
        /\ UNCHANGED <<count, last, until, episodes>>
  /\ UNCHANGED <<now, lastTick, stamp>>

\* DecayRateLimitScores, by the ticker beside the health checks.
DecayRateLimitScores ==
  /\ Maintained
  /\ lastTick' = now
  /\ \/ ~DecayDue /\ UNCHANGED degradation
     \/ DecayDue /\ DecayedLevel = 0 /\ Clear
     \/ /\ DecayDue /\ DecayedLevel > 0
        /\ level' = DecayedLevel /\ next' = DecayedNext
        /\ UNCHANGED <<count, last, until, successes, episodes>>
  /\ UNCHANGED <<now, stamp>>

\* ResetProviderRateLimitDegradation: an administrator recovers the deployment.
Reset ==
  /\ level # 0 \/ count # 0
  /\ Clear
  /\ UNCHANGED <<now, lastTick, stamp>>

Next ==
  \/ Tick
  \/ \E r \in Reporters : Stamp(r) \/ RecordEpisode(r)
  \/ RecordSuccess \/ DecayRateLimitScores \/ Reset

Spec == Init /\ [][Next]_vars

----------------------------------------------------------------------------
(* Properties. *)

\* Rules 1 to 4 of the degradation design: what is counted are distinct cooldown
\* episodes.  Each counted report came after the cooldown of the one before it
\* and within the observation window, however the reports were delayed.
EpisodesDistinct ==
  /\ Len(episodes) = count
  /\ \A i \in 1..count - 1 :
       /\ episodes[i + 1].at > episodes[i].until
       /\ episodes[i + 1].at - episodes[i].at <= Observation

\* Every degraded level is on its way out, and nothing that lowers it is lost or
\* counted twice: the next recovery lies k intervals after the last episode, and
\* the k - 1 intervals that have elapsed and the successes since that episode
\* have each taken off one level of those it had reached.
RecoveryProgress ==
  level > 0 =>
    \E k \in 1..MaxLevel :
      /\ next = last + k * Recovery
      /\ level + successes + (k - 1) = episodes[count].level

\* While degraded, each recovery interval without an accepted episode lowers the
\* level by one, at the latest when the ticker next fires.
QuietRecovery ==
  \A k \in 1..MaxLevel :
    level = k => now - last < (MaxLevel - k + 1) * Recovery + DecayPeriod
=============================================================================
