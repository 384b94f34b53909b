----------------------------- MODULE RuntimeQuota -----------------------------
(***************************************************************************)
(* The RPM/RPD/TPM/TPD windows of one deployment, kept in memory:          *)
(* fallback/quota.go and its two uses in controller/relay.go.  A request    *)
(* passes the check, is sent upstream, and is recorded when it succeeds:    *)
(* between the two the counters know nothing of it.                        *)
(*                                                                         *)
(* The row is created with counters of 0 and the windows of that moment,    *)
(* which is what a row that has always existed is reset to at its first use. *)
(***************************************************************************)
EXTENDS Integers, FiniteSets

CONSTANTS
  Callers,       \* requests that can be on their way at the same time
  Estimates,     \* caps.MaxTokens of the requests; 0 when unknown
  MaxEstimate,   \* no estimate is larger
  DefaultTokens, \* what effectiveTokenCount records for an unknown estimate
  RPM, RPD,      \* request limits; 0 is unlimited
  TPM, TPD,      \* token limits; 0 is unlimited
  Minute, Day,   \* lengths of the two windows, in ticks
  QuotaHorizon   \* bound: the clock stops here

ASSUME QuotaAssumption ==
  /\ IsFiniteSet(Callers)
  /\ MaxEstimate \in Nat /\ Estimates \subseteq 0..MaxEstimate /\ DefaultTokens \in Nat \ {0}
  /\ RPM \in Nat /\ RPD \in Nat /\ TPM \in Nat /\ TPD \in Nat
  /\ Minute \in Nat \ {0} /\ Day \in Nat \ {0}
  /\ QuotaHorizon \in Nat

VARIABLES
  ticks,          \* the clock
  minuteRequests, \* MinuteRequests
  dayRequests,    \* DayRequests
  minuteTokens,   \* MinuteTokens
  dayTokens,      \* DayTokens
  resetMinute,    \* LastResetMinute
  resetDay,       \* LastResetDay
  sent,           \* requests that passed the check: caller -> estimate, or Idle
  meter           \* what had been recorded, all told, by the end of each tick (history)

counters == <<minuteRequests, dayRequests, minuteTokens, dayTokens,
              resetMinute, resetDay>>
quotaVars == <<ticks, counters, sent, meter>>

Idle == -1
Sent == {c \in Callers : sent[c] # Idle}

Usage == [requests : Nat, tokens : Nat]
Nothing == [requests |-> 0, tokens |-> 0]

\* Type invariant.
QuotaTypeOK ==
  /\ ticks \in Nat
  /\ minuteRequests \in Nat /\ dayRequests \in Nat
  /\ minuteTokens \in Nat /\ dayTokens \in Nat
  /\ resetMinute \in 0..ticks /\ resetDay \in 0..ticks
  /\ sent \in [Callers -> Estimates \cup {Idle}]
  /\ meter \in [0..ticks -> Usage]

QuotaInit ==
  /\ ticks = 0
  /\ minuteRequests = 0 /\ dayRequests = 0 /\ minuteTokens = 0 /\ dayTokens = 0
  /\ resetMinute = 0 /\ resetDay = 0
  /\ sent = [c \in Callers |-> Idle]
  /\ meter = [t \in 0..0 |-> Nothing]

QuotaTick ==
  /\ ticks < QuotaHorizon
  /\ ticks' = ticks + 1
  /\ meter' = [t \in 0..ticks + 1 |-> IF t > ticks THEN meter[ticks] ELSE meter[t]]
  /\ UNCHANGED <<counters, sent>>

----------------------------------------------------------------------------
(* maybeResetWindows: the start of the window that holds now, and a counter as *)
(* it is once the windows that have expired are reset.                     *)

WindowStart(length) == ticks - (ticks % length)

MutantFreshMinute(counter) == counter
FreshMinute(counter) == IF resetMinute < WindowStart(Minute) THEN 0 ELSE counter

MutantFreshDay(counter) ==
  IF resetMinute < WindowStart(Minute) THEN 0 ELSE counter
FreshDay(counter) == IF resetDay < WindowStart(Day) THEN 0 ELSE counter

ResetWindows ==
  /\ resetMinute' = IF resetMinute < WindowStart(Minute) THEN WindowStart(Minute)
                                                         ELSE resetMinute
  /\ resetDay' = IF resetDay < WindowStart(Day) THEN WindowStart(Day) ELSE resetDay

----------------------------------------------------------------------------
(* PassQuotaCheck. *)

MutantWithin(limit, used, more) == limit > 0 => used <= limit
Within(limit, used, more) == limit > 0 => used + more <= limit

Fits(e) ==
  /\ Within(RPM, FreshMinute(minuteRequests), 1)
  /\ Within(RPD, FreshDay(dayRequests), 1)
  /\ Within(TPM, FreshMinute(minuteTokens), e)
  /\ Within(TPD, FreshDay(dayTokens), e)

CheckWindows ==
  /\ minuteRequests' = FreshMinute(minuteRequests)
  /\ dayRequests' = FreshDay(dayRequests)
  /\ minuteTokens' = FreshMinute(minuteTokens)
  /\ dayTokens' = FreshDay(dayTokens)
  /\ ResetWindows

PassQuotaCheck(c, e) ==
  /\ sent[c] = Idle
  /\ Fits(e)
  /\ CheckWindows
  /\ sent' = [sent EXCEPT ![c] = e]
  /\ UNCHANGED <<ticks, meter>>

Refuse(c, e) ==
  /\ sent[c] = Idle
  /\ ~Fits(e)
  /\ CheckWindows
  /\ UNCHANGED <<ticks, sent, meter>>

\* RecordUsage, after a success.
EffectiveTokens(e) == IF e > 0 THEN e ELSE DefaultTokens

RecordUsage(c) ==
  /\ sent[c] # Idle
  /\ LET t == EffectiveTokens(sent[c])
     IN /\ minuteRequests' = FreshMinute(minuteRequests) + 1
        /\ dayRequests' = FreshDay(dayRequests) + 1
        /\ minuteTokens' = FreshMinute(minuteTokens) + t
        /\ dayTokens' = FreshDay(dayTokens) + t
        /\ meter' = [meter EXCEPT ![ticks] = [requests |-> @.requests + 1,
                                            tokens |-> @.tokens + t]]
  /\ ResetWindows
  /\ sent' = [sent EXCEPT ![c] = Idle]
  /\ UNCHANGED ticks

\* The attempt fails: nothing is recorded.
Fail(c) ==
  /\ sent[c] # Idle
  /\ sent' = [sent EXCEPT ![c] = Idle]
  /\ UNCHANGED <<ticks, counters, meter>>

QuotaNext ==
  \/ QuotaTick
  \/ \E c \in Callers :
       \/ RecordUsage(c) \/ Fail(c)
       \/ \E e \in Estimates : PassQuotaCheck(c, e) \/ Refuse(c, e)

QuotaSpec == QuotaInit /\ [][QuotaNext]_quotaVars

----------------------------------------------------------------------------
(* Properties. *)

Before(t) == IF t <= 0 THEN Nothing ELSE meter[t - 1]

\* What has been recorded from a tick on.
Requests(from) == meter[ticks].requests - Before(from).requests
Tokens(from) == meter[ticks].tokens - Before(from).tokens

\* The counters are exactly the requests recorded since their window began: a
\* turn of the minute keeps the day's counters, and whatever is recorded after
\* the turn counts for the new window (maybeResetWindows).
CountersMatchRecords ==
  /\ minuteRequests = Requests(resetMinute)
  /\ minuteTokens = Tokens(resetMinute)
  /\ dayRequests = Requests(resetDay)
  /\ dayTokens = Tokens(resetDay)

\* The check counts no request on its way, so concurrent requests overshoot the
\* request limits, but never by more than the other requests on their way: those
\* still to be recorded included, a window holds at most limit - 1 + |Callers|.
RequestOvershoot ==
  /\ RPM > 0 => minuteRequests + Cardinality(Sent) < RPM + Cardinality(Callers)
  /\ RPD > 0 => dayRequests + Cardinality(Sent) < RPD + Cardinality(Callers)

MostTokens == IF MaxEstimate > DefaultTokens THEN MaxEstimate ELSE DefaultTokens

\* The token limits are overshot by at most what the requests on their way
\* record, an unknown estimate counting as the default.
TokenOvershoot ==
  /\ TPM > 0 => minuteTokens <= TPM + Cardinality(Callers) * MostTokens
  /\ TPD > 0 => dayTokens <= TPD + Cardinality(Callers) * MostTokens

\* No limit is overshot by more than the requests on their way (PassQuotaCheck, then
\* RecordUsage).
LimitsOvershoot == RequestOvershoot /\ TokenOvershoot

\* The windows are aligned to the clock's minutes, so the last minute straddles two of
\* them and may hold twice the limit, but never more: a turn of the day in between or
\* a late look at the windows opens no third one.
LastMinuteHoldsTwoWindows ==
  RPM > 0 => Requests(ticks - Minute + 1) <= 2 * (RPM - 1 + Cardinality(Callers))

\* The windows hold what they should of the records, and no minute holds more than two
\* windows of them (maybeResetWindows, RecordUsage).
WindowsMatchRecords == CountersMatchRecords /\ LastMinuteHoldsTwoWindows

\* Usage of an earlier window never refuses a request: a refusal means that the
\* requests recorded in this minute or this day leave no room for it.
RefusedOnlyAtLimit ==
  [][\A c \in Callers, e \in Estimates : Refuse(c, e) =>
       \/ RPM > 0 /\ Requests(WindowStart(Minute)) >= RPM
       \/ RPD > 0 /\ Requests(WindowStart(Day)) >= RPD
       \/ TPM > 0 /\ Tokens(WindowStart(Minute)) + e > TPM
       \/ TPD > 0 /\ Tokens(WindowStart(Day)) + e > TPD]_quotaVars
=============================================================================
