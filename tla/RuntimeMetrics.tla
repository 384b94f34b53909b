---------------------------- MODULE RuntimeMetrics ----------------------------
(***************************************************************************)
(* The statistics of the Fallback page's metrics panel: the samples of the  *)
(* gateway's counters that every browser tab collects and all tabs keep     *)
(* under one key of the local storage, the success and failure rates of a   *)
(* window, the trend, and the health level shown for them.  The counters    *)
(* start again at zero whenever the gateway restarts; tabs are closed and   *)
(* opened again, and a tab's answers may overtake each other.               *)
(*                                                                          *)
(* A sample carries the counters success and failed; requests and switches  *)
(* only add to the reset test and are left out, which makes the test weaker *)
(* than the code's.  Times are in units that keep the order of the code's   *)
(* constants: tooSoon <= fiveMinutes <= oneHour <= retention.               *)
(***************************************************************************)
EXTENDS Integers, FiniteSets, Sequences, SequencesExt

CONSTANTS
    TooSoon, FiveMinutes, OneHour, Retention,
    MaxTime, MaxCount, MaxRestarts, MaxSamples, MaxReloads, MaxAnswers   \* bounds

ASSUME MetricsAssumption ==
    /\ {TooSoon, FiveMinutes, OneHour, Retention} \subseteq Nat
    /\ TooSoon <= FiveMinutes /\ FiveMinutes <= OneHour /\ OneHour <= Retention
    /\ MaxTime \in Nat \ {0} /\ {MaxCount, MaxRestarts} \subseteq Nat

VARIABLES
    clock,
    counters,   \* the gateway's counters, lost on a restart
    total,      \* what really happened since the beginning (history)
    answers,    \* the tab's responses that have not taken effect
    samples,    \* metricSamples of the tab
    storage,    \* localStorage[METRIC_SAMPLE_STORAGE_KEY]
    restarts, reloads

metricsVars == <<clock, counters, total, answers, samples, storage, restarts, reloads>>

Counts == [success : 0..MaxCount, failed : 0..MaxCount]

-----------------------------------------------------------------------------
(* Samples *)

\* normalizeMetricSamples: in the order of their times, and as they were within one
UpTo(ss, i) == {j \in DOMAIN ss : \/ ss[j].timestamp < ss[i].timestamp
                                  \/ ss[j].timestamp = ss[i].timestamp /\ j <= i}
normalizeMetricSamples(ss) ==
    [k \in DOMAIN ss |-> ss[CHOOSE i \in DOMAIN ss : Cardinality(UpTo(ss, i)) = k]]

\* of a list in order, the samples from a time on are its end
Since(ss, cutoff) ==
    LET first == CHOOSE k \in 1..(Len(ss) + 1) :
                     \A i \in DOMAIN ss : ss[i].timestamp < cutoff <=> i < k
    IN  SubSeq(ss, first, Len(ss))

Retained(ss, now) == Since(normalizeMetricSamples(ss), now - Retention)

\* loadMetricSamples: what a tab that opens finds in the storage
loadMetricSamples(now) == Retained(storage, now)

SameCounters(a, b) == a.counters = b.counters

\* the effect that appends a sample of the counters just received; the same
\* counters again, too soon after the last sample, are not a sample
AppendSample(previous, sample, now) ==
    LET kept == Retained(previous, now)
        skip == /\ kept # <<>>
                /\ SameCounters(Last(kept), sample)
                /\ now - Last(kept).timestamp < TooSoon
    IN  IF skip THEN kept ELSE Append(kept, sample)

-----------------------------------------------------------------------------
(* Rates, trend and health *)

Baseline(ss, windowMs) ==
    LET cutoff == Last(ss).timestamp - windowMs
        first  == CHOOSE i \in DOMAIN ss :
                      /\ ss[i].timestamp >= cutoff
                      /\ \A j \in 1..(i - 1) : ss[j].timestamp < cutoff
    IN  ss[IF first > 1 THEN first - 1 ELSE first]

NoRate(state) == [state |-> state, success |-> 0, failed |-> 0]

CheckSuccessOnly(success, failed) == success < 0
WentBackwards(success, failed) == success < 0 \/ failed < 0

\* what happened between the last sample before the window and the newest one;
\* a counter that went backwards is a restart of the gateway
calculateWindowRate(unsorted, windowMs) ==
    LET ss == normalizeMetricSamples(unsorted) IN
    IF Len(ss) < 2 THEN NoRate("sampling")
    ELSE LET latest  == Last(ss)
             base    == Baseline(ss, windowMs)
             success == latest.counters.success - base.counters.success
             failed  == latest.counters.failed - base.counters.failed
         IN  IF base.timestamp = latest.timestamp THEN NoRate("sampling")
             ELSE IF WentBackwards(success, failed) THEN NoRate("reset")
             ELSE [state |-> IF success + failed > 0 THEN "ready" ELSE "idle",
                   success |-> success, failed |-> failed]

\* successRate < p percent, failureRate >= p percent, without division
SuccessBelow(rate, p) ==
    rate.state = "ready" /\ 100 * rate.success < p * (rate.success + rate.failed)
FailureFrom(rate, p) ==
    rate.state = "ready" /\ 100 * rate.failed >= p * (rate.success + rate.failed)

getSuccessRateLevel(rate) ==
    IF rate.state # "ready" THEN "" ELSE
    IF SuccessBelow(rate, 90) THEN "critical" ELSE
    IF SuccessBelow(rate, 95) THEN "warning" ELSE "normal"

getFailureRateLevel(rate) ==
    IF rate.state # "ready" THEN "" ELSE
    IF FailureFrom(rate, 15) THEN "critical" ELSE
    IF FailureFrom(rate, 5) THEN "warning" ELSE "normal"

Positive(n) == IF n > 0 THEN n ELSE 0

\* metricTrendData: one point per pair of neighbouring samples of the last hour
metricTrendData(unsorted, now) ==
    LET recent == Since(normalizeMetricSamples(unsorted), now - OneHour)
    IN  [i \in 1..(Len(recent) - 1) |->
           [from |-> recent[i], to |-> recent[i + 1],
            success |-> Positive(recent[i + 1].counters.success - recent[i].counters.success),
            failed  |-> Positive(recent[i + 1].counters.failed - recent[i].counters.failed)]]

\* markIssue: how the level changes with what one more check has found
markIssue(level, next) ==
    IF next = "critical" THEN "critical"
    ELSE IF next = "warning" /\ level # "critical" THEN "warning" ELSE level

\* what is checked, in the order in which the code does
HealthChecks(fiveMinuteRate, oneHourRate, exhaustedRows, coolingRows) ==
    <<getSuccessRateLevel(fiveMinuteRate), getFailureRateLevel(oneHourRate),
      IF exhaustedRows > 0 THEN "critical" ELSE "normal",
      IF coolingRows > 0 THEN "warning" ELSE "normal">>

runtimeHealth(fiveMinuteRate, oneHourRate, exhaustedRows, coolingRows) ==
    LET found == HealthChecks(fiveMinuteRate, oneHourRate, exhaustedRows, coolingRows) IN
    markIssue(markIssue(markIssue(markIssue("normal", found[1]), found[2]), found[3]), found[4])

-----------------------------------------------------------------------------
(* Steps *)

MetricsInit ==
    /\ clock = 1
    /\ counters = [success |-> 0, failed |-> 0] /\ total = counters
    /\ answers = {}
    /\ samples = <<>> /\ storage = <<>>
    /\ restarts = 0 /\ reloads = 0

MetricsTick ==
    /\ clock < MaxTime
    /\ clock' = clock + 1
    /\ UNCHANGED <<counters, total, answers, samples, storage, restarts, reloads>>

\* a request through the gateway completes
Completes(outcome) ==
    /\ total[outcome] < MaxCount
    /\ counters' = [counters EXCEPT ![outcome] = @ + 1]
    /\ total' = [total EXCEPT ![outcome] = @ + 1]
    /\ UNCHANGED <<clock, answers, samples, storage, restarts, reloads>>

GatewayRestarts ==
    /\ restarts < MaxRestarts
    /\ restarts' = restarts + 1
    /\ counters' = [success |-> 0, failed |-> 0]
    /\ UNCHANGED <<clock, total, answers, samples, storage, reloads>>

\* a response of /metrics, with what it is compared to in the properties
Snapshot == [counters |-> counters, total |-> total, epoch |-> restarts]
SampleOf(s) == [timestamp |-> clock, counters |-> s.counters, total |-> s.total,
                epoch |-> s.epoch]

\* a poll of /metrics is answered ...
MetricsAnswered ==
    /\ Cardinality(answers) < MaxAnswers
    /\ answers' = answers \cup {Snapshot}
    /\ UNCHANGED <<clock, counters, total, samples, storage, restarts, reloads>>

\* ... and takes effect: the tab's samples, and the storage of all tabs
TakeSample(answer) ==
    LET next == AppendSample(samples, SampleOf(answer), clock)
    IN  /\ Len(next) <= MaxSamples
        /\ samples' = next
        /\ storage' = next
        /\ answers' = answers \ {answer}
        /\ UNCHANGED <<clock, counters, total, restarts, reloads>>

\* the tab is closed and opened again
Reopen ==
    /\ reloads < MaxReloads
    /\ reloads' = reloads + 1
    /\ samples' = loadMetricSamples(clock)
    /\ answers' = {}
    /\ UNCHANGED <<clock, counters, total, storage, restarts>>

\* another tab, opened from the same storage, takes one sample and overwrites
\* the storage with its own list
OtherTab ==
    /\ reloads < MaxReloads
    /\ reloads' = reloads + 1
    /\ storage' = AppendSample(loadMetricSamples(clock), SampleOf(Snapshot), clock)
    /\ UNCHANGED <<clock, counters, total, answers, samples, restarts>>

MetricsNext ==
    \/ MetricsTick
    \/ \E o \in {"success", "failed"} : Completes(o)
    \/ GatewayRestarts
    \/ MetricsAnswered
    \/ \E a \in answers : TakeSample(a)
    \/ Reopen
    \/ OtherTab

MetricsSpec == MetricsInit /\ [][MetricsNext]_metricsVars

-----------------------------------------------------------------------------
(* Properties *)

MetricsTypeOK ==
    /\ clock \in 1..MaxTime /\ counters \in Counts /\ total \in Counts
    /\ \A i \in DOMAIN samples : samples[i].timestamp \in 1..clock

\* what really happened between two samples
Real(a, b, outcome) == b.total[outcome] - a.total[outcome]

\* an answer that overtook a later one across a restart is a sample of the
\* gateway's earlier life recorded in its later one; what is shown between
\* two such samples means nothing
InOrder(a, b) ==
    a.epoch <= b.epoch /\ \A o \in {"success", "failed"} : Real(a, b, o) >= 0

\* A rate never counts a request that did not complete between its two
\* samples, and never shows a negative number, whatever restarts of the
\* gateway, closed tabs and samples of other tabs lie between them
\* (calculateWindowRate).
RateIsReal ==
    \A window \in {FiveMinutes, OneHour} :
        LET ss   == normalizeMetricSamples(samples)
            rate == calculateWindowRate(samples, window)
        IN  rate.state \in {"ready", "idle"} =>
              LET base == Baseline(ss, window) IN
              InOrder(base, Last(ss)) =>
                  /\ rate.success \in 0..Real(base, Last(ss), "success")
                  /\ rate.failed \in 0..Real(base, Last(ss), "failed")

\* Neither does a point of the trend.
TrendIsReal ==
    LET data == metricTrendData(samples, clock) IN
    \A i \in DOMAIN data :
        InOrder(data[i].from, data[i].to) =>
            \A o \in {"success", "failed"} :
                data[i][o] \in 0..Real(data[i].from, data[i].to, o)

\* The samples that tabs hand each other through the storage stay in order and
\* span no more than the retention; the same counters are not recorded twice
\* within TooSoon (the effect on metricsText).
SamplesKeptInOrder ==
    \A ss \in {samples, storage} :
        /\ \A i \in 1..(Len(ss) - 1) :
              /\ ss[i].timestamp <= ss[i + 1].timestamp
              /\ SameCounters(ss[i], ss[i + 1]) =>
                    ss[i + 1].timestamp - ss[i].timestamp >= TooSoon
        /\ ss # <<>> => Last(ss).timestamp - Head(ss).timestamp <= Retention

\* The health shown is that of the worst issue, whichever other issues are
\* found after it (markIssue).
HealthIsWorstIssue ==
    LET five == calculateWindowRate(samples, FiveMinutes)
        hour == calculateWindowRate(samples, OneHour)
    IN  \A exhausted, cooling \in 0..1 :
        LET issues == ToSet(HealthChecks(five, hour, exhausted, cooling))
            level  == runtimeHealth(five, hour, exhausted, cooling)
        IN  level = IF "critical" \in issues THEN "critical"
                    ELSE IF "warning" \in issues THEN "warning" ELSE "normal"

\* What the metrics panel shows of the last hours is what happened: its rates, its trend,
\* the samples they are taken from and the health drawn from them (fallbackHelpers).
StatisticsAreReal == RateIsReal /\ TrendIsReal /\ SamplesKeptInOrder /\ HealthIsWorstIssue
=============================================================================
