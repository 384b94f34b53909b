------------------------- MODULE UpstreamLimits_proofs -------------------------
(***************************************************************************)
(* Theorems about the limits of upstream deployments.  The quota windows,   *)
(* for every set of requests, limits, estimates and window lengths.  What a *)
(* 429 does: the degradation of a deployment, for every number of reports,  *)
(* every cooldown, window and interval and every timing of the ticker; and  *)
(* the run-time state of a free provider's model, for any number of         *)
(* goroutines, any lengths of the cooldowns and any wait for the mutex.     *)
(***************************************************************************)
EXTENDS RuntimeQuota, ProviderDegradation, ModelRuntime, FiniteSetTheorems, TLAPS

----------------------------------------------------------------------------
(* The quota windows.                                                        *)

\* RequestOvershoot is inductive together with the types: a request that passes
\* the check finds a count below the limit, and a recorded one only moves from
\* those on their way to the count.  TokenOvershoot is not: what the requests on
\* their way may still record belongs to the count as well.
TokensComing ==
  /\ TPM > 0 => minuteTokens + Cardinality(Sent) * MostTokens
                  <= TPM + Cardinality(Callers) * MostTokens
  /\ TPD > 0 => dayTokens + Cardinality(Sent) * MostTokens
                  <= TPD + Cardinality(Callers) * MostTokens

CountInv == QuotaTypeOK /\ RequestOvershoot
QuotaInv == CountInv /\ TokensComing

----------------------------------------------------------------------------
(* The requests on their way. *)

LEMMA SentFinite ==
  ASSUME QuotaAssumption
  PROVE  /\ IsFiniteSet(Callers) /\ Cardinality(Callers) \in Nat
         /\ IsFiniteSet(Sent) /\ Cardinality(Sent) \in Nat
         /\ Cardinality(Sent) <= Cardinality(Callers)
<1>1. IsFiniteSet(Callers) /\ Sent \subseteq Callers
  BY DEF QuotaAssumption, Sent
<1>. QED BY <1>1, FS_Subset, FS_CardinalityType

\* A request that starts is one more on its way, and there are never more than
\* Callers.
LEMMA OneMoreSent ==
  ASSUME QuotaAssumption, QuotaTypeOK, NEW c \in Callers, NEW e \in Estimates,
         sent[c] = Idle, sent' = [sent EXCEPT ![c] = e]
  PROVE  /\ Cardinality(Sent') = Cardinality(Sent) + 1
         /\ Cardinality(Sent') \in Nat
         /\ Cardinality(Sent') <= Cardinality(Callers)
<1>1. Sent' = Sent \cup {c} /\ c \notin Sent /\ Sent' \subseteq Callers
  BY DEF Sent, QuotaTypeOK, Idle, QuotaAssumption
<1>2. IsFiniteSet(Sent) /\ IsFiniteSet(Callers)
  BY SentFinite
<1>3. Cardinality(Sent \cup {c}) = Cardinality(Sent) + 1
  BY <1>1, <1>2, FS_AddElement
<1>4. Cardinality(Sent') <= Cardinality(Callers)
  BY <1>1, <1>2, FS_Subset
<1>. QED BY <1>1, <1>3, <1>4, SentFinite

LEMMA OneLessSent ==
  ASSUME QuotaAssumption, QuotaTypeOK, NEW c \in Callers,
         sent[c] # Idle, sent' = [sent EXCEPT ![c] = Idle]
  PROVE  /\ Cardinality(Sent') = Cardinality(Sent) - 1
         /\ Cardinality(Sent) = Cardinality(Sent') + 1
         /\ Cardinality(Sent') \in Nat
<1>1. Sent' = Sent \ {c} /\ c \in Sent
  BY DEF Sent, QuotaTypeOK
<1>2. IsFiniteSet(Sent)
  BY SentFinite
<1>3. Cardinality(Sent \ {c}) = Cardinality(Sent) - 1 /\ IsFiniteSet(Sent \ {c})
  BY <1>1, <1>2, FS_RemoveElement
<1>4. Cardinality(Sent') \in Nat /\ Cardinality(Sent) \in Nat
  BY <1>1, <1>2, <1>3, FS_CardinalityType
<1>5. Cardinality(Sent') = Cardinality(Sent) - 1
  BY <1>1, <1>3
<1>6. Cardinality(Sent) = Cardinality(Sent') + 1
  BY <1>4, <1>5
<1>. QED BY <1>4, <1>5, <1>6

\* A request records no more than MostTokens.
LEMMA TokensOfOne ==
  ASSUME QuotaAssumption, NEW e \in Estimates
  PROVE  /\ MostTokens \in Nat
         /\ e \in Nat /\ e <= MostTokens
         /\ EffectiveTokens(e) \in Nat /\ EffectiveTokens(e) <= MostTokens
BY DEF QuotaAssumption, MostTokens, EffectiveTokens

LEMMA OneMore ==
  ASSUME NEW m \in Nat, NEW n \in Nat
  PROVE  (n + 1) * m = n * m + m /\ n * m \in Nat
OBVIOUS

\* What is used and what is to come, before and after a step, under one limit.
LEMMA StaysWithin ==
  ASSUME NEW limit \in Nat, NEW all \in Nat,
         NEW used \in Nat, NEW coming \in Nat, limit > 0 => used + coming <= limit + all,
         NEW more \in Nat, NEW less \in Nat, more <= less,
         NEW usedAfter \in Nat, usedAfter <= used + more,
         NEW comingAfter \in Nat, comingAfter + less = coming
  PROVE  limit > 0 => usedAfter + comingAfter <= limit + all
OBVIOUS

LEMMA StartsWithin ==
  ASSUME NEW limit \in Nat, NEW all \in Nat,
         NEW used \in Nat, limit > 0 => used <= limit,
         NEW coming \in Nat, coming <= all
  PROVE  limit > 0 => used + coming <= limit + all
OBVIOUS

LEMMA NoMore ==
  ASSUME NEW m \in Nat, NEW n \in Nat, NEW k \in Nat, n <= k
  PROVE  n * m <= k * m
OBVIOUS

----------------------------------------------------------------------------
(* The windows. *)

LEMMA WindowStartInPast ==
  ASSUME NEW n \in Nat, NEW length \in Nat \ {0}
  PROVE  n - (n % length) \in 0..n
OBVIOUS

\* What a reset leaves: counters that are naturals, no larger than before, and
\* window starts that are not in the future.
LEMMA FreshTypes ==
  ASSUME QuotaAssumption, QuotaTypeOK, ResetWindows
  PROVE  /\ FreshMinute(minuteRequests) \in 0..minuteRequests
         /\ FreshDay(dayRequests) \in 0..dayRequests
         /\ FreshMinute(minuteTokens) \in 0..minuteTokens
         /\ FreshDay(dayTokens) \in 0..dayTokens
         /\ resetMinute' \in 0..ticks /\ resetDay' \in 0..ticks
<1>1. WindowStart(Minute) \in 0..ticks /\ WindowStart(Day) \in 0..ticks
  BY WindowStartInPast DEF WindowStart, QuotaTypeOK, QuotaAssumption
<1>. QED BY <1>1 DEF FreshMinute, FreshDay, ResetWindows, QuotaTypeOK

----------------------------------------------------------------------------

LEMMA CheckStep ==
  ASSUME QuotaAssumption, CountInv, CheckWindows, UNCHANGED <<ticks, meter>>,
         sent' \in [Callers -> Estimates \cup {Idle}]
  PROVE  /\ QuotaTypeOK'
         /\ minuteRequests' = FreshMinute(minuteRequests)
         /\ dayRequests' = FreshDay(dayRequests)
         /\ minuteRequests' <= minuteRequests /\ dayRequests' <= dayRequests
BY FreshTypes DEF CountInv, CheckWindows, QuotaTypeOK

\* A number with room for more under a limit is below it.
LEMMA RoomLeft ==
  ASSUME NEW limit \in Nat, NEW used \in Nat, NEW more \in Nat, NEW kept,
         Within(limit, used, more), kept = used
  PROVE  /\ limit > 0 => kept <= limit
         /\ limit > 0 /\ more = 1 => kept < limit
BY DEF Within

LEMMA AdmittedBelowLimits ==
  ASSUME QuotaAssumption, QuotaTypeOK, QuotaTypeOK', CheckWindows, NEW e \in Estimates, Fits(e)
  PROVE  /\ RPM > 0 => minuteRequests' < RPM
         /\ RPD > 0 => dayRequests' < RPD
         /\ TPM > 0 => minuteTokens' <= TPM
         /\ TPD > 0 => dayTokens' <= TPD
<1>1. /\ RPM \in Nat /\ RPD \in Nat /\ TPM \in Nat /\ TPD \in Nat
      /\ e \in Nat /\ 1 \in Nat
  BY DEF QuotaAssumption
<1>2. /\ minuteRequests' \in Nat /\ dayRequests' \in Nat
      /\ minuteTokens' \in Nat /\ dayTokens' \in Nat
  BY DEF QuotaTypeOK
<1>3. /\ Within(RPM, minuteRequests', 1) /\ Within(RPD, dayRequests', 1)
      /\ Within(TPM, minuteTokens', e) /\ Within(TPD, dayTokens', e)
  BY DEF Fits, CheckWindows
<1>4. RPM > 0 => minuteRequests' < RPM
  BY <1>1, <1>2, <1>3, RoomLeft
<1>5. RPD > 0 => dayRequests' < RPD
  BY <1>1, <1>2, <1>3, RoomLeft
<1>6. TPM > 0 => minuteTokens' <= TPM
  BY <1>1, <1>2, <1>3, RoomLeft
<1>7. TPD > 0 => dayTokens' <= TPD
  BY <1>1, <1>2, <1>3, RoomLeft
<1>. QED BY <1>4, <1>5, <1>6, <1>7

LEMMA OvershootKept ==
  ASSUME QuotaAssumption, QuotaTypeOK, QuotaTypeOK', RequestOvershoot,
         Cardinality(Sent') \in Nat,
         minuteRequests' + Cardinality(Sent') <= minuteRequests + Cardinality(Sent),
         dayRequests' + Cardinality(Sent') <= dayRequests + Cardinality(Sent)
  PROVE  RequestOvershoot'
<1>1. /\ minuteRequests' \in Nat /\ dayRequests' \in Nat
      /\ minuteRequests \in Nat /\ dayRequests \in Nat
      /\ RPM \in Nat /\ RPD \in Nat
  BY DEF QuotaTypeOK, QuotaAssumption
<1>2. Cardinality(Sent) \in Nat /\ Cardinality(Callers) \in Nat
  BY SentFinite
<1>3. /\ RPM > 0 => minuteRequests + Cardinality(Sent) < RPM + Cardinality(Callers)
      /\ RPD > 0 => dayRequests + Cardinality(Sent) < RPD + Cardinality(Callers)
  BY DEF RequestOvershoot
<1>4. /\ RPM > 0 => minuteRequests' + Cardinality(Sent') < RPM + Cardinality(Callers)
      /\ RPD > 0 => dayRequests' + Cardinality(Sent') < RPD + Cardinality(Callers)
  BY <1>1, <1>2, <1>3
<1>. QED BY <1>4 DEF RequestOvershoot

LEMMA NextCountInv ==
  ASSUME QuotaAssumption, CountInv, [QuotaNext]_quotaVars
  PROVE  CountInv'
<1>. USE DEF CountInv
<1>1. CASE QuotaTick
  <2>1. meter' \in [0..ticks' -> Usage]
    <3>1. /\ ticks' = ticks + 1 /\ ticks \in Nat
          /\ meter' = [t \in 0..ticks' |-> IF t < ticks' THEN meter[t] ELSE meter[ticks]]
      BY <1>1 DEF QuotaTick, QuotaTypeOK
    <3>2. meter \in [0..ticks -> Usage]
      BY DEF QuotaTypeOK
    <3>3. /\ ticks \in 0..ticks
          /\ \A t \in 0..ticks' : t < ticks' => t \in 0..ticks
      BY <3>1
    <3>4. meter[ticks] \in Usage /\ \A t \in 0..ticks' : t < ticks' => meter[t] \in Usage
      BY <3>2, <3>3
    <3>5. \A t \in 0..ticks' : (IF t < ticks' THEN meter[t] ELSE meter[ticks]) \in Usage
      BY <3>4
    <3>. QED BY <3>1, <3>5
  <2>2. QuotaTypeOK'
    <3>1. ticks \in Nat /\ ticks' = ticks + 1 /\ UNCHANGED <<counters, sent>>
      BY <1>1 DEF QuotaTick, QuotaTypeOK
    <3>. QED BY <2>1, <3>1 DEF counters, QuotaTypeOK
  <2>3. RequestOvershoot'
    BY <1>1, SentFinite DEF QuotaTick, counters, RequestOvershoot, Sent
  <2>. QED BY <2>2, <2>3
<1>2. ASSUME NEW c \in Callers, NEW e \in Estimates, PassQuotaCheck(c, e)
      PROVE  CountInv'
  <2>1. sent' \in [Callers -> Estimates \cup {Idle}]
    BY <1>2 DEF PassQuotaCheck, QuotaTypeOK
  <2>2. QuotaTypeOK'
    BY <1>2, <2>1, CheckStep DEF PassQuotaCheck
  <2>3. /\ RPM > 0 => minuteRequests' < RPM
        /\ RPD > 0 => dayRequests' < RPD
    BY <1>2, <2>2, AdmittedBelowLimits DEF PassQuotaCheck
  <2>4. /\ Cardinality(Sent') \in Nat /\ Cardinality(Callers) \in Nat
        /\ Cardinality(Sent') <= Cardinality(Callers)
    BY <1>2, OneMoreSent, SentFinite DEF PassQuotaCheck
  <2>5. RequestOvershoot'
    <3>1. minuteRequests' \in Nat /\ dayRequests' \in Nat
      BY <2>2 DEF QuotaTypeOK
    <3>2. RPM \in Nat /\ RPD \in Nat
      BY DEF QuotaAssumption
    <3>3. /\ RPM > 0 => minuteRequests' + Cardinality(Sent') < RPM + Cardinality(Callers)
          /\ RPD > 0 => dayRequests' + Cardinality(Sent') < RPD + Cardinality(Callers)
      BY <2>3, <2>4, <3>1, <3>2
    <3>. QED BY <3>3 DEF RequestOvershoot
  <2>. QED BY <2>2, <2>5
<1>3. ASSUME NEW c \in Callers, NEW e \in Estimates, Refuse(c, e)
      PROVE  CountInv'
  <2>1. sent' = sent /\ Sent' = Sent
    BY <1>3 DEF Refuse, Sent
  <2>2. /\ QuotaTypeOK'
        /\ minuteRequests' <= minuteRequests /\ dayRequests' <= dayRequests
    <3>1. sent' \in [Callers -> Estimates \cup {Idle}]
      BY <2>1 DEF QuotaTypeOK
    <3>2. CheckWindows /\ UNCHANGED <<ticks, meter>>
      BY <1>3 DEF Refuse
    <3>3. QuotaTypeOK' /\ minuteRequests' <= minuteRequests /\ dayRequests' <= dayRequests
      BY <3>1, <3>2, CheckStep
    <3>. QED BY <3>3
  <2>3. RequestOvershoot'
    <3>1. Cardinality(Sent') = Cardinality(Sent) /\ Cardinality(Sent) \in Nat
      BY <2>1, SentFinite
    <3>2. /\ minuteRequests' \in Nat /\ minuteRequests \in Nat
          /\ dayRequests' \in Nat /\ dayRequests \in Nat
      BY <2>2 DEF QuotaTypeOK
    <3>3. /\ minuteRequests' + Cardinality(Sent') <= minuteRequests + Cardinality(Sent)
          /\ dayRequests' + Cardinality(Sent') <= dayRequests + Cardinality(Sent)
      BY <2>2, <3>1, <3>2
    <3>. QED BY <2>2, <3>1, <3>3, OvershootKept
  <2>. QED BY <2>2, <2>3
<1>4. ASSUME NEW c \in Callers, RecordUsage(c)
      PROVE  CountInv'
  <2>. DEFINE t == EffectiveTokens(sent[c])
  <2>1. t \in Nat
    <3>1. sent[c] \in Estimates
      BY <1>4 DEF RecordUsage, QuotaTypeOK
    <3>. QED BY <3>1, TokensOfOne
  <2>2. sent' \in [Callers -> Estimates \cup {Idle}]
    BY <1>4 DEF RecordUsage, QuotaTypeOK
  <2>3. meter' \in [0..ticks -> Usage]
    <3>. HIDE DEF t
    <3>1. meter' = [meter EXCEPT ![ticks] = [requests |-> @.requests + 1, tokens |-> @.tokens + t]]
      BY <1>4 DEF RecordUsage, t
    <3>2. ticks \in 0..ticks /\ meter \in [0..ticks -> Usage]
      BY DEF QuotaTypeOK
    <3>3. [requests |-> meter[ticks].requests + 1, tokens |-> meter[ticks].tokens + t] \in Usage
      BY <2>1, <3>2 DEF Usage
    <3>. QED BY <3>1, <3>2, <3>3
  <2>4. /\ minuteRequests' \in Nat /\ minuteRequests' <= minuteRequests + 1
        /\ dayRequests' \in Nat /\ dayRequests' <= dayRequests + 1
        /\ minuteTokens' \in Nat /\ dayTokens' \in Nat
        /\ resetMinute' \in 0..ticks' /\ resetDay' \in 0..ticks' /\ ticks' \in Nat
    <3>1. /\ FreshMinute(minuteRequests) \in 0..minuteRequests
          /\ FreshDay(dayRequests) \in 0..dayRequests
          /\ FreshMinute(minuteTokens) \in 0..minuteTokens
          /\ FreshDay(dayTokens) \in 0..dayTokens
          /\ resetMinute' \in 0..ticks /\ resetDay' \in 0..ticks
      BY <1>4, FreshTypes DEF RecordUsage
    <3>2. /\ minuteRequests' = FreshMinute(minuteRequests) + 1
          /\ dayRequests' = FreshDay(dayRequests) + 1
          /\ minuteTokens' = FreshMinute(minuteTokens) + t
          /\ dayTokens' = FreshDay(dayTokens) + t
          /\ ticks' = ticks
      BY <1>4 DEF RecordUsage
    <3>. HIDE DEF t
    <3>3. /\ minuteRequests \in Nat /\ dayRequests \in Nat /\ t \in Nat
          /\ minuteTokens \in Nat /\ dayTokens \in Nat /\ ticks \in Nat
      BY <2>1 DEF QuotaTypeOK
    <3>. QED BY <3>1, <3>2, <3>3
  <2>5. QuotaTypeOK'
    BY <1>4, <2>2, <2>3, <2>4 DEF QuotaTypeOK, RecordUsage
  <2>6. /\ Cardinality(Sent') = Cardinality(Sent) - 1
        /\ Cardinality(Sent) \in Nat /\ Cardinality(Callers) \in Nat
    BY <1>4, OneLessSent, SentFinite DEF RecordUsage
  <2>7. RequestOvershoot'
    <3>1. minuteRequests \in Nat /\ dayRequests \in Nat
      BY DEF QuotaTypeOK
    <3>2. /\ minuteRequests' + Cardinality(Sent') <= minuteRequests + Cardinality(Sent)
          /\ dayRequests' + Cardinality(Sent') <= dayRequests + Cardinality(Sent)
      BY <2>4, <2>6, <3>1
    <3>. QED BY <1>4, <2>5, <3>2, OneLessSent, OvershootKept DEF RecordUsage
  <2>. QED BY <2>5, <2>7
<1>5. ASSUME NEW c \in Callers, Fail(c)
      PROVE  CountInv'
  <2>1. QuotaTypeOK'
    BY <1>5 DEF Fail, counters, QuotaTypeOK
  <2>2. /\ Cardinality(Sent') = Cardinality(Sent) - 1
        /\ Cardinality(Sent) \in Nat /\ Cardinality(Callers) \in Nat
    BY <1>5, OneLessSent, SentFinite DEF Fail
  <2>3. RequestOvershoot'
    BY <1>5, <2>2 DEF Fail, counters, RequestOvershoot, QuotaTypeOK, QuotaAssumption
  <2>. QED BY <2>1, <2>3
<1>6. CASE UNCHANGED quotaVars
  BY <1>6 DEF quotaVars, counters, QuotaTypeOK, RequestOvershoot, Sent
<1>. QED BY <1>1, <1>2, <1>3, <1>4, <1>5, <1>6 DEF QuotaNext

LEMMA InitCountInv ==
  ASSUME QuotaAssumption, QuotaInit
  PROVE  CountInv
<1>1. QuotaTypeOK
  BY DEF QuotaInit, QuotaTypeOK, Usage, Nothing
<1>2. Sent = {}
  BY DEF QuotaInit, Sent
<1>3. Cardinality(Sent) = 0
  BY <1>2, FS_EmptySet
<1>. QED BY <1>1, <1>3, SentFinite DEF QuotaInit, CountInv, RequestOvershoot, QuotaAssumption

----------------------------------------------------------------------------
(* The tokens. *)

\* A step after which the counters and what is still to come are no larger keeps
\* within the limits.
LEMMA TokensKept ==
  ASSUME QuotaAssumption, QuotaTypeOK, QuotaTypeOK', TokensComing,
         NEW more \in Nat, NEW less \in Nat,
         minuteTokens' <= minuteTokens + more, dayTokens' <= dayTokens + more,
         Cardinality(Sent') * MostTokens \in Nat, Cardinality(Sent) * MostTokens \in Nat,
         Cardinality(Callers) * MostTokens \in Nat,
         Cardinality(Sent') * MostTokens + less = Cardinality(Sent) * MostTokens,
         more <= less
  PROVE  TokensComing'
<1>1. /\ minuteTokens' \in Nat /\ dayTokens' \in Nat
      /\ minuteTokens \in Nat /\ dayTokens \in Nat
      /\ TPM \in Nat /\ TPD \in Nat
  BY DEF QuotaTypeOK, QuotaAssumption
<1>2. /\ TPM > 0 => minuteTokens + Cardinality(Sent) * MostTokens
                      <= TPM + Cardinality(Callers) * MostTokens
      /\ TPD > 0 => dayTokens + Cardinality(Sent) * MostTokens
                      <= TPD + Cardinality(Callers) * MostTokens
  BY DEF TokensComing
<1>3. TPM > 0 => minuteTokens' + Cardinality(Sent') * MostTokens
                   <= TPM + Cardinality(Callers) * MostTokens
  BY <1>1, <1>2, StaysWithin
<1>4. TPD > 0 => dayTokens' + Cardinality(Sent') * MostTokens
                   <= TPD + Cardinality(Callers) * MostTokens
  BY <1>1, <1>2, StaysWithin
<1>. QED BY <1>3, <1>4 DEF TokensComing, MostTokens

LEMMA ProductsTyped ==
  ASSUME QuotaAssumption, NEW e \in Estimates
  PROVE  /\ Cardinality(Sent) * MostTokens \in Nat
         /\ Cardinality(Callers) * MostTokens \in Nat
BY SentFinite, TokensOfOne, OneMore

LEMMA NextTokens ==
  ASSUME QuotaAssumption, QuotaInv, CountInv', [QuotaNext]_quotaVars
  PROVE  TokensComing'
<1>. USE DEF QuotaInv, CountInv
<1>1. CASE QuotaTick
  BY <1>1 DEF QuotaTick, counters, TokensComing, Sent, MostTokens
<1>2. ASSUME NEW c \in Callers, NEW e \in Estimates, PassQuotaCheck(c, e)
      PROVE  TokensComing'
  <2>1. /\ TPM > 0 => minuteTokens' <= TPM
        /\ TPD > 0 => dayTokens' <= TPD
    BY <1>2, AdmittedBelowLimits DEF PassQuotaCheck
  <2>2. /\ Cardinality(Sent') \in Nat /\ Cardinality(Callers) \in Nat
        /\ Cardinality(Sent') <= Cardinality(Callers)
    BY <1>2, OneMoreSent, SentFinite DEF PassQuotaCheck
  <2>3. /\ Cardinality(Sent') * MostTokens \in Nat
        /\ Cardinality(Callers) * MostTokens \in Nat
        /\ Cardinality(Sent') * MostTokens <= Cardinality(Callers) * MostTokens
    BY <2>2, TokensOfOne, OneMore, NoMore
  <2>4. /\ minuteTokens' \in Nat /\ dayTokens' \in Nat /\ TPM \in Nat /\ TPD \in Nat
    BY DEF QuotaTypeOK, QuotaAssumption
  <2>5. TPM > 0 => minuteTokens' + Cardinality(Sent') * MostTokens
                     <= TPM + Cardinality(Callers) * MostTokens
    BY <2>1, <2>3, <2>4, StartsWithin
  <2>6. TPD > 0 => dayTokens' + Cardinality(Sent') * MostTokens
                     <= TPD + Cardinality(Callers) * MostTokens
    BY <2>1, <2>3, <2>4, StartsWithin
  <2>. QED BY <2>5, <2>6 DEF TokensComing, MostTokens
<1>3. ASSUME NEW c \in Callers, NEW e \in Estimates, Refuse(c, e)
      PROVE  TokensComing'
  <2>1. Sent' = Sent
    BY <1>3 DEF Refuse, Sent
  <2>2. /\ minuteTokens' = FreshMinute(minuteTokens) /\ dayTokens' = FreshDay(dayTokens)
        /\ minuteTokens' \in 0..minuteTokens /\ dayTokens' \in 0..dayTokens
    BY <1>3, FreshTypes DEF Refuse, CheckWindows
  <2>3. /\ minuteTokens' <= minuteTokens + 0 /\ dayTokens' <= dayTokens + 0
    <3>1. minuteTokens \in Nat /\ dayTokens \in Nat
      BY DEF QuotaTypeOK
    <3>2. /\ minuteTokens' \in Nat /\ minuteTokens' <= minuteTokens
          /\ dayTokens' \in Nat /\ dayTokens' <= dayTokens
      BY <2>2, <3>1
    <3>. QED BY <3>1, <3>2
  <2>4. Cardinality(Sent') * MostTokens + 0 = Cardinality(Sent) * MostTokens
    BY <2>1, ProductsTyped
  <2>. QED BY <2>1, <2>3, <2>4, TokensKept, ProductsTyped
<1>4. ASSUME NEW c \in Callers, RecordUsage(c)
      PROVE  TokensComing'
  <2>. DEFINE t == EffectiveTokens(sent[c])
  <2>1. sent[c] \in Estimates
    BY <1>4 DEF RecordUsage, QuotaTypeOK
  <2>2. MostTokens \in Nat /\ t \in Nat /\ t <= MostTokens
    BY <2>1, TokensOfOne
  <2>3. /\ minuteTokens' = FreshMinute(minuteTokens) + t /\ dayTokens' = FreshDay(dayTokens) + t
        /\ FreshMinute(minuteTokens) \in 0..minuteTokens
        /\ FreshDay(dayTokens) \in 0..dayTokens
    BY <1>4, FreshTypes DEF RecordUsage
  <2>. HIDE DEF t
  <2>4. /\ minuteTokens' <= minuteTokens + t /\ dayTokens' <= dayTokens + t
    <3>1. minuteTokens \in Nat /\ dayTokens \in Nat
      BY DEF QuotaTypeOK
    <3>2. /\ FreshMinute(minuteTokens) \in Nat /\ FreshMinute(minuteTokens) <= minuteTokens
          /\ FreshDay(dayTokens) \in Nat /\ FreshDay(dayTokens) <= dayTokens
      BY <2>3, <3>1
    <3>. QED BY <2>2, <2>3, <3>1, <3>2
  <2>5. /\ Cardinality(Sent') \in Nat /\ Cardinality(Sent) \in Nat
        /\ Cardinality(Sent) = Cardinality(Sent') + 1
    BY <1>4, OneLessSent, SentFinite DEF RecordUsage
  <2>6. /\ Cardinality(Sent') * MostTokens + MostTokens = Cardinality(Sent) * MostTokens
        /\ Cardinality(Sent') * MostTokens \in Nat
    BY <2>2, <2>5, OneMore
  <2>. QED BY <2>1, <2>2, <2>4, <2>6, TokensKept, ProductsTyped
<1>5. ASSUME NEW c \in Callers, Fail(c)
      PROVE  TokensComing'
  <2>1. sent[c] \in Estimates
    BY <1>5 DEF Fail, QuotaTypeOK
  <2>2. MostTokens \in Nat
    BY <2>1, TokensOfOne
  <2>3. /\ minuteTokens' <= minuteTokens + 0 /\ dayTokens' <= dayTokens + 0
    BY <1>5 DEF Fail, counters, QuotaTypeOK
  <2>4. /\ Cardinality(Sent') \in Nat /\ Cardinality(Sent) \in Nat
        /\ Cardinality(Sent) = Cardinality(Sent') + 1
    BY <1>5, OneLessSent, SentFinite DEF Fail
  <2>5. /\ Cardinality(Sent') * MostTokens + MostTokens = Cardinality(Sent) * MostTokens
        /\ Cardinality(Sent') * MostTokens \in Nat
    BY <2>2, <2>4, OneMore
  <2>6. 0 \in Nat /\ 0 <= MostTokens
    BY <2>2
  <2>7. QuotaTypeOK /\ QuotaTypeOK' /\ TokensComing
    OBVIOUS
  <2>. QED BY <2>1, <2>2, <2>3, <2>5, <2>6, <2>7, TokensKept, ProductsTyped
<1>6. CASE UNCHANGED quotaVars
  BY <1>6 DEF quotaVars, counters, TokensComing, Sent, MostTokens
<1>. QED BY <1>1, <1>2, <1>3, <1>4, <1>5, <1>6 DEF QuotaNext

LEMMA InitTokens ==
  ASSUME QuotaAssumption, QuotaInit
  PROVE  TokensComing
<1>1. Sent = {} /\ minuteTokens = 0 /\ dayTokens = 0
  BY DEF QuotaInit, Sent
<1>2. Cardinality(Sent) = 0
  BY <1>1, FS_EmptySet
<1>3. MostTokens \in Nat
  BY DEF MostTokens, QuotaAssumption
<1>4. 0 * MostTokens = 0 /\ Cardinality(Callers) * MostTokens \in Nat
  BY <1>3, SentFinite, OneMore
<1>5. TPM \in Nat /\ TPD \in Nat
  BY DEF QuotaAssumption
<1>6. /\ TPM > 0 => 0 + 0 <= TPM + Cardinality(Callers) * MostTokens
      /\ TPD > 0 => 0 + 0 <= TPD + Cardinality(Callers) * MostTokens
  BY <1>4, <1>5
<1>. QED BY <1>1, <1>2, <1>4, <1>6 DEF TokensComing

THEOREM QuotaInvariance == QuotaSpec => []QuotaInv
<1>1. QuotaInit => QuotaInv
  BY InitCountInv, InitTokens, QuotaAssumption DEF QuotaInv
<1>2. QuotaInv /\ [QuotaNext]_quotaVars => QuotaInv'
  <2>. SUFFICES ASSUME QuotaInv, [QuotaNext]_quotaVars PROVE QuotaInv'
    OBVIOUS
  <2>1. CountInv'
    BY NextCountInv, QuotaAssumption DEF QuotaInv
  <2>2. TokensComing'
    BY <2>1, NextTokens, QuotaAssumption
  <2>. QED BY <2>1, <2>2 DEF QuotaInv
<1>. QED BY <1>1, <1>2, PTL DEF QuotaSpec

\* The quota counters keep their types: no reset makes one negative and no window
\* starts in the future (quota.go maybeResetWindows).
THEOREM QuotaTypeCorrect == QuotaSpec => []QuotaTypeOK
<1>1. QuotaInv => QuotaTypeOK
  BY DEF QuotaInv, CountInv
<1>. QED BY <1>1, QuotaInvariance, PTL

\* The check-then-record of PassQuotaCheck and RecordUsage overshoots a limit of
\* requests by less than the number of concurrent requests, and a limit of tokens by
\* no more than those requests record, whatever their number, the limits, the windows
\* and the interleaving.
THEOREM OvershootBounded == QuotaSpec => []LimitsOvershoot
<1>1. QuotaInv => LimitsOvershoot
  <2>. SUFFICES ASSUME QuotaInv PROVE TokenOvershoot
    BY DEF QuotaInv, CountInv, LimitsOvershoot
  <2>. DEFINE coming == Cardinality(Sent) * MostTokens
              all    == Cardinality(Callers) * MostTokens
  <2>1. MostTokens \in Nat
    BY QuotaAssumption DEF MostTokens, QuotaAssumption
  <2>2. coming \in Nat /\ all \in Nat
    BY <2>1, QuotaAssumption, SentFinite, OneMore
  <2>3. /\ TPM > 0 => minuteTokens + coming <= TPM + all
        /\ TPD > 0 => dayTokens + coming <= TPD + all
    BY DEF QuotaInv, TokensComing
  <2>4. minuteTokens \in Nat /\ dayTokens \in Nat /\ TPM \in Nat /\ TPD \in Nat
    BY QuotaAssumption DEF QuotaInv, CountInv, QuotaTypeOK, QuotaAssumption
  <2>. HIDE DEF coming, all
  <2>5. /\ TPM > 0 => minuteTokens <= TPM + all
        /\ TPD > 0 => dayTokens <= TPD + all
    BY <2>2, <2>3, <2>4
  <2>. QED BY <2>5 DEF TokenOvershoot, all
<1>. QED BY <1>1, QuotaInvariance, PTL

----------------------------------------------------------------------------
(* The windows and what was recorded. *)

LEMMA DivisionBounds ==
  ASSUME NEW t \in Int, NEW n \in Nat \ {0}
  PROVE  /\ t \div n \in Int /\ t % n \in 0..n - 1
         /\ t - n * (t \div n) = t % n
OBVIOUS

LEMMA ProductGrows ==
  ASSUME NEW a \in Int, NEW b \in Int, NEW n \in Nat \ {0}, n * a < n * b
  PROVE  n * a + n <= n * b
<1>1. a < b
  <2>1. SUFFICES ASSUME b <= a PROVE n * b <= n * a
    OBVIOUS
  <2>. QED BY <2>1, SMTT(30)
<1>2. a + 1 <= b
  BY <1>1
<1>3. n * (a + 1) <= n * b
  BY <1>2, SMTT(30)
<1>4. n * (a + 1) = n * a + n
  BY SMTT(30)
<1>5. n * a \in Int /\ n * b \in Int
  OBVIOUS
<1>. QED BY <1>3, <1>4, <1>5

\* Two starts of windows are a window apart.
LEMMA StartsApart ==
  ASSUME NEW a \in Nat, NEW b \in Nat, NEW length \in Nat \ {0},
         a % length = 0, b % length = 0, a < b
  PROVE  a + length <= b
<1>1. a \div length \in Int /\ a = length * (a \div length)
  BY DivisionBounds
<1>2. b \div length \in Int /\ b = length * (b \div length)
  BY DivisionBounds
<1>. QED BY <1>1, <1>2, ProductGrows

LEMMA StartOfWindow ==
  ASSUME NEW n \in Nat, NEW length \in Nat \ {0}
  PROVE  /\ n - (n % length) \in 0..n
         /\ (n - (n % length)) % length = 0
         /\ n < n - (n % length) + length
<1>1. /\ n \div length \in Int /\ n % length \in 0..length - 1
      /\ n - length * (n \div length) = n % length
  BY DivisionBounds
<1>2. length * (n \div length) \in Int /\ n - (n % length) = length * (n \div length)
  BY <1>1
<1>3. \A q \in Int : (length * q) % length = 0
  BY SMTT(30)
<1>4. (n - (n % length)) % length = 0
  BY <1>1, <1>2, <1>3
<1>5. n < n - (n % length) + length
  BY <1>1
<1>. QED BY <1>4, <1>5, WindowStartInPast

\* A counter that is reset at the first use in a new window: since the window it was
\* last reset for, nothing has been recorded.
LastUsed(reset, length) ==
  /\ reset % length = 0
  /\ \A t \in 0..ticks : t >= reset + length - 1 => meter[t] = meter[ticks]

WindowInv == /\ CountersMatchRecords
             /\ LastUsed(resetMinute, Minute) /\ LastUsed(resetDay, Day)

\* So either the window of now is the one it was last reset for, or nothing has been
\* recorded in it.
LEMMA WindowOfNow ==
  ASSUME QuotaTypeOK, NEW length \in Nat \ {0}, NEW reset \in 0..ticks, LastUsed(reset, length)
  PROVE  /\ WindowStart(length) \in 0..ticks /\ ticks < WindowStart(length) + length
         /\ WindowStart(length) % length = 0
         /\ reset < WindowStart(length) => Before(WindowStart(length)) = meter[ticks]
         /\ ~(reset < WindowStart(length)) => reset = WindowStart(length)
<1>. DEFINE w == WindowStart(length)
<1>1. w \in 0..ticks /\ w % length = 0 /\ ticks < w + length /\ ticks \in Nat
  BY StartOfWindow DEF WindowStart, QuotaTypeOK
<1>. HIDE DEF w
<1>2. ASSUME reset < w PROVE Before(w) = meter[ticks]
  <2>. reset \in Nat /\ w \in Nat /\ reset % length = 0 /\ w % length = 0 /\ reset < w
    BY <1>1, <1>2 DEF LastUsed
  <2>1. reset + length <= w
    BY StartsApart
  <2>2. w - 1 \in 0..ticks /\ w - 1 >= reset + length - 1 /\ ~(w <= 0)
    BY <1>1, <1>2, <2>1
  <2>. QED BY <2>2 DEF LastUsed, Before
<1>3. ASSUME w < reset PROVE FALSE
  <2>. reset \in Nat /\ w \in Nat /\ reset % length = 0 /\ w % length = 0 /\ w < reset
    BY <1>1, <1>3 DEF LastUsed
  <2>1. w + length <= reset
    BY StartsApart
  <2>. QED BY <1>1, <2>1
<1>4. ~(reset < w) => reset = w
  BY <1>1, <1>3
<1>. QED BY <1>1, <1>2, <1>4 DEF w

\* What a counter stands at once the windows are rolled over is what has been recorded
\* in the window of now.
LEMMA FreshIsRecorded ==
  ASSUME QuotaAssumption, QuotaTypeOK, WindowInv
  PROVE  /\ FreshMinute(minuteRequests) = Requests(WindowStart(Minute))
         /\ FreshMinute(minuteTokens) = Tokens(WindowStart(Minute))
         /\ FreshDay(dayRequests) = Requests(WindowStart(Day))
         /\ FreshDay(dayTokens) = Tokens(WindowStart(Day))
<1>1. meter[ticks].requests \in Nat /\ meter[ticks].tokens \in Nat
  BY DEF QuotaTypeOK, Usage
<1>2. /\ FreshMinute(minuteRequests) = Requests(WindowStart(Minute))
      /\ FreshMinute(minuteTokens) = Tokens(WindowStart(Minute))
  <2>1. /\ resetMinute < WindowStart(Minute) => Before(WindowStart(Minute)) = meter[ticks]
        /\ ~(resetMinute < WindowStart(Minute)) => resetMinute = WindowStart(Minute)
    BY WindowOfNow DEF WindowInv, QuotaTypeOK, QuotaAssumption
  <2>2. CASE resetMinute < WindowStart(Minute)
    BY <1>1, <2>1, <2>2 DEF FreshMinute, Requests, Tokens
  <2>3. CASE ~(resetMinute < WindowStart(Minute))
    BY <2>1, <2>3 DEF FreshMinute, WindowInv, CountersMatchRecords
  <2>. QED BY <2>2, <2>3
<1>3. /\ FreshDay(dayRequests) = Requests(WindowStart(Day))
      /\ FreshDay(dayTokens) = Tokens(WindowStart(Day))
  <2>1. /\ resetDay < WindowStart(Day) => Before(WindowStart(Day)) = meter[ticks]
        /\ ~(resetDay < WindowStart(Day)) => resetDay = WindowStart(Day)
    BY WindowOfNow DEF WindowInv, QuotaTypeOK, QuotaAssumption
  <2>2. CASE resetDay < WindowStart(Day)
    BY <1>1, <2>1, <2>2 DEF FreshDay, Requests, Tokens
  <2>3. CASE ~(resetDay < WindowStart(Day))
    BY <2>1, <2>3 DEF FreshDay, WindowInv, CountersMatchRecords
  <2>. QED BY <2>2, <2>3
<1>. QED BY <1>2, <1>3

LEMMA RolledOver ==
  ASSUME QuotaAssumption, QuotaTypeOK, WindowInv, ResetWindows
  PROVE  resetMinute' = WindowStart(Minute) /\ resetDay' = WindowStart(Day)
<1>1. ~(resetMinute < WindowStart(Minute)) => resetMinute = WindowStart(Minute)
  BY WindowOfNow DEF WindowInv, QuotaTypeOK, QuotaAssumption
<1>2. ~(resetDay < WindowStart(Day)) => resetDay = WindowStart(Day)
  BY WindowOfNow DEF WindowInv, QuotaTypeOK, QuotaAssumption
<1>. QED BY <1>1, <1>2 DEF ResetWindows

\* In the window of now, now is the last tick.
LEMMA UsedNow ==
  ASSUME QuotaTypeOK, NEW length \in Nat \ {0}, ticks' = ticks
  PROVE  LastUsed(WindowStart(length), length)'
<1>. DEFINE w == WindowStart(length)
<1>1. w \in 0..ticks /\ w % length = 0 /\ ticks < w + length /\ ticks \in Nat
  BY StartOfWindow DEF WindowStart, QuotaTypeOK
<1>2. w' = w
  BY DEF WindowStart
<1>. HIDE DEF w
<1>3. \A t \in 0..ticks : t >= w + length - 1 => t = ticks
  BY <1>1
<1>. QED BY <1>1, <1>2, <1>3 DEF LastUsed, w

LEMMA LastUsedNow ==
  ASSUME QuotaAssumption, QuotaTypeOK, WindowInv, ResetWindows, ticks' = ticks
  PROVE  LastUsed(resetMinute, Minute)' /\ LastUsed(resetDay, Day)'
<1>1. resetMinute' = WindowStart(Minute) /\ resetDay' = WindowStart(Day)
  BY RolledOver
<1>2. WindowStart(Minute)' = WindowStart(Minute) /\ WindowStart(Day)' = WindowStart(Day)
  BY DEF WindowStart
<1>3. LastUsed(WindowStart(Minute), Minute)' /\ LastUsed(WindowStart(Day), Day)'
  BY UsedNow DEF QuotaAssumption
<1>. QED BY <1>1, <1>2, <1>3 DEF LastUsed

\* What the meter showed before the window of now is not changed by a step that leaves
\* the clock alone.
LEMMA BeforeKept ==
  ASSUME QuotaTypeOK, ticks' = ticks, NEW t \in 0..ticks,
         \A u \in 0..ticks : u # ticks => meter'[u] = meter[u]
  PROVE  Before(t)' = Before(t)
<1>1. CASE t <= 0
  BY <1>1 DEF Before
<1>2. CASE t > 0
  <2>1. t - 1 \in 0..ticks /\ t - 1 # ticks
    BY <1>2 DEF QuotaTypeOK
  <2>. QED BY <2>1 DEF Before
<1>. QED BY <1>1, <1>2

LEMMA CheckedWindows ==
  ASSUME QuotaAssumption, QuotaTypeOK, WindowInv, CheckWindows, UNCHANGED <<ticks, meter>>
  PROVE  WindowInv'
<1>1. resetMinute' = WindowStart(Minute) /\ resetDay' = WindowStart(Day)
  BY RolledOver DEF CheckWindows
<1>2. LastUsed(resetMinute, Minute)' /\ LastUsed(resetDay, Day)'
  BY LastUsedNow DEF CheckWindows
<1>3. CountersMatchRecords'
  BY <1>1, FreshIsRecorded DEF CheckWindows, CountersMatchRecords, Requests, Tokens, Before
<1>. QED BY <1>2, <1>3 DEF WindowInv

LEMMA RestGrows ==
  ASSUME NEW a \in Nat, NEW b \in Nat, NEW x \in Nat
  PROVE  (a + x) - b = (a - b) + x
OBVIOUS

\* A record counts in the window of now, whose meter is ahead of what it showed before.
LEMMA RecordedWindows ==
  ASSUME QuotaAssumption, QuotaTypeOK, WindowInv, NEW c \in Callers, RecordUsage(c)
  PROVE  WindowInv'
<1>. DEFINE t == EffectiveTokens(sent[c])
<1>1. ticks' = ticks /\ ticks \in 0..ticks /\ meter \in [0..ticks -> Usage] /\ t \in Nat
  <2>1. sent[c] \in Estimates
    BY DEF RecordUsage, QuotaTypeOK
  <2>2. t \in Nat
    BY <2>1, TokensOfOne
  <2>. HIDE DEF t
  <2>. QED BY <2>2 DEF RecordUsage, QuotaTypeOK
<1>2. /\ meter' = [meter EXCEPT ![ticks] = [requests |-> @.requests + 1, tokens |-> @.tokens + t]]
      /\ minuteRequests' = FreshMinute(minuteRequests) + 1
      /\ dayRequests' = FreshDay(dayRequests) + 1
      /\ minuteTokens' = FreshMinute(minuteTokens) + t
      /\ dayTokens' = FreshDay(dayTokens) + t
      /\ ResetWindows
  BY DEF RecordUsage
<1>. HIDE DEF t
<1>3. /\ meter'[ticks].requests = meter[ticks].requests + 1
      /\ meter'[ticks].tokens = meter[ticks].tokens + t
      /\ \A u \in 0..ticks : u # ticks => meter'[u] = meter[u]
  BY <1>1, <1>2
<1>4. /\ WindowStart(Minute) \in 0..ticks /\ WindowStart(Day) \in 0..ticks
      /\ resetMinute' = WindowStart(Minute) /\ resetDay' = WindowStart(Day)
  BY <1>2, RolledOver, WindowStartInPast DEF WindowStart, QuotaTypeOK, QuotaAssumption
<1>5. /\ Before(resetMinute)' = Before(WindowStart(Minute))
      /\ Before(resetDay)' = Before(WindowStart(Day))
  <2>1. \A w \in 0..ticks : Before(w)' = Before(w)
    BY <1>1, <1>3, BeforeKept
  <2>. QED BY <1>4, <2>1 DEF Before
<1>6. /\ Before(WindowStart(Minute)) \in Usage /\ Before(WindowStart(Day)) \in Usage
      /\ meter[ticks] \in Usage
  <2>1. \A w \in 0..ticks : Before(w) \in Usage
    <3>1. ASSUME NEW w \in 0..ticks PROVE Before(w) \in Usage
      <4>1. CASE w <= 0
        BY <4>1 DEF Before, Nothing, Usage
      <4>2. CASE w > 0
        BY <1>1, <4>2 DEF Before, QuotaTypeOK
      <4>. QED BY <4>1, <4>2
    <3>. QED BY <3>1
  <2>. QED BY <1>1, <1>4, <2>1
<1>7. CountersMatchRecords'
  <2>1. /\ Requests(resetMinute)' = Requests(WindowStart(Minute)) + 1
        /\ Tokens(resetMinute)' = Tokens(WindowStart(Minute)) + t
        /\ Requests(resetDay)' = Requests(WindowStart(Day)) + 1
        /\ Tokens(resetDay)' = Tokens(WindowStart(Day)) + t
    <3>1. /\ Requests(resetMinute)' = meter'[ticks].requests - Before(WindowStart(Minute)).requests
          /\ Tokens(resetMinute)' = meter'[ticks].tokens - Before(WindowStart(Minute)).tokens
          /\ Requests(resetDay)' = meter'[ticks].requests - Before(WindowStart(Day)).requests
          /\ Tokens(resetDay)' = meter'[ticks].tokens - Before(WindowStart(Day)).tokens
      BY <1>1, <1>5 DEF Requests, Tokens
    <3>2. \A u \in Usage : u.requests \in Nat /\ u.tokens \in Nat
      BY DEF Usage
    <3>3. /\ meter[ticks].requests \in Nat /\ meter[ticks].tokens \in Nat /\ 1 \in Nat
          /\ Before(WindowStart(Minute)).requests \in Nat
          /\ Before(WindowStart(Minute)).tokens \in Nat
          /\ Before(WindowStart(Day)).requests \in Nat
          /\ Before(WindowStart(Day)).tokens \in Nat
      BY <1>6, <3>2
    <3>4. /\ Requests(WindowStart(Minute)) = meter[ticks].requests - Before(WindowStart(Minute)).requests
          /\ Tokens(WindowStart(Minute)) = meter[ticks].tokens - Before(WindowStart(Minute)).tokens
          /\ Requests(WindowStart(Day)) = meter[ticks].requests - Before(WindowStart(Day)).requests
          /\ Tokens(WindowStart(Day)) = meter[ticks].tokens - Before(WindowStart(Day)).tokens
      BY DEF Requests, Tokens
    <3>5. /\ Requests(resetMinute)' = Requests(WindowStart(Minute)) + 1
          /\ Requests(resetDay)' = Requests(WindowStart(Day)) + 1
      BY <1>3, <3>1, <3>3, <3>4, RestGrows
    <3>6. /\ Tokens(resetMinute)' = Tokens(WindowStart(Minute)) + t
          /\ Tokens(resetDay)' = Tokens(WindowStart(Day)) + t
      <4>1. t \in Nat /\ meter'[ticks].tokens = meter[ticks].tokens + t
        BY <1>1, <1>3
      <4>. QED BY <3>1, <3>3, <3>4, <4>1, RestGrows
    <3>. QED BY <3>5, <3>6
  <2>. QED BY <1>2, <2>1, FreshIsRecorded DEF CountersMatchRecords
<1>8. LastUsed(resetMinute, Minute)' /\ LastUsed(resetDay, Day)'
  BY <1>1, <1>2, LastUsedNow
<1>. QED BY <1>7, <1>8 DEF WindowInv

LEMMA TickedWindow ==
  ASSUME QuotaTypeOK, QuotaTick, NEW length \in Nat \ {0}, NEW reset \in 0..ticks, LastUsed(reset, length)
  PROVE  /\ reset % length = 0
         /\ \A t \in 0..ticks' : t >= reset + length - 1 => meter'[t] = meter'[ticks']
         /\ Before(reset)' = Before(reset) /\ meter'[ticks'] = meter[ticks]
<1>1. /\ ticks' = ticks + 1 /\ ticks \in Nat
      /\ meter' = [t \in 0..ticks + 1 |-> IF t > ticks THEN meter[ticks] ELSE meter[t]]
  BY DEF QuotaTick, QuotaTypeOK
<1>2. meter'[ticks'] = meter[ticks] /\ \A t \in 0..ticks : meter'[t] = meter[t]
  BY <1>1
<1>3. \A t \in 0..ticks' : t >= reset + length - 1 => meter'[t] = meter[ticks]
  <2>1. SUFFICES ASSUME NEW t \in 0..ticks', t >= reset + length - 1
                 PROVE  meter'[t] = meter[ticks]
    OBVIOUS
  <2>2. CASE t = ticks'
    BY <1>2, <2>2
  <2>3. CASE t # ticks'
    BY <1>1, <1>2, <2>1, <2>3 DEF LastUsed
  <2>. QED BY <2>2, <2>3
<1>4. Before(reset)' = Before(reset)
  <2>1. CASE reset <= 0
    BY <2>1 DEF Before
  <2>2. CASE reset > 0
    <3>1. reset - 1 \in 0..ticks
      BY <1>1, <2>2
    <3>. QED BY <1>2, <3>1 DEF Before
  <2>. QED BY <2>1, <2>2
<1>. QED BY <1>2, <1>3, <1>4 DEF LastUsed

LEMMA NextWindowInv ==
  ASSUME QuotaAssumption, QuotaTypeOK, WindowInv, [QuotaNext]_quotaVars
  PROVE  WindowInv'
<1>1. CASE QuotaTick
  <2>1. /\ resetMinute' = resetMinute /\ resetDay' = resetDay
        /\ minuteRequests' = minuteRequests /\ minuteTokens' = minuteTokens
        /\ dayRequests' = dayRequests /\ dayTokens' = dayTokens
    BY <1>1 DEF QuotaTick, counters
  <2>2. /\ resetMinute % Minute = 0
        /\ \A t \in 0..ticks' : t >= resetMinute + Minute - 1 => meter'[t] = meter'[ticks']
        /\ Before(resetMinute)' = Before(resetMinute) /\ meter'[ticks'] = meter[ticks]
    BY <1>1, <2>1, TickedWindow DEF WindowInv, QuotaTypeOK, QuotaAssumption, Before
  <2>3. /\ resetDay % Day = 0
        /\ \A t \in 0..ticks' : t >= resetDay + Day - 1 => meter'[t] = meter'[ticks']
        /\ Before(resetDay)' = Before(resetDay)
    BY <1>1, <2>1, TickedWindow DEF WindowInv, QuotaTypeOK, QuotaAssumption, Before
  <2>4. CountersMatchRecords'
    BY <2>1, <2>2, <2>3 DEF WindowInv, CountersMatchRecords, Requests, Tokens
  <2>. QED BY <2>1, <2>2, <2>3, <2>4 DEF WindowInv, LastUsed
<1>2. ASSUME NEW c \in Callers, NEW e \in Estimates, PassQuotaCheck(c, e)
      PROVE  WindowInv'
  BY <1>2, CheckedWindows DEF PassQuotaCheck
<1>3. ASSUME NEW c \in Callers, NEW e \in Estimates, Refuse(c, e)
      PROVE  WindowInv'
  BY <1>3, CheckedWindows DEF Refuse
<1>4. ASSUME NEW c \in Callers, RecordUsage(c)
      PROVE  WindowInv'
  BY <1>4, RecordedWindows
<1>5. ASSUME NEW c \in Callers, Fail(c)
      PROVE  WindowInv'
  BY <1>5 DEF Fail, counters, WindowInv, CountersMatchRecords, LastUsed, Requests, Tokens,
     Before
<1>6. CASE UNCHANGED quotaVars
  BY <1>6 DEF quotaVars, counters, WindowInv, CountersMatchRecords, LastUsed, Requests, Tokens,
     Before
<1>. QED BY <1>1, <1>2, <1>3, <1>4, <1>5, <1>6 DEF QuotaNext

LEMMA InitWindowInv ==
  ASSUME QuotaAssumption, QuotaInit
  PROVE  WindowInv
<1>1. /\ Requests(0) = 0 /\ Tokens(0) = 0
  BY DEF QuotaInit, Requests, Tokens, Before, Nothing
<1>2. 0 % Minute = 0 /\ 0 % Day = 0
  BY DEF QuotaAssumption
<1>. QED BY <1>1, <1>2 DEF QuotaInit, WindowInv, CountersMatchRecords, LastUsed

----------------------------------------------------------------------------
(* The last minute. *)

Most == RPM - 1 + Cardinality(Callers)

\* Where a window ends, or has come to.
WindowEnd(w) == IF w + Minute - 1 < ticks THEN w + Minute - 1 ELSE ticks

\* The meter never falls, and no window of a minute holds more than a counter may show.
MinuteInv ==
  /\ \A s \in 0..ticks, t \in 0..ticks : s <= t => meter[s].requests <= meter[t].requests
  /\ RPM > 0 => \A w \in 0..ticks : w % Minute = 0 =>
       meter[WindowEnd(w)].requests <= Before(w).requests + Most

LEMMA MeterTypes ==
  ASSUME QuotaTypeOK, NEW t \in 0..ticks
  PROVE  /\ meter[t].requests \in Nat /\ meter[t].tokens \in Nat
         /\ Before(t).requests \in Nat
<1>1. meter[t].requests \in Nat /\ meter[t].tokens \in Nat
  BY DEF QuotaTypeOK, Usage
<1>2. CASE t <= 0
  BY <1>1, <1>2 DEF Before, Nothing
<1>3. CASE t > 0
  <2>1. t - 1 \in 0..ticks
    BY <1>3 DEF QuotaTypeOK
  <2>. QED BY <1>1, <1>3, <2>1 DEF Before, QuotaTypeOK, Usage
<1>. QED BY <1>1, <1>2, <1>3

LEMMA MostTyped ==
  ASSUME QuotaAssumption, RPM > 0
  PROVE  Most \in Nat
BY SentFinite DEF Most, QuotaAssumption

LEMMA TickedMinutes ==
  ASSUME QuotaAssumption, QuotaTypeOK, MinuteInv, QuotaTick
  PROVE  MinuteInv'
<1>1. /\ ticks' = ticks + 1 /\ ticks \in Nat
      /\ meter' = [t \in 0..ticks + 1 |-> IF t > ticks THEN meter[ticks] ELSE meter[t]]
  BY DEF QuotaTick, QuotaTypeOK
<1>2. meter'[ticks'] = meter[ticks] /\ \A t \in 0..ticks : meter'[t] = meter[t]
  BY <1>1
<1>3. \A s \in 0..ticks', t \in 0..ticks' : s <= t => meter'[s].requests <= meter'[t].requests
  <2>1. SUFFICES ASSUME NEW s \in 0..ticks', NEW t \in 0..ticks', s <= t
                 PROVE  meter'[s].requests <= meter'[t].requests
    OBVIOUS
  <2>2. CASE s = ticks' /\ t = ticks'
    <3>1. ticks \in 0..ticks
      BY <1>1
    <3>. QED BY <1>2, <2>2, <3>1, MeterTypes
  <2>3. CASE s # ticks' /\ t = ticks'
    <3>1. s \in 0..ticks /\ ticks \in 0..ticks /\ s <= ticks
      BY <1>1, <2>3
    <3>. QED BY <1>2, <2>3, <3>1 DEF MinuteInv
  <2>4. CASE t # ticks'
    <3>1. s \in 0..ticks /\ t \in 0..ticks
      BY <1>1, <2>1, <2>4
    <3>. QED BY <1>2, <2>1, <3>1 DEF MinuteInv
  <2>. QED BY <1>1, <2>1, <2>2, <2>3, <2>4
<1>4. ASSUME RPM > 0, NEW w \in 0..ticks', w % Minute = 0
      PROVE  meter'[WindowEnd(w)'].requests <= Before(w)'.requests + Most
  <2>1. Before(w)' = IF w <= 0 THEN Nothing ELSE meter[w - 1]
    BY <1>1, <1>2 DEF Before
  <2>2. CASE w = ticks'
    <3>1. WindowEnd(w)' = ticks'
      BY <1>1, <2>2 DEF WindowEnd, QuotaAssumption
    <3>2. Before(w)' = meter[ticks]
      BY <1>1, <2>1, <2>2
    <3>3. meter[ticks].requests \in Nat
      BY <1>1, MeterTypes
    <3>. QED BY <1>2, <1>4, <3>1, <3>2, <3>3, MostTyped
  <2>3. CASE w # ticks'
    <3>1. w \in 0..ticks
      BY <1>1, <2>3
    <3>2. Before(w)' = Before(w)
      BY <2>1 DEF Before
    <3>3. meter'[WindowEnd(w)'] = meter[WindowEnd(w)]
      <4>1. CASE w + Minute - 1 < ticks
        BY <1>1, <1>2, <3>1, <4>1 DEF WindowEnd, QuotaAssumption
      <4>2. CASE w + Minute - 1 = ticks
        BY <1>1, <1>2, <3>1, <4>2 DEF WindowEnd, QuotaAssumption
      <4>3. CASE w + Minute - 1 > ticks
        BY <1>1, <1>2, <3>1, <4>3 DEF WindowEnd, QuotaAssumption
      <4>. QED BY <1>1, <3>1, <4>1, <4>2, <4>3 DEF QuotaAssumption
    <3>. QED BY <1>4, <3>1, <3>2, <3>3 DEF MinuteInv
  <2>. QED BY <2>2, <2>3
<1>. QED BY <1>3, <1>4 DEF MinuteInv, Most

\* A record adds to the window of now only, which is the one the counter shows.
LEMMA RecordedMinutes ==
  ASSUME QuotaAssumption, QuotaTypeOK, QuotaTypeOK', WindowInv, WindowInv', RequestOvershoot',
         MinuteInv, NEW c \in Callers, RecordUsage(c)
  PROVE  MinuteInv'
<1>1. /\ ticks' = ticks /\ ticks \in 0..ticks /\ ticks \in Nat
      /\ meter'[ticks].requests = meter[ticks].requests + 1
      /\ \A u \in 0..ticks : u # ticks => meter'[u] = meter[u]
  BY DEF RecordUsage, QuotaTypeOK
<1>2. \A s \in 0..ticks, t \in 0..ticks : s <= t => meter'[s].requests <= meter'[t].requests
  <2>1. SUFFICES ASSUME NEW s \in 0..ticks, NEW t \in 0..ticks, s <= t
                 PROVE  meter'[s].requests <= meter'[t].requests
    OBVIOUS
  <2>2. meter[s].requests \in Nat /\ meter[t].requests \in Nat /\ meter[ticks].requests \in Nat
    BY <1>1, MeterTypes
  <2>3. meter[s].requests <= meter[t].requests
    BY <2>1 DEF MinuteInv
  <2>4. CASE s = ticks
    BY <1>1, <2>1, <2>2, <2>4
  <2>5. CASE s # ticks /\ t = ticks
    BY <1>1, <2>2, <2>3, <2>5
  <2>6. CASE s # ticks /\ t # ticks
    BY <1>1, <2>3, <2>6
  <2>. QED BY <2>4, <2>5, <2>6
<1>3. ASSUME RPM > 0, NEW w \in 0..ticks, w % Minute = 0
      PROVE  meter'[WindowEnd(w)'].requests <= Before(w)'.requests + Most
  <2>1. Before(w)' = Before(w)
    BY <1>1, BeforeKept
  <2>2. WindowEnd(w)' = WindowEnd(w)
    BY <1>1 DEF WindowEnd
  <2>3. CASE w + Minute - 1 < ticks
    <3>1. WindowEnd(w) \in 0..ticks /\ WindowEnd(w) # ticks
      BY <1>1, <2>3 DEF WindowEnd, QuotaAssumption
    <3>2. meter'[WindowEnd(w)] = meter[WindowEnd(w)]
      BY <1>1, <3>1
    <3>. QED BY <1>3, <2>1, <2>2, <3>2 DEF MinuteInv
  <2>4. CASE ~(w + Minute - 1 < ticks)
    <3>1. WindowEnd(w) = ticks
      BY <2>4 DEF WindowEnd
    <3>2. /\ WindowStart(Minute) \in 0..ticks /\ WindowStart(Minute) % Minute = 0
          /\ ticks < WindowStart(Minute) + Minute
          /\ resetMinute' = WindowStart(Minute)
      BY RolledOver, StartOfWindow DEF RecordUsage, WindowStart, QuotaTypeOK, QuotaAssumption
    <3>3. w = WindowStart(Minute)
      <4>. DEFINE v == WindowStart(Minute)
      <4>. w \in Nat /\ v \in Nat /\ Minute \in Nat \ {0} /\ w % Minute = 0 /\ v % Minute = 0
        BY <1>3, <3>2 DEF QuotaAssumption
      <4>1. v \in 0..ticks /\ ticks < v + Minute
        BY <3>2
      <4>. HIDE DEF v
      <4>2. v < w => v + Minute <= w
        BY StartsApart
      <4>3. w < v => w + Minute <= v
        BY StartsApart
      <4>4. w = v
        BY <1>1, <2>4, <4>1, <4>2, <4>3
      <4>. QED BY <4>4 DEF v
    <3>4. minuteRequests' = meter'[ticks].requests - Before(w)'.requests
      BY <1>1, <3>2, <3>3 DEF WindowInv, CountersMatchRecords, Requests, Before
    <3>5. minuteRequests' <= Most
      <4>1. minuteRequests' \in Nat /\ RPM \in Nat
        BY DEF QuotaTypeOK, QuotaAssumption
      <4>2. Cardinality(Sent)' \in Nat /\ Cardinality(Callers) \in Nat
        BY SentFinite, OneLessSent DEF RecordUsage
      <4>3. minuteRequests' + Cardinality(Sent)' < RPM + Cardinality(Callers)
        BY <1>3 DEF RequestOvershoot
      <4>. QED BY <4>1, <4>2, <4>3 DEF Most
    <3>6. meter[ticks].requests \in Nat /\ Before(w).requests \in Nat /\ Most \in Nat
      BY <1>1, <1>3, MeterTypes, MostTyped
    <3>. QED BY <1>1, <2>1, <2>2, <3>1, <3>4, <3>5, <3>6
  <2>. QED BY <2>3, <2>4
<1>. QED BY <1>1, <1>2, <1>3 DEF MinuteInv, Most

LEMMA NextMinuteInv ==
  ASSUME QuotaAssumption, QuotaInv, CountInv', WindowInv, WindowInv', MinuteInv, [QuotaNext]_quotaVars
  PROVE  MinuteInv'
<1>1. CASE QuotaTick
  BY <1>1, TickedMinutes DEF QuotaInv, CountInv
<1>2. CASE UNCHANGED <<ticks, meter>>
  BY <1>2 DEF MinuteInv, WindowEnd, Before, Most
<1>3. ASSUME NEW c \in Callers, RecordUsage(c)
      PROVE  MinuteInv'
  BY <1>3, RecordedMinutes DEF QuotaInv, CountInv
<1>. QED BY <1>1, <1>2, <1>3 DEF QuotaNext, PassQuotaCheck, Refuse, Fail, quotaVars

LEMMA InitMinuteInv ==
  ASSUME QuotaAssumption, QuotaInit
  PROVE  MinuteInv
<1>1. ticks = 0 /\ meter = [t \in 0..0 |-> Nothing]
  BY DEF QuotaInit
<1>2. \A t \in 0..ticks : meter[t].requests = 0 /\ Before(t).requests = 0
  BY <1>1 DEF Before, Nothing
<1>3. \A w \in 0..ticks : WindowEnd(w) = 0
  BY <1>1 DEF WindowEnd, QuotaAssumption
<1>. QED BY <1>1, <1>2, <1>3, MostTyped DEF MinuteInv

\* The last minute begins in the window before the one of now at the earliest.
LEMMA TwoWindows ==
  ASSUME QuotaAssumption, QuotaTypeOK, MinuteInv
  PROVE  LastMinuteHoldsTwoWindows
<1>1. SUFFICES ASSUME RPM > 0
               PROVE  Requests(ticks - Minute + 1) <= 2 * (RPM - 1 + Cardinality(Callers))
  BY DEF LastMinuteHoldsTwoWindows
<1>. DEFINE w == WindowStart(Minute)
            from == ticks - Minute + 1
<1>2. /\ w \in 0..ticks /\ w % Minute = 0 /\ ticks < w + Minute
      /\ ticks \in Nat /\ ticks \in 0..ticks /\ Minute \in Nat \ {0}
  <2>1. ticks \in Nat /\ ticks \in 0..ticks /\ Minute \in Nat \ {0}
    BY DEF QuotaTypeOK, QuotaAssumption
  <2>. QED BY <2>1, StartOfWindow DEF WindowStart
<1>3. WindowEnd(w) = ticks
  BY <1>2 DEF WindowEnd
<1>. HIDE DEF w
<1>4. Most \in Nat /\ meter[ticks].requests \in Nat /\ Before(w).requests \in Nat
  BY <1>1, <1>2, MostTyped, MeterTypes
<1>5. meter[ticks].requests <= Before(w).requests + Most
  BY <1>1, <1>2, <1>3 DEF MinuteInv
<1>6. CASE w = 0
  <2>1. from <= 0
    BY <1>2, <1>6
  <2>2. Before(from).requests = 0 /\ Before(w).requests = 0
    BY <1>6, <2>1 DEF Before, Nothing
  <2>. HIDE DEF from
  <2>3. Requests(from) = meter[ticks].requests - Before(from).requests
    BY DEF Requests
  <2>4. Requests(from) <= 2 * Most
    BY <1>4, <1>5, <2>2, <2>3
  <2>. QED BY <2>4 DEF from, Most
<1>7. CASE w # 0
  <2>. DEFINE v == w - Minute
  <2>1. Minute <= w
    <3>. 0 \in Nat /\ w \in Nat /\ 0 % Minute = 0 /\ w % Minute = 0 /\ 0 < w
      BY <1>2, <1>7
    <3>1. 0 + Minute <= w
      BY <1>2, StartsApart
    <3>. QED BY <1>2, <3>1
  <2>2. v \in 0..ticks /\ v % Minute = 0
    <3>1. v \in 0..ticks
      BY <1>2, <2>1
    <3>2. w \div Minute \in Int /\ w = Minute * (w \div Minute)
      BY <1>2, DivisionBounds
    <3>3. v = Minute * ((w \div Minute) - 1)
      BY <1>2, <3>2, SMTT(30)
    <3>4. \A q \in Int : (Minute * q) % Minute = 0
      BY <1>2, SMTT(30)
    <3>. QED BY <3>1, <3>2, <3>3, <3>4
  <2>3. WindowEnd(v) = w - 1 /\ w - 1 \in 0..ticks /\ ~(w <= 0)
    BY <1>2, <1>7, <2>1 DEF WindowEnd
  <2>4. Before(w) = meter[w - 1]
    BY <2>3 DEF Before
  <2>5. /\ from \in 0..ticks /\ ~(from <= 0) /\ from - 1 \in 0..ticks /\ v <= from - 1
        /\ Before(from) = meter[from - 1]
    BY <1>2, <2>1 DEF Before
  <2>. HIDE DEF v, from
  <2>6. Before(w).requests <= Before(v).requests + Most
    BY <1>1, <2>2, <2>3, <2>4 DEF MinuteInv
  <2>7. Before(v).requests <= meter[v].requests /\ meter[v].requests \in Nat
    <3>1. CASE v <= 0
      BY <2>2, <3>1, MeterTypes DEF Before, Nothing
    <3>2. CASE v > 0
      <4>1. v - 1 \in 0..ticks /\ v - 1 <= v
        BY <1>2, <2>2, <3>2
      <4>. QED BY <2>2, <3>2, <4>1, MeterTypes DEF MinuteInv, Before
    <3>. QED BY <2>2, <3>1, <3>2
  <2>8. meter[v].requests <= Before(from).requests
    BY <2>2, <2>5 DEF MinuteInv
  <2>9. Before(v).requests \in Nat /\ Before(from).requests \in Nat
    BY <2>2, <2>5, MeterTypes
  <2>10. Requests(from) = meter[ticks].requests - Before(from).requests
    BY DEF Requests
  <2>11. Requests(from) <= 2 * Most
    BY <1>4, <1>5, <2>6, <2>7, <2>8, <2>9, <2>10
  <2>. QED BY <2>11 DEF from, Most
<1>. QED BY <1>6, <1>7

----------------------------------------------------------------------------

THEOREM RecordsInvariance == QuotaSpec => [](QuotaInv /\ WindowInv /\ MinuteInv)
<1>1. QuotaInit => WindowInv /\ MinuteInv
  BY InitWindowInv, InitMinuteInv, QuotaAssumption
<1>2. QuotaInv /\ QuotaInv' /\ WindowInv /\ MinuteInv /\ [QuotaNext]_quotaVars => WindowInv' /\ MinuteInv'
  <2>1. SUFFICES ASSUME QuotaInv, QuotaInv', WindowInv, MinuteInv, [QuotaNext]_quotaVars
                 PROVE  WindowInv' /\ MinuteInv'
    OBVIOUS
  <2>2. WindowInv'
    BY <2>1, NextWindowInv, QuotaAssumption DEF QuotaInv, CountInv
  <2>. QED BY <2>1, <2>2, NextMinuteInv, QuotaAssumption DEF QuotaInv
<1>. QED BY <1>1, <1>2, QuotaInvariance, PTL DEF QuotaSpec

\* Each counter is what was recorded since its window began, and the last minute never
\* holds more than two windows of requests, whatever the lengths of the windows, the
\* limits and the interleaving (maybeResetWindows, RecordUsage).
THEOREM WindowsAreRecords == QuotaSpec => []WindowsMatchRecords
<1>1. QuotaInv /\ WindowInv /\ MinuteInv => WindowsMatchRecords
  BY TwoWindows, QuotaAssumption DEF QuotaInv, CountInv, WindowInv, WindowsMatchRecords
<1>. QED BY <1>1, RecordsInvariance, PTL

\* A request is refused only when what was recorded in this minute or this day leaves
\* no room for it: nothing of an earlier window counts (PassQuotaCheck).
THEOREM RefusalsAreAtLimit == QuotaSpec => RefusedOnlyAtLimit
<1>. DEFINE A == \A c \in Callers, e \in Estimates : Refuse(c, e) =>
                   \/ RPM > 0 /\ Requests(WindowStart(Minute)) >= RPM
                   \/ RPD > 0 /\ Requests(WindowStart(Day)) >= RPD
                   \/ TPM > 0 /\ Tokens(WindowStart(Minute)) + e > TPM
                   \/ TPD > 0 /\ Tokens(WindowStart(Day)) + e > TPD
<1>1. QuotaInv /\ WindowInv => A
  <2>1. SUFFICES ASSUME QuotaInv, WindowInv, NEW c \in Callers, NEW e \in Estimates, Refuse(c, e)
                 PROVE  \/ RPM > 0 /\ Requests(WindowStart(Minute)) >= RPM
                        \/ RPD > 0 /\ Requests(WindowStart(Day)) >= RPD
                        \/ TPM > 0 /\ Tokens(WindowStart(Minute)) + e > TPM
                        \/ TPD > 0 /\ Tokens(WindowStart(Day)) + e > TPD
    OBVIOUS
  <2>2. /\ FreshMinute(minuteRequests) = Requests(WindowStart(Minute))
        /\ FreshMinute(minuteTokens) = Tokens(WindowStart(Minute))
        /\ FreshDay(dayRequests) = Requests(WindowStart(Day))
        /\ FreshDay(dayTokens) = Tokens(WindowStart(Day))
    BY <2>1, FreshIsRecorded, QuotaAssumption DEF QuotaInv, CountInv
  <2>3. /\ FreshMinute(minuteRequests) \in Nat /\ FreshMinute(minuteTokens) \in Nat
        /\ FreshDay(dayRequests) \in Nat /\ FreshDay(dayTokens) \in Nat
        /\ e \in Nat /\ RPM \in Nat /\ RPD \in Nat /\ TPM \in Nat /\ TPD \in Nat
    BY <2>1, QuotaAssumption, TokensOfOne
       DEF QuotaInv, CountInv, QuotaTypeOK, FreshMinute, FreshDay, QuotaAssumption
  <2>4. \/ RPM > 0 /\ ~(FreshMinute(minuteRequests) + 1 <= RPM)
        \/ RPD > 0 /\ ~(FreshDay(dayRequests) + 1 <= RPD)
        \/ TPM > 0 /\ ~(FreshMinute(minuteTokens) + e <= TPM)
        \/ TPD > 0 /\ ~(FreshDay(dayTokens) + e <= TPD)
    BY <2>1 DEF Refuse, Fits, Within
  <2>. QED BY <2>2, <2>3, <2>4
<1>. HIDE DEF A
<1>2. QuotaSpec => [][A]_quotaVars
  BY <1>1, RecordsInvariance, PTL DEF QuotaSpec
<1>. QED BY <1>2 DEF RefusedOnlyAtLimit, A

----------------------------------------------------------------------------
(* The degradation of a deployment.                                          *)

\* Waiting reports carry real timestamps.
StampInv ==
  \A r \in Reporters :
    stamp[r] # NoStamp => stamp[r].at > 0 /\ stamp[r].until > 0

\* The counters describe the last accepted episode, and only a counted episode
\* can have raised the level.
EpisodeInv ==
  /\ Len(episodes) = count
  /\ count = 0 => level = 0 /\ last = 0 /\ until = 0
  /\ count > 0 => /\ last > 0 /\ until > 0
                  /\ last = episodes[count].at /\ until = episodes[count].until

IInv == TypeOK /\ StampInv /\ EpisodeInv /\ EpisodesDistinct /\ RecoveryProgress

----------------------------------------------------------------------------
(* Arithmetic of the elapsed intervals. *)

LEMMA WindowsPositive ==
  ASSUME DegradationAssumption, TypeOK, DecayDue
  PROVE  ElapsedWindows \in Nat \ {0}
<1>1. now - next \in Nat /\ Recovery \in Nat \ {0}
  BY DEF TypeOK, DecayDue, DegradationAssumption
<1>2. (now - next) \div Recovery \in Nat
  BY <1>1
<1>. QED BY <1>2 DEF ElapsedWindows

\* Taking w elapsed intervals off moves the next recovery w intervals on.
LEMMA LaterRecovery ==
  ASSUME NEW k \in Nat, NEW w \in Nat, NEW l \in Nat, NEW R \in Nat
  PROVE  (l + k * R) + w * R = l + (k + w) * R
OBVIOUS

LEMMA ElementOfSeq ==
  ASSUME NEW S, NEW s \in Seq(S), NEW i \in 1..Len(s)
  PROVE  s[i] \in S
OBVIOUS

LEMMA EmptyInSeq ==
  ASSUME NEW S
  PROVE  <<>> \in Seq(S)
OBVIOUS

\* What a due decay leaves, when it leaves a level at all.
LEMMA DecayKeepsProgress ==
  ASSUME DegradationAssumption, TypeOK, RecoveryProgress, EpisodeInv,
         DecayedLevel > 0
  PROVE  /\ DecayedLevel \in 1..level
         /\ DecayedNext \in Nat
         /\ \E k \in 1..MaxLevel :
              /\ DecayedNext = last + k * Recovery
              /\ DecayedLevel + successes + (k - 1) = episodes[count].level
<1>1. level > 0 /\ level \in Nat /\ count > 0
  BY WindowsPositive DEF DecayedLevel, TypeOK, EpisodeInv, DecayDue
<1>2. PICK k \in 1..MaxLevel :
        /\ next = last + k * Recovery
        /\ level + successes + (k - 1) = episodes[count].level
  BY <1>1 DEF RecoveryProgress
<1>3. episodes[count].level \in 0..MaxLevel
  <2>1. count \in 1..Len(episodes) /\ episodes \in Seq(Episode)
    BY <1>1 DEF TypeOK, EpisodeInv
  <2>2. episodes[count] \in Episode
    BY <2>1, ElementOfSeq
  <2>. QED BY <2>2 DEF Episode
<1>4. CASE ~DecayDue
  <2>1. DecayedLevel = level /\ DecayedNext = next /\ next \in Nat
    BY <1>4 DEF DecayedLevel, DecayedNext, TypeOK
  <2>2. DecayedLevel \in 1..level
    BY <1>1, <2>1
  <2>3. /\ DecayedNext = last + k * Recovery
        /\ DecayedLevel + successes + (k - 1) = episodes[count].level
    BY <1>2, <2>1, Zenon
  <2>. QED BY <2>1, <2>2, <2>3, Zenon
<1>5. CASE DecayDue
  <2>. DEFINE w == ElapsedWindows
  <2>1. w \in Nat \ {0}
    BY <1>5, WindowsPositive
  <2>2. DecayedLevel = level - w /\ w < level
    BY <1>1, <1>5, <2>1 DEF DecayedLevel
  <2>3. DecayedNext = last + (k + w) * Recovery
    <3>1. DecayedNext = (last + k * Recovery) + w * Recovery
      BY <1>2, <1>5 DEF DecayedNext
    <3>. QED BY <2>1, <3>1, LaterRecovery DEF TypeOK, DegradationAssumption
  <2>4. DecayedLevel + successes + ((k + w) - 1) = episodes[count].level
    BY <1>1, <1>2, <2>1, <2>2 DEF TypeOK
  <2>5. k + w \in 1..MaxLevel
    BY <1>1, <1>2, <1>3, <2>1, <2>2 DEF TypeOK, DegradationAssumption
  <2>6. DecayedNext \in Nat
    <3>1. DecayedNext = next + w * Recovery /\ next \in Nat
      BY <1>5 DEF DecayedNext, TypeOK
    <3>2. w * Recovery \in Nat
      BY <2>1 DEF DegradationAssumption
    <3>. QED BY <3>1, <3>2
  <2>7. DecayedLevel \in 1..level
    BY <1>1, <2>1, <2>2
  <2>. HIDE DEF w
  <2>. QED BY <2>3, <2>4, <2>5, <2>6, <2>7, Zenon
<1>. QED BY <1>4, <1>5

----------------------------------------------------------------------------
(* The steps. *)

LEMMA ClearStep ==
  ASSUME DegradationAssumption, Clear
  PROVE  /\ count' = 0 /\ level' = 0 /\ last' = 0 /\ until' = 0 /\ next' = 0
         /\ successes' = 0 /\ episodes' = <<>>
         /\ episodes' \in Seq(Episode) /\ level' \in 0..MaxLevel
         /\ EpisodeInv' /\ EpisodesDistinct' /\ RecoveryProgress'
<1>1. episodes' \in Seq(Episode) /\ level' \in 0..MaxLevel
  BY EmptyInSeq DEF Clear, DegradationAssumption
<1>. QED BY <1>1 DEF Clear, EpisodeInv, EpisodesDistinct, RecoveryProgress

LEMMA ClearKeepsIInv ==
  ASSUME DegradationAssumption, TypeOK, StampInv, Clear,
         UNCHANGED <<now, stamp>>, lastTick' \in Nat \ {0}
  PROVE  IInv'
<1>1. TypeOK'
  BY ClearStep DEF TypeOK
<1>2. StampInv'
  BY DEF StampInv
<1>. QED BY <1>1, <1>2, ClearStep DEF IInv

LEMMA AcceptStep ==
  ASSUME DegradationAssumption, TypeOK, EpisodeInv, EpisodesDistinct,
         NEW t \in [at : Nat, until : Nat], t.at > 0, t.until > 0,
         ~IsDuplicate(t), Accept(t)
  PROVE  /\ count' \in Nat /\ level' \in 0..MaxLevel /\ last' \in Nat
         /\ until' \in Nat /\ next' \in Nat /\ successes' \in Nat
         /\ episodes' \in Seq(Episode)
         /\ EpisodeInv' /\ EpisodesDistinct' /\ RecoveryProgress'
<1>. DEFINE e   == [at |-> t.at, until |-> t.until, level |-> level']
            old == IF Expired(t) THEN <<>> ELSE episodes
            n   == IF Expired(t) THEN 1 ELSE count + 1
<1>1. /\ count' = n /\ last' = t.at /\ until' = t.until /\ successes' = 0
      /\ episodes' = Append(old, e)
      /\ level' = IF n > 1 /\ (IF Expired(t) THEN 0 ELSE level) < MaxLevel
                  THEN (IF Expired(t) THEN 0 ELSE level) + 1
                  ELSE (IF Expired(t) THEN 0 ELSE level)
      /\ next' = IF n > 1 THEN t.at + Recovery
                 ELSE IF Expired(t) THEN 0 ELSE next
  BY DEF Accept
<1>2. n \in Nat \ {0} /\ Len(old) = n - 1 /\ old \in Seq(Episode)
  BY DEF TypeOK, EpisodeInv
<1>3. level' \in 0..MaxLevel /\ next' \in Nat
  BY <1>1, <1>2 DEF TypeOK, DegradationAssumption
<1>4. e \in Episode
  BY <1>3 DEF Episode
<1>5. /\ episodes' \in Seq(Episode) /\ Len(episodes') = n
      /\ episodes'[n] = e
      /\ \A i \in 1..n - 1 : episodes'[i] = old[i]
  BY <1>1, <1>2, <1>4
<1>6. n = 1 => level' = 0
  BY <1>1, <1>2 DEF TypeOK, EpisodeInv
<1>7. EpisodeInv'
  BY <1>1, <1>2, <1>5, <1>6 DEF EpisodeInv
<1>8. EpisodesDistinct'
  <2>1. ASSUME NEW i \in 1..n - 1
        PROVE  /\ episodes'[i + 1].at > episodes'[i].until
               /\ episodes'[i + 1].at - episodes'[i].at <= Observation
    <3>1. CASE i < n - 1
      <4>1. ~Expired(t) /\ old = episodes /\ n = count + 1
        BY <1>2, <2>1, <3>1
      <4>2. i \in 1..n - 1 /\ i + 1 \in 1..n - 1 /\ i \in 1..count - 1
        BY <1>2, <2>1, <3>1, <4>1 DEF TypeOK
      <4>3. episodes'[i] = episodes[i] /\ episodes'[i + 1] = episodes[i + 1]
        BY <1>5, <4>1, <4>2
      <4>. QED BY <4>2, <4>3 DEF EpisodesDistinct
    <3>2. CASE i = n - 1
      <4>1. ~Expired(t) /\ old = episodes /\ n = count + 1 /\ i = count
        BY <1>2, <2>1, <3>2 DEF TypeOK
      <4>2. episodes'[i + 1] = e /\ episodes'[i] = episodes[count] /\ count > 0
        BY <1>2, <1>5, <2>1, <3>2, <4>1 DEF TypeOK
      <4>3. /\ t.at > episodes[count].until
            /\ t.at - episodes[count].at <= Observation
        BY <4>1, <4>2 DEF IsDuplicate, Expired, EpisodeInv, TypeOK,
           DegradationAssumption
      <4>. QED BY <4>2, <4>3
    <3>. QED BY <1>2, <2>1, <3>1, <3>2
  <2>. QED BY <1>1, <1>5, <2>1 DEF EpisodesDistinct
<1>9. RecoveryProgress'
  <2>1. SUFFICES ASSUME level' > 0
                 PROVE  /\ next' = last' + 1 * Recovery
                        /\ level' + successes' + (1 - 1) = episodes'[count'].level
    BY DEF RecoveryProgress, DegradationAssumption
  <2>2. n > 1
    BY <1>2, <1>3, <1>6, <2>1
  <2>. QED BY <1>1, <1>3, <1>5, <2>2 DEF DegradationAssumption
<1>. QED BY <1>1, <1>2, <1>3, <1>5, <1>7, <1>8, <1>9 DEF TypeOK

LEMMA InitIInv ==
  ASSUME DegradationAssumption, Init
  PROVE  IInv
BY DEF Init, IInv, TypeOK, StampInv, EpisodeInv, EpisodesDistinct,
       RecoveryProgress, NoStamp, DegradationAssumption

LEMMA NextIInv ==
  ASSUME DegradationAssumption, IInv, [Next]_vars
  PROVE  IInv'
<1>. USE DEF IInv
<1>1. CASE Tick
  BY <1>1 DEF Tick, degradation, TypeOK, StampInv, EpisodeInv, EpisodesDistinct,
     RecoveryProgress
<1>2. ASSUME NEW r \in Reporters, Stamp(r)
      PROVE  IInv'
  <2>1. PICK c \in Cooldowns :
          stamp' = [stamp EXCEPT ![r] = [at |-> now, until |-> now + c]]
    BY <1>2 DEF Stamp
  <2>2. now > 0 /\ now + c > 0 /\ now \in Nat /\ now + c \in Nat
    BY DEF TypeOK, DegradationAssumption
  <2>3. TypeOK'
    BY <1>2, <2>1, <2>2 DEF Stamp, degradation, TypeOK
  <2>4. StampInv'
    BY <2>1, <2>2 DEF StampInv, TypeOK
  <2>. QED BY <1>2, <2>3, <2>4 DEF Stamp, degradation, EpisodeInv,
               EpisodesDistinct, RecoveryProgress
<1>3. ASSUME NEW r \in Reporters, RecordEpisode(r)
      PROVE  IInv'
  <2>1. /\ UNCHANGED <<now, lastTick>>
        /\ stamp' = [stamp EXCEPT ![r] = NoStamp]
        /\ stamp[r] \in [at : Nat, until : Nat]
        /\ stamp[r].at > 0 /\ stamp[r].until > 0
    BY <1>3 DEF RecordEpisode, TypeOK, StampInv
  <2>2. /\ StampInv'
        /\ stamp' \in [Reporters -> [at : Nat, until : Nat]]
    BY <2>1 DEF StampInv, TypeOK, NoStamp
  <2>3. CASE UNCHANGED degradation
    BY <2>1, <2>2, <2>3 DEF degradation, TypeOK, EpisodeInv, EpisodesDistinct,
       RecoveryProgress
  <2>4. CASE ~IsDuplicate(stamp[r]) /\ Accept(stamp[r])
    BY <2>1, <2>2, <2>4, AcceptStep DEF TypeOK
  <2>. QED BY <1>3, <2>3, <2>4 DEF RecordEpisode
<1>4. CASE RecordSuccess
  <2>1. CASE Clear
    BY <1>4, <2>1, ClearKeepsIInv DEF RecordSuccess, TypeOK
  <2>2. CASE /\ DecayedLevel > 1
             /\ level' = DecayedLevel - 1
             /\ successes' = successes + 1
             /\ next' = IF DecayedNext = 0 THEN now + Recovery ELSE DecayedNext
             /\ UNCHANGED <<count, last, until, episodes>>
    <3>1. /\ DecayedLevel \in 1..level /\ DecayedNext \in Nat
          /\ \E k \in 1..MaxLevel :
               /\ DecayedNext = last + k * Recovery
               /\ DecayedLevel + successes + (k - 1) = episodes[count].level
      BY <2>2, WindowsPositive, DecayKeepsProgress DEF DecayedLevel, TypeOK
    <3>2. PICK k \in 1..MaxLevel :
            /\ DecayedNext = last + k * Recovery
            /\ DecayedLevel + successes + (k - 1) = episodes[count].level
      BY <3>1
    <3>3. k * Recovery > 0
      BY DEF DegradationAssumption
    <3>4. next' = DecayedNext
      <4>1. last \in Nat
        BY DEF TypeOK
      <4>2. DecayedNext > 0
        BY <3>2, <3>3, <4>1
      <4>. QED BY <2>2, <4>2
    <3>5. level' \in 1..MaxLevel /\ count > 0
      BY <2>2, <3>1 DEF TypeOK, EpisodeInv
    <3>6. RecoveryProgress'
      <4>1. level' + successes' + (k - 1) = episodes'[count'].level
        <5>1. /\ level' = DecayedLevel - 1 /\ successes' = successes + 1
              /\ episodes'[count'].level = episodes[count].level
          BY <2>2
        <5>2. DecayedLevel \in Nat /\ successes \in Nat /\ k \in Nat
          BY <3>1 DEF TypeOK
        <5>3. DecayedLevel + successes + (k - 1) = episodes[count].level
          BY <3>2
        <5>4. (DecayedLevel - 1) + (successes + 1) + (k - 1)
                = DecayedLevel + successes + (k - 1)
          BY <5>2
        <5>. QED BY <5>1, <5>3, <5>4
      <4>. QED BY <2>2, <3>2, <3>4, <4>1 DEF RecoveryProgress
    <3>7. TypeOK' /\ StampInv'
      BY <1>4, <2>2, <3>1, <3>4, <3>5 DEF RecordSuccess, TypeOK, StampInv
    <3>. QED BY <2>2, <3>5, <3>6, <3>7 DEF EpisodeInv, EpisodesDistinct
  <2>. QED BY <1>4, <2>1, <2>2 DEF RecordSuccess
<1>5. CASE DecayRateLimitScores
  <2>1. CASE UNCHANGED degradation
    BY <1>5, <2>1 DEF DecayRateLimitScores, degradation, TypeOK, StampInv,
       EpisodeInv, EpisodesDistinct, RecoveryProgress
  <2>2. CASE Clear
    <3>1. UNCHANGED <<now, stamp>> /\ lastTick' = now
      BY <1>5 DEF DecayRateLimitScores
    <3>. QED BY <2>2, <3>1, ClearKeepsIInv DEF TypeOK
  <2>3. CASE /\ DecayedLevel > 0
             /\ level' = DecayedLevel /\ next' = DecayedNext
             /\ UNCHANGED <<count, last, until, successes, episodes>>
    <3>1. /\ DecayedLevel \in 1..level /\ DecayedNext \in Nat
          /\ \E k \in 1..MaxLevel :
               /\ DecayedNext = last + k * Recovery
               /\ DecayedLevel + successes + (k - 1) = episodes[count].level
      BY <2>3, DecayKeepsProgress
    <3>2. RecoveryProgress'
      BY <2>3, <3>1 DEF RecoveryProgress
    <3>3. TypeOK' /\ StampInv'
      BY <1>5, <2>3, <3>1 DEF DecayRateLimitScores, TypeOK, StampInv
    <3>4. count > 0
      BY <3>1 DEF EpisodeInv, TypeOK
    <3>. QED BY <2>3, <3>2, <3>3, <3>4 DEF EpisodeInv, EpisodesDistinct
  <2>. QED BY <1>5, <2>1, <2>2, <2>3 DEF DecayRateLimitScores
<1>6. CASE Reset
  BY <1>6, ClearKeepsIInv DEF Reset, TypeOK
<1>7. CASE UNCHANGED vars
  BY <1>7 DEF vars, degradation, TypeOK, StampInv, EpisodeInv, EpisodesDistinct,
     RecoveryProgress
<1>. QED BY <1>1, <1>2, <1>3, <1>4, <1>5, <1>6, <1>7 DEF Next

THEOREM Invariance == Spec => []IInv
<1>1. Init => IInv
  BY InitIInv, DegradationAssumption
<1>2. IInv /\ [Next]_vars => IInv'
  BY NextIInv, DegradationAssumption
<1>. QED BY <1>1, <1>2, PTL DEF Spec

\* The design's rules 1 to 4, for any interleaving of any number of delayed
\* reports: two counted episodes are always separated by a cooldown and never
\* further apart than the observation window.
THEOREM EpisodesAreDistinct == Spec => []EpisodesDistinct
<1>1. IInv => EpisodesDistinct
  BY DEF IInv
<1>. QED BY <1>1, Invariance, PTL

\* However late and however often the ticker fires, each elapsed recovery
\* interval and each success takes exactly one level off.
THEOREM RecoveryIsExact == Spec => []RecoveryProgress
<1>1. IInv => RecoveryProgress
  BY DEF IInv
<1>. QED BY <1>1, Invariance, PTL

----------------------------------------------------------------------------
(* How long a quiet deployment stays degraded. *)

\* A running ticker has fired within DecayPeriod, a waiting report is at most StampLag
\* old, and the ticker has left no recovery that was due.
TickInv ==
  /\ lastTick <= now /\ now - lastTick <= DecayPeriod
  /\ \A r \in Reporters :
       stamp[r] # NoStamp => stamp[r].at <= now /\ now <= stamp[r].at + StampLag
  /\ level > 0 => next > lastTick

\* The next recovery after taking off the elapsed intervals lies ahead.
LEMMA Division ==
  ASSUME NEW d \in Nat, NEW R \in Nat \ {0}
  PROVE  d \div R \in Nat /\ d < (d \div R) * R + R
<1>1. d \div R \in Nat
  OBVIOUS
<1>2. d = R * (d \div R) + (d % R) /\ d % R \in 0 .. R - 1
  OBVIOUS
<1>3. R * (d \div R) = (d \div R) * R /\ (d \div R) * R \in Nat
  BY <1>1
<1>. QED BY <1>1, <1>2, <1>3

LEMMA PastTheElapsed ==
  ASSUME NEW n \in Nat, NEW t \in Nat, t >= n, NEW R \in Nat \ {0}
  PROVE  n + ((t - n) \div R + 1) * R > t
<1>. DEFINE q == (t - n) \div R
<1>1. t - n \in Nat
  OBVIOUS
<1>2. q \in Nat /\ t - n < q * R + R
  BY <1>1, Division
<1>. HIDE DEF q
<1>3. (q + 1) * R = q * R + R /\ q * R \in Nat
  BY <1>2
<1>4. n + (q + 1) * R > t
  BY <1>2, <1>3
<1>. QED BY <1>4 DEF q

LEMMA DecayedIsAhead ==
  ASSUME DegradationAssumption, TypeOK, RecoveryProgress, EpisodeInv, TickInv,
         DecayedLevel > 0
  PROVE  DecayedNext > lastTick /\ (DecayDue => DecayedNext > now) /\ level > 0
         /\ (~DecayDue => now < next)
<1>1. level > 0 /\ level \in Nat
  BY WindowsPositive DEF DecayedLevel, TypeOK, DecayDue
<1>2. PICK k \in 1..MaxLevel : next = last + k * Recovery
  BY <1>1 DEF RecoveryProgress
<1>3. k * Recovery > 0 /\ k * Recovery \in Nat
  BY DEF DegradationAssumption
<1>4. next > 0
  BY <1>2, <1>3 DEF TypeOK
<1>5. DecayDue => DecayedNext > now
  <2>1. SUFFICES ASSUME DecayDue PROVE DecayedNext > now
    OBVIOUS
  <2>2. next \in Nat /\ now \in Nat /\ now >= next /\ Recovery \in Nat \ {0}
    BY <2>1 DEF DecayDue, TypeOK, DegradationAssumption
  <2>3. next + ((now - next) \div Recovery + 1) * Recovery > now
    BY <2>2, PastTheElapsed
  <2>. QED BY <2>1, <2>3 DEF DecayedNext, ElapsedWindows
<1>6. ~DecayDue => DecayedNext = next /\ now < next
  BY <1>1, <1>4 DEF DecayedNext, DecayDue, TypeOK
<1>7. DecayedNext \in Nat
  BY DecayKeepsProgress
<1>. QED BY <1>1, <1>5, <1>6, <1>7 DEF TickInv, TypeOK

LEMMA NextTickInv ==
  ASSUME DegradationAssumption, Maintained, StampLag < Recovery,
         IInv, TickInv, [Next]_vars
  PROVE  TickInv'
<1>. USE DEF IInv
<1>1. CASE Tick
  BY <1>1 DEF Tick, degradation, TypeOK, TickInv, DegradationAssumption
<1>2. ASSUME NEW r \in Reporters, Stamp(r)
      PROVE  TickInv'
  BY <1>2 DEF Stamp, degradation, TypeOK, TickInv, DegradationAssumption
<1>3. ASSUME NEW r \in Reporters, RecordEpisode(r)
      PROVE  TickInv'
  <2>1. /\ UNCHANGED <<now, lastTick>>
        /\ stamp' = [stamp EXCEPT ![r] = NoStamp]
        /\ stamp[r].at \in Nat /\ stamp[r].at <= now /\ now <= stamp[r].at + StampLag
    BY <1>3 DEF RecordEpisode, TypeOK, TickInv
  <2>2. \A q \in Reporters :
          stamp'[q] # NoStamp => stamp'[q].at <= now' /\ now' <= stamp'[q].at + StampLag
    BY <2>1 DEF TypeOK, TickInv
  <2>3. CASE UNCHANGED degradation
    BY <2>1, <2>2, <2>3 DEF degradation, TickInv
  <2>4. CASE Accept(stamp[r])
    <3>1. level' > 0 => next' = stamp[r].at + Recovery
      BY <2>4 DEF Accept, TypeOK, EpisodeInv, DegradationAssumption
    <3>2. stamp[r].at + Recovery > lastTick
      BY <2>1 DEF TypeOK, TickInv, DegradationAssumption
    <3>. QED BY <2>1, <2>2, <3>1, <3>2 DEF TickInv
  <2>. QED BY <1>3, <2>3, <2>4 DEF RecordEpisode
<1>4. CASE RecordSuccess
  <2>1. UNCHANGED <<now, lastTick, stamp>>
    BY <1>4 DEF RecordSuccess
  <2>2. CASE Clear
    BY <2>1, <2>2 DEF Clear, TickInv
  <2>3. CASE /\ DecayedLevel > 1
             /\ next' = IF DecayedNext = 0 THEN now + Recovery ELSE DecayedNext
    <3>1. DecayedNext > lastTick /\ DecayedNext \in Nat
      BY <2>3, WindowsPositive, DecayedIsAhead, DecayKeepsProgress
         DEF DecayedLevel, TypeOK
    <3>2. next' > lastTick
      BY <2>3, <3>1 DEF TypeOK
    <3>. QED BY <2>1, <3>2 DEF TickInv
  <2>. QED BY <1>4, <2>2, <2>3 DEF RecordSuccess
<1>5. CASE DecayRateLimitScores
  <2>1. lastTick' = now /\ UNCHANGED <<now, stamp>>
    BY <1>5 DEF DecayRateLimitScores
  <2>2. CASE ~DecayDue /\ UNCHANGED degradation
    <3>1. level > 0 => now < next
      BY <2>2, DecayedIsAhead DEF DecayedLevel
    <3>. QED BY <2>1, <2>2, <3>1 DEF degradation, TickInv, TypeOK, DegradationAssumption
  <2>3. CASE Clear
    BY <2>1, <2>3 DEF Clear, TickInv, TypeOK, DegradationAssumption
  <2>4. CASE DecayDue /\ DecayedLevel > 0 /\ next' = DecayedNext
    BY <2>1, <2>4, DecayedIsAhead DEF TickInv, TypeOK, DegradationAssumption
  <2>. QED BY <1>5, <2>2, <2>3, <2>4 DEF DecayRateLimitScores
<1>6. CASE Reset
  BY <1>6 DEF Reset, Clear, TickInv
<1>7. CASE UNCHANGED vars
  BY <1>7 DEF vars, degradation, TickInv
<1>. QED BY <1>1, <1>2, <1>3, <1>4, <1>5, <1>6, <1>7 DEF Next

\* A recovery that is n intervals after the last report leaves at most MaxLevel + 1 - n.
LEMMA QuietArithmetic ==
  ASSUME NEW t \in Nat, NEW l \in Nat, NEW n \in Nat, NEW k \in Nat, NEW m \in Nat,
         NEW R \in Nat, NEW d \in Nat, n + k <= m + 1, t < l + n * R + d
  PROVE  t - l < (m - k + 1) * R + d
<1>1. PICK j \in Nat : m - k + 1 = n + j
  <2>1. m - k + 1 - n \in Nat
    OBVIOUS
  <2>. QED BY <2>1
<1>2. (n + j) * R = n * R + j * R /\ n * R \in Nat /\ j * R \in Nat
  OBVIOUS
<1>. QED BY <1>1, <1>2

\* While the ticker of the health checker runs and no report waits for runtimeStatesMu
\* as long as a recovery interval, each interval without an accepted episode takes a
\* level off, at the latest when the ticker next fires, however late it does.
THEOREM QuietDeploymentsRecover ==
  ASSUME Maintained, StampLag < Recovery
  PROVE  Spec => []QuietRecovery
<1>1. Init => TickInv
  BY DegradationAssumption DEF Init, TickInv, NoStamp, DegradationAssumption
<1>2. IInv /\ TickInv /\ [Next]_vars => TickInv'
  BY NextTickInv, DegradationAssumption
<1>3. IInv /\ TickInv => QuietRecovery
  <2>1. SUFFICES ASSUME IInv, TickInv, NEW k \in 1..MaxLevel, level = k
                 PROVE  now - last < (MaxLevel - k + 1) * Recovery + DecayPeriod
    BY DEF QuietRecovery
  <2>2. PICK n \in 1..MaxLevel : /\ next = last + n * Recovery
                                 /\ k + successes + (n - 1) = episodes[count].level
    <3>1. level > 0 /\ level = k
      BY <2>1, DegradationAssumption DEF DegradationAssumption
    <3>2. \E n \in 1..MaxLevel : /\ next = last + n * Recovery
                                 /\ level + successes + (n - 1) = episodes[count].level
      BY <2>1, <3>1, Zenon DEF IInv, RecoveryProgress
    <3>. QED BY <3>1, <3>2, Zenon
  <2>. USE DegradationAssumption DEF DegradationAssumption
  <2>3. episodes[count].level \in 0..MaxLevel
    <3>1. count \in 1..Len(episodes) /\ episodes \in Seq(Episode)
      BY <2>1 DEF IInv, TypeOK, EpisodeInv
    <3>2. episodes[count] \in Episode
      BY <3>1, ElementOfSeq
    <3>. QED BY <3>2 DEF Episode
  <2>4. n + k <= MaxLevel + 1
    BY <2>1, <2>2, <2>3 DEF IInv, TypeOK
  <2>5. next > lastTick /\ now <= lastTick + DecayPeriod
    BY <2>1 DEF IInv, TickInv, TypeOK
  <2>6. n * Recovery \in Nat
    OBVIOUS
  <2>7. now < last + n * Recovery + DecayPeriod
    BY <2>1, <2>2, <2>5, <2>6 DEF IInv, TypeOK
  <2>8. now \in Nat /\ last \in Nat /\ n \in Nat /\ k \in Nat
    BY <2>1 DEF IInv, TypeOK
  <2>. QED BY <2>4, <2>7, <2>8, QuietArithmetic
<1>. QED BY <1>1, <1>2, <1>3, Invariance, PTL DEF Spec
----------------------------------------------------------------------------
(* The run-time state of a model. *)

CallType == [op : Ops, at : 0..clock, until : Nat, seen : Nat]

\* A call that waits has not waited longer than the bound, and a 429 gives an end
\* that lies one of the lengths after the time it read.
CallTimes ==
  \A w \in Workers :
    /\ Waiting(w) => clock <= call[w].at + RuntimeLag
    /\ call[w].op = "limit" => \E e \in Durations : call[w].until = call[w].at + e

\* What is promised ends one length from now at the latest, and it is kept up to the
\* wait and the difference of two lengths, counted from the end of the cooldown or
\* from now, whichever is later.
PromiseKept ==
  promised # 0 =>
    /\ \E d \in Durations : promised <= clock + d
    /\ \E d, e \in Durations :
          promised <= Later(cooldownUntil, clock) + (RuntimeLag + d - e)

RuntimeInv == RuntimeTypeOK /\ CallTimes /\ PromiseKept

----------------------------------------------------------------------------
(* Lemmas. *)

LEMMA LengthsAreNumbers ==
  ASSUME RuntimeAssumption
  PROVE  /\ \A d \in Durations : d \in Nat /\ d > 0
         /\ RuntimeLag \in Nat /\ FPDuration \in Nat
BY DEF RuntimeAssumption

LEMMA CallFields ==
  ASSUME RuntimeTypeOK, NEW w \in Workers
  PROVE  /\ call[w] \in CallType
         /\ call[w].at \in 0..clock /\ call[w].at \in Nat /\ call[w].at <= clock
         /\ call[w].until \in Nat /\ call[w].seen \in Nat
BY DEF RuntimeTypeOK, CallType

LEMMA NoCallIsACall ==
  ASSUME RuntimeTypeOK
  PROVE  NoCall \in CallType
BY DEF RuntimeTypeOK, CallType, NoCall, Ops

LEMMA StartedIsACall ==
  ASSUME RuntimeTypeOK, NEW op \in Ops, NEW u \in Nat, NEW n \in Nat
  PROVE  /\ Started(op, u, n) \in CallType /\ Started(op, u, n).op = op
         /\ Started(op, u, n).at = clock /\ Started(op, u, n).until = u
<1>1. clock \in 0..clock
  BY DEF RuntimeTypeOK
<1>. QED BY <1>1 DEF Started, CallType

\* A goroutine goes on to another call.
LEMMA CallReplaced ==
  ASSUME RuntimeInv, NEW w \in Workers, NEW c \in CallType, UNCHANGED clock,
         call' = [call EXCEPT ![w] = c],
         c.op \in Stamped => clock <= c.at + RuntimeLag,
         c.op = "limit" => \E e \in Durations : c.until = c.at + e
  PROVE  call' \in [Workers -> CallType'] /\ CallTimes'
<1>1. call \in [Workers -> CallType] /\ CallType' = CallType
  BY DEF RuntimeInv, RuntimeTypeOK, CallType
<1>2. call' \in [Workers -> CallType']
  BY <1>1
<1>3. ASSUME NEW v \in Workers
      PROVE  /\ Waiting(v)' => clock' <= call'[v].at + RuntimeLag
             /\ call'[v].op = "limit" => \E e \in Durations : call'[v].until = call'[v].at + e
  <2>1. CASE v = w
    <3>1. call'[v] = c
      BY <1>1, <2>1
    <3>. QED BY <3>1 DEF Waiting
  <2>2. CASE v # w
    <3>1. call'[v] = call[v]
      BY <1>1, <2>2
    <3>. QED BY <3>1 DEF Waiting, RuntimeInv, CallTimes
  <2>. QED BY <2>1, <2>2
<1>. QED BY <1>2, <1>3 DEF CallTimes

LEMMA Returned ==
  ASSUME RuntimeInv, NEW w \in Workers, UNCHANGED clock, Return(w)
  PROVE  call' \in [Workers -> CallType'] /\ CallTimes'
<1>1. NoCall \in CallType /\ NoCall.op = "none"
  BY NoCallIsACall DEF RuntimeInv, NoCall
<1>2. "none" \notin Stamped
  BY DEF Stamped
<1>. QED BY <1>1, <1>2, CallReplaced DEF Return

LEMMA TypeOfParts ==
  ASSUME RuntimeTypeOK, clock' \in Nat \ {0}, clock' >= clock,
         cooldownUntil' \in Nat, promised' \in Nat,
         limitedAt' \in 0..clock, successAt' \in 0..clock,
         falsePositive' \in [mark : Nat, expires : Nat], marked' \in Nat,
         call' \in [Workers -> CallType']
  PROVE  RuntimeTypeOK'
<1>1. limitedAt' \in 0..clock' /\ successAt' \in 0..clock'
  BY DEF RuntimeTypeOK
<1>. QED BY <1>1 DEF RuntimeTypeOK, CallType

LEMMA LaterClock ==
  ASSUME NEW p \in Nat, NEW c \in Nat, NEW n \in Nat, n >= c
  PROVE  /\ \A d \in Nat : p <= c + d => p <= n + d
         /\ \A u \in Nat, lag \in Nat, f \in Nat, e \in Nat :
               p <= Later(u, c) + (lag + f - e) => p <= Later(u, n) + (lag + f - e)
BY DEF Later

\* The promise is kept when neither it nor the cooldown changes, the clock may.
LEMMA PromiseStays ==
  ASSUME RuntimeAssumption, RuntimeTypeOK, PromiseKept, UNCHANGED <<promised, cooldownUntil>>,
         clock' \in Nat, clock' >= clock
  PROVE  PromiseKept'
<1>1. SUFFICES ASSUME promised # 0
               PROVE  /\ \E d \in Durations : promised <= clock' + d
                      /\ \E d, e \in Durations :
                           promised <= Later(cooldownUntil, clock') + (RuntimeLag + d - e)
  BY DEF PromiseKept, Later
<1>2. PICK d \in Durations : promised <= clock + d
  BY <1>1 DEF PromiseKept
<1>3. PICK f \in Durations, e \in Durations :
        promised <= Later(cooldownUntil, clock) + (RuntimeLag + f - e)
  BY <1>1 DEF PromiseKept
<1>4. /\ clock \in Nat /\ cooldownUntil \in Nat /\ promised \in Nat
      /\ d \in Nat /\ e \in Nat /\ f \in Nat /\ RuntimeLag \in Nat
  BY LengthsAreNumbers DEF RuntimeTypeOK
<1>5. promised <= clock' + d
  BY <1>2, <1>4, LaterClock
<1>6. promised <= Later(cooldownUntil, clock') + (RuntimeLag + f - e)
  BY <1>3, <1>4, LaterClock
<1>. QED BY <1>5, <1>6

----------------------------------------------------------------------------
(* The steps. *)

LEMMA TickStep ==
  ASSUME RuntimeAssumption, RuntimeInv, RuntimeTick
  PROVE  RuntimeInv'
<1>1. /\ clock \in Nat /\ clock' = clock + 1 /\ clock' \in Nat \ {0} /\ clock' >= clock
      /\ UNCHANGED <<entryVars, markVars, call>>
  BY DEF RuntimeTick, RuntimeInv, RuntimeTypeOK
<1>2. call' \in [Workers -> CallType']
  BY <1>1 DEF RuntimeInv, RuntimeTypeOK, CallType
<1>3. RuntimeTypeOK'
  BY <1>1, <1>2, TypeOfParts DEF RuntimeInv, RuntimeTypeOK, entryVars, markVars
<1>4. CallTimes'
  <2>1. ASSUME NEW w \in Workers, Waiting(w)
        PROVE  clock' <= call[w].at + RuntimeLag
    <3>1. clock < call[w].at + RuntimeLag
      BY <2>1 DEF RuntimeTick
    <3>2. call[w].at \in Nat /\ RuntimeLag \in Nat
      BY CallFields, LengthsAreNumbers DEF RuntimeInv
    <3>. QED BY <1>1, <3>1, <3>2
  <2>. QED BY <1>1, <2>1 DEF RuntimeInv, CallTimes, Waiting
<1>5. PromiseKept'
  BY <1>1, PromiseStays DEF RuntimeInv, entryVars
<1>. QED BY <1>3, <1>4, <1>5 DEF RuntimeInv

LEMMA CallStep ==
  ASSUME RuntimeAssumption, RuntimeInv, NEW w \in Workers, Call(w)
  PROVE  RuntimeInv'
<1>1. clock \in Nat \ {0} /\ marked \in Nat /\ RuntimeLag \in Nat
  BY LengthsAreNumbers DEF RuntimeInv, RuntimeTypeOK
<1>2. PICK c \in CallType :
        /\ call' = [call EXCEPT ![w] = c] /\ c.at = clock
        /\ c.op = "limit" => \E e \in Durations : c.until = c.at + e
  <2>1. /\ {"success", "check", "snapshot", "reset", "limit", "mark"} \subseteq Ops
        /\ 0 \in Nat /\ marked + 1 \in Nat
    BY <1>1 DEF Ops, Stamped
  <2>2. CASE \E op \in {"success", "check", "snapshot", "reset"} :
                call' = [call EXCEPT ![w] = Started(op, 0, 0)]
    <3>1. PICK op \in {"success", "check", "snapshot", "reset"} :
                call' = [call EXCEPT ![w] = Started(op, 0, 0)]
      BY <2>2
    <3>2. op \in Ops /\ op # "limit"
      BY <2>1
    <3>3. /\ Started(op, 0, 0) \in CallType /\ Started(op, 0, 0).op = op
          /\ Started(op, 0, 0).at = clock
      BY <3>2, <2>1, StartedIsACall DEF RuntimeInv
    <3>. QED BY <3>1, <3>2, <3>3
  <2>3. CASE \E d \in Durations : call' = [call EXCEPT ![w] = Started("limit", clock + d, 0)]
    <3>1. PICK d \in Durations : call' = [call EXCEPT ![w] = Started("limit", clock + d, 0)]
      BY <2>3
    <3>2. clock + d \in Nat
      BY <1>1, LengthsAreNumbers
    <3>3. /\ Started("limit", clock + d, 0) \in CallType
          /\ Started("limit", clock + d, 0).at = clock
          /\ Started("limit", clock + d, 0).until = clock + d
      BY <3>2, <2>1, StartedIsACall DEF RuntimeInv
    <3>. QED BY <3>1, <3>3
  <2>4. CASE call' = [call EXCEPT ![w] = Started("mark", 0, marked + 1)]
    <3>1. /\ Started("mark", 0, marked + 1) \in CallType
          /\ Started("mark", 0, marked + 1).op = "mark"
          /\ Started("mark", 0, marked + 1).at = clock
      BY <2>1, StartedIsACall DEF RuntimeInv
    <3>. QED BY <2>4, <3>1
  <2>. QED BY <2>2, <2>3, <2>4 DEF Call
<1>3. UNCHANGED <<clock, entryVars, falsePositive>>
  BY DEF Call
<1>3a. marked' \in Nat
  <2>1. marked' = marked \/ marked' = marked + 1
    BY DEF Call
  <2>. QED BY <1>1, <2>1
<1>4. call' \in [Workers -> CallType'] /\ CallTimes'
  <2>1. clock <= c.at + RuntimeLag /\ UNCHANGED clock
    BY <1>1, <1>2, <1>3
  <2>. QED BY <1>2, <2>1, CallReplaced
<1>5. RuntimeTypeOK'
  BY <1>1, <1>3, <1>3a, <1>4, TypeOfParts DEF RuntimeInv, RuntimeTypeOK, entryVars
<1>6. PromiseKept'
  BY <1>1, <1>3, PromiseStays DEF RuntimeInv, entryVars
<1>. QED BY <1>4, <1>5, <1>6 DEF RuntimeInv

LEMMA LimitStep ==
  ASSUME RuntimeAssumption, RuntimeInv, NEW w \in Workers, MarkFreeProviderModelRateLimited(w)
  PROVE  RuntimeInv'
<1>1. /\ call[w].op = "limit" /\ Return(w)
      /\ cooldownUntil' = call[w].until /\ limitedAt' = call[w].at
      /\ promised' = Later(promised, call[w].until)
      /\ UNCHANGED <<clock, successAt, markVars>>
  BY DEF MarkFreeProviderModelRateLimited
<1>2. PICK e \in Durations : call[w].until = call[w].at + e
  BY <1>1 DEF RuntimeInv, CallTimes
<1>3. clock <= call[w].at + RuntimeLag
  BY <1>1 DEF RuntimeInv, CallTimes, Waiting, Stamped
<1>4. /\ call[w].at \in Nat /\ call[w].at <= clock /\ call[w].until \in Nat
      /\ call[w].at \in 0..clock
      /\ clock \in Nat \ {0} /\ promised \in Nat /\ RuntimeLag \in Nat
      /\ e \in Nat /\ e > 0
  BY CallFields, LengthsAreNumbers DEF RuntimeInv, RuntimeTypeOK
<1>5. call' \in [Workers -> CallType'] /\ CallTimes'
  BY <1>1, Returned
<1>6. RuntimeTypeOK'
  BY <1>1, <1>4, <1>5, TypeOfParts DEF RuntimeInv, RuntimeTypeOK, markVars, Later
<1>7. PromiseKept'
  <2>1. CASE promised <= call[w].until
    <3>1. promised' = call[w].until
      BY <1>1, <1>4, <2>1 DEF Later
    <3>2. promised' <= clock' + e
      BY <1>1, <1>2, <1>4, <3>1
    <3>3. promised' <= Later(cooldownUntil', clock') + (RuntimeLag + e - e)
      BY <1>1, <1>4, <3>1 DEF Later
    <3>4. Later(cooldownUntil, clock)' = Later(cooldownUntil', clock')
      BY DEF Later
    <3>. QED BY <3>2, <3>3, <3>4 DEF PromiseKept
  <2>2. CASE promised > call[w].until
    <3>1. promised' = promised /\ promised # 0
      BY <1>1, <1>4, <2>2 DEF Later
    <3>2. PICK d \in Durations : promised <= clock + d
      BY <3>1 DEF RuntimeInv, PromiseKept
    <3>3. d \in Nat
      BY LengthsAreNumbers
    <3>4. promised' <= clock' + d
      BY <1>1, <3>1, <3>2
    <3>5. promised' <= Later(cooldownUntil', clock') + (RuntimeLag + d - e)
      BY <1>1, <1>2, <1>3, <1>4, <3>1, <3>2, <3>3 DEF Later
    <3>6. Later(cooldownUntil, clock)' = Later(cooldownUntil', clock')
      BY DEF Later
    <3>. QED BY <3>4, <3>5, <3>6 DEF PromiseKept
  <2>. QED BY <1>4, <2>1, <2>2
<1>. QED BY <1>5, <1>6, <1>7 DEF RuntimeInv

LEMMA SuccessStep ==
  ASSUME RuntimeAssumption, RuntimeInv, NEW w \in Workers, RecordFreeProviderModelSuccess(w)
  PROVE  RuntimeInv'
<1>1. /\ Return(w) /\ cooldownUntil' = 0 /\ successAt' = call[w].at /\ promised' = 0
      /\ UNCHANGED <<clock, limitedAt, markVars>>
  BY DEF RecordFreeProviderModelSuccess
<1>2. call' \in [Workers -> CallType'] /\ CallTimes'
  BY <1>1, Returned
<1>3. call[w].at \in 0..clock /\ clock \in Nat \ {0}
  BY CallFields DEF RuntimeInv, RuntimeTypeOK
<1>4. RuntimeTypeOK'
  BY <1>1, <1>2, <1>3, TypeOfParts DEF RuntimeInv, RuntimeTypeOK, markVars
<1>5. PromiseKept'
  BY <1>1 DEF PromiseKept
<1>. QED BY <1>2, <1>4, <1>5 DEF RuntimeInv

LEMMA SnapshotStep ==
  ASSUME RuntimeAssumption, RuntimeInv, NEW w \in Workers, SnapshotFreeProviderModelRuntime(w)
  PROVE  RuntimeInv'
<1>1. /\ call' = [call EXCEPT ![w] = [NoCall EXCEPT !.op = "between"]]
      /\ \/ UNCHANGED <<cooldownUntil, limitedAt>>
         \/ /\ CooldownOver(w) /\ cooldownUntil' = 0
            /\ limitedAt' = 0 \/ limitedAt' = limitedAt
      /\ UNCHANGED <<clock, successAt, promised, markVars>>
  BY DEF SnapshotFreeProviderModelRuntime
<1>2. call' \in [Workers -> CallType'] /\ CallTimes'
  <2>1. /\ [NoCall EXCEPT !.op = "between"] \in CallType
        /\ [NoCall EXCEPT !.op = "between"].op = "between"
    BY NoCallIsACall DEF RuntimeInv, NoCall, CallType, Ops
  <2>2. "between" \notin Stamped
    BY DEF Stamped
  <2>. QED BY <1>1, <2>1, <2>2, CallReplaced
<1>3. RuntimeTypeOK'
  BY <1>1, <1>2, TypeOfParts DEF RuntimeInv, RuntimeTypeOK, markVars
<1>4. PromiseKept'
  <2>1. CASE UNCHANGED cooldownUntil
    BY <1>1, <2>1, PromiseStays DEF RuntimeInv, RuntimeTypeOK
  <2>2. CASE CooldownOver(w) /\ cooldownUntil' = 0
    <3>1. cooldownUntil <= clock /\ cooldownUntil \in Nat /\ clock \in Nat
      BY <2>2, CallFields DEF CooldownOver, RuntimeInv, RuntimeTypeOK
    <3>2. Later(cooldownUntil, clock)' = Later(cooldownUntil, clock)
      BY <1>1, <2>2, <3>1 DEF Later
    <3>. QED BY <1>1, <3>2 DEF RuntimeInv, PromiseKept
  <2>. QED BY <1>1, <2>1, <2>2
<1>. QED BY <1>2, <1>3, <1>4 DEF RuntimeInv

LEMMA ClockStep ==
  ASSUME RuntimeAssumption, RuntimeInv, NEW w \in Workers, SnapshotClock(w)
  PROVE  RuntimeInv'
<1>1. /\ call' = [call EXCEPT ![w] = Started("purge", 0, 0)]
      /\ UNCHANGED <<clock, entryVars, markVars>>
  BY DEF SnapshotClock
<1>2. call' \in [Workers -> CallType'] /\ CallTimes'
  <2>1. /\ Started("purge", 0, 0) \in CallType /\ Started("purge", 0, 0).op = "purge"
        /\ Started("purge", 0, 0).at = clock
    <3>1. "purge" \in Ops /\ 0 \in Nat
      BY DEF Ops, Stamped
    <3>. QED BY <3>1, StartedIsACall DEF RuntimeInv
  <2>2. clock <= clock + RuntimeLag
    BY LengthsAreNumbers DEF RuntimeInv, RuntimeTypeOK
  <2>. QED BY <1>1, <2>1, <2>2, CallReplaced
<1>3. RuntimeTypeOK'
  BY <1>1, <1>2, TypeOfParts DEF RuntimeInv, RuntimeTypeOK, entryVars, markVars
<1>4. PromiseKept'
  BY <1>1, PromiseStays DEF RuntimeInv, RuntimeTypeOK, entryVars
<1>. QED BY <1>2, <1>3, <1>4 DEF RuntimeInv

LEMMA ResetStep ==
  ASSUME RuntimeAssumption, RuntimeInv, NEW w \in Workers, ResetFreeProviderModelRuntime(w)
  PROVE  RuntimeInv'
<1>1. /\ cooldownUntil' = 0 /\ limitedAt' = 0 /\ successAt' = 0 /\ promised' = 0
      /\ call' = [call EXCEPT ![w] = [NoCall EXCEPT !.op = "resetMark"]]
      /\ UNCHANGED <<clock, markVars>>
  BY DEF ResetFreeProviderModelRuntime
<1>2. call' \in [Workers -> CallType'] /\ CallTimes'
  <2>1. /\ [NoCall EXCEPT !.op = "resetMark"] \in CallType
        /\ [NoCall EXCEPT !.op = "resetMark"].op = "resetMark"
    BY NoCallIsACall DEF RuntimeInv, NoCall, CallType, Ops
  <2>2. "resetMark" \notin Stamped
    BY DEF Stamped
  <2>. QED BY <1>1, <2>1, <2>2, CallReplaced
<1>3. RuntimeTypeOK'
  BY <1>1, <1>2, TypeOfParts DEF RuntimeInv, RuntimeTypeOK, markVars
<1>4. PromiseKept'
  BY <1>1 DEF PromiseKept
<1>. QED BY <1>2, <1>3, <1>4 DEF RuntimeInv

\* The steps of the mark leave the entry alone.
LEMMA CapabilityKeepsInv ==
  ASSUME RuntimeAssumption, RuntimeInv, NEW w \in Workers, CapabilityStep(w)
  PROVE  RuntimeInv'
<1>1. UNCHANGED <<clock, entryVars, marked>>
  BY DEF CapabilityStep, MarkFalsePositive, CheckFalsePositive, ExpireFalsePositive,
     PurgeFalsePositive, ResetFalsePositive, markVars
<1>2. falsePositive' \in [mark : Nat, expires : Nat]
  <2>1. \/ falsePositive' = falsePositive \/ falsePositive' = NoMark
        \/ falsePositive' = [mark |-> call[w].seen, expires |-> call[w].at + FPDuration]
    BY DEF CapabilityStep, MarkFalsePositive, CheckFalsePositive, ExpireFalsePositive,
       PurgeFalsePositive, ResetFalsePositive, markVars
  <2>2. NoMark \in [mark : Nat, expires : Nat]
    BY DEF NoMark
  <2>3. [mark |-> call[w].seen, expires |-> call[w].at + FPDuration]
          \in [mark : Nat, expires : Nat]
    BY CallFields, LengthsAreNumbers DEF RuntimeInv
  <2>4. falsePositive \in [mark : Nat, expires : Nat]
    BY DEF RuntimeInv, RuntimeTypeOK
  <2>. QED BY <2>1, <2>2, <2>3, <2>4
<1>3. call' \in [Workers -> CallType'] /\ CallTimes'
  <2>1. CASE Return(w)
    BY <1>1, <2>1, Returned
  <2>2. CASE /\ CheckFalsePositive(w)
             /\ call' = [call EXCEPT ![w].op = "expire", ![w].seen = falsePositive.mark]
    <3>. DEFINE c == [call[w] EXCEPT !.op = "expire", !.seen = falsePositive.mark]
    <3>1. call[w].op = "check" /\ clock <= call[w].at + RuntimeLag
      BY <2>2 DEF CheckFalsePositive, RuntimeInv, CallTimes, Waiting, Stamped
    <3>2. falsePositive.mark \in Nat
      BY DEF RuntimeInv, RuntimeTypeOK
    <3>3. call[w] \in CallType
      BY CallFields DEF RuntimeInv
    <3>4. c \in CallType /\ c.op = "expire" /\ c.at = call[w].at
      BY <3>2, <3>3 DEF CallType, Ops, Stamped
    <3>5. call' = [call EXCEPT ![w] = c]
      BY <2>2 DEF RuntimeInv, RuntimeTypeOK
    <3>. HIDE DEF c
    <3>. QED BY <1>1, <3>1, <3>4, <3>5, CallReplaced
  <2>. QED BY <2>1, <2>2 DEF CapabilityStep, MarkFalsePositive, CheckFalsePositive,
                             ExpireFalsePositive, PurgeFalsePositive, ResetFalsePositive
<1>4. RuntimeTypeOK'
  BY <1>1, <1>2, <1>3, TypeOfParts DEF RuntimeInv, RuntimeTypeOK, entryVars
<1>5. PromiseKept'
  BY <1>1, PromiseStays DEF RuntimeInv, RuntimeTypeOK, entryVars
<1>. QED BY <1>3, <1>4, <1>5 DEF RuntimeInv

LEMMA InitRuntimeInv ==
  ASSUME RuntimeAssumption, RuntimeInit
  PROVE  RuntimeInv
<1>1. RuntimeTypeOK
  BY DEF RuntimeInit, RuntimeTypeOK, NoMark, NoCall, Ops
<1>2. CallTimes
  BY DEF RuntimeInit, CallTimes, Waiting, NoCall, Stamped
<1>3. PromiseKept
  BY DEF RuntimeInit, PromiseKept
<1>. QED BY <1>1, <1>2, <1>3 DEF RuntimeInv

LEMMA NextRuntimeInv ==
  ASSUME RuntimeAssumption, RuntimeInv, [RuntimeNext]_runtimeVars
  PROVE  RuntimeInv'
<1>1. ASSUME NEW w \in Workers, ModelStep(w)
      PROVE  RuntimeInv'
  BY <1>1, LimitStep, SuccessStep, SnapshotStep, ClockStep, ResetStep DEF ModelStep
<1>2. CASE UNCHANGED runtimeVars
  <2>1. UNCHANGED <<clock, cooldownUntil, limitedAt, successAt, promised, falsePositive,
                    marked, call>>
    BY <1>2 DEF runtimeVars, entryVars, markVars
  <2>. QED BY <2>1 DEF RuntimeInv, RuntimeTypeOK, CallTimes, Waiting, PromiseKept, Later
<1>. QED BY <1>1, <1>2, TickStep, CallStep, CapabilityKeepsInv DEF RuntimeNext

----------------------------------------------------------------------------
(* The theorems. *)

THEOREM RuntimeInvariance == RuntimeSpec => []RuntimeInv
<1>1. RuntimeInit => RuntimeInv
  BY InitRuntimeInv, RuntimeAssumption
<1>2. RuntimeInv /\ [RuntimeNext]_runtimeVars => RuntimeInv'
  BY NextRuntimeInv, RuntimeAssumption
<1>. QED BY <1>1, <1>2, PTL DEF RuntimeSpec

\* Whatever the order of the calls, the state of a model keeps its type, and no
\* time in it lies ahead of the clock.
THEOREM RuntimeTypeCorrect == RuntimeSpec => []RuntimeTypeOK
<1>1. RuntimeInv => RuntimeTypeOK
  BY DEF RuntimeInv
<1>. QED BY <1>1, RuntimeInvariance, PTL

\* A model stays out until the latest end promised by a 429, up to the wait for the
\* mutex and the difference of two lengths (MarkFreeProviderModelRateLimited).
THEOREM CooldownsHold == RuntimeSpec => []CooldownHolds
<1>1. RuntimeInv => CooldownHolds
  <2>1. SUFFICES ASSUME RuntimeInv,
                        \A d, e \in Durations : promised > clock + (RuntimeLag + d - e)
                 PROVE  cooldownUntil > clock
    BY DEF CooldownHolds
  <2>2. PICK d \in Durations : TRUE
    BY RuntimeAssumption DEF RuntimeAssumption
  <2>3. /\ clock \in Nat /\ cooldownUntil \in Nat /\ promised \in Nat
        /\ RuntimeLag \in Nat /\ d \in Nat
    BY <2>1, RuntimeAssumption, LengthsAreNumbers DEF RuntimeInv, RuntimeTypeOK
  <2>4. promised # 0
    BY <2>1, <2>3
  <2>5. PICK f \in Durations, e \in Durations :
          promised <= Later(cooldownUntil, clock) + (RuntimeLag + f - e)
    BY <2>1, <2>4 DEF RuntimeInv, PromiseKept
  <2>6. f \in Nat /\ e \in Nat /\ promised > clock + (RuntimeLag + f - e)
    BY <2>1, RuntimeAssumption, LengthsAreNumbers
  <2>. QED BY <2>3, <2>5, <2>6 DEF Later
<1>. QED BY <1>1, RuntimeInvariance, PTL

\* A mark that has not run out is removed by a manual recovery only
\* (IsFreeProviderModelCapabilityFalsePositive, the status page).
THEOREM MarksSurvive == RuntimeSpec => RenewedMarkSurvives
<1>1. ASSUME RuntimeInv, [RuntimeNext]_runtimeVars, falsePositive.expires > clock
      PROVE  falsePositive' # NoMark \/ \E w \in Workers : ResetFalsePositive(w)
  <2>0. /\ clock \in Nat /\ falsePositive.expires \in Nat /\ falsePositive # NoMark
    BY <1>1 DEF RuntimeInv, RuntimeTypeOK, NoMark
  <2>1. CASE UNCHANGED falsePositive
    BY <2>0, <2>1
  <2>2. ASSUME NEW w \in Workers, MarkFalsePositive(w)
        PROVE  falsePositive' # NoMark
    <3>1. falsePositive'.expires = call[w].at + FPDuration
      BY <2>2 DEF MarkFalsePositive
    <3>2. call[w].at \in Nat /\ FPDuration \in Nat \ {0}
      BY <1>1, RuntimeAssumption, CallFields DEF RuntimeInv, RuntimeAssumption
    <3>. QED BY <3>1, <3>2 DEF NoMark
  <2>3. ASSUME NEW w \in Workers
        PROVE  ~MarkOver(w)
    BY <1>1, <2>0, CallFields DEF MarkOver, RuntimeInv
  <2>4. ASSUME NEW w \in Workers, ExpireFalsePositive(w) \/ PurgeFalsePositive(w)
        PROVE  UNCHANGED falsePositive
    BY <2>3, <2>4 DEF ExpireFalsePositive, PurgeFalsePositive, SameMark
  <2>5. ASSUME NEW w \in Workers, ModelStep(w) \/ Call(w) \/ CheckFalsePositive(w)
        PROVE  UNCHANGED falsePositive
    BY <2>5 DEF ModelStep, MarkFreeProviderModelRateLimited, RecordFreeProviderModelSuccess,
       SnapshotFreeProviderModelRuntime, SnapshotClock, ResetFreeProviderModelRuntime,
       Call, CheckFalsePositive, markVars
  <2>6. RuntimeTick => UNCHANGED falsePositive
    BY DEF RuntimeTick, markVars
  <2>7. UNCHANGED runtimeVars => UNCHANGED falsePositive
    BY DEF runtimeVars, markVars
  <2>. QED BY <1>1, <2>1, <2>2, <2>4, <2>5, <2>6, <2>7 DEF RuntimeNext, CapabilityStep
<1>2. RuntimeInv /\ [RuntimeNext]_runtimeVars =>
        [falsePositive.expires > clock =>
           \/ falsePositive' # NoMark
           \/ \E w \in Workers : ResetFalsePositive(w)]_runtimeVars
  BY <1>1
<1>. QED BY <1>2, RuntimeInvariance, PTL DEF RuntimeSpec, RenewedMarkSurvives
=============================================================================
