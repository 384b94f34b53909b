------------------------------ MODULE ModelRuntime ------------------------------
(***************************************************************************)
(* The run-time state of one model of a Kilo deployment                     *)
(* (fallback/free_provider_model_runtime.go): its short cooldown, and its   *)
(* mark as a false positive for tools.  Every function reads the clock      *)
(* before it takes the mutex, so calls take effect in another order than    *)
(* the one of their times.  The counters, which only the status page shows, *)
(* are left out; the planner's two questions read and do not appear, but    *)
(* for the removal of a mark that has run out.                              *)
(***************************************************************************)
EXTENDS Integers

CONSTANTS
  Workers,        \* goroutines inside these functions
  Durations,      \* lengths of a model cooldown
  FPDuration,     \* capabilityFPDuration
  RuntimeLag,     \* bound: longest wait for a mutex
  RuntimeHorizon, \* bound: the clock stops here
  MaxMarks        \* bound: number of false-positive marks

ASSUME RuntimeAssumption ==
  /\ Durations \subseteq Nat \ {0} /\ Durations # {} /\ FPDuration \in Nat \ {0}
  /\ RuntimeLag \in Nat /\ RuntimeHorizon \in Nat /\ MaxMarks \in Nat

VARIABLES
  clock,
  cooldownUntil, limitedAt, successAt,  \* the entry's times, 0 for nil; no entry when
                                        \* it has neither been limited nor succeeded
  falsePositive,  \* the mark: which one it is (the pointer) and when it expires
  marked,         \* number of marks made or being made
  call,           \* what each goroutine is in, with the time it read
  promised        \* the latest end that a 429 gave since the last success or reset (history)

entryVars == <<cooldownUntil, limitedAt, successAt, promised>>
markVars  == <<falsePositive, marked>>
runtimeVars == <<clock, entryVars, markVars, call>>

NoMark == [mark |-> 0, expires |-> 0]
NoCall == [op |-> "none", at |-> 0, until |-> 0, seen |-> 0]
Stamped == {"limit", "success", "mark", "check", "expire", "snapshot", "purge"}
Ops == Stamped \cup {"none", "between", "reset", "resetMark"}

Waiting(w) == call[w].op \in Stamped
Return(w) == call' = [call EXCEPT ![w] = NoCall]

RuntimeInit ==
  /\ clock = 1
  /\ cooldownUntil = 0 /\ limitedAt = 0 /\ successAt = 0 /\ promised = 0
  /\ falsePositive = NoMark /\ marked = 0
  /\ call = [w \in Workers |-> NoCall]

RuntimeTick ==
  /\ clock < RuntimeHorizon
  /\ \A w \in Workers : Waiting(w) => clock < call[w].at + RuntimeLag
  /\ clock' = clock + 1
  /\ UNCHANGED <<entryVars, markVars, call>>

Started(op, until, seen) == [op |-> op, at |-> clock, until |-> until, seen |-> seen]

\* A function is called and reads the clock; a reset reads none.
Call(w) ==
  /\ call[w] = NoCall
  /\ \/ /\ \E op \in {"success", "check", "snapshot", "reset"} :
              call' = [call EXCEPT ![w] = Started(op, 0, 0)]
        /\ UNCHANGED marked
     \/ /\ \E d \in Durations :
              call' = [call EXCEPT ![w] = Started("limit", clock + d, 0)]
        /\ UNCHANGED marked
     \/ /\ marked < MaxMarks
        /\ marked' = marked + 1
        /\ call' = [call EXCEPT ![w] = Started("mark", 0, marked + 1)]
  /\ UNCHANGED <<clock, entryVars, falsePositive>>

----------------------------------------------------------------------------
(* The cooldown of the model. *)

Later(a, b) == IF a > b THEN a ELSE b

MarkFreeProviderModelRateLimited(w) ==
  /\ call[w].op = "limit"
  /\ cooldownUntil' = call[w].until /\ limitedAt' = call[w].at
  /\ promised' = Later(promised, call[w].until)
  /\ Return(w)
  /\ UNCHANGED <<clock, successAt, markVars>>

RecordFreeProviderModelSuccess(w) ==
  /\ call[w].op = "success"
  /\ cooldownUntil' = 0 /\ successAt' = call[w].at /\ promised' = 0
  /\ Return(w)
  /\ UNCHANGED <<clock, limitedAt, markVars>>

\* The status page: a cooldown that is over is cleared, and the entry with it when
\* the model never succeeded.
MutantCooldownOver(w) == cooldownUntil # 0 /\ cooldownUntil >= call[w].at
CooldownOver(w) == cooldownUntil # 0 /\ cooldownUntil <= call[w].at

SnapshotFreeProviderModelRuntime(w) ==
  /\ call[w].op = "snapshot"
  /\ IF CooldownOver(w)
     THEN /\ cooldownUntil' = 0
          /\ limitedAt' = IF successAt = 0 THEN 0 ELSE limitedAt
     ELSE UNCHANGED <<cooldownUntil, limitedAt>>
  /\ call' = [call EXCEPT ![w] = [NoCall EXCEPT !.op = "between"]]
  /\ UNCHANGED <<clock, successAt, promised, markVars>>

\* Its second half reads the clock again.
SnapshotClock(w) ==
  /\ call[w].op = "between"
  /\ call' = [call EXCEPT ![w] = Started("purge", 0, 0)]
  /\ UNCHANGED <<clock, entryVars, markVars>>

----------------------------------------------------------------------------
(* The mark as a false positive. *)

MarkFalsePositive(w) ==
  /\ call[w].op = "mark"
  /\ falsePositive' = [mark |-> call[w].seen, expires |-> call[w].at + FPDuration]
  /\ Return(w)
  /\ UNCHANGED <<clock, entryVars, marked>>

MarkOver(w) == falsePositive # NoMark /\ falsePositive.expires <= call[w].at

\* IsFreeProviderModelCapabilityFalsePositive: under the read lock ...
CheckFalsePositive(w) ==
  /\ call[w].op = "check"
  /\ IF MarkOver(w)
     THEN call' = [call EXCEPT ![w].op = "expire", ![w].seen = falsePositive.mark]
     ELSE Return(w)
  /\ UNCHANGED <<clock, entryVars, markVars>>

\* ... and, when the mark has run out, under the write lock.
MutantSameMark(w) == TRUE
SameMark(w) == call[w].seen = falsePositive.mark /\ MarkOver(w)

ExpireFalsePositive(w) ==
  /\ call[w].op = "expire"
  /\ falsePositive' = IF SameMark(w) THEN NoMark ELSE falsePositive
  /\ Return(w)
  /\ UNCHANGED <<clock, entryVars, marked>>

\* SnapshotFreeProviderModelRuntimeDiagnostics removes it too.
PurgeFalsePositive(w) ==
  /\ call[w].op = "purge"
  /\ falsePositive' = IF MarkOver(w) THEN NoMark ELSE falsePositive
  /\ Return(w)
  /\ UNCHANGED <<clock, entryVars, marked>>

----------------------------------------------------------------------------
(* Manual recovery of the deployment: two calls, each under its mutex. *)

ResetFreeProviderModelRuntime(w) ==
  /\ call[w].op = "reset"
  /\ cooldownUntil' = 0 /\ limitedAt' = 0 /\ successAt' = 0 /\ promised' = 0
  /\ call' = [call EXCEPT ![w] = [NoCall EXCEPT !.op = "resetMark"]]
  /\ UNCHANGED <<clock, markVars>>

ResetFalsePositive(w) ==
  /\ call[w].op = "resetMark"
  /\ falsePositive' = NoMark
  /\ Return(w)
  /\ UNCHANGED <<clock, entryVars, marked>>

ModelStep(w) ==
  \/ MarkFreeProviderModelRateLimited(w) \/ RecordFreeProviderModelSuccess(w)
  \/ SnapshotFreeProviderModelRuntime(w) \/ SnapshotClock(w)
  \/ ResetFreeProviderModelRuntime(w)
CapabilityStep(w) ==
  \/ MarkFalsePositive(w) \/ CheckFalsePositive(w) \/ ExpireFalsePositive(w)
  \/ PurgeFalsePositive(w) \/ ResetFalsePositive(w)

RuntimeNext ==
  \/ RuntimeTick
  \/ \E w \in Workers : Call(w) \/ ModelStep(w) \/ CapabilityStep(w)

RuntimeSpec == RuntimeInit /\ [][RuntimeNext]_runtimeVars

----------------------------------------------------------------------------
(* Properties. *)

\* Type invariant.  No time of the entry lies ahead of the clock but the end of its
\* cooldown.
RuntimeTypeOK ==
  /\ clock \in Nat \ {0}
  /\ cooldownUntil \in Nat /\ promised \in Nat
  /\ limitedAt \in 0..clock /\ successAt \in 0..clock
  /\ falsePositive \in [mark : Nat, expires : Nat] /\ marked \in Nat
  /\ call \in [Workers -> [op : Ops, at : 0..clock, until : Nat, seen : Nat]]

\* A mark that has not run out is removed only by a manual recovery: a check or a
\* status page that saw the mark before it was renewed leaves the renewed one alone
\* (current == entry and the second look at expiresAt).
RenewedMarkSurvives ==
  [][falsePositive.expires > clock =>
       \/ falsePositive' # NoMark
       \/ \E w \in Workers : ResetFalsePositive(w)]_runtimeVars

\* Of two 429s the one that read the clock first may be written last, and a shorter
\* Retry-After may follow a longer one; but the model stays out until the latest end
\* promised, up to the wait for the mutex and the difference of the two lengths,
\* whatever the status page clears meanwhile.
CooldownHolds ==
  LET slack(d, e) == RuntimeLag + d - e
  IN (\A d, e \in Durations : promised > clock + slack(d, e)) => cooldownUntil > clock
=============================================================================
