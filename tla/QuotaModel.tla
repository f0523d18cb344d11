----------------------------- MODULE QuotaModel -----------------------------
(***************************************************************************)
(* The data of core/model.go and the pure decisions of core/controller.go: *)
(* what one quota observation does to one window record.                   *)
(*                                                                         *)
(* Abstractions.  A cycle id is the SHA-256 of (instance, bucket, reset    *)
(* time); it is modelled as that triple, so distinct cycles have distinct  *)
(* ids.  A time is a natural number, 0 standing for Go's zero time.  A     *)
(* record keeps the fields the control flow or the scheduler reads: the    *)
(* texts, the last observation, LastProbe and ActivationDisabled (never    *)
(* read) are left out, and LastActivation is reduced to "is it set".       *)
(***************************************************************************)
EXTENDS Naturals, Sequences

CONSTANTS
  Auths,               \* auth ids the host lists
  Prints,              \* credential fingerprints an auth id may show
  Buckets,             \* bucket ids the provider reports
  GroupOf,             \* activation group of each bucket, "" for none
  AttemptIds,          \* supply of random attempt ids: BOUND on attempts ever made
  None,                \* the empty ActiveAttemptID
  MaxTime,             \* BOUND on the clock
  Grace,               \* Config.ResetGracePeriod
  Skew,                \* Config.ClockSkewTolerance
  VerifyDelay,         \* Config.VerifyDelay
  Suppression,         \* Config.SuppressionDuration
  ObservationInterval, \* Config.ObservationInterval
  RetryDelays,         \* Config.RetryDelays
  MaxRetries,          \* Config.MaxRetries
  Observe(_),          \* observations ReadQuota may return at a time
  VerifyActivation(_, _) \* the adapter's verdict on (baseline, later window)

ASSUME NoneAssumption == None \notin AttemptIds

ASSUME ConfigAssumption ==
  /\ {Grace, VerifyDelay, MaxRetries} \subseteq Nat
  /\ {MaxTime, Skew, Suppression, ObservationInterval} \subseteq Nat \ {0}
  /\ RetryDelays \in Seq(Nat)

(* One window of an observation: CanActivate's verdict is part of it, the  *)
(* activation group is a function of the bucket for both adapters.         *)
QuotaWindows ==
  [reset : Nat \ {0}, used : 0..100, lazy : BOOLEAN, can : BOOLEAN]

(* What normalizeWindows lets through: valid windows, one per bucket.      *)
IsObservation(o) ==
  DOMAIN o \subseteq Buckets /\ o \in [DOMAIN o -> QuotaWindows]

ASSUME ObserveAssumption ==
  \A t \in 1..MaxTime : \A o \in Observe(t) : IsObservation(o)

-----------------------------------------------------------------------------
(* Keys and cycles                                                         *)

Instances == [auth : Auths, print : Prints]
Keys == [auth : Auths, print : Prints, bucket : Buckets]
Cycles == [key : Keys, reset : Nat]

InstanceOf(k) == [auth |-> k.auth, print |-> k.print]
KeysOf(inst) == {k \in Keys : InstanceOf(k) = inst}
Cycle(k, r) == [key |-> k, reset |-> r.reset]
KeysIn(cycles) == {c.key : c \in cycles}

-----------------------------------------------------------------------------
(* Records                                                                 *)

WindowStates ==
  {"waiting_reset", "pending_precheck", "normal_reset", "lazy_reset_detected",
   "activation_sending", "activation_sent", "sent_unknown", "confirmed",
   "retry_wait", "auth_blocked", "unsupported", "disabled"}

WindowRecords ==
  [state : WindowStates \cup {"none"}, reset : Nat, used : 0..100,
   nextCheck : Nat, activated : BOOLEAN, retries : Nat,
   attempt : AttemptIds \cup {None}]

(* The value of a key that is not in the Windows map. *)
NoWindow ==
  [state |-> "none", reset |-> 0, used |-> 0, nextCheck |-> 0,
   activated |-> FALSE, retries |-> 0, attempt |-> None]

Present(r) == r.state # "none"

Phases == {"prepared", "sending", "sent", "sent_unknown", "completed"}
InFlight == {"sending", "sent", "sent_unknown"}

Attempts ==
  [phase : Phases \cup {"none"}, cycles : SUBSET Cycles, created : Nat]

NoAttempt == [phase |-> "none", cycles |-> {}, created |-> 0]

VerifyNotBefore(a) == a.created + VerifyDelay
SuppressUntil(a) == a.created + Suppression

-----------------------------------------------------------------------------
(* Times                                                                   *)

(* Beyond this count the delay no longer changes, so the counter stops. *)
RetryCap == IF MaxRetries > Len(RetryDelays) THEN MaxRetries
            ELSE Len(RetryDelays)
Bump(n) == IF n < RetryCap THEN n + 1 ELSE n

RetryDelay(n) ==
  IF (MaxRetries > 0 /\ n >= MaxRetries) \/ RetryDelays = <<>>
  THEN ObservationInterval
  ELSE RetryDelays[IF n < Len(RetryDelays) THEN n + 1 ELSE Len(RetryDelays)]

Deadline(reset, t) == IF reset + Grace < t THEN t ELSE reset + Grace

Expired(reset, t) == t >= reset + Grace

-----------------------------------------------------------------------------
(* What one observed window w does to one record r at time t               *)

Schedule(r, state, at) == [r EXCEPT !.state = state, !.nextCheck = at]
Rebase(r, w) == [r EXCEPT !.reset = w.reset, !.used = w.used]
Forgive(r) == [r EXCEPT !.retries = 0]
(* Faulty variant: ActiveAttemptID is not cleared. *)
KeepAttempt(r) == r
Detach(r) == [r EXCEPT !.attempt = None]

(* Faulty variant: the clock skew is forgotten. *)
RolledAtAll(r, w) == w.reset > r.reset /\ ~w.lazy
Rolled(r, w) == w.reset > r.reset + Skew /\ ~w.lazy

SameReset(r, w) == w.reset <= r.reset + Skew /\ r.reset <= w.reset + Skew
Ambiguous(r, w) == ~SameReset(r, w) /\ ~w.lazy

(* Faulty variant: a record that already carried a send is migrated too. *)
MigratesActivated(r, w) == r.state = "waiting_reset" /\ w.lazy
Migrates(r, w) == r.state = "waiting_reset" /\ w.lazy /\ ~r.activated

(* Back-off of recordGroupFailure and of the precheck: the counter moves   *)
(* before the delay is looked up.                                          *)
BackOff(r, t) ==
  LET n == Bump(r.retries)
  IN  [Schedule(r, "retry_wait", t + RetryDelay(n)) EXCEPT !.retries = n]

(* Back-off of reconcileObservation and markReadFailure: looked up first. *)
LateBackOff(r, t) ==
  [Schedule(r, "retry_wait", t + RetryDelay(r.retries))
     EXCEPT !.retries = Bump(r.retries)]

Absent(r, t) == Schedule(r, "retry_wait", t + ObservationInterval)
Unsupported(r, t) == Schedule(r, "unsupported", t + ObservationInterval)
(* Faulty variant: the deadline is taken from the baseline that ended. *)
NormalResetOldDeadline(r, w, t) ==
  Forgive(Schedule(Rebase(r, w), "normal_reset", Deadline(r.reset, t)))
NormalReset(r, w, t) ==
  Forgive(Schedule(Rebase(r, w), "normal_reset", Deadline(w.reset, t)))

(* Faulty variant: the state constant no other branch knows. *)
FirstStateObserving(w, t) == IF w.can THEN "observing" ELSE "unsupported"
FirstState(w, t) ==
  IF ~w.can THEN "unsupported"
  ELSE IF w.lazy \/ Expired(w.reset, t) THEN "pending_precheck"
  ELSE "waiting_reset"

FirstSight(w, t) ==
  Schedule(Rebase(NoWindow, w), FirstState(w, t),
           IF FirstState(w, t) = "pending_precheck" THEN 0
           ELSE Deadline(w.reset, t))

Resight(r, w, fenced, t) ==
  IF ~w.can THEN Unsupported(r, t)
  ELSE IF Migrates(r, w) THEN Schedule(Rebase(r, w), "pending_precheck", 0)
  ELSE IF Rolled(r, w) THEN Detach(NormalReset(r, w, t))
  ELSE IF ~Expired(r.reset, t)
       THEN Schedule(r, "waiting_reset", Deadline(r.reset, t))
  ELSE IF fenced THEN Schedule(r, "sent_unknown", t + ObservationInterval)
  ELSE IF Ambiguous(r, w) THEN LateBackOff(r, t)
  ELSE Schedule(r, "lazy_reset_detected", 0)

(* Faulty variant: CanActivate is only asked at first sight. *)
ReconciledAny(r, w, fenced, t) ==
  IF Present(r) THEN Resight(r, [w EXCEPT !.can = TRUE], fenced, t)
  ELSE FirstSight(w, t)
(* One record of reconcileObservation, present before or not. *)
Reconciled(r, w, fenced, t) ==
  IF Present(r) THEN Resight(r, w, fenced, t) ELSE FirstSight(w, t)

Candidate(r) == r.state \in {"pending_precheck", "lazy_reset_detected"}

(* One record of precheckGroup. *)
Prechecked(r, w, t) ==
  IF ~w.can THEN Unsupported(r, t)
  ELSE IF Rolled(r, w) THEN NormalReset(r, w, t)
  ELSE IF Ambiguous(r, w) THEN BackOff(r, t)
  ELSE Schedule(r, "lazy_reset_detected", 0)

(* One record of verifyAttempt: judged against the record's baseline. *)
Judged(r, w, t) ==
  Detach(IF VerifyActivation(r, w)
         THEN Forgive(Schedule(Rebase(r, w), "confirmed", Deadline(w.reset, t)))
         ELSE Schedule(r, "retry_wait", t + ObservationInterval))
=============================================================================
