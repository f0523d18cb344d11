------------------------ MODULE QuotaRecords_proofs ------------------------
(***************************************************************************)
(* What a step of QuotaController does to one window record, for every     *)
(* value of its constants: when its window wakes the scheduler, which      *)
(* attempt it names, and how its baseline moves.                           *)
(***************************************************************************)
EXTENDS QuotaAttempts_proofs

-----------------------------------------------------------------------------
(* Ways to rewrite a record                                                *)

Waiting == {"waiting_reset", "normal_reset", "confirmed"}

(* The alarm of a record that waits for its reset. *)
WakeOK(r, t) ==
  r.state \in Waiting => \/ r.nextCheck = r.reset + Grace
                         \/ r.nextCheck \in r.reset + Grace .. t

(* What every new value of a record has. *)
Rewritten(r, s, t) ==
  /\ s \in WindowRecords
  /\ Present(s) /\ WakeOK(s, t)
  /\ s.attempt \in {r.attempt, None}

SameBaseline(r, s) == s.reset = r.reset /\ s.activated = r.activated

(* The ways a baseline moves: with the window, or to a first or a slid one *)
(* that carried no send; and, in a verification only, on the adapter's     *)
(* verdict.                                                                *)
Rolls(r, s) == s.reset > r.reset + Skew /\ s.activated = r.activated
Begins(r, s) == ~s.activated /\ (Present(r) => ~r.activated)
Confirms(r, w, s) ==
  /\ VerifyActivation(r, w)
  /\ s.reset = w.reset /\ s.used = w.used
  /\ s.activated = r.activated /\ s.state = "confirmed"

Moved(r, s) == SameBaseline(r, s) \/ Rolls(r, s) \/ Begins(r, s)

(* A record that is given a state in which no reset is awaited. *)
LEMMA ScheduleRecord ==
  ASSUME NEW r \in WindowRecords, NEW s \in WindowStates \ Waiting,
         NEW t \in Nat, NEW n \in Nat, NEW x \in Nat
  PROVE  /\ Rewritten(r, Schedule(r, s, x), t)
         /\ SameBaseline(r, Schedule(r, s, x))
         /\ Rewritten(r, [Schedule(r, s, x) EXCEPT !.retries = n], t)
         /\ SameBaseline(r, [Schedule(r, s, x) EXCEPT !.retries = n])
<1> DEFINE u == Schedule(r, s, x)
<1>1. u \in WindowRecords /\ u.state = s /\ SameBaseline(r, u)
      /\ u.attempt = r.attempt
  BY DEF Schedule, WindowRecords, SameBaseline
<1> DEFINE v == [u EXCEPT !.retries = n]
<1>2. v \in WindowRecords /\ v.state = s /\ SameBaseline(r, v)
      /\ v.attempt = r.attempt
  BY <1>1 DEF WindowRecords, SameBaseline
<1>3. s # "none" /\ s \notin Waiting
  BY DEF WindowStates
<1> QED
  BY <1>1, <1>2, <1>3 DEF Rewritten, Present, WakeOK

(* The back-offs are of that kind. *)
LEMMA BackOffRecord ==
  ASSUME NEW r \in WindowRecords, NEW t \in Nat
  PROVE  \A s \in {BackOff(r, t), LateBackOff(r, t), Absent(r, t),
                   Unsupported(r, t)} :
           Rewritten(r, s, t) /\ SameBaseline(r, s)
<1>1. r.retries \in Nat /\ Bump(r.retries) \in Nat
  BY RetryDelayType DEF WindowRecords
<1>2. /\ t + RetryDelay(r.retries) \in Nat
      /\ t + RetryDelay(Bump(r.retries)) \in Nat
      /\ t + ObservationInterval \in Nat
  <2>1. /\ RetryDelay(r.retries) \in Nat /\ RetryDelay(Bump(r.retries)) \in Nat
        /\ ObservationInterval \in Nat
    BY <1>1, RetryDelayType, ConfigAssumption
  <2> QED BY <2>1
<1>3. {"retry_wait", "unsupported"} \subseteq WindowStates \ Waiting
  BY DEF WindowStates, Waiting
<1>4. Rewritten(r, BackOff(r, t), t) /\ SameBaseline(r, BackOff(r, t))
  BY <1>1, <1>2, <1>3, ScheduleRecord DEF BackOff
<1>5. Rewritten(r, LateBackOff(r, t), t) /\ SameBaseline(r, LateBackOff(r, t))
  BY <1>1, <1>2, <1>3, ScheduleRecord DEF LateBackOff
<1>6. /\ Rewritten(r, Absent(r, t), t) /\ SameBaseline(r, Absent(r, t))
      /\ Rewritten(r, Unsupported(r, t), t) /\ SameBaseline(r, Unsupported(r, t))
  BY <1>2, <1>3, ScheduleRecord DEF Absent, Unsupported
<1> QED
  BY <1>4, <1>5, <1>6

(* A deadline is the reset with its grace, or now if that has passed. *)
LEMMA DeadlineWakes ==
  ASSUME NEW reset \in Nat, NEW t \in Nat
  PROVE  /\ Deadline(reset, t) \in Nat
         /\ \/ Deadline(reset, t) = reset + Grace
            \/ Deadline(reset, t) \in reset + Grace .. t
BY ConfigAssumption DEF Deadline

(* A record that awaits the reset it has as its baseline. *)
LEMMA AwaitRecord ==
  ASSUME NEW r \in WindowRecords, NEW s \in Waiting, NEW t \in Nat
  PROVE  LET u == Schedule(r, s, Deadline(r.reset, t))
         IN  /\ Rewritten(r, u, t) /\ SameBaseline(r, u)
             /\ \A v \in {Forgive(u), Detach(u), Detach(Forgive(u))} :
                  Rewritten(r, v, t) /\ SameBaseline(r, v)
<1> DEFINE u == Schedule(r, s, Deadline(r.reset, t))
<1>1. r.reset \in Nat /\ s \in WindowStates
  BY DEF WindowRecords, Waiting, WindowStates
<1>2. /\ u \in WindowRecords /\ u.state = s /\ SameBaseline(r, u)
      /\ u.attempt = r.attempt /\ u.nextCheck = Deadline(r.reset, t)
  BY <1>1, DeadlineWakes DEF Schedule, WindowRecords, SameBaseline
<1>3. Rewritten(r, u, t)
  BY <1>1, <1>2, DeadlineWakes
  DEF Rewritten, Present, WakeOK, SameBaseline, WindowStates
<1>4. ASSUME NEW v \in {Forgive(u), Detach(u), Detach(Forgive(u))}
      PROVE  Rewritten(r, v, t) /\ SameBaseline(r, v)
  <2>1. v \in WindowRecords
    BY <1>2, ClearType
  <2>2. /\ v.state = u.state /\ v.reset = u.reset /\ v.nextCheck = u.nextCheck
        /\ v.activated = u.activated /\ v.attempt \in {u.attempt, None}
    BY <1>2 DEF Forgive, Detach, WindowRecords
  <2> QED
    BY <1>2, <1>3, <2>1, <2>2 DEF Rewritten, Present, WakeOK, SameBaseline
<1> QED
  BY <1>2, <1>3, <1>4

(* A record that has taken the baseline of a window. *)
LEMMA RebaseRecord ==
  ASSUME NEW r \in WindowRecords, NEW w \in QuotaWindows
  PROVE  LET b == Rebase(r, w)
         IN  /\ b \in WindowRecords /\ b.reset = w.reset
             /\ b.activated = r.activated /\ b.attempt = r.attempt
BY DEF Rebase, WindowRecords, QuotaWindows
(* What reconcileObservation makes of a record. *)
LEMMA ReconciledRecord ==
  ASSUME NEW r \in WindowRecords, NEW w \in QuotaWindows, NEW t \in Nat,
         NEW fenced \in BOOLEAN
  PROVE  LET s == Reconciled(r, w, fenced, t)
         IN  Rewritten(r, s, t) /\ Moved(r, s)
<1> DEFINE s == Reconciled(r, w, fenced, t)
<1>1. r.reset \in Nat /\ w.reset \in Nat
  BY DEF WindowRecords, QuotaWindows
<1>2. CASE ~Present(r)
  <2>1. s = Schedule(Rebase(NoWindow, w), FirstState(w, t),
                     IF FirstState(w, t) = "pending_precheck" THEN 0
                     ELSE Deadline(w.reset, t))
    BY <1>2 DEF Reconciled, FirstSight
  <2>2. NoWindow \in WindowRecords /\ NoWindow.attempt = None
        /\ NoWindow.activated = FALSE
    BY DEF NoWindow, WindowRecords
  <2> DEFINE b == Rebase(NoWindow, w)
  <2>3. b \in WindowRecords /\ b.reset = w.reset /\ ~b.activated
        /\ b.attempt = None
    BY <2>2, RebaseRecord
  <2>4. Rewritten(b, s, t) /\ SameBaseline(b, s)
    <3>1. CASE FirstState(w, t) = "waiting_reset"
      BY <2>1, <2>3, <3>1, AwaitRecord DEF Waiting
    <3>2. CASE FirstState(w, t) # "waiting_reset"
      <4>1. FirstState(w, t) \in WindowStates \ Waiting
        BY <3>2 DEF FirstState, WindowStates, Waiting
      <4>2. (IF FirstState(w, t) = "pending_precheck" THEN 0
             ELSE Deadline(w.reset, t)) \in Nat
        BY <1>1, DeadlineWakes
      <4> QED
        BY <2>1, <2>3, <4>1, <4>2, ScheduleRecord
    <3> QED BY <3>1, <3>2
  <2>5. Rewritten(r, s, t)
    BY <2>3, <2>4 DEF Rewritten
  <2>6. Begins(r, s)
    BY <1>2, <2>3, <2>4 DEF Begins, SameBaseline
  <2> QED BY <2>5, <2>6 DEF Moved
<1>3. CASE Present(r)
  <2>1. s = Resight(r, w, fenced, t)
    BY <1>3 DEF Reconciled
  <2> DEFINE b == Rebase(r, w)
  <2>2. b \in WindowRecords /\ b.reset = w.reset /\ b.activated = r.activated
        /\ b.attempt = r.attempt
    BY RebaseRecord
  <2>3. {"pending_precheck", "sent_unknown", "lazy_reset_detected"}
          \subseteq WindowStates \ Waiting
    BY DEF WindowStates, Waiting
  <2>4. CASE Migrates(r, w) /\ s = Schedule(b, "pending_precheck", 0)
    <3>1. Rewritten(b, s, t) /\ SameBaseline(b, s)
      BY <2>2, <2>3, <2>4, ScheduleRecord
    <3>2. Rewritten(r, s, t) /\ Begins(r, s)
      BY <2>2, <2>4, <3>1 DEF Rewritten, SameBaseline, Begins, Migrates
    <3> QED BY <3>2 DEF Moved
  <2>5. CASE Rolled(r, w) /\ s = Detach(NormalReset(r, w, t))
    <3>1. Rewritten(b, s, t) /\ SameBaseline(b, s)
      BY <2>2, <2>5, AwaitRecord DEF NormalReset, Waiting
    <3>2. Rewritten(r, s, t) /\ Rolls(r, s)
      BY <2>2, <2>5, <3>1 DEF Rewritten, SameBaseline, Rolls, Rolled
    <3> QED BY <3>2 DEF Moved
  <2>6. CASE s = Schedule(r, "waiting_reset", Deadline(r.reset, t))
    BY <2>6, AwaitRecord DEF Moved, Waiting
  <2>7. CASE s = Schedule(r, "sent_unknown", t + ObservationInterval)
    <3>1. t + ObservationInterval \in Nat
      BY ConfigAssumption
    <3> QED BY <2>3, <2>7, <3>1, ScheduleRecord DEF Moved
  <2>8. CASE s = Schedule(r, "lazy_reset_detected", 0)
    BY <2>3, <2>8, ScheduleRecord DEF Moved
  <2>9. CASE s = Unsupported(r, t) \/ s = LateBackOff(r, t)
    BY <2>9, BackOffRecord DEF Moved
  <2> QED
    BY <2>1, <2>4, <2>5, <2>6, <2>7, <2>8, <2>9 DEF Resight
<1> QED BY <1>2, <1>3

(* What precheckGroup makes of a record. *)
LEMMA PrecheckedRecord ==
  ASSUME NEW r \in WindowRecords, NEW w \in QuotaWindows, NEW t \in Nat
  PROVE  LET s == Prechecked(r, w, t)
         IN  Rewritten(r, s, t) /\ Moved(r, s)
<1> DEFINE s == Prechecked(r, w, t)
<1> DEFINE b == Rebase(r, w)
<1>1. b \in WindowRecords /\ b.reset = w.reset /\ b.activated = r.activated
      /\ b.attempt = r.attempt
  BY RebaseRecord
<1>2. CASE Rolled(r, w) /\ s = NormalReset(r, w, t)
  <2>1. Rewritten(b, s, t) /\ SameBaseline(b, s)
    BY <1>1, <1>2, AwaitRecord DEF NormalReset, Waiting
  <2>2. Rewritten(r, s, t) /\ Rolls(r, s)
    BY <1>1, <1>2, <2>1 DEF Rewritten, SameBaseline, Rolls, Rolled
  <2> QED BY <2>2 DEF Moved
<1>3. CASE s = Unsupported(r, t) \/ s = BackOff(r, t)
  BY <1>3, BackOffRecord DEF Moved
<1>4. CASE s = Schedule(r, "lazy_reset_detected", 0)
  <2>1. "lazy_reset_detected" \in WindowStates \ Waiting
    BY DEF WindowStates, Waiting
  <2> QED BY <1>4, <2>1, ScheduleRecord DEF Moved
<1> QED BY <1>2, <1>3, <1>4 DEF Prechecked

(* What verifyAttempt makes of a record. *)
LEMMA JudgedRecord ==
  ASSUME NEW r \in WindowRecords, NEW w \in QuotaWindows, NEW t \in Nat
  PROVE  LET s == Judged(r, w, t)
         IN  Rewritten(r, s, t) /\ (Moved(r, s) \/ Confirms(r, w, s))
<1> DEFINE s == Judged(r, w, t)
<1> DEFINE b == Rebase(r, w)
<1>1. /\ b \in WindowRecords /\ b.reset = w.reset
      /\ b.activated = r.activated /\ b.attempt = r.attempt
      /\ b.used = w.used
  BY RebaseRecord DEF Rebase, WindowRecords
<1>2. CASE VerifyActivation(r, w)
  <2>1. s = Detach(Forgive(Schedule(b, "confirmed", Deadline(w.reset, t))))
    BY <1>2 DEF Judged
  <2>2. Rewritten(b, s, t) /\ SameBaseline(b, s)
    BY <1>1, <2>1, AwaitRecord DEF Waiting
  <2>3. s.state = "confirmed" /\ s.used = b.used
    BY <1>1, <2>1 DEF Detach, Forgive, Schedule, WindowRecords
  <2>4. Rewritten(r, s, t) /\ Confirms(r, w, s)
    BY <1>1, <1>2, <2>2, <2>3 DEF Rewritten, SameBaseline, Confirms
  <2> QED BY <2>4
<1>3. CASE ~VerifyActivation(r, w)
  <2> DEFINE u == Absent(r, t)
  <2>1. s = Detach(u)
    BY <1>3 DEF Judged, Absent
  <2>2. Rewritten(r, u, t) /\ SameBaseline(r, u)
    BY BackOffRecord
  <2>3. s \in WindowRecords
    BY <2>1, <2>2, ClearType DEF Rewritten
  <2>4. /\ s.state = u.state /\ s.reset = u.reset /\ s.attempt = None
        /\ s.nextCheck = u.nextCheck /\ s.activated = u.activated
    BY <2>1, <2>2 DEF Rewritten, Detach, WindowRecords
  <2> QED
    BY <2>2, <2>3, <2>4 DEF Rewritten, Present, WakeOK, SameBaseline, Moved
<1> QED BY <1>2, <1>3
-----------------------------------------------------------------------------
(* What a step does to one record                                          *)

Prepares(k) ==
  /\ Prepare /\ k \in call.keys
  /\ windows'[k] = [windows[k] EXCEPT !.state = "pending_precheck",
                                      !.attempt = call'.attempt]

Fences(k) ==
  /\ Fence /\ k \in KeysIn(attempts[call.attempt].cycles)
  /\ windows'[k] = [windows[k] EXCEPT !.state = "activation_sending",
                                      !.activated = TRUE]

(* The windows a read at time t may show. *)
Shown(t) == UNION {{o[b] : b \in DOMAIN o} : o \in Observe(t)}

(* The attempt of the call is completed, and k is one of its windows. *)
Verifies(k) ==
  /\ Verify /\ k \in KeysIn(attempts[call.attempt].cycles)
  /\ Rewritten(windows[k], windows'[k], now)
  /\ \E w \in Shown(now) : Confirms(windows[k], w, windows'[k])

RecordStep(k) ==
  LET r == windows[k]
      s == windows'[k]
  IN  \/ s = r
      \/ Rewritten(r, s, now) /\ Moved(r, s)
      \/ Verifies(k) \/ Prepares(k) \/ Fences(k)

(* Records, windows and times of the running instance. *)
LEMMA RecordTypes ==
  ASSUME IInv
  PROVE  /\ now \in Nat
         /\ \A k \in Keys : windows[k] \in WindowRecords
         /\ \A o \in Observe(now) : \A b \in DOMAIN o : o[b] \in QuotaWindows
BY ConfigAssumption, ObservedWindow DEF IInv, TypeOK

(* A record that is only given a state and an alarm. *)
LEMMA ScheduledStep ==
  ASSUME IInv, NEW k \in Keys, NEW s \in WindowStates \ Waiting, NEW x \in Nat,
         windows'[k] = Schedule(windows[k], s, x)
  PROVE  RecordStep(k)
<1>1. windows[k] \in WindowRecords /\ now \in Nat /\ 0 \in Nat
  BY RecordTypes
<1> QED BY <1>1, ScheduleRecord DEF RecordStep, Moved

(* A record that backs off. *)
LEMMA BackedOffStep ==
  ASSUME IInv, NEW k \in Keys,
         windows'[k] \in {BackOff(windows[k], now), LateBackOff(windows[k], now),
                          Absent(windows[k], now)}
  PROVE  RecordStep(k)
BY RecordTypes, BackOffRecord DEF RecordStep, Moved

(* Tick and the handling of disabled credentials. *)
LEMMA DisableRecords ==
  ASSUME IInv, NEW k \in Keys,
         \/ \E inst \in Instances : Tick(inst)
         \/ \E auth \in Auths, state \in {"disabled", "auth_blocked"} :
              MarkCredentialState(auth, state)
  PROVE  RecordStep(k)
<1>1. \/ windows'[k] = windows[k]
      \/ \E s \in {"disabled", "auth_blocked"} :
           windows'[k] = Schedule(windows[k], s, 0)
  BY DEF Tick, MarkCredentialState, SetWindows
<1>2. {"disabled", "auth_blocked"} \subseteq WindowStates \ Waiting /\ 0 \in Nat
  BY DEF WindowStates, Waiting
<1> QED BY <1>1, <1>2, ScheduledStep DEF RecordStep

(* The steps that back off, and the report of a dry run. *)
LEMMA BackOffRecords ==
  ASSUME IInv, NEW k \in Keys, ReadFailed \/ GroupFailed \/ DryRunReport
  PROVE  RecordStep(k)
<1>1. CASE ReadFailed \/ GroupFailed
  <2>1. \/ windows'[k] = windows[k]
        \/ windows'[k] \in {BackOff(windows[k], now), LateBackOff(windows[k], now)}
    BY <1>1 DEF ReadFailed, GroupFailed, SetWindows
  <2> QED BY <2>1, BackedOffStep DEF RecordStep
<1>2. CASE DryRunReport
  <2>1. \/ windows'[k] = windows[k]
        \/ windows'[k] = Schedule(windows[k], "lazy_reset_detected",
                                  now + ObservationInterval)
    BY <1>2 DEF DryRunReport, SetWindows
  <2>2. "lazy_reset_detected" \in WindowStates \ Waiting
    BY DEF WindowStates, Waiting
  <2>3. now + ObservationInterval \in Nat
    BY RecordTypes, ConfigAssumption
  <2> QED BY <2>1, <2>2, <2>3, ScheduledStep DEF RecordStep
<1> QED BY <1>1, <1>2

(* The three observations. *)
LEMMA ObserveRecords ==
  ASSUME IInv, NEW k \in Keys, Reconcile \/ Precheck \/ Verify
  PROVE  RecordStep(k)
<1>1. now \in Nat /\ windows[k] \in WindowRecords
  BY RecordTypes
<1>2. CASE Reconcile
  <2>1. PICK o \in Observe(now) : windows' = AfterReconcile(call.inst, o)
    BY <1>2 DEF Reconcile
  <2>2. CASE k \in Observed(call.inst, o)
    <3>1. o[k.bucket] \in QuotaWindows /\ Fenced(k) \in BOOLEAN
      BY <2>2, RecordTypes DEF Observed, Fenced
    <3>2. windows'[k] = Reconciled(windows[k], o[k.bucket], Fenced(k), now)
      BY <2>1, <2>2 DEF AfterReconcile
    <3> QED BY <1>1, <3>1, <3>2, ReconciledRecord DEF RecordStep
  <2>3. CASE k \notin Observed(call.inst, o)
    <3>1. windows'[k] \in {windows[k], Absent(windows[k], now)}
      BY <2>1, <2>3 DEF AfterReconcile
    <3> QED BY <3>1, BackedOffStep DEF RecordStep
  <2> QED BY <2>2, <2>3
<1>3. CASE Precheck
  <2>1. PICK o \in Observe(now) : windows' = AfterPrecheck(o)
    BY <1>3 DEF Precheck
  <2>2. CASE k \in call.keys /\ k.bucket \in DOMAIN o
    <3>1. windows'[k] = Prechecked(windows[k], o[k.bucket], now)
      BY <2>1, <2>2 DEF AfterPrecheck
    <3> QED BY <1>1, <2>2, <3>1, RecordTypes, PrecheckedRecord DEF RecordStep
  <2>3. CASE ~(k \in call.keys /\ k.bucket \in DOMAIN o)
    <3>1. windows'[k] \in {windows[k], BackOff(windows[k], now)}
      BY <2>1, <2>3 DEF AfterPrecheck
    <3> QED BY <3>1, BackedOffStep DEF RecordStep
  <2> QED BY <2>2, <2>3
<1>4. CASE Verify
  <2> DEFINE ks == KeysIn(attempts[call.attempt].cycles)
  <2>1. PICK o \in Observe(now) : windows' = AfterVerify(ks, o)
    BY <1>4 DEF Verify
  <2>2. CASE k \in ks /\ k.bucket \in DOMAIN o
    <3>1. windows'[k] = Judged(windows[k], o[k.bucket], now)
      BY <2>1, <2>2 DEF AfterVerify
    <3>2. o[k.bucket] \in QuotaWindows /\ o[k.bucket] \in Shown(now)
      BY <2>2, RecordTypes DEF Shown
    <3> QED
      BY <1>1, <1>4, <2>2, <3>1, <3>2, JudgedRecord DEF RecordStep, Verifies
  <2>3. CASE ~(k \in ks /\ k.bucket \in DOMAIN o)
    <3>1. windows'[k] \in {windows[k], Absent(windows[k], now)}
      BY <2>1, <2>3 DEF AfterVerify
    <3> QED BY <3>1, BackedOffStep DEF RecordStep
  <2> QED BY <2>2, <2>3
<1> QED BY <1>2, <1>3, <1>4

(* The outcome of a send. *)
LEMMA OutcomeRecords ==
  ASSUME IInv, NEW k \in Keys, NEW id \in AttemptIds,
         NEW phase \in {"sent", "sent_unknown"}, MarkSendOutcome(id, phase)
  PROVE  RecordStep(k)
<1> DEFINE s == IF phase = "sent" THEN "activation_sent" ELSE "sent_unknown"
<1>1. \/ windows'[k] = windows[k]
      \/ windows'[k] = Schedule(windows[k], s, SuppressUntil(attempts[id]))
  BY DEF MarkSendOutcome, SetWindows
<1>2. s \in WindowStates \ Waiting
  BY DEF WindowStates, Waiting
<1>3. SuppressUntil(attempts[id]) \in Nat
  <2>1. attempts[id].created \in Nat /\ Suppression \in Nat
    BY TimesType, ConfigAssumption
  <2> QED BY <2>1 DEF SuppressUntil
<1> QED BY <1>1, <1>2, <1>3, ScheduledStep DEF RecordStep

(* Recover returns the windows of a Prepared attempt to their precheck. *)
LEMMA ForgetRecords ==
  ASSUME IInv, NEW k \in Keys, NEW id \in AttemptIds, RecoverPrepared(id)
  PROVE  RecordStep(k)
<1> DEFINE r == windows[k]
<1> DEFINE u == Schedule(r, "pending_precheck", now)
<1>1. now \in Nat /\ r \in WindowRecords
  BY RecordTypes
<1>2. "pending_precheck" \in WindowStates \ Waiting /\ 0 \in Nat
  BY DEF WindowStates, Waiting
<1>3. Rewritten(r, u, now) /\ SameBaseline(r, u)
  BY <1>1, <1>2, ScheduleRecord
<1>4. Detach(u) \in WindowRecords
  BY <1>3, ClearType DEF Rewritten
<1>5. Rewritten(r, Detach(u), now) /\ SameBaseline(r, Detach(u))
  <2>1. /\ Detach(u).state = u.state /\ Detach(u).reset = u.reset
        /\ Detach(u).attempt = None /\ Detach(u).nextCheck = u.nextCheck
        /\ Detach(u).activated = u.activated
    BY <1>3 DEF Rewritten, Detach, WindowRecords
  <2> QED BY <1>3, <1>4, <2>1 DEF Rewritten, Present, WakeOK, SameBaseline
<1>6. windows'[k] \in {r, Detach(u)}
  BY DEF RecoverPrepared, SetWindows
<1> QED BY <1>5, <1>6 DEF RecordStep, Moved

(* Every step. *)
LEMMA RecordSteps ==
  ASSUME IInv, [Next]_vars, NEW k \in Keys
  PROVE  RecordStep(k)
<1>1. CASE \/ \E inst \in Instances : Tick(inst)
           \/ \E auth \in Auths, state \in {"disabled", "auth_blocked"} :
                MarkCredentialState(auth, state)
  BY <1>1, DisableRecords
<1>2. CASE ReadFailed \/ GroupFailed \/ DryRunReport
  BY <1>2, BackOffRecords
<1>3. CASE Reconcile \/ Precheck \/ Verify
  BY <1>3, ObserveRecords
<1>4. CASE MarkFailed \/ MarkAccepted \/ VerifyReadFailed \/ WaitCancelled
  <2>1. call.attempt \in AttemptIds
    BY <1>4 DEF MarkFailed, MarkAccepted, VerifyReadFailed, WaitCancelled, IInv,
                CallOK
  <2>2. \/ windows' = windows
        \/ \E phase \in {"sent", "sent_unknown"} :
             MarkSendOutcome(call.attempt, phase)
    BY <1>4 DEF MarkFailed, MarkAccepted, VerifyReadFailed, WaitCancelled
  <2> QED BY <2>1, <2>2, OutcomeRecords DEF RecordStep
<1>5. CASE \E id \in AttemptIds : RecoverPrepared(id)
  BY <1>5, ForgetRecords
<1>6. CASE \E id \in AttemptIds : RecoverInFlight(id)
  <2>1. PICK id \in AttemptIds :
          windows' = windows \/ MarkSendOutcome(id, "sent_unknown")
    BY <1>6 DEF RecoverInFlight
  <2> QED BY <2>1, OutcomeRecords DEF RecordStep
<1>7. CASE Prepare
  <2>1. \/ windows'[k] = windows[k]
        \/ k \in call.keys /\ \E id \in AttemptIds :
             /\ call' = [call EXCEPT !.attempt = id]
             /\ windows'[k] = [windows[k] EXCEPT !.state = "pending_precheck",
                                                 !.attempt = id]
    BY <1>7 DEF Prepare, SetWindows
  <2>2. \A id \in AttemptIds : [call EXCEPT !.attempt = id].attempt = id
    BY DEF IInv, TypeOK, Calls
  <2> QED BY <1>7, <2>1, <2>2 DEF RecordStep, Prepares
<1>8. CASE Fence
  BY <1>8 DEF Fence, SetWindows, RecordStep, Fences
<1>9. CASE \/ \E inst \in Instances : Recover(inst)
           \/ NextGroup \/ Send \/ WaitDone \/ Done \/ Abort \/ Reconfigure
           \/ Elapse \/ UNCHANGED vars
  BY <1>9 DEF Recover, NextGroup, Send, WaitDone, Done, Abort, Reconfigure,
              Elapse, vars, db, RecordStep
<1> QED
  BY <1>1, <1>2, <1>3, <1>4, <1>5, <1>6, <1>7, <1>8, <1>9 DEF Next, Step
-----------------------------------------------------------------------------
(* The invariant                                                           *)

(* An attempt that is not stored leaves nothing behind. *)
ForgottenOK ==
  \A id \in AttemptIds : attempts[id].phase = "none" => attempts[id] = NoAttempt

(* Only a stored record can have carried a send. *)
ActivatedOK == \A k \in Keys : windows[k].activated => Present(windows[k])

RecordsOK == WakesAtReset /\ NoDanglingAttempt /\ ForgottenOK /\ ActivatedOK

(* An alarm that was right stays right while time passes. *)
LEMMA NextWakes ==
  ASSUME IInv, WakesAtReset, [Next]_vars
  PROVE  WakesAtReset'
<1>1. now' = now \/ now' = now + 1
  <2>1. CASE Elapse
    BY <2>1 DEF Elapse
  <2>2. CASE [Next]_vars /\ ~Elapse
    BY <2>2 DEF Next, Step, Tick, Recover, MarkCredentialState, ReadFailed,
       Reconcile, NextGroup, GroupFailed, Precheck, DryRunReport, Prepare, Fence,
       Send, MarkFailed, MarkAccepted, WaitDone, WaitCancelled, Verify,
       VerifyReadFailed, RecoverPrepared, RecoverInFlight, Done, Abort,
       Reconfigure, vars
  <2> QED BY <2>1, <2>2
<1>2. now \in Nat /\ Grace \in Nat
  BY RecordTypes, ConfigAssumption
<1>3. ASSUME NEW k \in Keys PROVE WakeOK(windows'[k], now')
  <2>1. WakeOK(windows[k], now) /\ windows[k] \in WindowRecords
    BY RecordTypes DEF WakesAtReset, WakeOK, Waiting
  <2>2. ASSUME NEW s \in WindowRecords, WakeOK(s, now) PROVE WakeOK(s, now')
    <3>1. s.reset \in Nat /\ s.nextCheck \in Nat
      BY DEF WindowRecords
    <3> QED BY <1>1, <1>2, <2>2, <3>1 DEF WakeOK
  <2>3. CASE Prepares(k) \/ Fences(k)
    <3>1. windows'[k].state \in {"pending_precheck", "activation_sending"}
      BY <2>1, <2>3 DEF Prepares, Fences, WindowRecords
    <3> QED BY <3>1 DEF WakeOK, Waiting
  <2>4. CASE windows'[k] = windows[k]
    BY <2>1, <2>2, <2>4
  <2>5. CASE Rewritten(windows[k], windows'[k], now)
    BY <2>2, <2>5 DEF Rewritten
  <2> QED BY <2>3, <2>4, <2>5, RecordSteps DEF RecordStep, Verifies
<1> QED BY <1>3 DEF WakesAtReset, WakeOK, Waiting

(* An attempt that is forgotten leaves nothing behind. *)
LEMMA NextForgotten ==
  ASSUME IInv, AttemptOK, ForgottenOK, [Next]_vars
  PROVE  ForgottenOK'
<1>1. attempts \in [AttemptIds -> Attempts]
  BY DEF IInv, TypeOK
<1> QED
  BY <1>1, PhaseSteps DEF ForgottenOK, Steady, Moves, Attempts

(* A record that is written is stored. *)
LEMMA NextActivated ==
  ASSUME IInv, ActivatedOK, [Next]_vars
  PROVE  ActivatedOK'
<1> SUFFICES ASSUME NEW k \in Keys, windows'[k].activated
             PROVE  Present(windows'[k])
  BY DEF ActivatedOK
<1>1. windows[k] \in WindowRecords
  BY RecordTypes
<1>2. CASE Prepares(k)
  BY <1>1, <1>2 DEF Prepares, WindowRecords, Present
<1>3. CASE Fences(k)
  BY <1>1, <1>3 DEF Fences, WindowRecords, Present
<1>4. CASE windows'[k] = windows[k]
  BY <1>4 DEF ActivatedOK
<1>5. CASE Rewritten(windows[k], windows'[k], now)
  BY <1>5 DEF Rewritten
<1> QED BY <1>2, <1>3, <1>4, <1>5, RecordSteps DEF RecordStep, Verifies

(* An attempt keeps its cycles while a window names it. *)
LEMMA NextNames ==
  ASSUME IInv, AttemptOK, ForgottenOK, NoDanglingAttempt, [Next]_vars
  PROVE  NoDanglingAttempt'
<1> SUFFICES ASSUME NEW k \in Keys, windows'[k].attempt # None
             PROVE  k \in KeysIn(attempts'[windows'[k].attempt].cycles)
  BY DEF NoDanglingAttempt
<1> DEFINE id == windows'[k].attempt
<1>1. attempts \in [AttemptIds -> Attempts] /\ windows[k] \in WindowRecords
  BY DEF IInv, TypeOK
<1>2. CASE Prepares(k)
  <2>1. PICK i \in AttemptIds :
          /\ attempts' = [attempts EXCEPT ![i] =
               [phase |-> "prepared", cycles |-> Candidates, created |-> now]]
          /\ call' = [call EXCEPT !.attempt = i]
    BY <1>2 DEF Prepares, Prepare
  <2>2. id = i
    <3>1. call'.attempt = i
      BY <2>1 DEF IInv, TypeOK, Calls
    <3> QED BY <1>1, <1>2, <3>1 DEF Prepares, WindowRecords
  <2>3. attempts'[i].cycles = Candidates
    BY <1>1, <2>1
  <2>4. Cycle(k, windows[k]) \in Candidates
    BY <1>2 DEF Prepares, Candidates
  <2>5. Cycle(k, windows[k]).key = k
    BY DEF Cycle
  <2> QED BY <2>2, <2>3, <2>4, <2>5 DEF KeysIn
<1>3. CASE ~Prepares(k)
  <2>1. id = windows[k].attempt
    <3>1. CASE Fences(k)
      BY <1>1, <3>1 DEF Fences, WindowRecords
    <3>2. CASE ~Fences(k)
      <4>1. windows'[k] = windows[k] \/ Rewritten(windows[k], windows'[k], now)
        BY <1>3, <3>2, RecordSteps DEF RecordStep, Verifies
      <4> QED BY <4>1 DEF Rewritten
    <3> QED BY <3>1, <3>2
  <2>2. id \in AttemptIds /\ k \in KeysIn(attempts[id].cycles)
    BY <1>1, <2>1 DEF NoDanglingAttempt, WindowRecords
  <2>3. attempts[id].phase # "none"
    BY <2>2 DEF ForgottenOK, NoAttempt, KeysIn
  <2>4. CASE attempts'[id].cycles = attempts[id].cycles
    BY <2>2, <2>4
  <2>5. CASE attempts'[id].cycles # attempts[id].cycles
    <3>1. RecoverPrepared(id)
      <4>1. ASSUME NEW i \in AttemptIds, RecoverPrepared(i) PROVE i = id
        BY <1>1, <2>2, <2>5, <4>1 DEF RecoverPrepared
      <4>2. ~Prepare
        BY <1>1, <2>2, <2>3, <2>5 DEF Prepare
      <4>3. ASSUME NEW i, NEW phase, Moves(i, phase) PROVE FALSE
        BY <1>1, <2>2, <2>5, <4>3 DEF Moves, Attempts
      <4>4. attempts' # attempts
        BY <2>5
      <4> QED
        BY <4>1, <4>2, <4>3, <4>4 DEF Next, Step, Tick, Recover,
           MarkCredentialState, ReadFailed, Reconcile, NextGroup, GroupFailed,
           Precheck, DryRunReport, Fence, Send, MarkFailed, MarkAccepted,
           WaitDone, WaitCancelled, Verify, VerifyReadFailed, RecoverInFlight,
           MarkSendOutcome, Done, Abort, Reconfigure, Elapse, vars, db, Moves
    <3>2. windows'[k] = Detach(Schedule(windows[k], "pending_precheck", now))
      BY <2>2, <3>1 DEF RecoverPrepared, SetWindows
    <3> QED BY <1>1, <3>2 DEF Detach, Schedule, WindowRecords
  <2> QED BY <2>4, <2>5
<1> QED BY <1>2, <1>3

(* The initial states. *)
LEMMA InitRecords == Init => RecordsOK
<1> SUFFICES ASSUME Init PROVE RecordsOK
  OBVIOUS
<1>1. \A k \in Keys : windows[k] = NoWindow
  BY DEF Init
<1>2. \A id \in AttemptIds : attempts[id] = NoAttempt
  BY DEF Init
<1> QED
  BY <1>1, <1>2 DEF RecordsOK, WakesAtReset, NoDanglingAttempt, ForgottenOK,
     ActivatedOK, NoWindow

-----------------------------------------------------------------------------
(* Theorems                                                                *)

(* The invariant of the records holds throughout. *)
THEOREM RecordsInvariant == Spec => [](IInv /\ AttemptOK /\ ModeOK /\ RecordsOK)
<1>1. Init => RecordsOK
  BY InitRecords
<1>2. IInv /\ AttemptOK /\ RecordsOK /\ [Next]_vars => RecordsOK'
  BY NextWakes, NextForgotten, NextActivated, NextNames DEF RecordsOK
<1> QED BY <1>1, <1>2, AttemptsInvariant, PTL DEF Spec

(* controller.go:198, 203, 525: a window that waits for its reset wakes    *)
(* the scheduler at reset + grace of its own baseline, or at once.         *)
THEOREM AlarmsHold == Spec => []WakesAtReset
<1>1. RecordsOK => WakesAtReset
  BY DEF RecordsOK
<1> QED BY <1>1, RecordsInvariant, PTL

(* controller.go:454-459, 521: the ActiveAttemptID of a window names a     *)
(* stored attempt that covers it.                                          *)
THEOREM NamesLiveAttempts == Spec => []NoDanglingAttempt
<1>1. RecordsOK => NoDanglingAttempt
  BY DEF RecordsOK
<1> QED BY <1>1, RecordsInvariant, PTL

(* How the baseline of a window that carried a send moves. *)
LEMMA ActivatedMoves ==
  ASSUME IInv, RecordsOK, [Next]_vars, NEW k \in Keys,
         windows[k].activated, windows'[k].reset # windows[k].reset
  PROVE  \/ Rolls(windows[k], windows'[k])
         \/ Verifies(k)
<1>1. windows[k] \in WindowRecords
  BY RecordTypes
<1>2. ~Prepares(k) /\ ~Fences(k)
  BY <1>1 DEF Prepares, Fences, WindowRecords
<1>3. Present(windows[k])
  BY DEF RecordsOK, ActivatedOK
<1> QED
  BY <1>2, <1>3, RecordSteps DEF RecordStep, Moved, SameBaseline, Begins

(* controller.go:183, 195, 405, 515-530: whatever the adapter's verdict,   *)
(* the baseline of a window that has carried a send moves to a later       *)
(* window, or with the verification that completes an attempt covering it. *)
THEOREM BaselinesMoveOnVerdict == Spec => BaselineMovesOnVerdict
<1>1. ASSUME IInv, AttemptOK, RecordsOK, [Next]_vars, NEW k \in Keys,
             windows[k].activated, windows'[k].reset # windows[k].reset
      PROVE  \/ windows'[k].reset > windows[k].reset + Skew
             \/ /\ windows'[k].state = "confirmed"
                /\ \E id \in AttemptIds :
                     /\ k \in KeysIn(attempts[id].cycles)
                     /\ attempts[id].phase # "completed"
                     /\ attempts'[id].phase = "completed"
  <2>1. CASE Rolls(windows[k], windows'[k])
    BY <2>1 DEF Rolls
  <2>2. CASE Verifies(k)
    <3> DEFINE id == call.attempt
    <3>1. id \in AttemptIds /\ attempts \in [AttemptIds -> Attempts]
      BY <1>1, <2>2 DEF Verifies, Verify, IInv, CallOK, TypeOK
    <3>2. attempts'[id].phase = "completed"
      BY <2>2, <3>1 DEF Verifies, Verify, Attempts
    <3>3. attempts[id].phase # "completed"
      BY <1>1, <2>2 DEF Verifies, Verify, AttemptOK, PhaseOK, InFlight
    <3> QED BY <2>2, <3>1, <3>2, <3>3 DEF Verifies, Confirms
  <2> QED BY <1>1, <2>1, <2>2, ActivatedMoves
<1>2. IInv /\ AttemptOK /\ RecordsOK /\ [Next]_vars =>
        [\A k \in Keys :
           windows[k].activated /\ windows'[k].reset # windows[k].reset
             => \/ windows'[k].reset > windows[k].reset + Skew
                \/ /\ windows'[k].state = "confirmed"
                   /\ \E id \in AttemptIds :
                        /\ k \in KeysIn(attempts[id].cycles)
                        /\ attempts[id].phase # "completed"
                        /\ attempts'[id].phase = "completed"]_vars
  BY <1>1
<1> QED BY <1>2, RecordsInvariant, PTL DEF Spec, BaselineMovesOnVerdict

(* A verdict that only confirms later windows, of those the provider may   *)
(* show.  ProviderAdapters_proofs says when the adapters keep to it.       *)
VerdictsRoll ==
  \A t \in 1..MaxTime : \A r \in WindowRecords, w \in Shown(t) :
    VerifyActivation(r, w) => w.reset > r.reset + Skew

(* controller.go:183, 195, 405, 522-524: with such an adapter the baseline *)
(* of a window that has carried a send only moves to a later window.       *)
THEOREM BaselinesRoll == ASSUME VerdictsRoll PROVE Spec => BaselineOnlyRolls
<1>1. ASSUME IInv, RecordsOK, [Next]_vars, NEW k \in Keys,
             windows[k].activated, windows'[k].reset # windows[k].reset
      PROVE  windows'[k].reset > windows[k].reset + Skew
  <2>1. windows[k] \in WindowRecords
    BY <1>1, RecordTypes
  <2>2. CASE Rolls(windows[k], windows'[k])
    BY <2>2 DEF Rolls
  <2>3. CASE Verifies(k)
    BY <1>1, <2>1, <2>3, VerdictsRoll
    DEF Verifies, Confirms, VerdictsRoll, IInv, TypeOK
  <2> QED BY <1>1, <2>2, <2>3, ActivatedMoves
<1>2. IInv /\ RecordsOK /\ [Next]_vars =>
        [\A k \in Keys :
           windows[k].activated /\ windows'[k].reset # windows[k].reset
             => windows'[k].reset > windows[k].reset + Skew]_vars
  BY <1>1
<1> QED BY <1>2, RecordsInvariant, PTL DEF Spec, BaselineOnlyRolls
=============================================================================
