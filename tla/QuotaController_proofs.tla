----------------------- MODULE QuotaController_proofs -----------------------
(***************************************************************************)
(* Proofs about QuotaController, for every value of its constants.         *)
(***************************************************************************)
EXTENDS QuotaController, TLAPS

-----------------------------------------------------------------------------
(* Times and records                                                       *)

(* A back-off delay is a natural number, whatever the retry counter. *)
LEMMA RetryDelayType ==
  ASSUME NEW n \in Nat
  PROVE  RetryDelay(n) \in Nat /\ Bump(n) \in Nat
<1>1. RetryDelays \in Seq(Nat) /\ ObservationInterval \in Nat /\ MaxRetries \in Nat
  BY ConfigAssumption
<1>2. CASE RetryDelays = <<>>
  BY <1>1, <1>2 DEF RetryDelay, Bump, RetryCap
<1>3. CASE RetryDelays # <<>>
  <2>1. Len(RetryDelays) \in Nat \ {0}
    BY <1>1, <1>3
  <2> DEFINE i == IF n < Len(RetryDelays) THEN n + 1 ELSE Len(RetryDelays)
  <2>2. i \in 1..Len(RetryDelays)
    BY <2>1
  <2>3. RetryDelays[i] \in Nat
    BY <2>2, <1>1
  <2> QED
    BY <2>1, <2>3, <1>1 DEF RetryDelay, Bump, RetryCap
<1> QED
  BY <1>2, <1>3

(* Every record an operator of QuotaModel builds is a window record. *)
LEMMA ScheduleType ==
  ASSUME NEW r \in WindowRecords, NEW s \in WindowStates, NEW t \in Nat
  PROVE  Schedule(r, s, t) \in WindowRecords
BY DEF Schedule, WindowRecords

(* A record keeps its type when it takes the baseline of a window. *)
LEMMA RebaseType ==
  ASSUME NEW r \in WindowRecords, NEW w \in QuotaWindows
  PROVE  Rebase(r, w) \in WindowRecords
BY DEF Rebase, WindowRecords, QuotaWindows

(* A record keeps its type when its counter or its attempt is cleared. *)
LEMMA ClearType ==
  ASSUME NEW r \in WindowRecords
  PROVE  Forgive(r) \in WindowRecords /\ Detach(r) \in WindowRecords
BY DEF Forgive, Detach, WindowRecords

(* Deadlines are times. *)
LEMMA DeadlineType ==
  ASSUME NEW reset \in Nat, NEW t \in Nat
  PROVE  Deadline(reset, t) \in Nat
BY ConfigAssumption DEF Deadline

(* A record keeps its type when it backs off. *)
LEMMA BackOffType ==
  ASSUME NEW r \in WindowRecords, NEW t \in Nat
  PROVE  /\ BackOff(r, t) \in WindowRecords
         /\ LateBackOff(r, t) \in WindowRecords
         /\ Absent(r, t) \in WindowRecords
         /\ Unsupported(r, t) \in WindowRecords
<1>1. r.retries \in Nat /\ Bump(r.retries) \in Nat
  BY RetryDelayType DEF WindowRecords
<1>2. RetryDelay(r.retries) \in Nat /\ RetryDelay(Bump(r.retries)) \in Nat
  BY <1>1, RetryDelayType
<1>3. ObservationInterval \in Nat
  BY ConfigAssumption
<1>4. \A d \in Nat : Schedule(r, "retry_wait", t + d) \in WindowRecords
  BY ScheduleType DEF WindowStates
<1>5. \A x \in WindowRecords, n \in Nat :
        [x EXCEPT !.retries = n] \in WindowRecords
  BY DEF WindowRecords
<1>6. BackOff(r, t) \in WindowRecords
  BY <1>1, <1>2, <1>4, <1>5 DEF BackOff
<1>7. LateBackOff(r, t) \in WindowRecords
  BY <1>1, <1>2, <1>4, <1>5 DEF LateBackOff
<1>8. Absent(r, t) \in WindowRecords
  BY <1>3, <1>4 DEF Absent
<1>9. Unsupported(r, t) \in WindowRecords
  BY <1>3, ScheduleType DEF Unsupported, WindowStates
<1> QED
  BY <1>6, <1>7, <1>8, <1>9

(* A record keeps its type when its window rolls. *)
LEMMA NormalResetType ==
  ASSUME NEW r \in WindowRecords, NEW w \in QuotaWindows, NEW t \in Nat
  PROVE  NormalReset(r, w, t) \in WindowRecords
<1>1. Rebase(r, w) \in WindowRecords
  BY RebaseType
<1>2. Deadline(w.reset, t) \in Nat
  BY DeadlineType DEF QuotaWindows
<1>3. Schedule(Rebase(r, w), "normal_reset", Deadline(w.reset, t)) \in WindowRecords
  BY <1>1, <1>2, ScheduleType DEF WindowStates
<1> QED
  BY <1>3, ClearType DEF NormalReset

(* What reconcileObservation makes of a record is a record. *)
LEMMA ReconciledType ==
  ASSUME NEW r \in WindowRecords, NEW w \in QuotaWindows, NEW t \in Nat,
         NEW fenced \in BOOLEAN
  PROVE  Reconciled(r, w, fenced, t) \in WindowRecords
<1>1. w.reset \in Nat /\ r.reset \in Nat
  BY DEF QuotaWindows, WindowRecords
<1>2. Deadline(w.reset, t) \in Nat /\ Deadline(r.reset, t) \in Nat
  BY <1>1, DeadlineType
<1>3. ObservationInterval \in Nat
  BY ConfigAssumption
<1>4. FirstSight(w, t) \in WindowRecords
  <2>1. NoWindow \in WindowRecords
    BY DEF NoWindow, WindowRecords
  <2>2. Rebase(NoWindow, w) \in WindowRecords
    BY <2>1, RebaseType
  <2>3. FirstState(w, t) \in WindowStates
    BY DEF FirstState, WindowStates
  <2> QED
    BY <1>2, <2>2, <2>3, ScheduleType DEF FirstSight
<1>5. Resight(r, w, fenced, t) \in WindowRecords
  <2>1. Schedule(Rebase(r, w), "pending_precheck", 0) \in WindowRecords
    BY RebaseType, ScheduleType DEF WindowStates
  <2>2. Detach(NormalReset(r, w, t)) \in WindowRecords
    BY NormalResetType, ClearType
  <2>3. Schedule(r, "waiting_reset", Deadline(r.reset, t)) \in WindowRecords
    BY <1>2, ScheduleType DEF WindowStates
  <2>4. Schedule(r, "sent_unknown", t + ObservationInterval) \in WindowRecords
    BY <1>3, ScheduleType DEF WindowStates
  <2>5. Schedule(r, "lazy_reset_detected", 0) \in WindowRecords
    BY ScheduleType DEF WindowStates
  <2> QED
    BY <2>1, <2>2, <2>3, <2>4, <2>5, BackOffType DEF Resight
<1> QED
  BY <1>4, <1>5 DEF Reconciled

(* What precheckGroup makes of a record is a record. *)
LEMMA PrecheckedType ==
  ASSUME NEW r \in WindowRecords, NEW w \in QuotaWindows, NEW t \in Nat
  PROVE  Prechecked(r, w, t) \in WindowRecords
<1>1. Schedule(r, "lazy_reset_detected", 0) \in WindowRecords
  BY ScheduleType DEF WindowStates
<1> QED
  BY <1>1, BackOffType, NormalResetType DEF Prechecked

(* What verifyAttempt makes of a record is a record. *)
LEMMA JudgedType ==
  ASSUME NEW r \in WindowRecords, NEW w \in QuotaWindows, NEW t \in Nat
  PROVE  Judged(r, w, t) \in WindowRecords
<1>1. w.reset \in Nat
  BY DEF QuotaWindows
<1>2. Deadline(w.reset, t) \in Nat
  BY <1>1, DeadlineType
<1>3. Schedule(Rebase(r, w), "confirmed", Deadline(w.reset, t)) \in WindowRecords
  BY <1>2, RebaseType, ScheduleType DEF WindowStates
<1>4. Forgive(Schedule(Rebase(r, w), "confirmed", Deadline(w.reset, t)))
        \in WindowRecords
  BY <1>3, ClearType
<1>5. Schedule(r, "retry_wait", t + ObservationInterval) \in WindowRecords
  BY ConfigAssumption, ScheduleType DEF WindowStates
<1> QED
  BY <1>4, <1>5, ClearType DEF Judged

-----------------------------------------------------------------------------
(* The inductive invariant                                                 *)

(* The locals of a call that its next step relies on. *)
CallOK ==
  /\ pc \in {"prepared", "send", "accepted", "failed", "waiting", "verify"}
       => call.attempt \in AttemptIds
  /\ pc \in {"prepared", "send"} => attempts[call.attempt].cycles # {}
  /\ pc \in {"precheck", "plan"} => call.keys # {}
  /\ {} \notin call.todo

(* Where the cycles of the running attempt stand to the ledger: outside it *)
(* until the fence, inside it but unsent until the send.                   *)
FenceOK ==
  /\ sent \subseteq ledger
  /\ resent = {}
  /\ pc = "prepared" => attempts[call.attempt].cycles \cap ledger = {}
  /\ pc = "send" => /\ attempts[call.attempt].cycles \subseteq ledger
                    /\ attempts[call.attempt].cycles \cap sent = {}

IInv == TypeOK /\ CallOK /\ FenceOK

-----------------------------------------------------------------------------
(* Types of the parts of a step                                            *)

(* The keys of cycles are keys. *)
LEMMA KeysInType ==
  ASSUME NEW cs \in SUBSET Cycles
  PROVE  KeysIn(cs) \subseteq Keys
BY DEF KeysIn, Cycles

(* The cycles of the group being run are cycles. *)
LEMMA CandidatesType ==
  ASSUME TypeOK
  PROVE  /\ Candidates \in SUBSET Cycles
         /\ call.keys # {} => Candidates # {}
<1>1. call.keys \subseteq Keys
  BY DEF TypeOK, Calls
<1>2. \A k \in Keys : windows[k].reset \in Nat
  BY DEF TypeOK, WindowRecords
<1>3. \A k \in Keys : Cycle(k, windows[k]) \in Cycles
  BY <1>2 DEF Cycle, Cycles
<1> QED
  BY <1>1, <1>3 DEF Candidates

(* A call that returns leaves no locals behind. *)
LEMMA ReturnType ==
  ASSUME Return
  PROVE  /\ pc' \in Places /\ call' \in Calls
         /\ pc' = "idle" /\ call'.todo = {}
BY DEF Return, NoCall, Calls, Places

(* The locals keep their type between two groups or attempts. *)
LEMMA ProceedType ==
  ASSUME TypeOK, NEW ids \in SUBSET AttemptIds, Proceed(ids)
  PROVE  /\ pc' \in Places /\ call' \in Calls
         /\ pc' = "next" /\ call'.todo = call.todo
BY DEF TypeOK, Proceed, Calls, Places

(* A call begins with locals of the right type. *)
LEMMA BeginType ==
  ASSUME NEW mode \in {"tick", "recover"}, NEW inst \in Instances,
         NEW ids \in SUBSET AttemptIds, NEW place \in {"read", "next"},
         Begin(mode, inst, ids, place)
  PROVE  /\ pc' \in Places /\ call' \in Calls
         /\ pc' = place /\ call'.todo = {}
<1>1. call' = [NoCall EXCEPT !.mode = mode, !.inst = inst, !.ids = ids]
  BY DEF Begin
<1>2. pc' = place /\ pc' \in Places
  BY DEF Begin, Places
<1>3. call' \in Calls /\ call'.todo = {}
  BY <1>1 DEF NoCall, Calls
<1> QED
  BY <1>2, <1>3

(* markSendOutcome keeps attempts and windows well typed. *)
LEMMA MarkSendOutcomeType ==
  ASSUME TypeOK, NEW id \in AttemptIds, NEW phase \in {"sent", "sent_unknown"},
         MarkSendOutcome(id, phase)
  PROVE  /\ windows' \in [Keys -> WindowRecords]
         /\ attempts' \in [AttemptIds -> Attempts]
<1>1. attempts[id] \in Attempts
  BY DEF TypeOK
<1>2. SuppressUntil(attempts[id]) \in Nat
  BY <1>1, ConfigAssumption DEF SuppressUntil, Attempts
<1>3. windows' \in [Keys -> WindowRecords]
  <2> DEFINE s == IF phase = "sent" THEN "activation_sent" ELSE "sent_unknown"
  <2>1. s \in WindowStates
    BY DEF WindowStates
  <2>2. \A k \in Keys :
          Schedule(windows[k], s, SuppressUntil(attempts[id])) \in WindowRecords
    BY <1>2, <2>1, ScheduleType DEF TypeOK
  <2> QED
    BY <2>2 DEF TypeOK, MarkSendOutcome, SetWindows
<1>4. attempts' \in [AttemptIds -> Attempts]
  BY <1>1 DEF TypeOK, MarkSendOutcome, Attempts, Phases
<1> QED
  BY <1>3, <1>4

(* A step that neither fences nor sends and leaves the places between them. *)
LEMMA FenceKept ==
  ASSUME FenceOK, UNCHANGED <<ledger, sent, resent>>,
         pc' \notin {"prepared", "send"}
  PROVE  FenceOK'
BY DEF FenceOK

(* The conditions on the call hold on while the call does not change. *)
LEMMA CallKept ==
  ASSUME pc' \in {"idle", "read", "next"}, {} \notin call'.todo
  PROVE  CallOK'
BY DEF CallOK

(* An observation gives a window for each bucket it names. *)
LEMMA ObservedWindow ==
  ASSUME TypeOK, NEW o \in Observe(now), NEW b \in DOMAIN o
  PROVE  o[b] \in QuotaWindows
BY ObserveAssumption DEF TypeOK, IsObservation

-----------------------------------------------------------------------------
(* One lemma per action                                                    *)

(* Tick up to the read: only windows of replaced identities change. *)
LEMMA TickStep ==
  ASSUME IInv, NEW inst \in Instances, Tick(inst)
  PROVE  IInv'
<1>1. /\ pc' \in Places /\ call' \in Calls
      /\ pc' = "read" /\ call'.todo = {}
  BY BeginType DEF Tick
<1>2. windows' \in [Keys -> WindowRecords]
  <2>1. \A k \in Keys : Schedule(windows[k], "disabled", 0) \in WindowRecords
    BY ScheduleType DEF IInv, TypeOK, WindowStates
  <2> QED
    BY <2>1 DEF Tick, SetWindows, IInv, TypeOK
<1>3. TypeOK'
  BY <1>1, <1>2 DEF Tick, IInv, TypeOK, history
<1> QED
  BY <1>1, <1>3, CallKept, FenceKept DEF Tick, IInv, history

(* Recover collects attempts and changes nothing else. *)
LEMMA RecoverStep ==
  ASSUME IInv, NEW inst \in Instances, Recover(inst)
  PROVE  IInv'
<1> DEFINE ids == {id \in AttemptIds : Unfinished(id) /\ OfInstance(id, inst)}
<1>1. ids \in SUBSET AttemptIds
  OBVIOUS
<1>2. Begin("recover", inst, ids, "next")
  BY DEF Recover
<1>3. /\ pc' \in Places /\ call' \in Calls
      /\ pc' = "next" /\ call'.todo = {}
  BY <1>1, <1>2, BeginType
<1>4. TypeOK'
  BY <1>3 DEF Recover, IInv, TypeOK, db, history
<1> QED
  BY <1>3, <1>4, CallKept, FenceKept DEF Recover, IInv, db, history

(* A disabled or blocked credential: only windows change. *)
LEMMA MarkCredentialStateStep ==
  ASSUME IInv, NEW auth \in Auths, NEW state \in {"disabled", "auth_blocked"},
         MarkCredentialState(auth, state)
  PROVE  IInv'
<1>1. windows' \in [Keys -> WindowRecords]
  <2>1. \A k \in Keys : Schedule(windows[k], state, 0) \in WindowRecords
    BY ScheduleType DEF IInv, TypeOK, WindowStates
  <2> QED
    BY <2>1 DEF MarkCredentialState, SetWindows, IInv, TypeOK
<1>2. TypeOK'
  BY <1>1 DEF MarkCredentialState, IInv, TypeOK, history
<1>3. pc' = "idle" /\ call' = call
  BY DEF MarkCredentialState
<1> QED
  BY <1>2, <1>3, CallKept, FenceKept
  DEF MarkCredentialState, IInv, CallOK, history

(* A failed read: only windows change and the call returns. *)
LEMMA ReadFailedStep ==
  ASSUME IInv, ReadFailed
  PROVE  IInv'
<1>1. /\ pc' \in Places /\ call' \in Calls
      /\ pc' = "idle" /\ call'.todo = {}
  BY ReturnType DEF ReadFailed
<1>2. windows' \in [Keys -> WindowRecords]
  <2>1. \A k \in Keys : LateBackOff(windows[k], now) \in WindowRecords
    BY BackOffType DEF IInv, TypeOK
  <2> QED
    BY <2>1 DEF ReadFailed, SetWindows, IInv, TypeOK
<1>3. TypeOK'
  BY <1>1, <1>2 DEF ReadFailed, IInv, TypeOK, history
<1> QED
  BY <1>1, <1>3, CallKept, FenceKept DEF ReadFailed, IInv, history

(* reconcileObservation: the groups are sets of keys, nothing is fenced. *)
LEMMA ReconcileStep ==
  ASSUME IInv, Reconcile
  PROVE  IInv'
<1>1. PICK o \in Observe(now) :
        /\ windows' = AfterReconcile(call.inst, o)
        /\ call' = [call EXCEPT
             !.todo = GroupsOf({k \in Observed(call.inst, o) :
                        Candidate(AfterReconcile(call.inst, o)[k])}),
             !.born = {k \in Observed(call.inst, o) :
                         AfterReconcile(call.inst, o)[k].reset # windows[k].reset
                           \/ AfterReconcile(call.inst, o)[k].state
                                = "pending_precheck"}]
  BY DEF Reconcile
<1>2. windows' \in [Keys -> WindowRecords]
  <2>1. ASSUME NEW k \in Keys
        PROVE  AfterReconcile(call.inst, o)[k] \in WindowRecords
    <3>1. windows[k] \in WindowRecords /\ now \in Nat
      BY DEF IInv, TypeOK
    <3>2. Absent(windows[k], now) \in WindowRecords
      BY <3>1, BackOffType
    <3>3. CASE k \in Observed(call.inst, o)
      <4>1. o[k.bucket] \in QuotaWindows
        BY <3>3, ObservedWindow DEF Observed, IInv
      <4>2. Fenced(k) \in BOOLEAN
        BY DEF Fenced
      <4>3. Reconciled(windows[k], o[k.bucket], Fenced(k), now) \in WindowRecords
        BY <3>1, <4>1, <4>2, ReconciledType
      <4> QED
        BY <3>3, <4>3 DEF AfterReconcile
    <3>4. CASE k \notin Observed(call.inst, o)
      BY <3>1, <3>2, <3>4 DEF AfterReconcile
    <3> QED
      BY <3>3, <3>4
  <2> QED
    BY <1>1, <2>1 DEF AfterReconcile
<1>3. Observed(call.inst, o) \subseteq Keys
  BY DEF Observed, KeysOf
<1>4. call' \in Calls /\ {} \notin call'.todo
  <2>1. \A ks \in SUBSET Keys :
          GroupsOf(ks) \in SUBSET SUBSET Keys /\ {} \notin GroupsOf(ks)
    BY DEF GroupsOf, SameGroup
  <2>2. call \in Calls
    BY DEF IInv, TypeOK
  <2> DEFINE todo == GroupsOf({k \in Observed(call.inst, o) :
                       Candidate(AfterReconcile(call.inst, o)[k])})
             born == {k \in Observed(call.inst, o) :
                        AfterReconcile(call.inst, o)[k].reset # windows[k].reset
                          \/ AfterReconcile(call.inst, o)[k].state
                               = "pending_precheck"}
  <2>3. todo \in SUBSET SUBSET Keys /\ {} \notin todo
    BY <1>3, <2>1
  <2>4. born \in SUBSET Keys
    BY <1>3
  <2>5. call' = [call EXCEPT !.todo = todo, !.born = born]
    BY <1>1
  <2> HIDE DEF todo, born
  <2> QED
    BY <2>2, <2>3, <2>4, <2>5 DEF Calls
<1>5. pc' = "next"
  BY DEF Reconcile
<1>6. TypeOK'
  BY <1>2, <1>4, <1>5 DEF Reconcile, IInv, TypeOK, history, Places
<1> QED
  BY <1>4, <1>5, <1>6, CallKept, FenceKept DEF Reconcile, IInv, history

(* The next group is one of those reconcileObservation returned. *)
LEMMA NextGroupStep ==
  ASSUME IInv, NextGroup
  PROVE  IInv'
<1>1. PICK g \in call.todo :
        /\ call' = [call EXCEPT !.todo = @ \ {g}, !.keys = g]
        /\ pc' = IF NeedsPrecheck(g) THEN "precheck" ELSE "plan"
  BY DEF NextGroup
<1>2. call \in Calls /\ g \subseteq Keys /\ g # {}
  BY DEF IInv, TypeOK, CallOK, Calls
<1>3. call' \in Calls /\ call'.keys # {} /\ {} \notin call'.todo
  BY <1>1, <1>2 DEF Calls, IInv, CallOK
<1>4. pc' \in {"precheck", "plan"}
  BY <1>1
<1>5. TypeOK'
  BY <1>3, <1>4 DEF NextGroup, IInv, TypeOK, db, history, Places
<1>6. CallOK'
  BY <1>3, <1>4 DEF CallOK
<1> QED
  BY <1>4, <1>5, <1>6, FenceKept DEF NextGroup, IInv, db, history

(* recordGroupFailure: only windows change and the call returns. *)
LEMMA GroupFailedStep ==
  ASSUME IInv, GroupFailed
  PROVE  IInv'
<1>1. /\ pc' \in Places /\ call' \in Calls
      /\ pc' = "idle" /\ call'.todo = {}
  BY ReturnType DEF GroupFailed
<1>2. windows' \in [Keys -> WindowRecords]
  <2>1. \A k \in Keys : BackOff(windows[k], now) \in WindowRecords
    BY BackOffType DEF IInv, TypeOK
  <2> QED
    BY <2>1 DEF GroupFailed, SetWindows, IInv, TypeOK
<1>3. TypeOK'
  BY <1>1, <1>2 DEF GroupFailed, IInv, TypeOK, history
<1> QED
  BY <1>1, <1>3, CallKept, FenceKept DEF GroupFailed, IInv, history

(* precheckGroup: only windows change, the group only shrinks. *)
LEMMA PrecheckStep ==
  ASSUME IInv, Precheck
  PROVE  IInv'
<1>1. PICK o \in Observe(now) :
        /\ windows' = AfterPrecheck(o)
        /\ IF Kept(AfterPrecheck(o)) = {} THEN Proceed(call.ids)
           ELSE /\ pc' = "plan"
                /\ call' = [call EXCEPT !.keys = Kept(AfterPrecheck(o)),
                                        !.prechecked = TRUE]
  BY DEF Precheck
<1>2. call \in Calls /\ call.ids \in SUBSET AttemptIds /\ {} \notin call.todo
  BY DEF IInv, TypeOK, CallOK, Calls
<1>3. windows' \in [Keys -> WindowRecords]
  <2>1. ASSUME NEW k \in Keys
        PROVE  AfterPrecheck(o)[k] \in WindowRecords
    <3>1. windows[k] \in WindowRecords /\ now \in Nat
      BY DEF IInv, TypeOK
    <3>2. CASE k \in call.keys /\ k.bucket \in DOMAIN o
      <4>1. Prechecked(windows[k], o[k.bucket], now) \in WindowRecords
        BY <3>1, <3>2, ObservedWindow, PrecheckedType DEF IInv
      <4> QED
        BY <3>2, <4>1 DEF AfterPrecheck
    <3>3. CASE ~(k \in call.keys /\ k.bucket \in DOMAIN o)
      BY <3>1, <3>3, BackOffType DEF AfterPrecheck
    <3> QED
      BY <3>2, <3>3
  <2> QED
    BY <1>1, <2>1 DEF AfterPrecheck
<1>4. CASE Kept(AfterPrecheck(o)) = {}
  <2>1. Proceed(call.ids)
    BY <1>1, <1>4
  <2>2. /\ pc' \in Places /\ call' \in Calls
        /\ pc' = "next" /\ call'.todo = call.todo
    BY <1>2, <2>1, ProceedType DEF IInv
  <2>3. TypeOK'
    BY <1>3, <2>2 DEF Precheck, IInv, TypeOK, history
  <2> QED
    BY <1>2, <2>2, <2>3, CallKept, FenceKept DEF Precheck, IInv, history
<1>5. CASE Kept(AfterPrecheck(o)) # {}
  <2> DEFINE kept == Kept(AfterPrecheck(o))
  <2>1. kept \in SUBSET Keys
    BY <1>2 DEF Kept, Calls
  <2>2. pc' = "plan" /\ call' = [call EXCEPT !.keys = kept, !.prechecked = TRUE]
    BY <1>1, <1>5
  <2> HIDE DEF kept
  <2>3. call' \in Calls /\ call'.keys = kept /\ call'.todo = call.todo
    BY <1>2, <2>1, <2>2 DEF Calls
  <2>4. TypeOK'
    BY <1>3, <2>2, <2>3 DEF Precheck, IInv, TypeOK, history, Places
  <2>5. CallOK'
    BY <1>2, <1>5, <2>2, <2>3 DEF CallOK, kept
  <2> QED
    BY <2>2, <2>4, <2>5, FenceKept DEF Precheck, IInv, history
<1> QED
  BY <1>4, <1>5

(* The dry-run report: only windows change. *)
LEMMA DryRunReportStep ==
  ASSUME IInv, DryRunReport
  PROVE  IInv'
<1>1. call.ids \in SUBSET AttemptIds /\ {} \notin call.todo
  BY DEF IInv, TypeOK, CallOK, Calls
<1>2. /\ pc' \in Places /\ call' \in Calls
      /\ pc' = "next" /\ call'.todo = call.todo
  BY <1>1, ProceedType DEF DryRunReport, IInv
<1>3. windows' \in [Keys -> WindowRecords]
  <2>1. now + ObservationInterval \in Nat
    BY ConfigAssumption DEF IInv, TypeOK
  <2>2. \A k \in Keys :
          Schedule(windows[k], "lazy_reset_detected", now + ObservationInterval)
            \in WindowRecords
    BY <2>1, ScheduleType DEF IInv, TypeOK, WindowStates
  <2> QED
    BY <2>2 DEF DryRunReport, SetWindows, IInv, TypeOK
<1>4. TypeOK'
  BY <1>2, <1>3 DEF DryRunReport, IInv, TypeOK, history
<1> QED
  BY <1>1, <1>2, <1>4, CallKept, FenceKept DEF DryRunReport, IInv, history

(* The attempt that enters the store is outside the ledger. *)
LEMMA PrepareStep ==
  ASSUME IInv, Prepare
  PROVE  IInv'
<1>1. PICK id \in AttemptIds :
        /\ attempts' = [attempts EXCEPT ![id] =
             [phase |-> "prepared", cycles |-> Candidates, created |-> now]]
        /\ SetWindows(call.keys, LAMBDA r :
             [r EXCEPT !.state = "pending_precheck", !.attempt = id])
        /\ call' = [call EXCEPT !.attempt = id]
  BY DEF Prepare
<1>2. pc = "plan" /\ pc' = "prepared" /\ Candidates \cap ledger = {}
  BY DEF Prepare
<1>3. Candidates \in SUBSET Cycles /\ Candidates # {}
  BY <1>2, CandidatesType DEF IInv, CallOK
<1>4. attempts' \in [AttemptIds -> Attempts] /\ attempts'[id].cycles = Candidates
  <2>1. [phase |-> "prepared", cycles |-> Candidates, created |-> now] \in Attempts
    BY <1>3 DEF Attempts, Phases, IInv, TypeOK
  <2> QED
    BY <1>1, <2>1 DEF IInv, TypeOK
<1>5. windows' \in [Keys -> WindowRecords]
  <2>1. ASSUME NEW r \in WindowRecords
        PROVE  [r EXCEPT !.state = "pending_precheck", !.attempt = id]
                 \in WindowRecords
    BY <2>1 DEF WindowRecords, WindowStates
  <2> QED
    BY <1>1, <2>1 DEF SetWindows, IInv, TypeOK
<1>6. call' \in Calls /\ call'.attempt = id /\ call'.todo = call.todo
  BY <1>1 DEF Calls, IInv, TypeOK
<1>7. TypeOK'
  BY <1>2, <1>4, <1>5, <1>6 DEF Prepare, IInv, TypeOK, history, Places
<1>8. CallOK'
  BY <1>2, <1>3, <1>4, <1>6 DEF CallOK, IInv
<1>9. FenceOK'
  BY <1>2, <1>4, <1>6 DEF FenceOK, Prepare, IInv, history
<1> QED
  BY <1>7, <1>8, <1>9 DEF IInv

(* Its cycles enter the ledger in the step that arms the send. *)
LEMMA FenceStep ==
  ASSUME IInv, Fence
  PROVE  IInv'
<1> DEFINE id == call.attempt
<1>1. /\ pc = "prepared" /\ pc' = "send" /\ call' = call
      /\ attempts' = [attempts EXCEPT ![id].phase = "sending"]
      /\ ledger' = ledger \cup attempts[id].cycles
      /\ UNCHANGED <<now, dryRun, sent, resent>>
  BY DEF Fence, LedgerWith, history
<1>2. id \in AttemptIds
  BY <1>1 DEF IInv, CallOK
<1>3. attempts[id] \in Attempts
  BY <1>2 DEF IInv, TypeOK
<1>4. /\ attempts' \in [AttemptIds -> Attempts]
      /\ attempts'[id].cycles = attempts[id].cycles
  BY <1>1, <1>2, <1>3 DEF IInv, TypeOK, Attempts, Phases
<1>5. windows' \in [Keys -> WindowRecords]
  <2>1. ASSUME NEW r \in WindowRecords
        PROVE  [r EXCEPT !.state = "activation_sending", !.activated = TRUE]
                 \in WindowRecords
    BY <2>1 DEF WindowRecords, WindowStates
  <2> QED
    BY <2>1 DEF Fence, SetWindows, IInv, TypeOK
<1>6. ledger' \in SUBSET Cycles
  BY <1>1, <1>3 DEF IInv, TypeOK, Attempts
<1>7. TypeOK'
  BY <1>1, <1>4, <1>5, <1>6 DEF IInv, TypeOK, Places
<1>8. CallOK'
  BY <1>1, <1>2, <1>4 DEF IInv, CallOK
<1>9. FenceOK'
  BY <1>1, <1>4 DEF IInv, FenceOK
<1> QED
  BY <1>7, <1>8, <1>9 DEF IInv

(* What is sent was not sent before. *)
LEMMA SendStep ==
  ASSUME IInv, Send
  PROVE  IInv'
<1> DEFINE cycles == attempts[call.attempt].cycles
<1>1. /\ pc = "send" /\ pc' \in {"accepted", "failed"}
      /\ sent' = sent \cup cycles /\ resent' = resent \cup (sent \cap cycles)
      /\ UNCHANGED <<now, db, dryRun, call>>
  BY DEF Send
<1>2. cycles \subseteq ledger /\ cycles \cap sent = {}
  BY <1>1 DEF IInv, FenceOK
<1>3. sent' \subseteq ledger /\ resent' = {}
  BY <1>1, <1>2 DEF IInv, FenceOK
<1>4. TypeOK'
  BY <1>1, <1>3 DEF IInv, TypeOK, db, Places
<1>5. CallOK'
  BY <1>1 DEF IInv, CallOK, db
<1>6. FenceOK'
  BY <1>1, <1>3 DEF FenceOK, db
<1> QED
  BY <1>4, <1>5, <1>6 DEF IInv

(* A send that failed: the cycles of the attempt stay fenced. *)
LEMMA MarkFailedStep ==
  ASSUME IInv, MarkFailed
  PROVE  IInv'
<1>1. /\ call.attempt \in AttemptIds /\ call.ids \in SUBSET AttemptIds
      /\ {} \notin call.todo
  BY DEF MarkFailed, IInv, TypeOK, CallOK, Calls
<1>2. /\ windows' \in [Keys -> WindowRecords]
      /\ attempts' \in [AttemptIds -> Attempts]
  BY <1>1, MarkSendOutcomeType DEF MarkFailed, IInv
<1>3. /\ pc' \in Places /\ call' \in Calls
      /\ pc' = "next" /\ call'.todo = call.todo
  BY <1>1, ProceedType DEF MarkFailed, IInv
<1>4. TypeOK'
  BY <1>2, <1>3 DEF MarkFailed, IInv, TypeOK, history
<1> QED
  BY <1>1, <1>3, <1>4, CallKept, FenceKept DEF MarkFailed, IInv, history

(* A send that succeeded: the cycles of the attempt stay fenced. *)
LEMMA MarkAcceptedStep ==
  ASSUME IInv, MarkAccepted
  PROVE  IInv'
<1>1. call.attempt \in AttemptIds /\ pc' = "waiting"
  BY DEF MarkAccepted, IInv, CallOK
<1>2. /\ windows' \in [Keys -> WindowRecords]
      /\ attempts' \in [AttemptIds -> Attempts]
  BY <1>1, MarkSendOutcomeType DEF MarkAccepted, IInv
<1>3. now + VerifyDelay \in Nat
  BY ConfigAssumption DEF IInv, TypeOK
<1>4. /\ call' \in Calls /\ call'.attempt = call.attempt
      /\ call'.todo = call.todo
  BY <1>3 DEF MarkAccepted, IInv, TypeOK, Calls
<1>5. TypeOK'
  BY <1>1, <1>2, <1>4 DEF MarkAccepted, IInv, TypeOK, history, Places
<1>6. CallOK'
  BY <1>1, <1>4 DEF IInv, CallOK
<1> QED
  BY <1>1, <1>5, <1>6, FenceKept DEF MarkAccepted, IInv, history

(* The wait ends by itself. *)
LEMMA WaitDoneStep ==
  ASSUME IInv, WaitDone
  PROVE  IInv'
<1>1. pc = "waiting" /\ pc' = "verify" /\ UNCHANGED <<now, db, dryRun, call, history>>
  BY DEF WaitDone
<1>2. TypeOK'
  BY <1>1 DEF IInv, TypeOK, db, history, Places
<1>3. CallOK'
  BY <1>1 DEF IInv, CallOK, db
<1> QED
  BY <1>1, <1>2, <1>3, FenceKept DEF IInv, db, history

(* The wait is cut off, in a Tick or in Recover. *)
LEMMA WaitCancelledStep ==
  ASSUME IInv, WaitCancelled
  PROVE  IInv'
<1>1. /\ call.attempt \in AttemptIds /\ call.ids \in SUBSET AttemptIds
      /\ {} \notin call.todo
  BY DEF WaitCancelled, IInv, TypeOK, CallOK, Calls
<1>2. UNCHANGED <<now, ledger, dryRun, sent, resent>>
  BY DEF WaitCancelled, history
<1>3. CASE MarkSendOutcome(call.attempt, "sent_unknown") /\ Proceed(call.ids)
  <2>1. /\ windows' \in [Keys -> WindowRecords]
        /\ attempts' \in [AttemptIds -> Attempts]
    BY <1>1, <1>3, MarkSendOutcomeType DEF IInv
  <2>2. /\ pc' \in Places /\ call' \in Calls
        /\ pc' = "next" /\ call'.todo = call.todo
    BY <1>1, <1>3, ProceedType DEF IInv
  <2>3. TypeOK'
    BY <1>2, <2>1, <2>2 DEF IInv, TypeOK
  <2> QED
    BY <1>1, <1>2, <2>2, <2>3, CallKept, FenceKept DEF IInv
<1>4. CASE Return /\ UNCHANGED <<windows, attempts>>
  <2>1. /\ pc' \in Places /\ call' \in Calls
        /\ pc' = "idle" /\ call'.todo = {}
    BY <1>4, ReturnType
  <2>2. TypeOK'
    BY <1>2, <1>4, <2>1 DEF IInv, TypeOK
  <2> QED
    BY <1>2, <2>1, <2>2, CallKept, FenceKept DEF IInv
<1> QED
  BY <1>3, <1>4 DEF WaitCancelled

(* verifyAttempt: the attempt is completed, its fences stay. *)
LEMMA VerifyStep ==
  ASSUME IInv, Verify
  PROVE  IInv'
<1> DEFINE id == call.attempt
           ks == KeysIn(attempts[id].cycles)
<1>1. PICK o \in Observe(now) : windows' = AfterVerify(ks, o)
  BY DEF Verify
<1>2. /\ id \in AttemptIds /\ call.ids \in SUBSET AttemptIds
      /\ {} \notin call.todo
  BY DEF Verify, IInv, TypeOK, CallOK, Calls
<1>3. windows' \in [Keys -> WindowRecords]
  <2>1. ASSUME NEW k \in Keys
        PROVE  AfterVerify(ks, o)[k] \in WindowRecords
    <3>1. windows[k] \in WindowRecords /\ now \in Nat
      BY DEF IInv, TypeOK
    <3>2. CASE k \in ks /\ k.bucket \in DOMAIN o
      <4>1. Judged(windows[k], o[k.bucket], now) \in WindowRecords
        BY <3>1, <3>2, ObservedWindow, JudgedType DEF IInv
      <4> QED
        BY <3>2, <4>1 DEF AfterVerify
    <3>3. CASE ~(k \in ks /\ k.bucket \in DOMAIN o)
      BY <3>1, <3>3, BackOffType DEF AfterVerify
    <3> QED
      BY <3>2, <3>3
  <2> QED
    BY <1>1, <2>1 DEF AfterVerify
<1>4. attempts' \in [AttemptIds -> Attempts]
  BY <1>2 DEF Verify, IInv, TypeOK, Attempts, Phases
<1>5. /\ pc' \in Places /\ call' \in Calls
      /\ pc' = "next" /\ call'.todo = call.todo
  BY <1>2, ProceedType DEF Verify, IInv
<1>6. TypeOK'
  BY <1>3, <1>4, <1>5 DEF Verify, IInv, TypeOK, history
<1> QED
  BY <1>2, <1>5, <1>6, CallKept, FenceKept DEF Verify, IInv, history

(* A failed verification read: the attempt stays in flight. *)
LEMMA VerifyReadFailedStep ==
  ASSUME IInv, VerifyReadFailed
  PROVE  IInv'
<1>1. /\ call.attempt \in AttemptIds /\ call.ids \in SUBSET AttemptIds
      /\ {} \notin call.todo
  BY DEF VerifyReadFailed, IInv, TypeOK, CallOK, Calls
<1>2. /\ windows' \in [Keys -> WindowRecords]
      /\ attempts' \in [AttemptIds -> Attempts]
  BY <1>1, MarkSendOutcomeType DEF VerifyReadFailed, IInv
<1>3. /\ pc' \in Places /\ call' \in Calls
      /\ pc' = "next" /\ call'.todo = call.todo
  BY <1>1, ProceedType DEF VerifyReadFailed, IInv
<1>4. TypeOK'
  BY <1>2, <1>3 DEF VerifyReadFailed, IInv, TypeOK, history
<1> QED
  BY <1>1, <1>3, <1>4, CallKept, FenceKept DEF VerifyReadFailed, IInv, history

(* Recover forgets an attempt of which no cycle was fenced for it. *)
LEMMA RecoverPreparedStep ==
  ASSUME IInv, NEW id \in AttemptIds, RecoverPrepared(id)
  PROVE  IInv'
<1>1. call.ids \ {id} \in SUBSET AttemptIds /\ {} \notin call.todo
  BY DEF IInv, TypeOK, CallOK, Calls
<1>2. /\ pc' \in Places /\ call' \in Calls
      /\ pc' = "next" /\ call'.todo = call.todo
  BY <1>1, ProceedType DEF RecoverPrepared, IInv
<1>3. windows' \in [Keys -> WindowRecords]
  <2>1. \A k \in Keys :
          Detach(Schedule(windows[k], "pending_precheck", now)) \in WindowRecords
    BY ScheduleType, ClearType DEF IInv, TypeOK, WindowStates
  <2> QED
    BY <2>1 DEF RecoverPrepared, SetWindows, IInv, TypeOK
<1>4. attempts' \in [AttemptIds -> Attempts]
  <2>1. NoAttempt \in Attempts
    BY DEF NoAttempt, Attempts
  <2> QED
    BY <2>1 DEF RecoverPrepared, IInv, TypeOK
<1>5. TypeOK'
  BY <1>2, <1>3, <1>4 DEF RecoverPrepared, IInv, TypeOK, history
<1> QED
  BY <1>1, <1>2, <1>5, CallKept, FenceKept DEF RecoverPrepared, IInv, history

(* Recover takes up a send without sending. *)
LEMMA RecoverInFlightStep ==
  ASSUME IInv, NEW id \in AttemptIds, RecoverInFlight(id)
  PROVE  IInv'
<1>1. {} \notin call.todo
  BY DEF IInv, CallOK
<1>2. /\ windows' \in [Keys -> WindowRecords]
      /\ attempts' \in [AttemptIds -> Attempts]
  <2>1. CASE attempts[id].phase = "sending"
    BY <2>1, MarkSendOutcomeType DEF RecoverInFlight, IInv
  <2>2. CASE attempts[id].phase # "sending"
    BY <2>2 DEF RecoverInFlight, IInv, TypeOK
  <2> QED
    BY <2>1, <2>2
<1>3. VerifyNotBefore(attempts[id]) \in Nat
  BY ConfigAssumption DEF VerifyNotBefore, IInv, TypeOK, Attempts
<1>4. /\ call' \in Calls /\ call'.attempt = id /\ call'.todo = call.todo
  BY <1>3 DEF RecoverInFlight, IInv, TypeOK, Calls
<1>5. pc' \in {"waiting", "verify"}
  BY DEF RecoverInFlight
<1>6. TypeOK'
  BY <1>2, <1>4, <1>5 DEF RecoverInFlight, IInv, TypeOK, history, Places
<1>7. CallOK'
  BY <1>1, <1>4, <1>5 DEF CallOK
<1> QED
  BY <1>5, <1>6, <1>7, FenceKept DEF RecoverInFlight, IInv, history

(* The end of a call, and a crash. *)
LEMMA ReturnStep ==
  ASSUME IInv, Return, UNCHANGED <<now, db, dryRun, history>>
  PROVE  IInv'
<1>1. /\ pc' \in Places /\ call' \in Calls
      /\ pc' = "idle" /\ call'.todo = {}
  BY ReturnType
<1>2. TypeOK'
  BY <1>1 DEF IInv, TypeOK, db, history
<1> QED
  BY <1>1, <1>2, CallKept, FenceKept DEF IInv, db, history

(* A new configuration, and time passing. *)
LEMMA EnvironmentStep ==
  ASSUME IInv, Reconfigure \/ Elapse \/ UNCHANGED vars
  PROVE  IInv'
<1>1. UNCHANGED <<windows, attempts, ledger, pc, call, sent, resent>>
  BY DEF Reconfigure, Elapse, vars, db, history
<1>2. now' \in 1..MaxTime /\ dryRun' \in BOOLEAN
  <2>1. now \in 1..MaxTime /\ MaxTime \in Nat /\ dryRun \in BOOLEAN
    BY ConfigAssumption DEF IInv, TypeOK
  <2>2. CASE Elapse
    BY <2>1, <2>2 DEF Elapse
  <2>3. CASE Reconfigure
    BY <2>1, <2>3 DEF Reconfigure
  <2>4. CASE UNCHANGED vars
    BY <2>1, <2>4 DEF vars
  <2> QED
    BY <2>2, <2>3, <2>4
<1>3. TypeOK'
  BY <1>1, <1>2 DEF IInv, TypeOK
<1>4. CallOK' /\ FenceOK'
  BY <1>1 DEF IInv, CallOK, FenceOK
<1> QED
  BY <1>3, <1>4 DEF IInv

-----------------------------------------------------------------------------
(* The invariant, and what follows from it                                 *)

(* The initial states satisfy the invariant. *)
LEMMA InitIInv == Init => IInv
<1> SUFFICES ASSUME Init PROVE IInv
  OBVIOUS
<1>1. NoWindow \in WindowRecords
  BY DEF NoWindow, WindowRecords
<1>2. NoAttempt \in Attempts
  BY DEF NoAttempt, Attempts
<1>3. NoCall \in Calls /\ NoCall.todo = {}
  BY DEF NoCall, Calls
<1>4. TypeOK
  BY <1>1, <1>2, <1>3, ConfigAssumption DEF Init, TypeOK, Places
<1>5. CallOK /\ FenceOK
  BY <1>3 DEF Init, CallOK, FenceOK
<1> QED
  BY <1>4, <1>5 DEF IInv

(* Every step preserves the invariant: one case per action. *)
LEMMA NextIInv == IInv /\ [Next]_vars => IInv'
<1> SUFFICES ASSUME IInv, [Next]_vars PROVE IInv'
  OBVIOUS
<1>1. ASSUME NEW inst \in Instances, Tick(inst) \/ Recover(inst)
      PROVE  IInv'
  BY <1>1, TickStep, RecoverStep
<1>2. ASSUME NEW auth \in Auths, NEW state \in {"disabled", "auth_blocked"},
             MarkCredentialState(auth, state)
      PROVE  IInv'
  BY <1>2, MarkCredentialStateStep
<1>3. CASE Step
  <2>1. CASE ReadFailed \/ Reconcile
    BY <2>1, ReadFailedStep, ReconcileStep
  <2>2. CASE NextGroup \/ GroupFailed \/ Precheck \/ DryRunReport
    BY <2>2, NextGroupStep, GroupFailedStep, PrecheckStep, DryRunReportStep
  <2>3. CASE Prepare \/ Fence \/ Send
    BY <2>3, PrepareStep, FenceStep, SendStep
  <2>4. CASE MarkFailed \/ MarkAccepted \/ WaitDone \/ WaitCancelled
    BY <2>4, MarkFailedStep, MarkAcceptedStep, WaitDoneStep, WaitCancelledStep
  <2>5. CASE Verify \/ VerifyReadFailed
    BY <2>5, VerifyStep, VerifyReadFailedStep
  <2>6. ASSUME NEW id \in AttemptIds, RecoverPrepared(id) \/ RecoverInFlight(id)
        PROVE  IInv'
    BY <2>6, RecoverPreparedStep, RecoverInFlightStep
  <2>7. CASE Done
    BY <2>7, ReturnStep DEF Done
  <2> QED
    BY <1>3, <2>1, <2>2, <2>3, <2>4, <2>5, <2>6, <2>7 DEF Step
<1>4. CASE Abort
  BY <1>4, ReturnStep DEF Abort
<1>5. CASE Reconfigure \/ Elapse \/ UNCHANGED vars
  BY <1>5, EnvironmentStep
<1> QED
  BY <1>1, <1>2, <1>3, <1>4, <1>5 DEF Next

(* The strengthened invariant behind the theorems below: the locals of the *)
(* running call, the ledger and the requests sent stay in step.            *)
THEOREM InvariantHolds == Spec => []IInv
BY InitIInv, NextIInv, PTL DEF Spec

(* Every variable of the controller keeps its type, whatever the provider  *)
(* answers and wherever a call is cut off (controller.go as a whole).      *)
THEOREM TypeCorrect == Spec => []TypeOK
<1>1. IInv => TypeOK
  BY DEF IInv
<1> QED
  BY <1>1, InvariantHolds, PTL

(* controller.go:328-351: no cycle is ever sent for twice, for any number  *)
(* of credentials, buckets and attempts and any configuration.             *)
THEOREM NoCycleSentTwice == Spec => []AtMostOneSendPerCycle
<1>1. IInv => AtMostOneSendPerCycle
  BY DEF IInv, FenceOK, AtMostOneSendPerCycle
<1> QED
  BY <1>1, InvariantHolds, PTL

-----------------------------------------------------------------------------
(* The controller implements SendFence                                     *)

(* The initial states are initial states of SendFence. *)
LEMMA InitPromise == Init => Promise!Init
BY DEF Init, Promise!Init, Armed

(* The fence is the step Arm of SendFence: its cycles are fresh. *)
LEMMA FenceArms ==
  ASSUME IInv, Fence
  PROVE  Promise!Arm
<1> DEFINE id == call.attempt
<1>1. /\ pc = "prepared" /\ pc' = "send" /\ call' = call
      /\ attempts' = [attempts EXCEPT ![id].phase = "sending"]
      /\ ledger' = ledger \cup attempts[id].cycles
      /\ UNCHANGED <<sent, resent>>
  BY DEF Fence, LedgerWith, history
<1>2. id \in AttemptIds /\ attempts[id] \in Attempts
  BY <1>1 DEF IInv, CallOK, TypeOK
<1>3. attempts'[id].cycles = attempts[id].cycles
  BY <1>1, <1>2 DEF IInv, TypeOK, Attempts
<1>4. Armed = {} /\ Armed' = attempts[id].cycles
  BY <1>1, <1>3 DEF Armed
<1>5. /\ attempts[id].cycles \subseteq Cycles
      /\ attempts[id].cycles # {}
      /\ attempts[id].cycles \cap ledger = {}
  BY <1>1, <1>2 DEF IInv, CallOK, FenceOK, Attempts
<1> QED
  BY <1>1, <1>4, <1>5 DEF Promise!Arm

(* The send is the step Fire: its cycles were never sent for. *)
LEMMA SendFires ==
  ASSUME IInv, Send
  PROVE  Promise!Fire
<1>1. Armed = attempts[call.attempt].cycles /\ Armed' = {}
  BY DEF Send, Armed
<1>2. Armed # {} /\ sent \cap Armed = {}
  BY <1>1 DEF Send, IInv, CallOK, FenceOK
<1> QED
  BY <1>1, <1>2 DEF Send, db, Promise!Fire

(* Any other step keeps the ledger and the requests; it can only drop what *)
(* is armed, and only by leaving the place between fence and send.         *)
LEMMA OtherStepsDisarmAtMost ==
  ASSUME IInv, UNCHANGED <<ledger, sent, resent>>,
         \/ pc # "send" /\ pc' # "send"
         \/ pc = "send" /\ pc' = "idle"
         \/ UNCHANGED <<pc, call, attempts>>
  PROVE  Promise!Disarm \/ UNCHANGED Promise!vars
<1>1. CASE pc # "send" /\ pc' # "send"
  BY <1>1 DEF Armed, Promise!vars
<1>2. CASE pc = "send" /\ pc' = "idle"
  <2>1. Armed # {} /\ Armed' = {}
    BY <1>2 DEF Armed, IInv, CallOK
  <2> QED
    BY <2>1 DEF Promise!Disarm
<1>3. CASE UNCHANGED <<pc, call, attempts>>
  BY <1>3 DEF Armed, Promise!vars
<1> QED
  BY <1>1, <1>2, <1>3

(* Every step is one of SendFence or a stutter. *)
LEMMA NextPromise ==
  ASSUME IInv, [Next]_vars
  PROVE  [Promise!Next]_(Promise!vars)
<1> DEFINE Quiet == /\ UNCHANGED <<ledger, sent, resent>>
                    /\ \/ pc # "send" /\ pc' # "send"
                       \/ pc = "send" /\ pc' = "idle"
                       \/ UNCHANGED <<pc, call, attempts>>
<1>1. CASE Fence
  BY <1>1, FenceArms DEF Promise!Next
<1>2. CASE Send
  BY <1>2, SendFires DEF Promise!Next
<1>3. ASSUME NEW inst \in Instances, Tick(inst) \/ Recover(inst)
      PROVE  Quiet
  BY <1>3 DEF Tick, Recover, Begin, db, history
<1>4. ASSUME NEW auth \in Auths, NEW state \in {"disabled", "auth_blocked"},
             MarkCredentialState(auth, state)
      PROVE  Quiet
  BY <1>4 DEF MarkCredentialState, history
<1>5. ASSUME ReadFailed \/ Reconcile \/ NextGroup \/ GroupFailed
      PROVE  Quiet
  BY <1>5 DEF ReadFailed, Reconcile, NextGroup, GroupFailed, Return, db, history
<1>6. ASSUME Precheck \/ DryRunReport \/ Prepare
      PROVE  Quiet
  BY <1>6 DEF Precheck, DryRunReport, Prepare, Proceed, history
<1>7. ASSUME MarkFailed \/ MarkAccepted \/ WaitDone \/ WaitCancelled
      PROVE  Quiet
  BY <1>7 DEF MarkFailed, MarkAccepted, WaitDone, WaitCancelled, Proceed,
              Return, db, history
<1>8. ASSUME Verify \/ VerifyReadFailed
      PROVE  Quiet
  BY <1>8 DEF Verify, VerifyReadFailed, Proceed, history
<1>9. ASSUME NEW id \in AttemptIds, RecoverPrepared(id) \/ RecoverInFlight(id)
      PROVE  Quiet
  BY <1>9 DEF RecoverPrepared, RecoverInFlight, Proceed, history
<1>10. ASSUME Done \/ Abort
      PROVE  Quiet
  BY <1>10 DEF Done, Abort, Return, db, history
<1>11. ASSUME Reconfigure \/ Elapse \/ UNCHANGED vars
      PROVE  Quiet
  BY <1>11 DEF Reconfigure, Elapse, vars, db, history
<1>12. ASSUME Quiet
       PROVE  [Promise!Next]_(Promise!vars)
  BY <1>12, OtherStepsDisarmAtMost DEF Promise!Next
<1> HIDE DEF Quiet
<1> QED
  BY <1>1, <1>2, <1>3, <1>4, <1>5, <1>6, <1>7, <1>8, <1>9, <1>10, <1>11, <1>12
  DEF Next, Step

(* README.md:30 "the Sending fence is durable before the network call":    *)
(* the controller implements SendFence, the ledger being its fences.       *)
THEOREM ImplementsSendFence == Spec => FenceBeforeSend
<1>1. Spec => Promise!Init /\ [][Promise!Next]_(Promise!vars)
  BY InitPromise, NextPromise, InvariantHolds, PTL DEF Spec
<1> QED
  BY <1>1 DEF FenceBeforeSend, Promise!Spec
=============================================================================
