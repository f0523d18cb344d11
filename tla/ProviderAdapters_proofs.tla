----------------------- MODULE ProviderAdapters_proofs -----------------------
(***************************************************************************)
(* What the adapters promise the controller, and what the controller makes *)
(* of it, for every value of the constants.                                *)
(*                                                                         *)
(* CanActivate is asked of an observed window; the fence is written calls, *)
(* reads and perhaps restarts later.  In between the answer lives on in    *)
(* the state of the record, in the groups of the call and in the cycles of *)
(* stored attempts (CapableOK).                                            *)
(***************************************************************************)
EXTENDS QuotaWindows_proofs, ProviderAdapters

-----------------------------------------------------------------------------
(* No cycle is fenced of a window the adapters do not activate             *)

CapableOK ==
  /\ \A k \in Keys : Candidate(windows[k]) => k.bucket \in Activatable
  /\ \A k \in call.keys : k.bucket \in Activatable
  /\ \A id \in AttemptIds : \A c \in attempts[id].cycles :
       c.key.bucket \in Activatable
  /\ FencesOnlyActivatable

(* A record that is given a state has it, whatever else it is given. *)
LEMMA GivenState ==
  ASSUME NEW r \in WindowRecords, NEW s, NEW x, NEW n
  PROVE  /\ Schedule(r, s, x).state = s
         /\ [Schedule(r, s, x) EXCEPT !.retries = n].state = s
BY DEF Schedule, WindowRecords

(* Neither a back-off nor a roll makes a candidate. *)
LEMMA BackedOff ==
  ASSUME NEW r \in WindowRecords, NEW t \in Nat
  PROVE  \A s \in {BackOff(r, t), LateBackOff(r, t), Absent(r, t),
                   Unsupported(r, t)} : ~Candidate(s)
BY DEF Candidate, BackOff, LateBackOff, Absent, Unsupported, Schedule,
       WindowRecords

LEMMA RolledOn ==
  ASSUME NEW r \in WindowRecords, NEW w \in QuotaWindows, NEW t \in Nat
  PROVE  ~Candidate(Detach(NormalReset(r, w, t)))
<1> DEFINE b == Rebase(r, w)
<1>1. b \in WindowRecords
  BY RebaseRecord
<1> QED
  BY <1>1 DEF Candidate, NormalReset, Detach, Forgive, Schedule, WindowRecords

(* reconcileObservation only makes a candidate of a window to activate. *)
LEMMA ReconciledCandidate ==
  ASSUME NEW r \in WindowRecords, NEW w \in QuotaWindows, NEW t \in Nat,
         NEW fenced \in BOOLEAN, Candidate(Reconciled(r, w, fenced, t))
  PROVE  w.can
<1> SUFFICES ASSUME ~w.can PROVE FALSE
  OBVIOUS
<1>1. CASE Present(r)
  <2>1. Reconciled(r, w, fenced, t) = Unsupported(r, t)
    BY <1>1 DEF Reconciled, Resight
  <2> QED BY <2>1, BackedOff
<1>2. CASE ~Present(r)
  <2>1. Rebase(NoWindow, w) \in WindowRecords
    <3>1. NoWindow \in WindowRecords
      BY DEF NoWindow, WindowRecords
    <3> QED BY <3>1, RebaseRecord
  <2>2. FirstState(w, t) = "unsupported"
    BY DEF FirstState
  <2>3. Reconciled(r, w, fenced, t) =
          Schedule(Rebase(NoWindow, w), "unsupported", Deadline(w.reset, t))
    BY <1>2, <2>2 DEF Reconciled, FirstSight
  <2> QED BY <2>1, <2>3, GivenState DEF Candidate
<1> QED BY <1>1, <1>2

(* Where a candidate may come from: it was one, or it is of the group that *)
(* is run, of a stored attempt, or of the observation just read.           *)
Source(k) ==
  \/ Candidate(windows[k])
  \/ k \in call.keys
  \/ \E id \in AttemptIds : k \in KeysIn(attempts[id].cycles)
  \/ \E o \in Observe(now) : k.bucket \in DOMAIN o /\ o[k.bucket].can

LEMMA CandidateSource ==
  ASSUME Base, [Next]_vars, NEW k \in Keys, Candidate(windows'[k])
  PROVE  Source(k)
<1> SUFFICES ASSUME ~Source(k) PROVE FALSE
  OBVIOUS
<1> DEFINE r == windows[k]
<1>1. r \in WindowRecords /\ now \in Nat /\ ~Candidate(r) /\ windows'[k] # r
  BY RecordTypes DEF Base, Source
<1>2. CASE \/ \E inst \in Instances : Tick(inst)
           \/ \E auth \in Auths, state \in {"disabled", "auth_blocked"} :
                MarkCredentialState(auth, state)
  <2>1. \E s \in {"disabled", "auth_blocked"} : windows'[k] = Schedule(r, s, 0)
    BY <1>1, <1>2 DEF Tick, MarkCredentialState, SetWindows
  <2> QED BY <1>1, <2>1, GivenState DEF Candidate
<1>3. CASE ReadFailed
  <2>1. windows'[k] = LateBackOff(r, now)
    BY <1>1, <1>3 DEF ReadFailed, SetWindows
  <2> QED BY <1>1, <2>1, BackedOff
<1>4. CASE Reconcile
  <2>1. PICK o \in Observe(now) : windows' = AfterReconcile(call.inst, o)
    BY <1>4 DEF Reconcile
  <2>2. CASE k \in Observed(call.inst, o)
    <3>1. /\ k.bucket \in DOMAIN o /\ o[k.bucket] \in QuotaWindows
          /\ Fenced(k) \in BOOLEAN
      BY <2>2, RecordTypes DEF Observed, Base, Fenced
    <3>2. windows'[k] = Reconciled(r, o[k.bucket], Fenced(k), now)
      BY <2>1, <2>2 DEF AfterReconcile
    <3>3. o[k.bucket].can
      BY <1>1, <3>1, <3>2, ReconciledCandidate
    <3> QED BY <3>1, <3>3 DEF Source
  <2>3. CASE k \notin Observed(call.inst, o)
    <3>1. windows'[k] = Absent(r, now)
      BY <1>1, <2>1, <2>3 DEF AfterReconcile
    <3> QED BY <1>1, <3>1, BackedOff
  <2> QED BY <2>2, <2>3
<1>5. CASE GroupFailed \/ Precheck \/ DryRunReport \/ Prepare
  BY <1>1, <1>5 DEF GroupFailed, Precheck, AfterPrecheck, DryRunReport, Prepare,
                    SetWindows, Source
<1>6. CASE \/ Fence \/ MarkFailed \/ MarkAccepted \/ WaitCancelled \/ Verify
           \/ VerifyReadFailed
  <2>1. call.attempt \in AttemptIds
    BY <1>6 DEF Fence, MarkFailed, MarkAccepted, WaitCancelled, Verify,
                VerifyReadFailed, Base, IInv, CallOK
  <2> QED
    BY <1>1, <1>6, <2>1 DEF Fence, MarkFailed, MarkAccepted, WaitCancelled,
       Verify, VerifyReadFailed, MarkSendOutcome, AfterVerify, SetWindows, Source
<1>7. CASE \E id \in AttemptIds : RecoverPrepared(id) \/ RecoverInFlight(id)
  BY <1>1, <1>7 DEF RecoverPrepared, RecoverInFlight, MarkSendOutcome,
                    SetWindows, Source
<1>8. CASE \/ \E inst \in Instances : Recover(inst)
           \/ NextGroup \/ Send \/ WaitDone \/ Done \/ Abort \/ Reconfigure
           \/ Elapse \/ UNCHANGED vars
  BY <1>1, <1>8 DEF Recover, NextGroup, Send, WaitDone, Done, Abort,
                    Reconfigure, Elapse, vars, db
<1> QED BY <1>2, <1>3, <1>4, <1>5, <1>6, <1>7, <1>8 DEF Next, Step

(* The group that is run is the one before, part of it, or one that        *)
(* waited; and only an observation lets new groups wait.                   *)
LEMMA KeysSource ==
  ASSUME Base, [Next]_vars
  PROVE  /\ call'.keys \subseteq call.keys \/ call'.keys \in call.todo
         /\ Reconcile \/ call'.todo \subseteq call.todo
<1>1. call \in Calls
  BY DEF Base, IInv, TypeOK
<1>2. CASE \E inst \in Instances : Tick(inst) \/ Recover(inst)
  <2>1. \E mode, inst, ids :
          call' = [NoCall EXCEPT !.mode = mode, !.inst = inst, !.ids = ids]
    BY <1>2 DEF Tick, Recover, Begin
  <2> QED BY <2>1 DEF NoCall
<1>3. ASSUME Return PROVE call'.keys = {} /\ call'.todo = {}
  BY <1>3 DEF Return, NoCall
<1>4. ASSUME NEW ids, Proceed(ids)
      PROVE  call'.keys = {} /\ call'.todo = call.todo
  BY <1>1, <1>4 DEF Proceed, Calls
<1>5. CASE ReadFailed \/ GroupFailed \/ WaitCancelled \/ Done \/ Abort
  BY <1>3, <1>4, <1>5 DEF ReadFailed, GroupFailed, WaitCancelled, Done, Abort
<1>6. CASE \/ DryRunReport \/ MarkFailed \/ Verify \/ VerifyReadFailed
           \/ \E id \in AttemptIds : RecoverPrepared(id)
  BY <1>4, <1>6 DEF DryRunReport, MarkFailed, Verify, VerifyReadFailed,
                    RecoverPrepared
<1>7. CASE NextGroup
  BY <1>1, <1>7 DEF NextGroup, Calls
<1>8. CASE Precheck
  <2>1. PICK o \in Observe(now) :
          \/ Proceed(call.ids)
          \/ call' = [call EXCEPT !.keys = Kept(AfterPrecheck(o)),
                                  !.prechecked = TRUE]
    BY <1>8 DEF Precheck
  <2>2. Kept(AfterPrecheck(o)) \subseteq call.keys
    BY DEF Kept
  <2> QED BY <1>1, <1>4, <2>1, <2>2 DEF Calls
<1>9. CASE Reconcile
  BY <1>1, <1>9 DEF Reconcile, Calls
<1>10. CASE Prepare
  BY <1>1, <1>10 DEF Prepare, Calls
<1>11. CASE MarkAccepted \/ \E id \in AttemptIds : RecoverInFlight(id)
  BY <1>1, <1>11 DEF MarkAccepted, RecoverInFlight, Calls
<1>12. CASE \/ \E auth \in Auths, state \in {"disabled", "auth_blocked"} :
                 MarkCredentialState(auth, state)
            \/ Fence \/ Send \/ WaitDone \/ Reconfigure \/ Elapse
            \/ UNCHANGED vars
  BY <1>12 DEF MarkCredentialState, Fence, Send, WaitDone, Reconfigure, Elapse,
               vars
<1> QED
  BY <1>2, <1>5, <1>6, <1>7, <1>8, <1>9, <1>10, <1>11, <1>12 DEF Next, Step

(* The cycles of an attempt are some it had or those of the group. *)
LEMMA CyclesSource ==
  ASSUME Base, [Next]_vars, NEW id \in AttemptIds
  PROVE  \/ attempts'[id].cycles \subseteq attempts[id].cycles
         \/ attempts'[id].cycles = Candidates
<1>1. attempts \in [AttemptIds -> Attempts]
  BY DEF Base, IInv, TypeOK
<1>2. CASE Prepare
  BY <1>1, <1>2 DEF Prepare
<1>3. CASE \E i \in AttemptIds : RecoverPrepared(i)
  BY <1>1, <1>3 DEF RecoverPrepared, NoAttempt
<1>4. CASE attempts' = attempts
  BY <1>4
<1>5. CASE \E i, p : attempts' = [attempts EXCEPT ![i].phase = p]
  BY <1>1, <1>5 DEF Attempts
<1> QED
  BY <1>2, <1>3, <1>4, <1>5 DEF Next, Step, Tick, Recover, MarkCredentialState,
     ReadFailed, Reconcile, NextGroup, GroupFailed, Precheck, DryRunReport,
     Fence, Send, MarkFailed, MarkAccepted, WaitDone, WaitCancelled, Verify,
     VerifyReadFailed, RecoverInFlight, MarkSendOutcome, Done, Abort,
     Reconfigure, Elapse, vars, db

LEMMA NextCapable ==
  ASSUME Base, GroupInv, CapableOK, [Next]_vars
  PROVE  CapableOK'
<1>1. Activatable' = Activatable
  BY DEF Activatable
<1>2. \A c \in Candidates : c.key.bucket \in Activatable
  BY DEF Candidates, Cycle, CapableOK
<1>3. ASSUME NEW k \in Keys, Candidate(windows'[k]) PROVE k.bucket \in Activatable
  <2>1. CASE \E o \in Observe(now) : k.bucket \in DOMAIN o /\ o[k.bucket].can
    BY <2>1 DEF Activatable, Keys, Base, IInv, TypeOK
  <2>2. CASE \E id \in AttemptIds : k \in KeysIn(attempts[id].cycles)
    BY <2>2 DEF CapableOK, KeysIn
  <2> QED BY <1>3, <2>1, <2>2, CandidateSource DEF Source, CapableOK
<1>4. ASSUME NEW k \in call'.keys PROVE k.bucket \in Activatable
  <2>1. CASE call'.keys \subseteq call.keys
    BY <2>1 DEF CapableOK
  <2>2. CASE call'.keys \in call.todo
    <3>1. k \in Keys /\ Eligible(k)
      BY <1>4, <2>2 DEF GroupInv, TodoOK, KeysOf
    <3> QED BY <3>1 DEF Eligible, CapableOK
  <2> QED BY <2>1, <2>2, KeysSource
<1>5. ASSUME NEW id \in AttemptIds, NEW c \in attempts'[id].cycles
      PROVE  c.key.bucket \in Activatable
  BY <1>2, <1>5, CyclesSource DEF CapableOK
<1>6. ASSUME NEW c \in ledger' PROVE c.key.bucket \in Activatable
  <2>1. CASE Fence
    BY <1>2, <2>1, FenceAdds DEF GroupInv, CapableOK, FencesOnlyActivatable
  <2>2. CASE ~Fence
    BY <2>2, LedgerSteps DEF CapableOK, FencesOnlyActivatable
  <2> QED BY <2>1, <2>2
<1> QED
  BY <1>1, <1>3, <1>4, <1>5, <1>6 DEF CapableOK, FencesOnlyActivatable

LEMMA CapableInvariant == Spec => []CapableOK
<1>1. Init => CapableOK
  BY DEF Init, CapableOK, FencesOnlyActivatable, Candidate, NoWindow, NoCall,
         NoAttempt
<1>2. Base /\ GroupInv /\ CapableOK /\ [Next]_vars => CapableOK'
  BY NextCapable
<1> QED BY <1>1, <1>2, GroupsInvariant, PTL DEF Spec

(* controller.go:155, 174, 399: no cycle is fenced of a bucket that no     *)
(* answer shows as one to activate, whatever shares its credential, its    *)
(* reads or its attempts.                                                  *)
THEOREM CapabilityBoundsFences == Spec => []FencesOnlyActivatable
<1>1. CapableOK => FencesOnlyActivatable
  BY DEF CapableOK
<1> QED BY <1>1, CapableInvariant, PTL

-----------------------------------------------------------------------------
(* The windows of one attempt belong together                              *)

Together(ks) ==
  \A j, k \in ks : /\ InstanceOf(j) = InstanceOf(k)
                   /\ SameGroup(j.bucket, k.bucket)

TogetherOK ==
  /\ \A g \in call.todo : Together(g)
  /\ Together(call.keys)
  /\ \A id \in AttemptIds : Together(KeysIn(attempts[id].cycles))

(* Windows in the group of a third are in one group. *)
LEMMA GroupsTogether ==
  ASSUME NEW inst, NEW ks \in SUBSET KeysOf(inst), NEW g \in GroupsOf(ks)
  PROVE  Together(g)
<1>1. \A j \in ks : InstanceOf(j) = inst
  BY DEF KeysOf
<1> QED BY <1>1 DEF GroupsOf, SameGroup, Together

LEMMA NextTogether ==
  ASSUME Base, GroupInv, TogetherOK, [Next]_vars
  PROVE  TogetherOK'
<1>1. ASSUME NEW g \in call'.todo PROVE Together(g)
  <2>1. CASE Reconcile
    <3>1. \E ks \in SUBSET KeysOf(call.inst) : call'.todo = GroupsOf(ks)
      <4>1. call \in Calls
        BY DEF Base, IInv, TypeOK
      <4>2. PICK o \in Observe(now) :
              call'.todo = GroupsOf({k \in Observed(call.inst, o) :
                             Candidate(AfterReconcile(call.inst, o)[k])})
        BY <2>1, <4>1 DEF Reconcile, Calls
      <4> QED BY <4>2 DEF Observed
    <3> QED BY <1>1, <3>1, GroupsTogether
  <2>2. CASE ~Reconcile
    BY <1>1, <2>2, KeysSource DEF TogetherOK
  <2> QED BY <2>1, <2>2
<1>2. Together(call'.keys)
  BY KeysSource DEF TogetherOK, Together
<1>3. ASSUME NEW id \in AttemptIds PROVE Together(KeysIn(attempts'[id].cycles))
  <2>1. CASE attempts'[id].cycles \subseteq attempts[id].cycles
    BY <2>1 DEF TogetherOK, Together, KeysIn
  <2>2. CASE attempts'[id].cycles = Candidates
    BY <2>2, CandidateKeys DEF TogetherOK
  <2> QED BY <2>1, <2>2, CyclesSource
<1> QED BY <1>1, <1>2, <1>3 DEF TogetherOK, Together, SameGroup

LEMMA TogetherInvariant == Spec => []TogetherOK
<1>1. Init => TogetherOK
  BY DEF Init, TogetherOK, Together, NoCall, NoAttempt, KeysIn
<1>2. Base /\ GroupInv /\ TogetherOK /\ [Next]_vars => TogetherOK'
  BY NextTogether
<1> QED BY <1>1, <1>2, GroupsInvariant, PTL DEF Spec

(* controller.go:165-168, 218-222, 306, 445: the windows of an attempt are *)
(* of one identity and one activation group, whatever one observation      *)
(* hands over, a precheck leaves of it and a restart finds.                *)
THEOREM AttemptsHoldOneGroup == Spec => []OneGroupPerAttempt
<1>1. TogetherOK => OneGroupPerAttempt
  BY DEF TogetherOK, Together, OneGroupPerAttempt, KeysIn
<1> QED BY <1>1, TogetherInvariant, PTL

-----------------------------------------------------------------------------
(* What the parsers make of an answer                                      *)

(* The fields of raw windows as Go's parsers deliver them: lengths and     *)
(* percentages are not negative, a time that parses is not the zero time.  *)
Percentages == 0..100 \cup {Missing}
Timestamps == (Nat \ {0}) \cup {Missing}

CodexAnswer(raws) ==
  \A raw \in raws :
    /\ raw.length \in Nat /\ raw.used \in Percentages
    /\ raw.resetAt \in Timestamps /\ raw.resetAfter \in Nat \cup {Missing}
    /\ CodexBucket(raw) \in Buckets

AntigravityAnswer(raws) ==
  \A raw \in raws :
    /\ raw.length \in Nat /\ raw.used \in Percentages
    /\ raw.reset \in Timestamps
    /\ raw.bucket \in Buckets

(* What an observation shows of a bucket is a valid window parsed for it. *)
LEMMA ObservationParsed ==
  ASSUME NEW parsed, NEW o \in Observations(parsed)
  PROVE  /\ o = [b \in DOMAIN o |-> o[b]]
         /\ \A b \in DOMAIN o : \E w \in parsed :
              /\ Valid(w) /\ w.bucket = b
              /\ o[b] = [reset |-> w.reset, used |-> w.used, lazy |-> w.lazy,
                         can |-> w.can]
<1> DEFINE valid == {w \in parsed : Valid(w)}
           window(w) == [reset |-> w.reset, used |-> w.used, lazy |-> w.lazy,
                         can |-> w.can]
<1>1. PICK bs \in SUBSET {w.bucket : w \in valid} \ {{}} :
        o \in {p \in [bs -> {window(w) : w \in valid}] :
                 \A b \in bs : \E w \in valid :
                   w.bucket = b /\ p[b] = window(w)}
  BY DEF Observations
<1>2. /\ o \in [bs -> {window(w) : w \in valid}]
      /\ \A b \in bs : \E w \in valid : w.bucket = b /\ o[b] = window(w)
  BY <1>1
<1>3. DOMAIN o = bs /\ o = [b \in bs |-> o[b]]
  BY <1>2
<1> QED BY <1>2, <1>3

LEMMA LazyHintType ==
  ASSUME NEW used, NEW reset, NEW length, NEW t
  PROVE  LazyHint(used, reset, length, t) \in BOOLEAN
BY DEF LazyHint

(* An observation of Codex windows. *)
LEMMA CodexParsed ==
  ASSUME NEW raws, CodexAnswer(raws), NEW t \in Nat \ {0},
         NEW o \in CodexReadQuota(raws, t)
  PROVE  /\ IsObservation(o)
         /\ \A b \in DOMAIN o : o[b].can <=> CodexCanActivate(b)
<1> DEFINE parsed == {CodexWindow(raw, t) :
                        raw \in {r \in raws : CodexParses(r, t)}}
<1>1. /\ o = [b \in DOMAIN o |-> o[b]]
      /\ \A b \in DOMAIN o : \E w \in parsed :
           /\ Valid(w) /\ w.bucket = b
           /\ o[b] = [reset |-> w.reset, used |-> w.used, lazy |-> w.lazy,
                      can |-> w.can]
  BY ObservationParsed DEF CodexReadQuota
<1>2. ASSUME NEW b \in DOMAIN o
      PROVE  /\ b \in Buckets /\ o[b] \in QuotaWindows
             /\ o[b].can <=> CodexCanActivate(b)
  <2>1. PICK raw \in raws :
          LET w == CodexWindow(raw, t)
          IN  /\ CodexParses(raw, t) /\ Valid(w) /\ w.bucket = b
              /\ o[b] = [reset |-> w.reset, used |-> w.used, lazy |-> w.lazy,
                         can |-> w.can]
    BY <1>1
  <2>2. b = CodexBucket(raw) /\ b \in Buckets
    BY <2>1 DEF CodexWindow, CodexAnswer
  <2>3. raw.used \in 0..100
    BY <2>1 DEF CodexWindow, CodexAnswer, Valid, Percentages
  <2>4. CodexReset(raw, t) \in Nat \ {0}
    <3>1. CodexReset(raw, t) # Missing
      BY <2>1 DEF CodexParses
    <3> QED BY <3>1 DEF CodexReset, CodexAnswer, Timestamps
  <2>5. CodexCanActivate(b) \in BOOLEAN
    BY DEF CodexCanActivate
  <2> QED
    BY <2>1, <2>2, <2>3, <2>4, <2>5, LazyHintType
    DEF CodexWindow, QuotaWindows
<1> QED BY <1>1, <1>2 DEF IsObservation

(* An observation of Antigravity windows. *)
LEMMA AntigravityParsed ==
  ASSUME NEW raws, AntigravityAnswer(raws), NEW t \in Nat \ {0},
         NEW o \in AntigravityReadQuota(raws, t)
  PROVE  /\ IsObservation(o)
         /\ \A b \in DOMAIN o : o[b].can => AntigravityGroup(b) # ""
<1> DEFINE parsed == {AntigravityWindow(raw, t) :
                        raw \in {r \in raws : AntigravityParses(r)}}
<1>1. /\ o = [b \in DOMAIN o |-> o[b]]
      /\ \A b \in DOMAIN o : \E w \in parsed :
           /\ Valid(w) /\ w.bucket = b
           /\ o[b] = [reset |-> w.reset, used |-> w.used, lazy |-> w.lazy,
                      can |-> w.can]
  BY ObservationParsed DEF AntigravityReadQuota
<1>2. ASSUME NEW b \in DOMAIN o
      PROVE  /\ b \in Buckets /\ o[b] \in QuotaWindows
             /\ o[b].can => AntigravityGroup(b) # ""
  <2>1. PICK raw \in raws :
          LET w == AntigravityWindow(raw, t)
          IN  /\ AntigravityParses(raw) /\ w.bucket = b
              /\ o[b] = [reset |-> w.reset, used |-> w.used, lazy |-> w.lazy,
                         can |-> w.can]
    BY <1>1
  <2>2. b = raw.bucket /\ b \in Buckets
    BY <2>1 DEF AntigravityWindow, AntigravityAnswer
  <2>3. raw.used \in 0..100 /\ raw.reset \in Nat \ {0}
    BY <2>1 DEF AntigravityParses, AntigravityAnswer, Percentages, Timestamps
  <2>4. AntigravityCanActivate(b, raw.length) \in BOOLEAN
    BY DEF AntigravityCanActivate
  <2>5. o[b] = [reset |-> raw.reset, used |-> raw.used,
                lazy |-> LazyHint(raw.used, raw.reset, raw.length, t),
                can |-> AntigravityCanActivate(b, raw.length)]
    BY <2>1, <2>2 DEF AntigravityWindow
  <2>6. o[b] \in QuotaWindows
    BY <2>3, <2>4, <2>5, LazyHintType DEF QuotaWindows
  <2>7. o[b].can = AntigravityCanActivate(b, raw.length)
    BY <2>5
  <2> QED BY <2>2, <2>6, <2>7 DEF AntigravityCanActivate
<1> QED BY <1>1, <1>2 DEF IsObservation

-----------------------------------------------------------------------------
(* The controller with the Codex adapter                                   *)

CodexReads ==
  \A t \in 1..MaxTime : \A o \in Observe(t) :
    \E raws : CodexAnswer(raws) /\ o \in CodexReadQuota(raws, t)

CodexJudges ==
  \A r \in WindowRecords, w \in QuotaWindows :
    VerifyActivation(r, w) <=> CodexVerify(r, w)

LEMMA CodexActivatable ==
  ASSUME CodexReads, NEW b \in Activatable
  PROVE  CodexCanActivate(b)
<1>1. PICK t \in 1..MaxTime : \E o \in Observe(t) : b \in DOMAIN o /\ o[b].can
  BY DEF Activatable
<1>2. PICK o \in Observe(t) : b \in DOMAIN o /\ o[b].can
  BY <1>1
<1>3. PICK raws : CodexAnswer(raws) /\ o \in CodexReadQuota(raws, t)
  BY CodexReads DEF CodexReads
<1>4. t \in Nat \ {0}
  BY ConfigAssumption
<1> QED BY <1>2, <1>3, <1>4, CodexParsed

(* codex/adapter.go:72-77, 88-92: with Codex, whatever else the answers    *)
(* show, a request is only planned for main windows of 5 h or of weekly to *)
(* monthly plans, so PlanActivation does not refuse the group, and only    *)
(* cycles of such windows are ever fenced.                                 *)
THEOREM CodexFencesMain ==
  ASSUME CodexReads
  PROVE  Spec => [](/\ \A k \in call.keys : CodexGroup(k.bucket) = "codex-main"
                    /\ \A c \in ledger : CodexCanActivate(c.key.bucket))
<1>1. CapableOK => /\ \A k \in call.keys : CodexGroup(k.bucket) = "codex-main"
                   /\ \A c \in ledger : CodexCanActivate(c.key.bucket)
  BY CodexActivatable
  DEF CapableOK, FencesOnlyActivatable, CodexCanActivate, CodexGroup
<1> QED BY <1>1, CapableInvariant, PTL

(* The windows shown are those of observations. *)
LEMMA ShownTypes ==
  \A t \in 1..MaxTime : \A w \in Shown(t) : w \in QuotaWindows
BY ObserveAssumption DEF Shown, IsObservation

(* codex/adapter.go:105-113, controller.go:195, 405, 524: the baseline of  *)
(* a Codex window that carried a send only moves to a later window or, on  *)
(* a verdict, from some usage to none.                                     *)
THEOREM CodexBaselinesMove ==
  ASSUME CodexJudges, Skew <= RollTolerance
  PROVE  Spec =>
    [][\A k \in Keys :
         windows[k].activated /\ windows'[k].reset # windows[k].reset
           => \/ windows'[k].reset > windows[k].reset + Skew
              \/ /\ windows[k].used > 0 /\ windows'[k].used = 0
                 /\ windows'[k].state = "confirmed"]_vars
<1>1. ASSUME IInv, RecordsOK, [Next]_vars, NEW k \in Keys,
             windows[k].activated, windows'[k].reset # windows[k].reset
      PROVE  \/ windows'[k].reset > windows[k].reset + Skew
             \/ /\ windows[k].used > 0 /\ windows'[k].used = 0
                /\ windows'[k].state = "confirmed"
  <2>1. CASE Rolls(windows[k], windows'[k])
    BY <2>1 DEF Rolls
  <2>2. CASE Verifies(k)
    <3>1. PICK w \in Shown(now) : Confirms(windows[k], w, windows'[k])
      BY <2>2 DEF Verifies
    <3>2. w \in QuotaWindows /\ windows[k] \in WindowRecords
      BY <1>1, ShownTypes, RecordTypes DEF IInv, TypeOK
    <3>3. CodexVerify(windows[k], w)
      BY <3>1, <3>2, CodexJudges DEF Confirms, CodexJudges
    <3>4. w.reset \in Nat /\ windows[k].reset \in Nat
      BY <3>2 DEF QuotaWindows, WindowRecords
    <3>5. CASE windows[k].used > 0 /\ w.used = 0
      BY <3>1, <3>5 DEF Confirms
    <3>6. CASE w.reset > windows[k].reset + RollTolerance
      <4>1. windows'[k].reset = w.reset
        BY <3>1 DEF Confirms
      <4>2. Skew \in Nat /\ RollTolerance \in Nat
        BY ConfigAssumption, ToleranceAssumption
      <4>3. w.reset > windows[k].reset + Skew
        BY <3>4, <3>6, <4>2
      <4> QED BY <4>1, <4>3
    <3> QED BY <3>3, <3>5, <3>6 DEF CodexVerify, RolledSince
  <2> QED BY <1>1, <2>1, <2>2, ActivatedMoves
<1>2. IInv /\ RecordsOK /\ [Next]_vars =>
        [\A k \in Keys :
           windows[k].activated /\ windows'[k].reset # windows[k].reset
             => \/ windows'[k].reset > windows[k].reset + Skew
                \/ /\ windows[k].used > 0 /\ windows'[k].used = 0
                   /\ windows'[k].state = "confirmed"]_vars
  BY <1>1
<1> QED BY <1>2, RecordsInvariant, PTL DEF Spec

-----------------------------------------------------------------------------
(* The controller with the Antigravity adapter                             *)

AntigravityReads ==
  \A t \in 1..MaxTime : \A o \in Observe(t) :
    \E raws : AntigravityAnswer(raws) /\ o \in AntigravityReadQuota(raws, t)

AntigravityJudges ==
  \A r \in WindowRecords, w \in QuotaWindows :
    VerifyActivation(r, w) <=> AntigravityVerify(r, w)

LEMMA AntigravityActivatable ==
  ASSUME AntigravityReads, NEW b \in Activatable
  PROVE  AntigravityGroup(b) # ""
<1>1. PICK t \in 1..MaxTime : \E o \in Observe(t) : b \in DOMAIN o /\ o[b].can
  BY DEF Activatable
<1>2. PICK o \in Observe(t) : b \in DOMAIN o /\ o[b].can
  BY <1>1
<1>3. PICK raws : AntigravityAnswer(raws) /\ o \in AntigravityReadQuota(raws, t)
  BY AntigravityReads DEF AntigravityReads
<1>4. t \in Nat \ {0}
  BY ConfigAssumption
<1> QED BY <1>2, <1>3, <1>4, AntigravityParsed

(* antigravity/adapter.go:91-105: the windows PlanActivation is asked to   *)
(* cover have one group, and one the adapter has a model for; it does not  *)
(* refuse them because they cross groups.                                  *)
THEOREM AntigravityPlansOneGroup ==
  ASSUME AntigravityReads,
         \A b \in Buckets : GroupOf[b] = AntigravityGroup(b)
  PROVE  Spec => [](\A j, k \in call.keys :
                      /\ AntigravityGroup(j.bucket) # ""
                      /\ AntigravityGroup(j.bucket) = AntigravityGroup(k.bucket))
<1>1. ASSUME Base, CapableOK, TogetherOK, NEW j \in call.keys, NEW k \in call.keys
      PROVE  /\ AntigravityGroup(j.bucket) # ""
             /\ AntigravityGroup(j.bucket) = AntigravityGroup(k.bucket)
  <2>1. j.bucket \in Activatable /\ k.bucket \in Activatable
    BY <1>1 DEF CapableOK
  <2>2. j.bucket \in Buckets /\ k.bucket \in Buckets
    BY <2>1 DEF Activatable
  <2>3. SameGroup(j.bucket, k.bucket)
    BY <1>1 DEF TogetherOK, Together
  <2> QED BY <2>1, <2>2, <2>3, AntigravityActivatable DEF SameGroup
<1>2. Base /\ CapableOK /\ TogetherOK =>
        \A j, k \in call.keys :
          /\ AntigravityGroup(j.bucket) # ""
          /\ AntigravityGroup(j.bucket) = AntigravityGroup(k.bucket)
  BY <1>1
<1> QED BY <1>2, GroupsInvariant, CapableInvariant, TogetherInvariant, PTL

(* An Antigravity verdict only confirms later windows. *)
LEMMA AntigravityRolls ==
  ASSUME AntigravityJudges, Skew <= RollTolerance
  PROVE  VerdictsRoll
<1> SUFFICES ASSUME NEW t \in 1..MaxTime, NEW r \in WindowRecords,
                    NEW w \in Shown(t), VerifyActivation(r, w)
             PROVE  w.reset > r.reset + Skew
  BY DEF VerdictsRoll
<1>1. w \in QuotaWindows /\ AntigravityVerify(r, w)
  BY ShownTypes, AntigravityJudges DEF AntigravityJudges
<1>2. w.reset \in Nat /\ r.reset \in Nat
  BY <1>1 DEF QuotaWindows, WindowRecords
<1>3. Skew \in Nat /\ RollTolerance \in Nat
  BY ConfigAssumption, ToleranceAssumption
<1>4. w.reset > r.reset + RollTolerance
  BY <1>1 DEF AntigravityVerify, RolledSince
<1> QED BY <1>2, <1>3, <1>4

(* antigravity/adapter.go:149-154, controller.go:195, 405, 524: with       *)
(* Antigravity no provider window is paid for twice because its reported   *)
(* reset moved a little.                                                   *)
THEOREM AntigravitySendsSpaced ==
  ASSUME AntigravityJudges, Skew <= RollTolerance
  PROVE  Spec => []SpacedSends /\ BaselineOnlyRolls
BY AntigravityRolls, SendsAreSpaced, BaselinesRoll
=============================================================================
