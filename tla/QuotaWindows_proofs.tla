------------------------ MODULE QuotaWindows_proofs ------------------------
(***************************************************************************)
(* What QuotaController plans requests for, and what its ledger has to do  *)
(* with records and attempts, for every value of its constants.            *)
(*                                                                         *)
(* Controller.mu is the reason: between reconcileObservation and the fence *)
(* a record of a group that waits its turn (todo) or is being run (keys)   *)
(* only changes by what runGroup does to its own group (OnlyGroupTouched). *)
(* So what reconcileObservation and precheckGroup saw still holds when the *)
(* request is planned (TodoOK, RunningOK), and a window that was fenced    *)
(* once cannot be taken for one that never was (LedgerOK).                 *)
(***************************************************************************)
EXTENDS QuotaRecords_proofs

-----------------------------------------------------------------------------
(* The invariant                                                           *)

TickPlaces == {"read", "precheck", "plan", "prepared", "send", "accepted",
               "failed"}
Planned == {"plan", "prepared", "send"}
Outgoing == {"prepared", "send", "accepted", "failed", "waiting", "verify"}

(* Which call may be where. *)
PlaceOK ==
  /\ pc = "idle" => call = NoCall
  /\ pc \in TickPlaces => call.mode = "tick"
  /\ call.mode = "none" => pc = "idle"
  /\ call.mode = "recover" => call.todo = {} /\ call.keys = {}
  /\ call.mode # "none" => call.inst \in Instances
  /\ pc = "read" => call.todo = {}
  /\ pc \in {"read", "next"} => call.keys = {}

(* A record of a group that no request is planned for yet. *)
Eligible(k) ==
  /\ Candidate(windows[k])
  /\ Cycle(k, windows[k]) \notin ledger
  /\ k \in call.born => windows[k].state = "pending_precheck"

(* The groups still to run are disjoint, and nobody touched them. *)
TodoOK ==
  /\ \A g \in call.todo : g \subseteq KeysOf(call.inst) /\ g \cap call.keys = {}
  /\ \A g, h \in call.todo : g = h \/ g \cap h = {}
  /\ \A g \in call.todo : \A k \in g : Eligible(k)

(* The group being run, from its precheck to the verification. *)
RunningOK ==
  /\ call.keys \subseteq KeysOf(call.inst)
  /\ pc = "precheck" => \A k \in call.keys : Eligible(k)
  /\ pc = "plan" =>
       \A k \in call.keys : /\ windows[k].state = "lazy_reset_detected"
                            /\ Cycle(k, windows[k]) \notin ledger
  /\ pc \in Planned /\ call.keys \cap call.born # {} => call.prechecked
  /\ pc = "prepared" => attempts[call.attempt].cycles = Candidates
  /\ pc \in Outgoing /\ call.mode = "tick" =>
       KeysIn(attempts[call.attempt].cycles) = call.keys

(* A record whose window was ever fenced shows it. *)
LedgerOK == \A c \in ledger : windows[c.key].activated

(* In a Tick, the windows of the identities it replaced are off. *)
ReplacedOK ==
  call.mode = "tick" =>
    \A k \in Keys :
      k.auth = call.inst.auth /\ InstanceOf(k) # call.inst
        => windows[k].state \in {"none", "disabled"}

Base == IInv /\ AttemptOK /\ ModeOK /\ RecordsOK
GroupInv == PlaceOK /\ TodoOK /\ RunningOK /\ LedgerOK /\ ReplacedOK

-----------------------------------------------------------------------------
(* What steps leave alone                                                  *)

(* The keys of the group's cycles are the group. *)
LEMMA CandidateKeys == KeysIn(Candidates) = call.keys
<1>1. \A k : Cycle(k, windows[k]).key = k
  BY DEF Cycle
<1>2. ASSUME NEW k \in call.keys PROVE k \in KeysIn(Candidates)
  BY <1>1 DEF KeysIn, Candidates
<1>3. ASSUME NEW k \in KeysIn(Candidates) PROVE k \in call.keys
  BY <1>1 DEF KeysIn, Candidates
<1> QED BY <1>2, <1>3

(* Only the fence writes the ledger. *)
LEMMA LedgerSteps ==
  ASSUME [Next]_vars, ~Fence
  PROVE  ledger' = ledger
BY DEF Next, Step, Tick, Recover, MarkCredentialState, ReadFailed, Reconcile,
   NextGroup, GroupFailed, Precheck, DryRunReport, Prepare, Send, MarkFailed,
   MarkAccepted, WaitDone, WaitCancelled, Verify, VerifyReadFailed,
   RecoverPrepared, RecoverInFlight, Done, Abort, Reconfigure, Elapse, vars, db

(* What the fence adds is of the group being run. *)
LEMMA FenceAdds ==
  ASSUME RunningOK, Fence
  PROVE  /\ ledger' = ledger \cup Candidates
         /\ KeysIn(attempts[call.attempt].cycles) = call.keys
BY CandidateKeys DEF RunningOK, Fence, LedgerWith

(* From its observation on, a Tick only writes the group it runs. *)
LEMMA OnlyGroupTouched ==
  ASSUME PlaceOK, RunningOK, ModeOK, [Next]_vars,
         call.mode = "tick", pc # "read",
         NEW k \in Keys, k \notin call.keys
  PROVE  windows'[k] = windows[k]
<1>1. pc # "idle"
  BY DEF PlaceOK, NoCall
<1>2. CASE GroupFailed \/ DryRunReport \/ Precheck \/ Prepare
  BY <1>2 DEF GroupFailed, DryRunReport, Precheck, Prepare, SetWindows,
              AfterPrecheck
<1>3. CASE Fence \/ MarkFailed \/ MarkAccepted \/ WaitCancelled \/ Verify
           \/ VerifyReadFailed
  <2>1. pc \in Outgoing
    BY <1>3 DEF Fence, MarkFailed, MarkAccepted, WaitCancelled, Verify,
                VerifyReadFailed, Outgoing
  <2>2. KeysIn(attempts[call.attempt].cycles) = call.keys
    BY <2>1 DEF RunningOK
  <2> QED
    BY <1>3, <2>2 DEF Fence, MarkFailed, MarkAccepted, WaitCancelled, Verify,
       VerifyReadFailed, MarkSendOutcome, SetWindows, AfterVerify
<1>4. CASE \E id \in AttemptIds : RecoverPrepared(id) \/ RecoverInFlight(id)
  BY <1>4 DEF RecoverPrepared, RecoverInFlight, ModeOK
<1>5. CASE NextGroup \/ Send \/ WaitDone \/ Done \/ Abort \/ Elapse
           \/ UNCHANGED vars
  BY <1>5 DEF NextGroup, Send, WaitDone, Done, Abort, Elapse, vars, db
<1>6. CASE \/ \E inst \in Instances : Tick(inst) \/ Recover(inst)
           \/ \E auth \in Auths, state \in {"disabled", "auth_blocked"} :
                MarkCredentialState(auth, state)
           \/ Reconfigure \/ ReadFailed \/ Reconcile
  BY <1>1, <1>6 DEF Tick, Recover, Begin, MarkCredentialState, Reconfigure,
                    ReadFailed, Reconcile
<1> QED
  BY <1>2, <1>3, <1>4, <1>5, <1>6 DEF Next, Step

(* A record nobody touched is as eligible as before. *)
LEMMA TodoKept ==
  ASSUME Base, GroupInv, [Next]_vars, call.mode = "tick", pc # "read",
         call'.todo \subseteq call.todo, call'.born = call.born,
         call'.inst = call.inst, call'.keys \subseteq call.keys
  PROVE  TodoOK'
<1>1. \A g \in call'.todo : /\ g \subseteq KeysOf(call'.inst)
                            /\ g \cap call'.keys = {} /\ g \cap call.keys = {}
  BY DEF GroupInv, TodoOK
<1>2. \A g, h \in call'.todo : g = h \/ g \cap h = {}
  BY DEF GroupInv, TodoOK
<1>3. ASSUME NEW g \in call'.todo, NEW k \in g PROVE Eligible(k)'
  <2>1. k \in Keys /\ k \notin call.keys /\ Eligible(k)
    BY <1>1, <1>3 DEF GroupInv, TodoOK, KeysOf
  <2>2. windows'[k] = windows[k]
    BY <2>1, OnlyGroupTouched DEF Base, GroupInv
  <2>3. Cycle(k, windows[k]) \notin ledger'
    <3>1. CASE Fence
      <4>1. Cycle(k, windows[k]).key = k
        BY DEF Cycle
      <4>2. Cycle(k, windows[k]) \notin Candidates
        BY <2>1, <4>1, CandidateKeys DEF KeysIn
      <4> QED BY <2>1, <3>1, <4>2, FenceAdds DEF GroupInv, Eligible
    <3>2. CASE ~Fence
      BY <2>1, <3>2, LedgerSteps DEF Eligible
    <3> QED BY <3>1, <3>2
  <2> QED BY <2>1, <2>2, <2>3 DEF Eligible, Candidate
<1> QED BY <1>1, <1>2, <1>3 DEF TodoOK
-----------------------------------------------------------------------------
(* Where the call is                                                       *)

(* Every step leaves the call where such a call may be. *)
LEMMA NextPlace ==
  ASSUME Base, PlaceOK, [Next]_vars
  PROVE  PlaceOK'
<1> USE DEF TickPlaces
<1>1. call \in Calls
  BY DEF Base, IInv, TypeOK
<1>2. ASSUME Return PROVE PlaceOK'
  BY <1>2 DEF Return, PlaceOK, NoCall
<1>3. ASSUME pc # "idle", NEW ids, Proceed(ids) PROVE PlaceOK'
  <2>1. /\ pc' = "next" /\ call'.keys = {} /\ call'.todo = call.todo
        /\ call'.mode = call.mode /\ call'.inst = call.inst
    BY <1>1, <1>3 DEF Proceed, Calls
  <2>2. call.mode # "none"
    BY <1>3 DEF PlaceOK
  <2> QED BY <2>1, <2>2 DEF PlaceOK
<1>4. CASE \E inst \in Instances : Tick(inst) \/ Recover(inst)
  <2>1. PICK inst \in Instances : \E mode \in {"tick", "recover"} :
          /\ \E ids :
               call' = [NoCall EXCEPT !.mode = mode, !.inst = inst, !.ids = ids]
          /\ pc' = IF mode = "tick" THEN "read" ELSE "next"
    BY <1>4 DEF Tick, Recover, Begin
  <2> QED BY <2>1 DEF PlaceOK, NoCall
<1>5. CASE \/ \E auth \in Auths, state \in {"disabled", "auth_blocked"} :
                MarkCredentialState(auth, state)
           \/ Reconfigure \/ Elapse \/ UNCHANGED vars
  BY <1>5 DEF MarkCredentialState, Reconfigure, Elapse, vars, PlaceOK
<1>6. CASE ReadFailed \/ GroupFailed \/ Done \/ Abort
  BY <1>2, <1>6 DEF ReadFailed, GroupFailed, Done, Abort
<1>7. CASE Reconcile
  <2>1. /\ pc = "read" /\ pc' = "next" /\ call'.mode = call.mode
        /\ call'.inst = call.inst /\ call'.keys = call.keys
    BY <1>1, <1>7 DEF Reconcile, Calls
  <2> QED BY <2>1 DEF PlaceOK
<1>8. CASE NextGroup
  <2>1. /\ pc = "next" /\ pc' \in {"precheck", "plan"} /\ call.todo # {}
        /\ call'.mode = call.mode /\ call'.inst = call.inst
    BY <1>1, <1>8 DEF NextGroup, Calls
  <2>2. call.mode = "tick"
    BY <1>1, <2>1 DEF PlaceOK, Calls
  <2> QED BY <2>1, <2>2 DEF PlaceOK
<1>9. CASE Precheck
  <2>1. pc = "precheck"
    BY <1>9 DEF Precheck
  <2>2. CASE Proceed(call.ids)
    BY <1>3, <2>1, <2>2
  <2>3. CASE ~Proceed(call.ids)
    <3>1. pc' = "plan" /\ call'.mode = call.mode /\ call'.inst = call.inst
      BY <1>1, <1>9, <2>3 DEF Precheck, Calls
    <3> QED BY <2>1, <3>1 DEF PlaceOK
  <2> QED BY <2>2, <2>3
<1>10. CASE \/ DryRunReport \/ MarkFailed \/ Verify \/ VerifyReadFailed
            \/ \E id \in AttemptIds : RecoverPrepared(id)
  BY <1>3, <1>10 DEF DryRunReport, MarkFailed, Verify, VerifyReadFailed,
     RecoverPrepared
<1>11. CASE WaitCancelled
  BY <1>2, <1>3, <1>11 DEF WaitCancelled
<1>12. CASE Prepare \/ Fence \/ Send \/ MarkAccepted \/ WaitDone
  <2>1. /\ call'.mode = call.mode /\ call'.inst = call.inst
        /\ call'.todo = call.todo /\ call'.keys = call.keys
    BY <1>1, <1>12 DEF Prepare, Fence, Send, MarkAccepted, WaitDone, Calls
  <2>2. /\ pc' \in {"prepared", "send", "accepted", "failed", "waiting", "verify"}
        /\ pc # "idle" /\ (pc' \in TickPlaces => pc \in TickPlaces)
    BY <1>12 DEF Prepare, Fence, Send, MarkAccepted, WaitDone
  <2> QED BY <2>1, <2>2 DEF PlaceOK
<1>13. CASE \E id \in AttemptIds : RecoverInFlight(id)
  <2>1. /\ call'.mode = call.mode /\ call'.inst = call.inst
        /\ call'.todo = call.todo /\ call'.keys = call.keys
        /\ pc' \in {"waiting", "verify"} /\ pc = "next"
    BY <1>1, <1>13 DEF RecoverInFlight, Calls
  <2> QED BY <2>1 DEF PlaceOK
<1> QED
  BY <1>4, <1>5, <1>6, <1>7, <1>8, <1>9, <1>10, <1>11, <1>12, <1>13
  DEF Next, Step

-----------------------------------------------------------------------------
(* The groups                                                              *)

(* A call without groups, where it runs none. *)
LEMMA NoGroups ==
  ASSUME call'.todo = {}, call'.keys = {}, pc' \in {"idle", "read", "next"}
  PROVE  TodoOK' /\ RunningOK'
BY DEF TodoOK, RunningOK, Planned, Outgoing

(* A Tick that leaves its group for the next. *)
LEMMA ProceedGroups ==
  ASSUME Base, GroupInv, [Next]_vars, call.mode = "tick", pc # "read",
         Proceed(call.ids)
  PROVE  TodoOK' /\ RunningOK'
<1>1. /\ pc' = "next" /\ call'.keys = {} /\ call'.todo = call.todo
      /\ call'.inst = call.inst /\ call'.born = call.born
  BY DEF Proceed, Base, IInv, TypeOK, Calls
<1>2. TodoOK'
  BY <1>1, TodoKept
<1> QED BY <1>1, <1>2 DEF RunningOK, Planned, Outgoing

(* A call of Recover has no groups. *)
LEMMA RecoverGroups ==
  ASSUME Base, GroupInv, [Next]_vars, call'.mode = "recover"
  PROVE  TodoOK' /\ RunningOK'
<1>1. PlaceOK'
  BY NextPlace DEF GroupInv
<1>2. call'.todo = {} /\ call'.keys = {} /\ pc' \notin TickPlaces
  BY <1>1 DEF PlaceOK
<1> QED BY <1>2 DEF TodoOK, RunningOK, TickPlaces, Planned, Outgoing

(* What reconcileObservation hands over is eligible. *)
LEMMA ReconciledEligible ==
  ASSUME Base, GroupInv, NEW k \in Keys, NEW w \in QuotaWindows,
         NEW s, s = Reconciled(windows[k], w, Fenced(k), now), Candidate(s)
  PROVE  /\ Cycle(k, s) \notin ledger
         /\ s.reset # windows[k].reset => s.state = "pending_precheck"
<1> DEFINE r == windows[k]
<1>1. r \in WindowRecords /\ now \in Nat
  BY RecordTypes DEF Base
<1>2. ASSUME ~r.activated PROVE Cycle(k, s) \notin ledger
  BY <1>2 DEF Cycle, GroupInv, LedgerOK
<1>3. CASE ~Present(r)
  <2>1. ~r.activated
    BY <1>3 DEF Base, RecordsOK, ActivatedOK
  <2>2. s.state = FirstState(w, now)
    BY <1>3 DEF Reconciled, FirstSight, Schedule, Rebase, NoWindow
  <2>3. s.state = "pending_precheck"
    BY <2>2 DEF Candidate, FirstState
  <2> QED BY <1>2, <2>1, <2>3
<1>4. CASE Present(r)
  <2>1. s = Resight(r, w, Fenced(k), now)
    BY <1>4 DEF Reconciled
  <2>2. CASE Migrates(r, w) /\ s = Schedule(Rebase(r, w), "pending_precheck", 0)
    <3>1. ~r.activated /\ s.state = "pending_precheck"
      BY <1>1, <2>2 DEF Migrates, Schedule, Rebase, WindowRecords
    <3> QED BY <1>2, <3>1
  <2>3. CASE ~Fenced(k) /\ s = Schedule(r, "lazy_reset_detected", 0)
    <3>1. s.reset = r.reset
      BY <1>1, <2>3 DEF Schedule, WindowRecords
    <3> QED BY <2>3, <3>1 DEF Fenced, Cycle
  <2>4. CASE s.state \notin {"pending_precheck", "lazy_reset_detected"}
    BY <2>4 DEF Candidate
  <2>5. Unsupported(r, now).state = "unsupported"
    BY <1>1 DEF Unsupported, Schedule, WindowRecords
  <2>6. Detach(NormalReset(r, w, now)).state = "normal_reset"
    BY <1>1 DEF NormalReset, Detach, Forgive, Rebase, Schedule, WindowRecords
  <2>7. LateBackOff(r, now).state = "retry_wait"
    BY <1>1 DEF LateBackOff, Schedule, WindowRecords
  <2>8. \A x : /\ Schedule(r, "waiting_reset", x).state = "waiting_reset"
              /\ Schedule(r, "sent_unknown", x).state = "sent_unknown"
    BY <1>1 DEF Schedule, WindowRecords
  <2> QED
    BY <2>1, <2>2, <2>3, <2>4, <2>5, <2>6, <2>7, <2>8 DEF Resight
<1> QED BY <1>3, <1>4
(* The groups of one observation are disjoint. *)
LEMMA GroupsDisjoint ==
  ASSUME NEW ks, NEW g \in GroupsOf(ks), NEW h \in GroupsOf(ks), g \cap h # {}
  PROVE  g = h
BY DEF GroupsOf, SameGroup

(* reconcileObservation. *)
LEMMA ReconcileGroups ==
  ASSUME Base, GroupInv, Reconcile
  PROVE  TodoOK' /\ RunningOK'
<1>1. call \in Calls /\ pc = "read" /\ pc' = "next" /\ ledger' = ledger
  BY DEF Base, IInv, TypeOK, Reconcile
<1> DEFINE next(o) == AfterReconcile(call.inst, o)
<1> DEFINE ks(o) == {k \in Observed(call.inst, o) : Candidate(next(o)[k])}
<1>2. PICK o \in Observe(now) :
        /\ windows' = next(o)
        /\ call' = [call EXCEPT
             !.todo = GroupsOf(ks(o)),
             !.born = {k \in Observed(call.inst, o) :
                         next(o)[k].reset # windows[k].reset
                           \/ next(o)[k].state = "pending_precheck"}]
  BY DEF Reconcile
<1>3. /\ call'.todo = GroupsOf(ks(o)) /\ call'.inst = call.inst
      /\ call'.keys = {}
      /\ call'.born = {k \in Observed(call.inst, o) :
                         windows'[k].reset # windows[k].reset
                           \/ windows'[k].state = "pending_precheck"}
  BY <1>1, <1>2 DEF Calls, GroupInv, PlaceOK
<1>4. ks(o) \subseteq KeysOf(call.inst) /\ KeysOf(call.inst) \subseteq Keys
  BY DEF Observed, KeysOf
<1>5. \A g \in call'.todo : g \subseteq ks(o)
  BY <1>3 DEF GroupsOf
<1>6. ASSUME NEW k \in ks(o) PROVE Eligible(k)'
  <2> DEFINE w == o[k.bucket]
  <2>1. k \in Keys /\ k \in Observed(call.inst, o) /\ Candidate(next(o)[k])
    BY <1>4, <1>6
  <2>2. w \in QuotaWindows
    BY <2>1, RecordTypes DEF Base, Observed
  <2>3. windows'[k] = Reconciled(windows[k], w, Fenced(k), now)
    BY <1>2, <2>1 DEF AfterReconcile
  <2>4. Candidate(windows'[k])
    BY <1>2, <2>1
  <2>5. /\ Cycle(k, windows'[k]) \notin ledger
        /\ windows'[k].reset # windows[k].reset
             => windows'[k].state = "pending_precheck"
    BY <2>1, <2>2, <2>3, <2>4, ReconciledEligible
  <2> QED BY <1>1, <1>3, <2>4, <2>5 DEF Eligible, Candidate
<1>7. TodoOK'
  <2>1. \A g \in call'.todo : g \subseteq KeysOf(call'.inst) /\ g \cap call'.keys = {}
    BY <1>3, <1>4, <1>5
  <2>2. \A g, h \in call'.todo : g = h \/ g \cap h = {}
    BY <1>3, GroupsDisjoint
  <2>3. \A g \in call'.todo : \A k \in g : Eligible(k)'
    BY <1>5, <1>6
  <2> QED BY <2>1, <2>2, <2>3 DEF TodoOK
<1> QED BY <1>1, <1>3, <1>7 DEF RunningOK, Planned, Outgoing

(* runGroup takes up a group. *)
LEMMA NextGroupGroups ==
  ASSUME Base, GroupInv, NextGroup
  PROVE  TodoOK' /\ RunningOK'
<1>1. call \in Calls
  BY DEF Base, IInv, TypeOK
<1>2. PICK g \in call.todo :
        /\ call' = [call EXCEPT !.todo = @ \ {g}, !.keys = g]
        /\ pc' = IF NeedsPrecheck(g) THEN "precheck" ELSE "plan"
        /\ UNCHANGED <<windows, ledger>>
  BY DEF NextGroup, db
<1>3. /\ call'.todo = call.todo \ {g} /\ call'.keys = g
      /\ call'.inst = call.inst /\ call'.born = call.born
  BY <1>1, <1>2 DEF Calls
<1>4. \A k \in g : Eligible(k)
  BY <1>2 DEF GroupInv, TodoOK
<1>5. \A k : Eligible(k) => Eligible(k)'
  BY <1>2, <1>3 DEF Eligible, Candidate
<1>6. TodoOK'
  <2>1. \A h \in call'.todo : h \subseteq KeysOf(call'.inst) /\ h \cap call'.keys = {}
    BY <1>2, <1>3 DEF GroupInv, TodoOK
  <2>2. \A h, i \in call'.todo : h = i \/ h \cap i = {}
    BY <1>3 DEF GroupInv, TodoOK
  <2>3. \A h \in call'.todo : \A k \in h : Eligible(k)'
    BY <1>3, <1>5 DEF GroupInv, TodoOK
  <2> QED BY <2>1, <2>2, <2>3 DEF TodoOK
<1>7. CASE NeedsPrecheck(g)
  <2>1. pc' = "precheck"
    BY <1>2, <1>7
  <2> QED
    BY <1>2, <1>3, <1>4, <1>5, <1>6, <2>1
    DEF RunningOK, Planned, Outgoing, GroupInv, TodoOK
<1>8. CASE ~NeedsPrecheck(g)
  <2>1. pc' = "plan"
    BY <1>2, <1>8
  <2>2. \A k \in g : /\ windows'[k].state = "lazy_reset_detected"
                     /\ k \notin call'.born
                     /\ Cycle(k, windows'[k]) \notin ledger'
    BY <1>2, <1>3, <1>4, <1>8 DEF NeedsPrecheck, Eligible, Candidate
  <2>3. g \subseteq KeysOf(call'.inst) /\ g \cap call'.born = {}
    BY <1>2, <1>3, <2>2 DEF GroupInv, TodoOK
  <2> QED
    BY <1>3, <1>6, <2>1, <2>2, <2>3 DEF RunningOK, Planned, Outgoing
<1> QED BY <1>7, <1>8

(* precheckGroup. *)
LEMMA PrecheckGroups ==
  ASSUME Base, GroupInv, Precheck
  PROVE  TodoOK' /\ RunningOK'
<1>1. /\ call \in Calls /\ pc = "precheck" /\ call.mode = "tick"
      /\ pc # "read" /\ UNCHANGED <<ledger, now>> /\ [Next]_vars
  BY DEF Base, IInv, TypeOK, GroupInv, PlaceOK, TickPlaces, Precheck, Next, Step
<1>2. CASE Proceed(call.ids)
  BY <1>1, <1>2, ProceedGroups
<1>3. CASE ~Proceed(call.ids)
  <2>1. PICK o \in Observe(now) :
          /\ windows' = AfterPrecheck(o) /\ pc' = "plan"
          /\ call' = [call EXCEPT !.keys = Kept(AfterPrecheck(o)),
                                  !.prechecked = TRUE]
    BY <1>3 DEF Precheck
  <2> DEFINE kept == Kept(AfterPrecheck(o))
  <2>2. /\ call'.keys = kept /\ kept \subseteq call.keys /\ call'.prechecked
        /\ call'.todo = call.todo /\ call'.inst = call.inst
        /\ call'.born = call.born
    BY <1>1, <2>1 DEF Calls, Kept
  <2>3. TodoOK'
    BY <1>1, <2>2, TodoKept
  <2>4. ASSUME NEW k \in kept
        PROVE  /\ windows'[k].state = "lazy_reset_detected"
               /\ Cycle(k, windows'[k]) \notin ledger
    <3>1. k \in call.keys /\ windows'[k].state = "lazy_reset_detected"
      BY <2>1, <2>4 DEF Kept
    <3>2. k \in Keys /\ Eligible(k)
      BY <1>1, <3>1 DEF GroupInv, RunningOK, KeysOf
    <3> DEFINE r == windows[k]
    <3>3. r \in WindowRecords
      BY <3>2, RecordTypes DEF Base
    <3>4. \/ windows'[k] = BackOff(r, now)
          \/ \E w \in QuotaWindows : windows'[k] = Prechecked(r, w, now)
      <4>1. CASE k.bucket \in DOMAIN o
        <5>1. o[k.bucket] \in QuotaWindows
          BY <4>1, RecordTypes DEF Base
        <5> QED BY <2>1, <3>1, <3>2, <4>1, <5>1 DEF AfterPrecheck
      <4>2. CASE k.bucket \notin DOMAIN o
        BY <2>1, <3>1, <3>2, <4>2 DEF AfterPrecheck
      <4> QED BY <4>1, <4>2
    <3>5. BackOff(r, now).state = "retry_wait"
      BY <3>3 DEF BackOff, Schedule, WindowRecords
    <3>6. Unsupported(r, now).state = "unsupported"
      BY <3>3 DEF Unsupported, Schedule, WindowRecords
    <3>7. \A w : NormalReset(r, w, now).state = "normal_reset"
      BY <3>3 DEF NormalReset, Forgive, Rebase, Schedule, WindowRecords
    <3>8. windows'[k] = Schedule(r, "lazy_reset_detected", 0)
      BY <3>1, <3>4, <3>5, <3>6, <3>7 DEF Prechecked
    <3>9. windows'[k].reset = r.reset
      BY <3>3, <3>8 DEF Schedule, WindowRecords
    <3> QED BY <3>1, <3>2, <3>9 DEF Eligible, Cycle
  <2>5. call'.keys \subseteq KeysOf(call'.inst)
    BY <2>2 DEF GroupInv, RunningOK
  <2> QED
    BY <1>1, <2>1, <2>2, <2>3, <2>4, <2>5 DEF RunningOK, Planned, Outgoing
<1> QED BY <1>2, <1>3

(* The attempt is planned for what the group's records say. *)
LEMMA PrepareGroups ==
  ASSUME Base, GroupInv, Prepare
  PROVE  TodoOK' /\ RunningOK'
<1>1. /\ call \in Calls /\ pc = "plan" /\ pc' = "prepared"
      /\ call.mode = "tick" /\ pc # "read" /\ [Next]_vars
  BY DEF Base, IInv, TypeOK, GroupInv, PlaceOK, TickPlaces, Prepare, Next, Step
<1>2. PICK id \in AttemptIds :
        /\ attempts' = [attempts EXCEPT ![id] =
             [phase |-> "prepared", cycles |-> Candidates, created |-> now]]
        /\ call' = [call EXCEPT !.attempt = id]
        /\ SetWindows(call.keys, LAMBDA r :
             [r EXCEPT !.state = "pending_precheck", !.attempt = id])
  BY DEF Prepare
<1>3. /\ call'.attempt = id /\ call'.keys = call.keys /\ call'.todo = call.todo
      /\ call'.inst = call.inst /\ call'.born = call.born
      /\ call'.prechecked = call.prechecked
  BY <1>1, <1>2 DEF Calls
<1>4. TodoOK'
  BY <1>1, <1>3, TodoKept
<1>5. attempts'[id].cycles = Candidates
  BY <1>2 DEF Base, IInv, TypeOK
<1>6. call.keys \subseteq Keys
  BY <1>1 DEF Calls
<1>7. \A k \in call.keys : windows'[k].reset = windows[k].reset
  BY <1>2, <1>6, RecordTypes DEF Base, SetWindows, WindowRecords
<1>8. Candidates' = Candidates
  BY <1>3, <1>7 DEF Candidates, Cycle
<1>9. call'.keys \cap call'.born # {} => call'.prechecked
  BY <1>1, <1>3 DEF GroupInv, RunningOK, Planned
<1> QED
  BY <1>1, <1>3, <1>4, <1>5, <1>8, <1>9, CandidateKeys
  DEF RunningOK, Planned, GroupInv
(* From the fence to the verification the group stays the same. *)
LEMMA CarryGroups ==
  ASSUME Base, GroupInv, Fence \/ Send \/ MarkAccepted \/ WaitDone,
         call.mode = "tick"
  PROVE  TodoOK' /\ RunningOK'
<1>1. /\ call \in Calls /\ attempts \in [AttemptIds -> Attempts]
      /\ pc \in Outgoing /\ pc # "read" /\ [Next]_vars
      /\ call.attempt \in AttemptIds
  BY DEF Base, IInv, TypeOK, CallOK, Fence, Send, MarkAccepted, WaitDone,
         Outgoing, Next, Step
<1>2. /\ pc' \in {"send", "accepted", "failed", "waiting", "verify"}
      /\ pc' = "send" => pc = "prepared"
  BY DEF Fence, Send, MarkAccepted, WaitDone
<1>3. /\ call'.attempt = call.attempt /\ call'.keys = call.keys
      /\ call'.todo = call.todo /\ call'.inst = call.inst
      /\ call'.born = call.born /\ call'.prechecked = call.prechecked
  BY <1>1 DEF Fence, Send, MarkAccepted, WaitDone, Calls
<1>4. TodoOK'
  BY <1>1, <1>3, TodoKept
<1>5. attempts'[call.attempt].cycles = attempts[call.attempt].cycles
  <2>1. attempts' = attempts \/ \E p : Moves(call.attempt, p)
    BY DEF Fence, Send, MarkAccepted, WaitDone, MarkSendOutcome, Moves, db
  <2> QED BY <1>1, <2>1 DEF Moves, Attempts
<1>6. KeysIn(attempts'[call'.attempt].cycles) = call'.keys
  BY <1>1, <1>3, <1>5 DEF GroupInv, RunningOK
<1>7. pc' \in Planned /\ call'.keys \cap call'.born # {} => call'.prechecked
  BY <1>2, <1>3 DEF GroupInv, RunningOK, Planned
<1> QED
  BY <1>2, <1>3, <1>4, <1>6, <1>7 DEF RunningOK, GroupInv

(* A call of no Tick, whose locals and records stay as they are. *)
LEMMA EnvironmentGroups ==
  ASSUME Base, GroupInv, Elapse \/ UNCHANGED vars
  PROVE  TodoOK' /\ RunningOK'
<1>1. UNCHANGED <<windows, attempts, ledger, pc, call>>
  BY DEF Elapse, vars, db
<1>2. Candidates' = Candidates /\ \A k : Eligible(k)' = Eligible(k)
  BY <1>1 DEF Candidates, Eligible, Candidate
<1> QED BY <1>1, <1>2 DEF TodoOK, RunningOK, GroupInv

(* Every step. *)
LEMMA NextGroups ==
  ASSUME Base, GroupInv, [Next]_vars
  PROVE  TodoOK' /\ RunningOK'
<1>1. call \in Calls
  BY DEF Base, IInv, TypeOK
<1>2. ASSUME Return PROVE TodoOK' /\ RunningOK'
  BY <1>2, NoGroups DEF Return, NoCall
<1>3. CASE \E inst \in Instances : Tick(inst) \/ Recover(inst)
  <2>1. call'.todo = {} /\ call'.keys = {} /\ pc' \in {"read", "next"}
    BY <1>3 DEF Tick, Recover, Begin, NoCall
  <2> QED BY <2>1, NoGroups
<1>4. CASE \/ \E auth \in Auths, state \in {"disabled", "auth_blocked"} :
                MarkCredentialState(auth, state)
           \/ Reconfigure
  <2>1. call' = NoCall /\ pc' = "idle"
    BY <1>4 DEF MarkCredentialState, Reconfigure, GroupInv, PlaceOK
  <2> QED BY <2>1, NoGroups DEF NoCall
<1>5. CASE ReadFailed \/ GroupFailed \/ Done \/ Abort
  BY <1>2, <1>5 DEF ReadFailed, GroupFailed, Done, Abort
<1>6. CASE Reconcile \/ NextGroup \/ Precheck \/ Prepare
  BY <1>6, ReconcileGroups, NextGroupGroups, PrecheckGroups, PrepareGroups
<1>7. CASE call'.mode = "recover"
  BY <1>7, RecoverGroups
<1>8. CASE DryRunReport \/ MarkFailed
  <2>1. call.mode = "tick" /\ pc # "read" /\ Proceed(call.ids)
    BY <1>8 DEF DryRunReport, MarkFailed, GroupInv, PlaceOK, TickPlaces
  <2> QED BY <2>1, ProceedGroups
<1>9. CASE /\ Verify \/ VerifyReadFailed \/ WaitCancelled
           /\ call'.mode # "recover"
  <2>1. pc \in {"waiting", "verify"}
    BY <1>9 DEF Verify, VerifyReadFailed, WaitCancelled
  <2>2. CASE Return
    BY <1>2, <2>2
  <2>3. CASE ~Return
    <3>1. Proceed(call.ids)
      BY <1>9, <2>3 DEF Verify, VerifyReadFailed, WaitCancelled
    <3>2. call'.mode = call.mode
      BY <1>1, <3>1 DEF Proceed, Calls
    <3>3. call.mode = "tick"
      BY <1>1, <1>9, <2>1, <3>2 DEF Calls, GroupInv, PlaceOK
    <3> QED BY <2>1, <3>1, <3>3, ProceedGroups
  <2> QED BY <2>2, <2>3
<1>10. CASE /\ Fence \/ Send \/ MarkAccepted \/ WaitDone
            /\ call'.mode # "recover"
  <2>1. call'.mode = call.mode /\ pc # "idle"
    BY <1>1, <1>10 DEF Fence, Send, MarkAccepted, WaitDone, Calls
  <2>2. call.mode = "tick"
    BY <1>1, <1>10, <2>1 DEF Calls, GroupInv, PlaceOK
  <2> QED BY <1>10, <2>2, CarryGroups
<1>11. CASE \E id \in AttemptIds : RecoverPrepared(id) \/ RecoverInFlight(id)
  <2>1. call.mode = "recover" /\ call'.mode = call.mode
    BY <1>1, <1>11 DEF RecoverPrepared, RecoverInFlight, Proceed, Base, ModeOK,
                       Calls
  <2> QED BY <1>7, <2>1
<1>12. CASE Elapse \/ UNCHANGED vars
  BY <1>12, EnvironmentGroups
<1> QED
  BY <1>3, <1>4, <1>5, <1>6, <1>7, <1>8, <1>9, <1>10, <1>11, <1>12
  DEF Next, Step

-----------------------------------------------------------------------------
(* The ledger and the records                                              *)

(* A fenced window stays marked, and its baseline does not begin anew. *)
LEMMA NextLedger ==
  ASSUME Base, GroupInv, [Next]_vars
  PROVE  LedgerOK'
<1> SUFFICES ASSUME NEW c \in ledger' PROVE windows'[c.key].activated
  BY DEF LedgerOK
<1> DEFINE k == c.key
<1>1. \A x \in Keys : windows[x] \in WindowRecords
  BY RecordTypes DEF Base
<1>2. CASE c \in ledger
  <2>1. k \in Keys /\ windows[k].activated
    BY <1>2 DEF Base, IInv, TypeOK, Cycles, GroupInv, LedgerOK
  <2>2. Present(windows[k])
    BY <2>1 DEF Base, RecordsOK, ActivatedOK
  <2>3. CASE Prepares(k) \/ Fences(k)
    BY <1>1, <2>1, <2>3 DEF Prepares, Fences, WindowRecords
  <2>4. CASE Moved(windows[k], windows'[k]) \/ Verifies(k)
    BY <2>1, <2>2, <2>4
    DEF Moved, SameBaseline, Rolls, Begins, Verifies, Confirms
  <2>5. CASE windows'[k] = windows[k]
    BY <2>1, <2>5
  <2> QED BY <2>1, <2>3, <2>4, <2>5, RecordSteps DEF RecordStep, Base
<1>3. CASE c \notin ledger
  <2>1. Fence
    BY <1>3, LedgerSteps
  <2>2. c \in attempts[call.attempt].cycles
    BY <1>3, <2>1 DEF Fence, LedgerWith
  <2>3. k \in KeysIn(attempts[call.attempt].cycles)
    BY <2>2 DEF KeysIn
  <2>4. c \in Cycles
    BY <2>1, <2>2 DEF Fence, Base, IInv, TypeOK, CallOK, Attempts
  <2>5. k \in Keys
    BY <2>4 DEF Cycles
  <2>6. windows'[k] = [windows[k] EXCEPT !.state = "activation_sending",
                                         !.activated = TRUE]
    BY <2>1, <2>3, <2>5 DEF Fence, SetWindows
  <2> QED BY <1>1, <2>5, <2>6 DEF WindowRecords
<1> QED BY <1>2, <1>3

(* Only the Tick of an identity changes who is off, and only its windows. *)
LEMMA NextReplaced ==
  ASSUME Base, GroupInv, [Next]_vars
  PROVE  ReplacedOK'
<1> SUFFICES ASSUME call'.mode = "tick", NEW k \in Keys,
                    k.auth = call'.inst.auth, InstanceOf(k) # call'.inst
             PROVE  windows'[k].state \in {"none", "disabled"}
  BY DEF ReplacedOK
<1>1. /\ call \in Calls /\ \A x \in Keys : windows[x] \in WindowRecords
  BY RecordTypes DEF Base, IInv, TypeOK
<1>2. CASE \E inst \in Instances : Tick(inst)
  <2>1. PICK inst \in Instances : Tick(inst)
    BY <1>2
  <2>2. call'.inst = inst
    BY <2>1 DEF Tick, Begin, NoCall
  <2>3. CASE Present(windows[k])
    <3>1. k \in Replaced(inst)
      BY <2>2, <2>3 DEF Replaced
    <3>2. windows'[k] = Schedule(windows[k], "disabled", 0)
      BY <2>1, <3>1 DEF Tick, SetWindows
    <3> QED BY <1>1, <3>2 DEF Schedule, WindowRecords
  <2>4. CASE ~Present(windows[k])
    <3>1. k \notin Replaced(inst)
      BY <2>4 DEF Replaced
    <3>2. windows'[k] = windows[k]
      BY <2>1, <3>1 DEF Tick, SetWindows
    <3> QED BY <2>4, <3>2 DEF Present
  <2> QED BY <2>3, <2>4
<1>3. CASE ~ \E inst \in Instances : Tick(inst)
  <2>1. call'.inst = call.inst /\ call.mode = "tick"
    <3>1. CASE Return
      BY <3>1 DEF Return, NoCall
    <3>2. ASSUME NEW ids, Proceed(ids)
          PROVE  call'.inst = call.inst /\ call'.mode = call.mode
      BY <1>1, <3>2 DEF Proceed, Calls
    <3>3. CASE \E inst \in Instances : Recover(inst)
      BY <3>3 DEF Recover, Begin, NoCall
    <3>4. CASE ReadFailed \/ GroupFailed \/ Done \/ Abort
      BY <3>1, <3>4 DEF ReadFailed, GroupFailed, Done, Abort
    <3>5. CASE \/ DryRunReport \/ MarkFailed \/ Verify \/ VerifyReadFailed
               \/ \E id \in AttemptIds : RecoverPrepared(id)
      BY <3>2, <3>5 DEF DryRunReport, MarkFailed, Verify, VerifyReadFailed,
         RecoverPrepared
    <3>6. CASE Reconcile \/ NextGroup
      BY <1>1, <3>6 DEF Reconcile, NextGroup, Calls
    <3>7. CASE Precheck \/ WaitCancelled
      <4>1. \/ Proceed(call.ids) \/ Return
            \/ /\ Precheck
               /\ \E ks : call' = [call EXCEPT !.keys = ks, !.prechecked = TRUE]
        BY <3>7 DEF Precheck, WaitCancelled
      <4>2. CASE \E ks : call' = [call EXCEPT !.keys = ks, !.prechecked = TRUE]
        BY <1>1, <4>2 DEF Calls
      <4> QED BY <3>1, <3>2, <4>1, <4>2
    <3>8. CASE \/ Prepare \/ Fence \/ Send \/ MarkAccepted \/ WaitDone
               \/ \E id \in AttemptIds : RecoverInFlight(id)
      BY <1>1, <3>8 DEF Prepare, Fence, Send, MarkAccepted, WaitDone,
         RecoverInFlight, Calls
    <3>9. CASE \/ \E auth \in Auths, state \in {"disabled", "auth_blocked"} :
                    MarkCredentialState(auth, state)
               \/ Reconfigure \/ Elapse \/ UNCHANGED vars
      BY <3>9 DEF MarkCredentialState, Reconfigure, Elapse, vars
    <3> QED
      BY <1>3, <3>3, <3>4, <3>5, <3>6, <3>7, <3>8, <3>9 DEF Next, Step
  <2>2. windows[k].state \in {"none", "disabled"}
    BY <2>1 DEF GroupInv, ReplacedOK
  <2>3. k \notin KeysOf(call.inst)
    BY <2>1 DEF KeysOf
  <2>4. windows'[k] = windows[k]
    <3>1. CASE pc # "read"
      <4>1. k \notin call.keys
        BY <2>3 DEF GroupInv, RunningOK
      <4> QED BY <2>1, <3>1, <4>1, OnlyGroupTouched DEF Base, GroupInv
    <3>2. CASE pc = "read"
      <4>1. CASE Reconcile
        BY <2>3, <4>1 DEF Reconcile, AfterReconcile, Observed, Known
      <4>2. CASE ReadFailed
        BY <2>3, <4>2 DEF ReadFailed, SetWindows, Known
      <4>3. CASE Abort \/ Elapse \/ UNCHANGED vars
        BY <4>3 DEF Abort, Elapse, vars, db
      <4> QED
        BY <1>3, <3>2, <4>1, <4>2, <4>3 DEF Next, Step, Recover, Begin,
           MarkCredentialState, NextGroup, GroupFailed, Precheck, DryRunReport,
           Prepare, Fence, Send, MarkFailed, MarkAccepted, WaitDone,
           WaitCancelled, Verify, VerifyReadFailed, RecoverPrepared,
           RecoverInFlight, Done, Reconfigure
    <3> QED BY <3>1, <3>2
  <2> QED BY <2>2, <2>4
<1> QED BY <1>2, <1>3

-----------------------------------------------------------------------------
(* The ledger and the attempts                                             *)

(* An attempt whose request may have left. *)
Beyond(id) == attempts[id].phase \in InFlight \cup {"completed"}

(* Each fenced cycle is of exactly one such attempt. *)
OwnersOK ==
  /\ \A id \in AttemptIds : Beyond(id) => attempts[id].cycles \subseteq ledger
  /\ \A c \in ledger : \E id \in AttemptIds :
       Beyond(id) /\ c \in attempts[id].cycles
  /\ \A id, other \in AttemptIds :
       /\ Beyond(id) /\ Beyond(other)
       /\ attempts[id].cycles \cap attempts[other].cycles # {}
       => id = other

(* Which attempts a step takes beyond Prepared: only the fence does. *)
LEMMA BeyondSteps ==
  ASSUME Base, [Next]_vars, NEW id \in AttemptIds
  PROVE  /\ Beyond(id)' <=> Beyond(id) \/ (Fence /\ id = call.attempt)
         /\ Beyond(id)' => attempts'[id].cycles = attempts[id].cycles
<1>1. attempts \in [AttemptIds -> Attempts]
  BY DEF Base, IInv, TypeOK
<1>2. CASE Fence
  <2>1. call.attempt \in AttemptIds /\ Moves(call.attempt, "sending")
    BY <1>2 DEF Fence, Moves, Base, IInv, CallOK
  <2> QED BY <1>1, <1>2, <2>1 DEF Moves, Attempts, Beyond, InFlight
<1>3. CASE ~Fence
  <2>1. CASE Steady
    BY <1>3, <2>1 DEF Steady, Beyond
  <2>2. ASSUME NEW i \in AttemptIds, NEW a \in Attempts, a.phase = "prepared",
               attempts[i].phase = "none", attempts' = [attempts EXCEPT ![i] = a]
        PROVE  /\ Beyond(id)' <=> Beyond(id)
               /\ Beyond(id)' => attempts'[id].cycles = attempts[id].cycles
    BY <1>1, <2>2 DEF Beyond, InFlight
  <2>3. ASSUME NEW i \in AttemptIds, attempts[i].phase = "prepared",
               attempts' = [attempts EXCEPT ![i] = NoAttempt]
        PROVE  /\ Beyond(id)' <=> Beyond(id)
               /\ Beyond(id)' => attempts'[id].cycles = attempts[id].cycles
    BY <1>1, <2>3 DEF Beyond, InFlight, NoAttempt
  <2>4. ASSUME NEW i \in AttemptIds, NEW p \in InFlight \cup {"completed"},
               attempts[i].phase \in InFlight, Moves(i, p)
        PROVE  /\ Beyond(id)' <=> Beyond(id)
               /\ Beyond(id)' => attempts'[id].cycles = attempts[id].cycles
    BY <1>1, <2>4 DEF Beyond, Moves, Attempts
  <2>5. \/ Steady
        \/ \E i \in AttemptIds, a \in Attempts :
             /\ a.phase = "prepared" /\ attempts[i].phase = "none"
             /\ attempts' = [attempts EXCEPT ![i] = a]
        \/ \E i \in AttemptIds : /\ attempts[i].phase = "prepared"
                                 /\ attempts' = [attempts EXCEPT ![i] = NoAttempt]
        \/ \E i \in AttemptIds, p \in InFlight \cup {"completed"} :
             attempts[i].phase \in InFlight /\ Moves(i, p)
    BY <1>3, PhaseSteps DEF Base, InFlight
  <2> QED BY <1>3, <2>1, <2>2, <2>3, <2>4, <2>5
<1> QED BY <1>2, <1>3

(* Every step. *)
LEMMA NextOwners ==
  ASSUME Base, OwnersOK, [Next]_vars
  PROVE  OwnersOK'
<1>1. CASE Fence
  <2>0. PICK here \in AttemptIds : here = call.attempt
    BY <1>1 DEF Fence, Base, IInv, CallOK
  <2>1. /\ Beyond(here)'
        /\ attempts[here].cycles \cap ledger = {}
        /\ ledger' = ledger \cup attempts[here].cycles
    BY <1>1, <2>0, BeyondSteps DEF Fence, LedgerWith, Base, IInv, FenceOK
  <2>2. \A id \in AttemptIds : Beyond(id)' =>
          /\ Beyond(id) \/ id = here
          /\ attempts'[id].cycles = attempts[id].cycles
    BY <2>0, BeyondSteps
  <2>3. \A id \in AttemptIds : Beyond(id) => Beyond(id)'
    BY BeyondSteps
  <2>4. \A id \in AttemptIds : Beyond(id) => attempts[id].cycles \subseteq ledger
    BY DEF OwnersOK
  <2>5. \A id \in AttemptIds :
          Beyond(id)' => attempts'[id].cycles \subseteq ledger'
    BY <2>1, <2>2, <2>4
  <2>6. ASSUME NEW c \in ledger'
        PROVE  \E id \in AttemptIds : Beyond(id)' /\ c \in attempts'[id].cycles
    <3>1. CASE c \in ledger
      BY <2>2, <2>3, <3>1 DEF OwnersOK
    <3>2. CASE c \in attempts[here].cycles
      <4>1. attempts'[here].cycles = attempts[here].cycles
        BY <2>1, <2>2
      <4>2. Beyond(here)' /\ c \in attempts'[here].cycles
        BY <2>1, <3>2, <4>1
      <4> QED BY <2>1, <4>2
    <3> QED BY <2>1, <2>6, <3>1, <3>2
  <2>7. ASSUME NEW id \in AttemptIds, NEW other \in AttemptIds,
               Beyond(id)', Beyond(other)',
               attempts'[id].cycles \cap attempts'[other].cycles # {}
        PROVE  id = other
    <3>1. attempts[id].cycles \cap attempts[other].cycles # {}
      BY <2>2, <2>7
    <3>2. (Beyond(id) \/ id = here) /\ (Beyond(other) \/ other = here)
      BY <2>2, <2>7
    <3>3. CASE Beyond(id) /\ Beyond(other)
      BY <3>1, <3>3 DEF OwnersOK
    <3>4. CASE Beyond(id) /\ other = here
      BY <2>1, <2>4, <3>1, <3>4
    <3>5. CASE id = here /\ Beyond(other)
      BY <2>1, <2>4, <3>1, <3>5
    <3> QED BY <3>2, <3>3, <3>4, <3>5
  <2> QED BY <2>5, <2>6, <2>7 DEF OwnersOK
<1>2. CASE ~Fence
  <2>1. ledger' = ledger
    BY <1>2, LedgerSteps
  <2>2. \A id \in AttemptIds :
          /\ Beyond(id)' <=> Beyond(id)
          /\ Beyond(id) => attempts'[id].cycles = attempts[id].cycles
    BY <1>2, BeyondSteps
  <2>3. \A id \in AttemptIds :
          Beyond(id)' => attempts'[id].cycles \subseteq ledger'
    BY <2>1, <2>2 DEF OwnersOK
  <2>4. \A c \in ledger' : \E id \in AttemptIds :
          Beyond(id)' /\ c \in attempts'[id].cycles
    BY <2>1, <2>2 DEF OwnersOK
  <2>5. \A id, other \in AttemptIds :
          /\ Beyond(id)' /\ Beyond(other)'
          /\ attempts'[id].cycles \cap attempts'[other].cycles # {}
          => id = other
    BY <2>2 DEF OwnersOK
  <2> QED BY <2>3, <2>4, <2>5 DEF OwnersOK
<1> QED BY <1>1, <1>2

-----------------------------------------------------------------------------
(* The ledger and the baselines                                            *)

Later(r, t) == r + Skew < t

(* What was fenced of a window is its baseline or well before it; two of   *)
(* its fenced cycles are well apart.                                       *)
SpacingOK ==
  /\ \A c \in ledger : \/ c.reset = windows[c.key].reset
                        \/ Later(c.reset, windows[c.key].reset)
  /\ \A c, d \in ledger :
       c.key = d.key => c = d \/ Later(c.reset, d.reset) \/ Later(d.reset, c.reset)

(* Every step, with an adapter that only confirms later windows. *)
LEMMA NextSpacing ==
  ASSUME Base, GroupInv, SpacingOK, [Next]_vars, VerdictsRoll
  PROVE  SpacingOK'
<1>1. /\ Skew \in Nat /\ ledger \subseteq Cycles
      /\ \A k \in Keys : windows[k] \in WindowRecords /\ windows'[k] \in WindowRecords
  BY ConfigAssumption, NextIInv DEF Base, IInv, TypeOK
<1>2. ASSUME NEW c \in ledger
      PROVE  \/ c.reset = windows'[c.key].reset
             \/ Later(c.reset, windows'[c.key].reset)
  <2> DEFINE k == c.key
  <2>1. k \in Keys /\ c.reset \in Nat /\ windows[k].activated
    BY <1>1, <1>2 DEF Cycles, GroupInv, LedgerOK
  <2>2. Present(windows[k])
    BY <2>1 DEF Base, RecordsOK, ActivatedOK
  <2>3. windows'[k].reset = windows[k].reset \/ Later(windows[k].reset, windows'[k].reset)
    <3>1. CASE Prepares(k) \/ Fences(k)
      <4>1. windows[k] \in WindowRecords
        BY <1>1, <2>1
      <4>2. CASE Prepares(k)
        <5>1. \E id : windows'[k] = [windows[k] EXCEPT !.state = "pending_precheck",
                                                      !.attempt = id]
          BY <4>2 DEF Prepares
        <5> QED BY <4>1, <5>1 DEF WindowRecords
      <4>3. CASE Fences(k)
        <5>1. windows'[k] = [windows[k] EXCEPT !.state = "activation_sending",
                                               !.activated = TRUE]
          BY <4>3 DEF Fences
        <5> QED BY <4>1, <5>1 DEF WindowRecords
      <4> QED BY <3>1, <4>2, <4>3
    <3>2. CASE windows'[k] = windows[k] \/ SameBaseline(windows[k], windows'[k])
      BY <3>2 DEF SameBaseline
    <3>3. CASE Rolls(windows[k], windows'[k])
      BY <3>3 DEF Rolls, Later
    <3>4. CASE Verifies(k)
      BY <1>1, <2>1, <3>4
      DEF Verifies, Confirms, VerdictsRoll, Later, Base, IInv, TypeOK
    <3> QED
      BY <2>1, <2>2, <3>1, <3>2, <3>3, <3>4, RecordSteps
      DEF RecordStep, Moved, Begins, Base
  <2>4. windows[k].reset \in Nat /\ windows'[k].reset \in Nat
    BY <1>1, <2>1 DEF WindowRecords
  <2> QED BY <1>1, <1>2, <2>1, <2>3, <2>4 DEF SpacingOK, Later
<1>3. CASE ~Fence
  BY <1>2, <1>3, LedgerSteps DEF SpacingOK
<1>4. CASE Fence
  <2>1. /\ ledger' = ledger \cup Candidates /\ Candidates \cap ledger = {}
        /\ call.keys \subseteq Keys
    BY <1>4 DEF Fence, LedgerWith, GroupInv, RunningOK, Base, IInv, FenceOK,
                TypeOK, Calls
  <2>2. ASSUME NEW c \in Candidates
        PROVE  /\ c.key \in Keys /\ c = Cycle(c.key, windows[c.key])
               /\ c.reset = windows[c.key].reset
               /\ c.reset = windows'[c.key].reset
    <3>1. PICK k \in call.keys : c = Cycle(k, windows[k])
      BY <2>2 DEF Candidates
    <3>2. c.key = k /\ c.reset = windows[k].reset /\ k \in Keys
      BY <2>1, <3>1 DEF Cycle
    <3>3. windows'[k].reset = windows[k].reset
      BY <1>1, <1>4, <3>2 DEF Fence, SetWindows, WindowRecords
    <3> QED BY <3>1, <3>2, <3>3
  <2>3. ASSUME NEW c \in ledger'
        PROVE  \/ c.reset = windows'[c.key].reset
               \/ Later(c.reset, windows'[c.key].reset)
    BY <1>2, <2>1, <2>2, <2>3
  <2>4. ASSUME NEW c \in ledger, NEW d \in Candidates, c.key = d.key
        PROVE  Later(c.reset, d.reset)
    <3>1. CASE c.reset = d.reset
      <4>1. c = [key |-> c.key, reset |-> c.reset]
        BY <1>1, <2>4 DEF Cycles
      <4>2. d = [key |-> d.key, reset |-> d.reset]
        BY <2>2, <2>4 DEF Cycle
      <4> QED BY <2>1, <2>4, <3>1, <4>1, <4>2
    <3>2. CASE c.reset # d.reset
      BY <2>2, <2>4, <3>2 DEF SpacingOK
    <3> QED BY <3>1, <3>2
  <2>5. \A c, d \in Candidates : c.key = d.key => c = d
    BY <2>2
  <2>6. ASSUME NEW c \in ledger', NEW d \in ledger', c.key = d.key
        PROVE  c = d \/ Later(c.reset, d.reset) \/ Later(d.reset, c.reset)
    <3>1. CASE c \in ledger /\ d \in ledger
      BY <2>6, <3>1 DEF SpacingOK
    <3>2. CASE c \in Candidates /\ d \in Candidates
      BY <2>5, <2>6, <3>2
    <3>3. CASE c \in ledger /\ d \in Candidates
      BY <2>4, <2>6, <3>3
    <3>4. CASE c \in Candidates /\ d \in ledger
      BY <2>4, <2>6, <3>4
    <3> QED BY <2>1, <3>1, <3>2, <3>3, <3>4
  <2> QED BY <2>3, <2>6 DEF SpacingOK, Later
<1> QED BY <1>3, <1>4

-----------------------------------------------------------------------------
(* The invariant and what it says of the requests                          *)

(* The initial states. *)
LEMMA InitGroups == Init => GroupInv
BY DEF Init, GroupInv, PlaceOK, TickPlaces, TodoOK, RunningOK, Planned,
   Outgoing, LedgerOK, ReplacedOK, NoCall

(* The invariant of the groups holds throughout. *)
THEOREM GroupsInvariant == Spec => [](Base /\ GroupInv)
<1>1. Init => GroupInv
  BY InitGroups
<1>2. Base /\ GroupInv /\ [Next]_vars => GroupInv'
  BY NextPlace, NextGroups, NextLedger, NextReplaced DEF GroupInv
<1>3. IInv /\ AttemptOK /\ ModeOK /\ RecordsOK <=> Base
  BY DEF Base
<1> QED BY <1>1, <1>2, <1>3, RecordsInvariant, PTL DEF Spec

(* controller.go:383-424, README.md:54: a request is only planned for      *)
(* windows its last read left lazy.                                        *)
THEOREM PlansLazyWindows == Spec => []PlansOnlyLazyWindows
<1>1. GroupInv => PlansOnlyLazyWindows
  BY DEF GroupInv, RunningOK, PlansOnlyLazyWindows
<1> QED BY <1>1, GroupsInvariant, PTL

(* controller.go:207-212 and 311-316: no group that contains a fenced      *)
(* cycle gets as far as the ledger check of the Prepared transaction.      *)
THEOREM PlansClearOfFence == Spec => []PlanNeverMeetsFence
<1>1. GroupInv => PlanNeverMeetsFence
  BY DEF GroupInv, RunningOK, PlanNeverMeetsFence, Candidates
<1> QED BY <1>1, GroupsInvariant, PTL

(* README.md:54, controller.go:262-277: a baseline taken by a call is not  *)
(* sent on by it before a second read, whatever shares its group.          *)
THEOREM SendsAfterSecondRead == Spec => []NoSendOnOneObservation
<1>1. GroupInv => NoSendOnOneObservation
  BY DEF GroupInv, RunningOK, Planned, NoSendOnOneObservation
<1> QED BY <1>1, GroupsInvariant, PTL

(* controller.go:116 and 615-628: what is sent is of the identity the Tick *)
(* was called for, and the windows of those it replaced are off.           *)
THEOREM SendsForCurrentIdentity == Spec => []OnlyCurrentIdentitySends
<1>1. ASSUME Base, GroupInv, pc = "send"
      PROVE  /\ KeysIn(attempts[call.attempt].cycles) \subseteq KeysOf(call.inst)
             /\ \A k \in Keys :
                  k.auth = call.inst.auth /\ InstanceOf(k) # call.inst
                    => windows[k].state \in {"none", "disabled"}
  <2>1. call.mode = "tick"
    BY <1>1 DEF GroupInv, PlaceOK, TickPlaces
  <2>2. KeysIn(attempts[call.attempt].cycles) = call.keys
    BY <1>1, <2>1 DEF GroupInv, RunningOK, Outgoing
  <2> QED BY <1>1, <2>1, <2>2 DEF GroupInv, RunningOK, ReplacedOK
<1>2. Base /\ GroupInv => OnlyCurrentIdentitySends
  BY <1>1 DEF OnlyCurrentIdentitySends
<1> QED BY <1>2, GroupsInvariant, PTL

(* controller.go:311-350, 433-468: a fenced cycle is of exactly one        *)
(* attempt beyond Prepared, the one Recover verifies.                      *)
THEOREM FencedOnce == Spec => []OneAttemptPerFencedCycle
<1>1. Init => OwnersOK
  BY DEF Init, OwnersOK, Beyond, NoAttempt, InFlight
<1>2. Base /\ OwnersOK /\ [Next]_vars => OwnersOK'
  BY NextOwners
<1>3. ASSUME Base, OwnersOK, NEW c \in ledger
      PROVE  \E id \in AttemptIds :
               /\ c \in attempts[id].cycles
               /\ \A other \in AttemptIds :
                    c \in attempts[other].cycles
                      /\ attempts[other].phase # "prepared" <=> other = id
  <2>1. PICK id \in AttemptIds : Beyond(id) /\ c \in attempts[id].cycles
    BY <1>3 DEF OwnersOK
  <2>2. ASSUME NEW other \in AttemptIds, c \in attempts[other].cycles,
               attempts[other].phase # "prepared"
        PROVE  other = id
    <3>1. attempts[other].phase # "none"
      BY <1>3, <2>2 DEF Base, RecordsOK, ForgottenOK, NoAttempt
    <3>2. attempts[other].phase \in Phases
      BY <1>3, <3>1 DEF Base, IInv, TypeOK, Attempts
    <3>3. Beyond(other)
      BY <2>2, <3>2 DEF Beyond, InFlight, Phases
    <3> QED BY <1>3, <2>1, <2>2, <3>3 DEF OwnersOK
  <2>3. attempts[id].phase # "prepared"
    BY <2>1 DEF Beyond, InFlight
  <2> QED BY <2>1, <2>2, <2>3
<1>4. Base /\ OwnersOK => OneAttemptPerFencedCycle
  BY <1>3 DEF OneAttemptPerFencedCycle
<1> QED BY <1>1, <1>2, <1>4, GroupsInvariant, PTL DEF Spec

(* controller.go:195, 405, 524: with an adapter that only confirms later   *)
(* windows, no provider window is paid for twice because its reported      *)
(* reset moved a little.                                                   *)
THEOREM SendsAreSpaced == ASSUME VerdictsRoll PROVE Spec => []SpacedSends
<1>1. Init => SpacingOK
  BY DEF Init, SpacingOK
<1>2. Base /\ GroupInv /\ SpacingOK /\ [Next]_vars => SpacingOK'
  BY NextSpacing, VerdictsRoll
<1>3. ASSUME Base, SpacingOK, NEW c \in sent, NEW d \in sent, c.key = d.key,
             c.reset <= d.reset, d.reset <= c.reset + Skew
      PROVE  c = d
  <2>1. c \in ledger /\ d \in ledger
    BY <1>3 DEF Base, IInv, FenceOK
  <2>2. c.reset \in Nat /\ d.reset \in Nat /\ Skew \in Nat
    BY <2>1, ConfigAssumption, <1>3 DEF Base, IInv, TypeOK, Cycles
  <2> QED BY <1>3, <2>1, <2>2 DEF SpacingOK, Later
<1>4. Base /\ SpacingOK => SpacedSends
  BY <1>3 DEF SpacedSends
<1> QED BY <1>1, <1>2, <1>4, GroupsInvariant, PTL DEF Spec
=============================================================================
