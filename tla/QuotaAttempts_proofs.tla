------------------------ MODULE QuotaAttempts_proofs ------------------------
(***************************************************************************)
(* What a step of QuotaController may never do to an attempt, for every    *)
(* value of its constants.  The three action properties hold because the   *)
(* call in progress and the phase of its attempt move together; that is    *)
(* AttemptOK, inductive on top of the invariant of QuotaController_proofs. *)
(***************************************************************************)
EXTENDS QuotaController_proofs

(* The phase of the attempt the call works on, where the call stands. *)
PhaseOK ==
  LET phase == attempts[call.attempt].phase
  IN  /\ pc = "prepared" => phase = "prepared"
      /\ pc \in {"send", "accepted", "failed"} => phase = "sending"
      /\ pc \in {"waiting", "verify"} => phase \in {"sent", "sent_unknown"}
      /\ pc = "waiting" /\ call.mode = "tick" => phase = "sent"

(* No attempt comes from the future; the wait lasts to VerifyNotBefore. *)
TimeOK ==
  LET notBefore == VerifyNotBefore(attempts[call.attempt])
  IN  /\ \A id \in AttemptIds : attempts[id].created <= now
      /\ pc = "waiting" => call.until >= notBefore
      /\ pc = "verify" => now >= notBefore

(* On the way to a send the controller is not in dry-run. *)
DryRunOK == pc \in {"prepared", "send"} => ~dryRun

(* Only Recover visits attempts it did not make. *)
ModeOK == call.ids # {} => call.mode = "recover"

AttemptOK == PhaseOK /\ TimeOK /\ DryRunOK

AwayFromAttempt == {"idle", "read", "next", "precheck", "plan"}

-----------------------------------------------------------------------------
(* Steps                                                                   *)

(* Times are numbers. *)
LEMMA TimesType ==
  ASSUME IInv
  PROVE  /\ now \in Nat /\ VerifyDelay \in Nat /\ call.until \in Nat
         /\ \A id \in AttemptIds :
              attempts[id] \in Attempts /\ attempts[id].created \in Nat
BY ConfigAssumption DEF IInv, TypeOK, Attempts, Calls

(* A step that touches no attempt and leaves the call away from one. *)
LEMMA NoAttemptInvolved ==
  ASSUME IInv, AttemptOK, UNCHANGED <<now, attempts>>, pc' \in AwayFromAttempt
  PROVE  AttemptOK'
BY DEF AttemptOK, PhaseOK, TimeOK, DryRunOK, AwayFromAttempt

(* A step that ends with an attempt of which only the phase changed. *)
LEMMA LeavesAttempt ==
  ASSUME IInv, AttemptOK, NEW id \in AttemptIds, NEW phase,
         attempts' = [attempts EXCEPT ![id].phase = phase],
         now' = now, pc' \in AwayFromAttempt
  PROVE  AttemptOK'
<1>1. \A i \in AttemptIds : attempts'[i].created = attempts[i].created
  BY DEF IInv, TypeOK, Attempts
<1> QED
  BY <1>1 DEF AttemptOK, PhaseOK, TimeOK, DryRunOK, AwayFromAttempt

(* The attempt enters the store as Prepared, created now. *)
LEMMA PrepareAttempt == ASSUME IInv, AttemptOK, Prepare PROVE AttemptOK'
<1>1. PICK id \in AttemptIds :
        /\ attempts' = [attempts EXCEPT ![id] =
             [phase |-> "prepared", cycles |-> Candidates, created |-> now]]
        /\ call' = [call EXCEPT !.attempt = id]
  BY DEF Prepare
<1>2. call'.attempt = id /\ attempts'[id].phase = "prepared"
  BY <1>1 DEF IInv, TypeOK, Calls
<1>3. \A i \in AttemptIds : attempts'[i].created <= now
  BY <1>1, TimesType DEF AttemptOK, TimeOK, IInv, TypeOK
<1>4. pc' = "prepared" /\ ~dryRun /\ UNCHANGED <<now, dryRun>>
  BY DEF Prepare, MaySend
<1> QED
  BY <1>2, <1>3, <1>4 DEF AttemptOK, PhaseOK, TimeOK, DryRunOK

(* It becomes Sending with the fence. *)
LEMMA FenceAttempt == ASSUME IInv, AttemptOK, Fence PROVE AttemptOK'
<1> DEFINE id == call.attempt
<1>1. /\ attempts' = [attempts EXCEPT ![id].phase = "sending"]
      /\ pc = "prepared" /\ pc' = "send" /\ UNCHANGED <<now, dryRun, call>>
  BY DEF Fence
<1>2. id \in AttemptIds
  BY <1>1 DEF IInv, CallOK
<1>3. /\ attempts'[id].phase = "sending"
      /\ \A i \in AttemptIds : attempts'[i].created = attempts[i].created
  BY <1>1, <1>2 DEF IInv, TypeOK, Attempts
<1> QED
  BY <1>1, <1>3 DEF AttemptOK, PhaseOK, TimeOK, DryRunOK

(* The send changes no attempt. *)
LEMMA SendAttempt == ASSUME IInv, AttemptOK, Send PROVE AttemptOK'
<1>1. pc = "send" /\ pc' \in {"accepted", "failed"}
      /\ UNCHANGED <<now, attempts, call>>
  BY DEF Send, db
<1> QED
  BY <1>1 DEF AttemptOK, PhaseOK, TimeOK, DryRunOK

(* It becomes Sent, and the wait begins that ends after VerifyNotBefore. *)
LEMMA MarkAcceptedAttempt ==
  ASSUME IInv, AttemptOK, MarkAccepted PROVE AttemptOK'
<1> DEFINE id == call.attempt
<1>1. /\ attempts' = [attempts EXCEPT ![id].phase = "sent"]
      /\ pc = "accepted" /\ pc' = "waiting" /\ now' = now
      /\ call' = [call EXCEPT !.until = now + VerifyDelay]
  BY DEF MarkAccepted, MarkSendOutcome
<1>2. id \in AttemptIds /\ call'.attempt = id /\ call'.until = now + VerifyDelay
  BY <1>1 DEF IInv, CallOK, TypeOK, Calls
<1>3. /\ attempts'[id].phase = "sent"
      /\ \A i \in AttemptIds : attempts'[i].created = attempts[i].created
  BY <1>1, <1>2 DEF IInv, TypeOK, Attempts
<1>4. call'.until >= attempts'[id].created + VerifyDelay
  BY <1>2, <1>3, TimesType DEF AttemptOK, TimeOK
<1> QED
  BY <1>1, <1>2, <1>3, <1>4
  DEF AttemptOK, PhaseOK, TimeOK, DryRunOK, VerifyNotBefore

(* The wait is over. *)
LEMMA WaitDoneAttempt == ASSUME IInv, AttemptOK, WaitDone PROVE AttemptOK'
<1>1. /\ pc = "waiting" /\ now >= call.until /\ pc' = "verify"
      /\ UNCHANGED <<now, attempts, call>>
  BY DEF WaitDone, db
<1>2. call.attempt \in AttemptIds
  BY <1>1 DEF IInv, CallOK
<1>3. now >= VerifyNotBefore(attempts[call.attempt])
  BY <1>1, <1>2, TimesType DEF AttemptOK, TimeOK, VerifyNotBefore
<1> QED
  BY <1>1, <1>3 DEF AttemptOK, PhaseOK, TimeOK, DryRunOK

(* The wait is cut off. *)
LEMMA WaitCancelledAttempt ==
  ASSUME IInv, AttemptOK, WaitCancelled PROVE AttemptOK'
<1>1. pc = "waiting" /\ now' = now /\ call.attempt \in AttemptIds
  BY DEF WaitCancelled, IInv, CallOK
<1>2. CASE call.mode = "tick"
  <2>1. attempts' = [attempts EXCEPT ![call.attempt].phase = "sent_unknown"]
        /\ pc' = "next"
    BY <1>2 DEF WaitCancelled, MarkSendOutcome, Proceed
  <2> QED BY <1>1, <2>1, LeavesAttempt DEF AwayFromAttempt
<1>3. CASE call.mode # "tick"
  <2>1. UNCHANGED attempts /\ pc' = "idle"
    BY <1>3 DEF WaitCancelled, Return
  <2> QED BY <1>1, <2>1, NoAttemptInvolved DEF AwayFromAttempt
<1> QED BY <1>2, <1>3

(* Recover forgets a Prepared attempt. *)
LEMMA RecoverPreparedAttempt ==
  ASSUME IInv, AttemptOK, NEW id \in AttemptIds, RecoverPrepared(id)
  PROVE  AttemptOK'
<1>1. /\ attempts' = [attempts EXCEPT ![id] = NoAttempt]
      /\ now' = now /\ pc' = "next"
  BY DEF RecoverPrepared, Proceed
<1>2. \A i \in AttemptIds : attempts'[i].created <= now
  BY <1>1, TimesType DEF NoAttempt, AttemptOK, TimeOK, IInv, TypeOK
<1> QED
  BY <1>1, <1>2 DEF AttemptOK, PhaseOK, TimeOK, DryRunOK

(* Recover takes up an attempt whose request may have left. *)
LEMMA RecoverInFlightAttempt ==
  ASSUME IInv, AttemptOK, ModeOK, NEW id \in AttemptIds, RecoverInFlight(id)
  PROVE  AttemptOK'
<1>1. /\ attempts[id].phase \in InFlight
      /\ pc' = IF TooEarly(attempts[id]) THEN "waiting" ELSE "verify"
      /\ call'.attempt = id /\ call'.mode = call.mode
      /\ call'.until = VerifyNotBefore(attempts[id])
      /\ now' = now
  BY DEF RecoverInFlight, IInv, TypeOK, Calls
<1>2. \/ UNCHANGED attempts /\ attempts[id].phase # "sending"
      \/ attempts' = [attempts EXCEPT ![id].phase = "sent_unknown"]
  BY DEF RecoverInFlight, MarkSendOutcome
<1>3. /\ attempts'[id].phase \in {"sent", "sent_unknown"}
      /\ \A i \in AttemptIds : attempts'[i].created = attempts[i].created
  BY <1>1, <1>2 DEF InFlight, IInv, TypeOK, Attempts
<1>4. VerifyNotBefore(attempts'[id]) = VerifyNotBefore(attempts[id])
  BY <1>3 DEF VerifyNotBefore
<1>5. pc' = "verify" => now >= VerifyNotBefore(attempts[id])
  BY <1>1, TimesType DEF TooEarly, VerifyNotBefore
<1>6. call'.until >= VerifyNotBefore(attempts[id])
  BY <1>1, TimesType DEF VerifyNotBefore
<1>7. call.mode = "recover"
  BY DEF ModeOK, RecoverInFlight
<1> QED
  BY <1>1, <1>3, <1>4, <1>5, <1>6, <1>7
  DEF AttemptOK, PhaseOK, TimeOK, DryRunOK

(* Time passing, and a new configuration between calls. *)
LEMMA EnvironmentAttempt ==
  ASSUME IInv, AttemptOK, Reconfigure \/ Elapse \/ UNCHANGED vars
  PROVE  AttemptOK'
<1>1. CASE Reconfigure
  BY <1>1, NoAttemptInvolved DEF Reconfigure, db, AwayFromAttempt
<1>2. CASE Elapse
  <2>1. now' = now + 1 /\ UNCHANGED <<attempts, dryRun, pc, call>>
    BY <1>2 DEF Elapse, db
  <2>2. \A id \in AttemptIds : attempts[id].created <= now'
    BY <2>1, TimesType DEF AttemptOK, TimeOK
  <2>3. pc = "verify" => now' >= VerifyNotBefore(attempts[call.attempt])
    <3> SUFFICES ASSUME pc = "verify"
                 PROVE  now' >= VerifyNotBefore(attempts[call.attempt])
      OBVIOUS
    <3>1. call.attempt \in AttemptIds
      BY DEF IInv, CallOK
    <3> QED
      BY <2>1, <3>1, TimesType DEF AttemptOK, TimeOK, VerifyNotBefore
  <2> QED
    BY <2>1, <2>2, <2>3 DEF AttemptOK, PhaseOK, TimeOK, DryRunOK
<1>3. CASE UNCHANGED vars
  BY <1>3 DEF vars, db, AttemptOK, PhaseOK, TimeOK, DryRunOK
<1> QED BY <1>1, <1>2, <1>3

(* The remaining steps, which end away from any attempt. *)
LEMMA OtherAttempt ==
  ASSUME IInv, AttemptOK,
         \/ \E inst \in Instances : Tick(inst) \/ Recover(inst)
         \/ \E auth \in Auths, state \in {"disabled", "auth_blocked"} :
              MarkCredentialState(auth, state)
         \/ ReadFailed \/ Reconcile \/ NextGroup \/ GroupFailed \/ Precheck
         \/ DryRunReport \/ Done \/ Abort
  PROVE  AttemptOK'
<1>1. UNCHANGED <<now, attempts>>
  BY DEF Tick, Recover, MarkCredentialState, ReadFailed, Reconcile, NextGroup,
         GroupFailed, Precheck, DryRunReport, Done, Abort, db
<1>2. pc' \in AwayFromAttempt
  BY DEF Tick, Recover, MarkCredentialState, ReadFailed, Reconcile, NextGroup,
         GroupFailed, Precheck, DryRunReport, Done, Abort, Begin, Return,
         Proceed, AwayFromAttempt
<1> QED BY <1>1, <1>2, NoAttemptInvolved

(* The outcome of a send or of a verification. *)
LEMMA OutcomeAttempt ==
  ASSUME IInv, AttemptOK, MarkFailed \/ Verify \/ VerifyReadFailed
  PROVE  AttemptOK'
<1>1. call.attempt \in AttemptIds
  BY DEF MarkFailed, Verify, VerifyReadFailed, IInv, CallOK
<1>2. PICK phase \in Phases :
        attempts' = [attempts EXCEPT ![call.attempt].phase = phase]
  BY DEF MarkFailed, Verify, VerifyReadFailed, MarkSendOutcome, Phases
<1>3. now' = now /\ pc' = "next"
  BY DEF MarkFailed, Verify, VerifyReadFailed, Proceed
<1> QED BY <1>1, <1>2, <1>3, LeavesAttempt DEF AwayFromAttempt

(* A call that visits attempts is a Recover. *)
LEMMA NextMode == ASSUME IInv, ModeOK, [Next]_vars PROVE ModeOK'
<1>1. CASE \E inst \in Instances : Tick(inst) \/ Recover(inst)
  BY <1>1 DEF Tick, Recover, Begin, NoCall, ModeOK
<1>2. CASE \/ \E auth \in Auths, state \in {"disabled", "auth_blocked"} :
                MarkCredentialState(auth, state)
           \/ Fence \/ Send \/ WaitDone \/ Reconfigure \/ Elapse
           \/ UNCHANGED vars
  BY <1>2 DEF MarkCredentialState, Fence, Send, WaitDone, Reconfigure, Elapse,
              vars, ModeOK
<1>3. CASE ReadFailed \/ GroupFailed \/ Done \/ Abort
  BY <1>3 DEF ReadFailed, GroupFailed, Done, Abort, Return, NoCall, ModeOK
<1>4. CASE Reconcile \/ NextGroup \/ Prepare \/ MarkAccepted
  BY <1>4 DEF Reconcile, NextGroup, Prepare, MarkAccepted, ModeOK, IInv,
              TypeOK, Calls
<1>5. CASE Precheck \/ DryRunReport \/ MarkFailed \/ WaitCancelled \/ Verify
           \/ VerifyReadFailed
  <2>1. ASSUME Proceed(call.ids) PROVE ModeOK'
    BY <2>1 DEF Proceed, ModeOK, IInv, TypeOK, Calls
  <2>2. ASSUME Return PROVE ModeOK'
    BY <2>2 DEF Return, NoCall, ModeOK
  <2>3. CASE Precheck
    <3>1. \/ Proceed(call.ids)
          \/ \E ks : call' = [call EXCEPT !.keys = ks, !.prechecked = TRUE]
      BY <2>3 DEF Precheck
    <3>2. CASE \E ks : call' = [call EXCEPT !.keys = ks, !.prechecked = TRUE]
      BY <3>2 DEF ModeOK, IInv, TypeOK, Calls
    <3> QED BY <3>1, <3>2, <2>1
  <2>4. CASE DryRunReport \/ MarkFailed \/ Verify \/ VerifyReadFailed
    BY <2>4, <2>1 DEF DryRunReport, MarkFailed, Verify, VerifyReadFailed
  <2>5. CASE WaitCancelled
    BY <2>5, <2>1, <2>2 DEF WaitCancelled
  <2> QED BY <1>5, <2>3, <2>4, <2>5
<1>6. CASE \E id \in AttemptIds : RecoverPrepared(id) \/ RecoverInFlight(id)
  BY <1>6 DEF RecoverPrepared, RecoverInFlight, Proceed, ModeOK, IInv, TypeOK,
              Calls
<1> QED
  BY <1>1, <1>2, <1>3, <1>4, <1>5, <1>6 DEF Next, Step

(* One step per action. *)
LEMMA NextAttempt == ASSUME IInv, AttemptOK, ModeOK, [Next]_vars PROVE AttemptOK'
<1>1. CASE Prepare \/ Fence \/ Send \/ MarkAccepted \/ WaitDone \/ WaitCancelled
  BY <1>1, PrepareAttempt, FenceAttempt, SendAttempt, MarkAcceptedAttempt,
     WaitDoneAttempt, WaitCancelledAttempt
<1>2. CASE \E id \in AttemptIds : RecoverPrepared(id) \/ RecoverInFlight(id)
  BY <1>2, RecoverPreparedAttempt, RecoverInFlightAttempt
<1>3. CASE MarkFailed \/ Verify \/ VerifyReadFailed
  BY <1>3, OutcomeAttempt
<1>4. CASE Reconfigure \/ Elapse \/ UNCHANGED vars
  BY <1>4, EnvironmentAttempt
<1>5. CASE \/ \E inst \in Instances : Tick(inst) \/ Recover(inst)
           \/ \E auth \in Auths, state \in {"disabled", "auth_blocked"} :
                MarkCredentialState(auth, state)
           \/ ReadFailed \/ Reconcile \/ NextGroup \/ GroupFailed \/ Precheck
           \/ DryRunReport \/ Done \/ Abort
  BY <1>5, OtherAttempt
<1> QED
  BY <1>1, <1>2, <1>3, <1>4, <1>5 DEF Next, Step

(* The initial states satisfy both. *)
LEMMA InitAttempt == Init => AttemptOK /\ ModeOK
<1> SUFFICES ASSUME Init PROVE AttemptOK /\ ModeOK
  OBVIOUS
<1>1. now = 1 /\ \A id \in AttemptIds : attempts[id].created = 0
  BY DEF Init, NoAttempt
<1>2. pc = "idle" /\ call.ids = {}
  BY DEF Init, NoCall
<1> QED
  BY <1>1, <1>2 DEF AttemptOK, PhaseOK, TimeOK, DryRunOK, ModeOK

-----------------------------------------------------------------------------
(* Theorems                                                                *)

(* The invariant the action properties rest on. *)
THEOREM AttemptsInvariant == Spec => [](IInv /\ AttemptOK /\ ModeOK)
<1>1. Init => IInv /\ AttemptOK /\ ModeOK
  BY InitIInv, InitAttempt
<1>2. IInv /\ AttemptOK /\ ModeOK /\ [Next]_vars => (IInv /\ AttemptOK /\ ModeOK)'
  BY NextIInv, NextAttempt, NextMode
<1> QED BY <1>1, <1>2, PTL DEF Spec

(* controller.go:278-290, README.md:54: a controller in dry-run fences no  *)
(* cycle and sends nothing, also with attempts left by an earlier one.     *)
THEOREM NoSendInDryRun == Spec => DryRunSendsNothing
<1>1. ASSUME AttemptOK, [Next]_vars, dryRun PROVE UNCHANGED <<ledger, sent>>
  <2>1. pc # "prepared" /\ pc # "send"
    BY <1>1 DEF AttemptOK, DryRunOK
  <2>2. ~Fence /\ ~Send
    BY <2>1 DEF Fence, Send
  <2>3. CASE \/ \E inst \in Instances : Tick(inst) \/ Recover(inst)
             \/ \E auth \in Auths, state \in {"disabled", "auth_blocked"} :
                  MarkCredentialState(auth, state)
             \/ ReadFailed \/ Reconcile \/ NextGroup \/ GroupFailed \/ Precheck
             \/ DryRunReport \/ Prepare
    BY <2>3 DEF Tick, Recover, MarkCredentialState, ReadFailed, Reconcile,
       NextGroup, GroupFailed, Precheck, DryRunReport, Prepare, db, history
  <2>4. CASE \/ MarkFailed \/ MarkAccepted \/ WaitDone \/ WaitCancelled
             \/ Verify \/ VerifyReadFailed
             \/ \E id \in AttemptIds : RecoverPrepared(id) \/ RecoverInFlight(id)
             \/ Done \/ Abort \/ Reconfigure \/ Elapse
    BY <2>4 DEF MarkFailed, MarkAccepted, WaitDone, WaitCancelled, Verify,
       VerifyReadFailed, RecoverPrepared, RecoverInFlight, Done, Abort,
       Reconfigure, Elapse, db, history
  <2>5. CASE UNCHANGED vars
    BY <2>5 DEF vars, db, history
  <2> QED
    BY <1>1, <2>2, <2>3, <2>4, <2>5 DEF Next, Step
<1>2. AttemptOK /\ [Next]_vars => [dryRun => UNCHANGED <<ledger, sent>>]_vars
  BY <1>1
<1> QED
  BY <1>2, AttemptsInvariant, PTL DEF Spec, DryRunSendsNothing

-----------------------------------------------------------------------------
(* Which steps change which attempt                                        *)

(* Either no attempt changes, or the one the step is about.                *)
Steady == attempts' = attempts
Moves(id, phase) == attempts' = [attempts EXCEPT ![id].phase = phase]

(* The ways a step changes an attempt. *)
LEMMA PhaseSteps ==
  ASSUME IInv, AttemptOK, [Next]_vars
  PROVE  \/ Steady
         \/ \E id \in AttemptIds, a \in Attempts :
              /\ a.phase = "prepared" /\ attempts[id].phase = "none"
              /\ attempts' = [attempts EXCEPT ![id] = a]
         \/ \E id \in AttemptIds :
              \/ /\ attempts[id].phase = "prepared"
                 /\ attempts' = [attempts EXCEPT ![id] = NoAttempt]
              \/ /\ Fence /\ id = call.attempt
                 /\ attempts[id].phase = "prepared" /\ Moves(id, "sending")
              \/ attempts[id].phase = "sending" /\ Moves(id, "sent")
              \/ /\ attempts[id].phase \in InFlight
                 /\ Moves(id, "sent_unknown")
              \/ /\ attempts[id].phase \in {"sent", "sent_unknown"}
                 /\ now >= VerifyNotBefore(attempts[id])
                 /\ Moves(id, "completed")
<1> DEFINE here == call.attempt
<1>1. CASE \/ \E inst \in Instances : Tick(inst) \/ Recover(inst)
           \/ \E auth \in Auths, state \in {"disabled", "auth_blocked"} :
                MarkCredentialState(auth, state)
           \/ ReadFailed \/ Reconcile \/ NextGroup \/ GroupFailed \/ Precheck
           \/ DryRunReport \/ Send \/ WaitDone \/ Done \/ Abort \/ Reconfigure
           \/ Elapse \/ UNCHANGED vars
  <2>1. Steady
    BY <1>1 DEF Tick, Recover, MarkCredentialState, ReadFailed, Reconcile,
       NextGroup, GroupFailed, Precheck, DryRunReport, Send, WaitDone, Done,
       Abort, Reconfigure, Elapse, vars, db, Steady
  <2> QED BY <2>1
<1>2. CASE Prepare
  <2>1. PICK id \in AttemptIds :
          /\ attempts[id].phase = "none"
          /\ attempts' = [attempts EXCEPT ![id] =
               [phase |-> "prepared", cycles |-> Candidates, created |-> now]]
    BY <1>2 DEF Prepare
  <2>2. attempts'[id] = [phase |-> "prepared", cycles |-> Candidates,
                         created |-> now]
    BY <2>1 DEF IInv, TypeOK
  <2>3. attempts'[id] \in Attempts
    BY <1>2, NextIInv DEF IInv, TypeOK
  <2> QED BY <2>1, <2>2, <2>3
<1>3. CASE Fence
  <2>1. here \in AttemptIds
    BY <1>3 DEF Fence, IInv, CallOK
  <2> QED BY <1>3, <2>1 DEF Fence, Moves
<1>4. CASE MarkFailed
  <2>1. here \in AttemptIds /\ attempts[here].phase = "sending"
    BY <1>4 DEF MarkFailed, IInv, CallOK, AttemptOK, PhaseOK
  <2> QED BY <1>4, <2>1 DEF MarkFailed, MarkSendOutcome, Moves, InFlight
<1>5. CASE MarkAccepted
  <2>1. here \in AttemptIds /\ attempts[here].phase = "sending"
    BY <1>5 DEF MarkAccepted, IInv, CallOK, AttemptOK, PhaseOK
  <2> QED BY <1>5, <2>1 DEF MarkAccepted, MarkSendOutcome, Moves
<1>6. CASE WaitCancelled
  <2>1. here \in AttemptIds /\ attempts[here].phase \in {"sent", "sent_unknown"}
    BY <1>6 DEF WaitCancelled, IInv, CallOK, AttemptOK, PhaseOK
  <2>2. Steady \/ Moves(here, "sent_unknown")
    BY <1>6 DEF WaitCancelled, MarkSendOutcome, Moves, Steady
  <2> QED BY <2>1, <2>2 DEF InFlight
<1>7. CASE Verify
  <2>1. /\ here \in AttemptIds /\ attempts[here].phase \in {"sent", "sent_unknown"}
        /\ now >= VerifyNotBefore(attempts[here])
    BY <1>7 DEF Verify, IInv, CallOK, AttemptOK, PhaseOK, TimeOK
  <2> QED BY <1>7, <2>1 DEF Verify, Moves
<1>8. CASE VerifyReadFailed
  <2>1. here \in AttemptIds /\ attempts[here].phase \in {"sent", "sent_unknown"}
    BY <1>8 DEF VerifyReadFailed, IInv, CallOK, AttemptOK, PhaseOK
  <2> QED BY <1>8, <2>1 DEF VerifyReadFailed, MarkSendOutcome, Moves, InFlight
<1>9. CASE \E id \in AttemptIds : RecoverPrepared(id)
  BY <1>9 DEF RecoverPrepared, NeverSent
<1>10. CASE \E id \in AttemptIds : RecoverInFlight(id)
  BY <1>10 DEF RecoverInFlight, MarkSendOutcome, Moves, Steady
<1> QED
  BY <1>1, <1>2, <1>3, <1>4, <1>5, <1>6, <1>7, <1>8, <1>9, <1>10 DEF Next, Step

(* controller.go:359, 475-479: no verdict on a send is taken before its    *)
(* VerifyNotBefore, in the call that sent it or in any later one.          *)
THEOREM NoEarlyVerdict == Spec => VerifiesNotBefore
<1>1. ASSUME IInv, AttemptOK, [Next]_vars, NEW id \in AttemptIds,
             attempts'[id].phase = "completed", attempts[id].phase # "completed"
      PROVE  now >= VerifyNotBefore(attempts[id])
  <2>1. \E i \in AttemptIds : /\ now >= VerifyNotBefore(attempts[i])
                             /\ Moves(i, "completed")
    BY <1>1, PhaseSteps
       DEF Steady, Moves, NoAttempt, InFlight, IInv, TypeOK, Attempts
  <2> QED BY <1>1, <2>1 DEF Moves, IInv, TypeOK, Attempts
<1>2. IInv /\ AttemptOK /\ [Next]_vars =>
        [\A id \in AttemptIds :
           attempts'[id].phase = "completed" /\ attempts[id].phase # "completed"
             => now >= VerifyNotBefore(attempts[id])]_vars
  BY <1>1
<1> QED
  BY <1>2, AttemptsInvariant, PTL DEF Spec, VerifiesNotBefore

(* controller.go:452-454, 534: an attempt only moves forward, and only one *)
(* that was never sent is forgotten.                                       *)
THEOREM AttemptsMoveForward == Spec => AttemptMovesForward
<1>1. ASSUME IInv, AttemptOK, [Next]_vars, NEW id \in AttemptIds
      PROVE  \/ attempts'[id].phase = attempts[id].phase
             \/ attempts'[id].phase \in Successors[attempts[id].phase]
  <2>1. attempts \in [AttemptIds -> Attempts]
    BY <1>1 DEF IInv, TypeOK
  <2> QED
    BY <1>1, <2>1, PhaseSteps
    DEF Steady, Moves, NoAttempt, InFlight, Attempts, Successors
<1>2. IInv /\ AttemptOK /\ [Next]_vars =>
        [\A id \in AttemptIds :
           LET before == attempts[id].phase
               after == attempts'[id].phase
           IN  after = before \/ after \in Successors[before]]_vars
  BY <1>1
<1> QED
  BY <1>2, AttemptsInvariant, PTL DEF Spec, AttemptMovesForward
=============================================================================
