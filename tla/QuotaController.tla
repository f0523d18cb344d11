--------------------------- MODULE QuotaController ---------------------------
(***************************************************************************)
(* core/controller.go: Tick, Recover and BlockCredential of one Controller *)
(* over its Store.  Every Store.Update is one atomic step (StateStore is   *)
(* about what happens inside one); every read of the provider, every send  *)
(* and every wait is a point where time passes, where the call may fail    *)
(* and where the process may crash.  Controller.mu makes the calls of all  *)
(* credentials exclude each other, so one call record is enough.           *)
(*                                                                         *)
(* The order of the callers (runtime.go: Recover, then Tick whatever       *)
(* Recover returned) is not imposed: any call may follow any other.        *)
(***************************************************************************)
EXTENDS QuotaModel

VARIABLES
  now,      \* the clock
  windows,  \* PersistentState.Windows
  attempts, \* PersistentState.Attempts
  ledger,   \* the cycles in PersistentState.CycleLedger
  dryRun,   \* Config.DryRun of the current controller
  pc,       \* where the call holding Controller.mu stands
  call,     \* that call's locals
  sent,     \* history: cycles some Sender.Send was issued for
  resent    \* history: cycles it was issued for more than once

db == <<windows, attempts, ledger>>
history == <<sent, resent>>
vars == <<now, db, dryRun, pc, call, history>>

-----------------------------------------------------------------------------
(* The call holding the mutex                                              *)

NoCall ==
  [mode |-> "none", inst |-> None, todo |-> {}, ids |-> {}, keys |-> {},
   attempt |-> None, until |-> 0, born |-> {}, prechecked |-> FALSE]

Calls ==
  [mode : {"none", "tick", "recover"},
   inst : Instances \cup {None},
   todo : SUBSET SUBSET Keys,         \* groups reconcileObservation returned
   ids : SUBSET AttemptIds,           \* attempts Recover has still to visit
   keys : SUBSET Keys,                \* records of the group being run
   attempt : AttemptIds \cup {None},  \* attempt being sent or verified
   until : Nat,                       \* end of c.wait
   born : SUBSET Keys,    \* history: baselines taken by this call's reconcile
   prechecked : BOOLEAN]  \* history: the group went through precheckGroup

Places == {"idle", "read", "next", "precheck", "plan", "prepared", "send",
           "accepted", "failed", "waiting", "verify"}

Begin(mode, inst, ids, place) ==
  /\ pc = "idle"
  /\ call' = [NoCall EXCEPT !.mode = mode, !.inst = inst, !.ids = ids]
  /\ pc' = place

Return == pc' = "idle" /\ call' = NoCall

(* Leave the current group or attempt for the next one. *)
Proceed(ids) ==
  /\ pc' = "next"
  /\ call' = [call EXCEPT !.ids = ids, !.keys = {}, !.attempt = None,
                          !.until = 0, !.prechecked = FALSE]

SetWindows(ks, F(_)) == windows' = [k \in Keys |->
                          IF k \in ks THEN F(windows[k]) ELSE windows[k]]

Known(inst) == {k \in KeysOf(inst) : Present(windows[k])}

-----------------------------------------------------------------------------
(* Tick up to the observation                                              *)

(* Faulty variant: the windows of the previous identity keep their state. *)
ReplacedByNothing(inst) == {}
Replaced(inst) == {k \in Keys : /\ k.auth = inst.auth
                                /\ InstanceOf(k) # inst
                                /\ Present(windows[k])}

(* Tick of an enabled credential: retireReplacedInstances. *)
Tick(inst) ==
  /\ Begin("tick", inst, {}, "read")
  /\ SetWindows(Replaced(inst), LAMBDA r : Schedule(r, "disabled", 0))
  /\ UNCHANGED <<now, attempts, ledger, dryRun, history>>

(* Tick of a disabled credential, and BlockCredential. *)
MarkCredentialState(auth, state) ==
  /\ pc = "idle"
  /\ SetWindows({k \in Keys : k.auth = auth /\ Present(windows[k])},
                LAMBDA r : Schedule(r, state, 0))
  /\ UNCHANGED <<now, attempts, ledger, dryRun, pc, call, history>>

(* markReadFailure *)
ReadFailed ==
  /\ pc = "read"
  /\ SetWindows(Known(call.inst), LAMBDA r : LateBackOff(r, now))
  /\ Return
  /\ UNCHANGED <<now, attempts, ledger, dryRun, history>>

-----------------------------------------------------------------------------
(* reconcileObservation                                                    *)

Observed(inst, o) == {k \in KeysOf(inst) : k.bucket \in DOMAIN o}

(* Faulty variant: the fence is not consulted when a record is re-read. *)
NeverFenced(k) == FALSE
Fenced(k) == Cycle(k, windows[k]) \in ledger

AfterReconcile(inst, o) ==
  [k \in Keys |->
     IF k \in Observed(inst, o)
     THEN Reconciled(windows[k], o[k.bucket], Fenced(k), now)
     ELSE IF k \in Known(inst) THEN Absent(windows[k], now) ELSE windows[k]]

(* The candidates of one observation, by activation group; a window        *)
(* without a group is one of its own.                                      *)
SameGroup(b, d) == b = d \/ (GroupOf[b] # "" /\ GroupOf[b] = GroupOf[d])
GroupsOf(ks) == {{k \in ks : SameGroup(j.bucket, k.bucket)} : j \in ks}

Reconcile ==
  /\ pc = "read"
  /\ \E o \in Observe(now) :
       LET inst == call.inst
           next == AfterReconcile(inst, o)
       IN  /\ windows' = next
           /\ call' = [call EXCEPT
                !.todo = GroupsOf({k \in Observed(inst, o) : Candidate(next[k])}),
                !.born = {k \in Observed(inst, o) :
                            next[k].reset # windows[k].reset
                              \/ next[k].state = "pending_precheck"}]
  /\ pc' = "next"
  /\ UNCHANGED <<now, attempts, ledger, dryRun, history>>

-----------------------------------------------------------------------------
(* runGroup up to the send.  The records runGroup was handed are those in  *)
(* the store: nobody else writes them while the call holds the mutex.      *)

(* Faulty variant: one record already prechecked spares the whole group. *)
AllPending(ks) == \A k \in ks : windows[k].state = "pending_precheck"
NeedsPrecheck(ks) == \E k \in ks : windows[k].state = "pending_precheck"

NextGroup ==
  /\ pc = "next"
  /\ \E g \in call.todo :
       /\ call' = [call EXCEPT !.todo = @ \ {g}, !.keys = g]
       /\ pc' = IF NeedsPrecheck(g) THEN "precheck" ELSE "plan"
  /\ UNCHANGED <<now, db, dryRun, history>>

(* recordGroupFailure: its error ends the Tick, later groups included. *)
GroupFailed ==
  /\ pc \in {"precheck", "plan"}
  /\ pc = "plan" => ~dryRun
  /\ SetWindows(call.keys, LAMBDA r : BackOff(r, now))
  /\ Return
  /\ UNCHANGED <<now, attempts, ledger, dryRun, history>>

(* Faulty variant: the records the precheck refused stay in the group. *)
KeptAll(next) == call.keys
Kept(next) == {k \in call.keys : next[k].state = "lazy_reset_detected"}

AfterPrecheck(o) ==
  [k \in Keys |->
     IF k \notin call.keys THEN windows[k]
     ELSE IF k.bucket \in DOMAIN o
          THEN Prechecked(windows[k], o[k.bucket], now)
          ELSE BackOff(windows[k], now)]

(* precheckGroup: only the records it confirms stay in the group. *)
Precheck ==
  /\ pc = "precheck"
  /\ \E o \in Observe(now) :
       LET kept == Kept(AfterPrecheck(o))
       IN  /\ windows' = AfterPrecheck(o)
           /\ IF kept = {} THEN Proceed(call.ids)
              ELSE /\ pc' = "plan"
                   /\ call' = [call EXCEPT !.keys = kept, !.prechecked = TRUE]
  /\ UNCHANGED <<now, attempts, ledger, dryRun, history>>

DryRunReport ==
  /\ pc = "plan" /\ dryRun
  /\ SetWindows(call.keys, LAMBDA r :
       Schedule(r, "lazy_reset_detected", now + ObservationInterval))
  /\ Proceed(call.ids)
  /\ UNCHANGED <<now, attempts, ledger, dryRun, history>>

Candidates == {Cycle(k, windows[k]) : k \in call.keys}

(* Faulty variant: the dry-run switch only changes the report. *)
MayAlwaysSend == TRUE
MaySend == ~dryRun

(* The attempt is stored unless one of its cycles is fenced already, in    *)
(* which case Update and the Tick fail and nothing changes (see Abort).    *)
(* BOUND: no attempt is made whose verification the clock cannot reach.    *)
Prepare ==
  /\ pc = "plan" /\ MaySend
  /\ Candidates \cap ledger = {}
  /\ now + VerifyDelay <= MaxTime
  /\ \E id \in AttemptIds :
       /\ attempts[id].phase = "none"
       /\ attempts' = [attempts EXCEPT ![id] =
            [phase |-> "prepared", cycles |-> Candidates, created |-> now]]
       /\ SetWindows(call.keys, LAMBDA r :
            [r EXCEPT !.state = "pending_precheck", !.attempt = id])
       /\ call' = [call EXCEPT !.attempt = id]
  /\ pc' = "prepared"
  /\ UNCHANGED <<now, ledger, dryRun, history>>

(* Faulty variant: the ledger is left to the outcome of the send. *)
LedgerUnchanged(id) == ledger
(* Faulty variant: one cycle stands for all windows of the request. *)
LedgerWithOne(id) == ledger \cup {CHOOSE c \in attempts[id].cycles : TRUE}
LedgerWith(id) == ledger \cup attempts[id].cycles

(* Phase Sending, the send fence and the windows in one Update; it fails   *)
(* if the attempt is no longer the prepared one.                           *)
Fence ==
  LET id == call.attempt
  IN  /\ pc = "prepared"
      /\ attempts[id].phase = "prepared"
      /\ attempts' = [attempts EXCEPT ![id].phase = "sending"]
      /\ ledger' = LedgerWith(id)
      /\ SetWindows(KeysIn(attempts[id].cycles), LAMBDA r :
           [r EXCEPT !.state = "activation_sending", !.activated = TRUE])
      /\ pc' = "send"
      /\ UNCHANGED <<now, dryRun, call, history>>

-----------------------------------------------------------------------------
(* The send, its outcome, the wait and the verification                    *)

(* Sender.Send: an error says nothing about what the provider received. *)
Send ==
  LET cycles == attempts[call.attempt].cycles
  IN  /\ pc = "send"
      /\ sent' = sent \cup cycles
      /\ resent' = resent \cup (sent \cap cycles)
      /\ pc' \in {"accepted", "failed"}
      /\ UNCHANGED <<now, db, dryRun, call>>

(* markSendOutcome *)
MarkSendOutcome(id, phase) ==
  /\ attempts' = [attempts EXCEPT ![id].phase = phase]
  /\ SetWindows(KeysIn(attempts[id].cycles), LAMBDA r :
       Schedule(r, IF phase = "sent" THEN "activation_sent" ELSE "sent_unknown",
                SuppressUntil(attempts[id])))

MarkFailed ==
  /\ pc = "failed"
  /\ MarkSendOutcome(call.attempt, "sent_unknown")
  /\ Proceed(call.ids)
  /\ UNCHANGED <<now, ledger, dryRun, history>>

MarkAccepted ==
  /\ pc = "accepted"
  /\ MarkSendOutcome(call.attempt, "sent")
  /\ pc' = "waiting"
  /\ call' = [call EXCEPT !.until = now + VerifyDelay]
  /\ UNCHANGED <<now, ledger, dryRun, history>>

WaitDone ==
  /\ pc = "waiting" /\ now >= call.until
  /\ pc' = "verify"
  /\ UNCHANGED <<now, db, dryRun, call, history>>

(* The context ends during c.wait: runGroup records an unknown outcome,    *)
(* Recover returns the error.                                              *)
WaitCancelled ==
  /\ pc = "waiting"
  /\ \/ /\ call.mode = "tick"
        /\ MarkSendOutcome(call.attempt, "sent_unknown")
        /\ Proceed(call.ids)
     \/ /\ call.mode = "recover"
        /\ Return
        /\ UNCHANGED <<windows, attempts>>
  /\ UNCHANGED <<now, ledger, dryRun, history>>

AfterVerify(ks, o) ==
  [k \in Keys |->
     IF k \notin ks THEN windows[k]
     ELSE IF k.bucket \in DOMAIN o
          THEN Judged(windows[k], o[k.bucket], now)
          ELSE Absent(windows[k], now)]

(* verifyAttempt *)
Verify ==
  LET id == call.attempt
  IN  /\ pc = "verify"
      /\ \E o \in Observe(now) :
           windows' = AfterVerify(KeysIn(attempts[id].cycles), o)
      /\ attempts' = [attempts EXCEPT ![id].phase = "completed"]
      /\ Proceed(call.ids)
      /\ UNCHANGED <<now, ledger, dryRun, history>>

VerifyReadFailed ==
  /\ pc = "verify"
  /\ MarkSendOutcome(call.attempt, "sent_unknown")
  /\ Proceed(call.ids)
  /\ UNCHANGED <<now, ledger, dryRun, history>>

-----------------------------------------------------------------------------
(* Recover                                                                 *)

(* Faulty variant: an attempt cut off during its send is not recovered. *)
KnownOutcome(id) == attempts[id].phase \in {"prepared", "sent", "sent_unknown"}
Unfinished(id) == attempts[id].phase \in {"prepared"} \cup InFlight

OfInstance(id, inst) ==
  \A c \in attempts[id].cycles : InstanceOf(c.key) = inst

Recover(inst) ==
  /\ Begin("recover", inst,
           {id \in AttemptIds : Unfinished(id) /\ OfInstance(id, inst)}, "next")
  /\ UNCHANGED <<now, db, dryRun, history>>

(* Faulty variants: attempts whose send may have left are forgotten too. *)
NotReported(id) == attempts[id].phase \in {"prepared", "sending"}
NotKnownSent(id) == attempts[id].phase \in {"prepared", "sent_unknown"}
NeverSent(id) == attempts[id].phase = "prepared"

(* Nothing was sent: forget the attempt and let its windows be prechecked. *)
RecoverPrepared(id) ==
  /\ pc = "next" /\ id \in call.ids
  /\ NeverSent(id)
  /\ attempts' = [attempts EXCEPT ![id] = NoAttempt]
  /\ SetWindows(KeysIn(attempts[id].cycles), LAMBDA r :
       Detach(Schedule(r, "pending_precheck", now)))
  /\ Proceed(call.ids \ {id})
  /\ UNCHANGED <<now, ledger, dryRun, history>>

(* Faulty variant: an interrupted send is verified at once. *)
NeverTooEarly(a) == FALSE
TooEarly(a) == now < VerifyNotBefore(a)

(* Never send again: settle for an unknown outcome, wait, verify. *)
RecoverInFlight(id) ==
  /\ pc = "next" /\ id \in call.ids
  /\ attempts[id].phase \in InFlight
  /\ IF attempts[id].phase = "sending"
     THEN MarkSendOutcome(id, "sent_unknown")
     ELSE UNCHANGED <<windows, attempts>>
  /\ pc' = IF TooEarly(attempts[id]) THEN "waiting" ELSE "verify"
  /\ call' = [call EXCEPT !.ids = @ \ {id}, !.attempt = id,
                          !.until = VerifyNotBefore(attempts[id])]
  /\ UNCHANGED <<now, ledger, dryRun, history>>

-----------------------------------------------------------------------------
(* The end of a call, and the environment                                  *)

Done ==
  /\ pc = "next" /\ call.todo = {} /\ call.ids = {}
  /\ Return
  /\ UNCHANGED <<now, db, dryRun, history>>

(* The process crashes and restarts from the store, or an error with no    *)
(* write of its own ends the call: an Update that fails, an observation    *)
(* normalizeWindows rejects, no random id.                                 *)
Abort ==
  /\ pc # "idle"
  /\ Return
  /\ UNCHANGED <<now, db, dryRun, history>>

(* A new controller over the same store (PluginLifecycle is about how). *)
Reconfigure ==
  /\ pc = "idle"
  /\ dryRun' = ~dryRun
  /\ UNCHANGED <<now, db, pc, call, history>>

Elapse ==
  /\ now < MaxTime
  /\ now' = now + 1
  /\ UNCHANGED <<db, dryRun, pc, call, history>>

Init ==
  /\ now = 1
  /\ windows = [k \in Keys |-> NoWindow]
  /\ attempts = [id \in AttemptIds |-> NoAttempt]
  /\ ledger = {}
  /\ dryRun \in BOOLEAN
  /\ pc = "idle"
  /\ call = NoCall
  /\ sent = {}
  /\ resent = {}

Step ==
  \/ ReadFailed \/ Reconcile
  \/ NextGroup \/ GroupFailed \/ Precheck \/ DryRunReport
  \/ Prepare \/ Fence \/ Send
  \/ MarkFailed \/ MarkAccepted \/ WaitDone \/ WaitCancelled
  \/ Verify \/ VerifyReadFailed
  \/ \E id \in AttemptIds : RecoverPrepared(id) \/ RecoverInFlight(id)
  \/ Done

Next ==
  \/ \E inst \in Instances : Tick(inst) \/ Recover(inst)
  \/ \E auth \in Auths, state \in {"disabled", "auth_blocked"} :
       MarkCredentialState(auth, state)
  \/ Step
  \/ Abort \/ Reconfigure \/ Elapse

Spec == Init /\ [][Next]_vars

-----------------------------------------------------------------------------
(* Invariants                                                              *)

(* The variables keep their types. *)
TypeOK ==
  /\ now \in 1..MaxTime
  /\ windows \in [Keys -> WindowRecords]
  /\ attempts \in [AttemptIds -> Attempts]
  /\ ledger \in SUBSET Cycles
  /\ dryRun \in BOOLEAN
  /\ pc \in Places
  /\ call \in Calls
  /\ sent \in SUBSET Cycles
  /\ resent \in SUBSET Cycles

(* controller.go:328-329 "no code path may authorize another send for      *)
(* these cycles": whatever fails, crashes or is retried, Sender.Send is    *)
(* issued at most once for a cycle.                                        *)
AtMostOneSendPerCycle == resent = {}

(* controller.go:207-212 and 311-316: the ledger check inside the Prepared *)
(* transaction is only a second line.  Reconciliation and the precheck     *)
(* never hand a group over that contains a fenced cycle, so that check     *)
(* never ends a Tick and starves the groups after it.                      *)
PlanNeverMeetsFence == pc = "plan" => Candidates \cap ledger = {}

(* controller.go:383-424, README.md:54: whatever one precheck finds for    *)
(* the buckets of a group, a request is only planned for windows its last  *)
(* read left lazy.                                                         *)
PlansOnlyLazyWindows ==
  pc = "plan" =>
    \A k \in call.keys : windows[k].state = "lazy_reset_detected"

(* README.md:54 and controller.go:262-277: a baseline taken by this very   *)
(* call is never sent on before a second read of the quota, whichever      *)
(* other windows share its group.                                          *)
NoSendOnOneObservation ==
  pc = "send" /\ call.keys \cap call.born # {} => call.prechecked

(* controller.go:311-350, 433-468: a fenced cycle belongs to exactly one   *)
(* attempt that went beyond Prepared, so the one Recover verifies is the   *)
(* one that was sent, and forgetting a Prepared one forgets no send.       *)
OneAttemptPerFencedCycle ==
  \A c \in ledger : \E id \in AttemptIds :
    /\ c \in attempts[id].cycles
    /\ \A other \in AttemptIds :
         c \in attempts[other].cycles /\ attempts[other].phase # "prepared"
           <=> other = id

(* controller.go:454-459, 521: the ActiveAttemptID of a window always      *)
(* names a stored attempt that covers the window.                          *)
NoDanglingAttempt ==
  \A k \in Keys : windows[k].attempt # None =>
    k \in KeysIn(attempts[windows[k].attempt].cycles)

(* controller.go:116 and 615-628: while a Tick can send for one identity   *)
(* of a credential, every window of an identity it replaced is disabled.   *)
OnlyCurrentIdentitySends ==
  pc = "send" =>
    /\ KeysIn(attempts[call.attempt].cycles) \subseteq KeysOf(call.inst)
    /\ \A k \in Keys :
         k.auth = call.inst.auth /\ InstanceOf(k) # call.inst
           => windows[k].state \in {"none", "disabled"}

(* controller.go:198, 203, 525 and README.md:10: a window that waits for   *)
(* its rollover wakes the scheduler at reset + grace, or at once when that *)
(* is already past; never earlier and never for an older baseline.         *)
WakesAtReset ==
  \A k \in Keys :
    windows[k].state \in {"waiting_reset", "normal_reset", "confirmed"} =>
      \/ windows[k].nextCheck = windows[k].reset + Grace
      \/ windows[k].nextCheck \in windows[k].reset + Grace .. now

(* Two requests for one window are for provider windows that differ by     *)
(* more than the clock skew: no provider window is paid for twice because  *)
(* its reported reset time moved a little (controller.go:195, 405, 524).   *)
SpacedSends ==
  \A c, d \in sent :
    c.key = d.key /\ c.reset <= d.reset /\ d.reset <= c.reset + Skew => c = d

(* controller.go:165-168, 218-222, 306, 445: whatever one observation      *)
(* hands over, a precheck leaves of it and a restart finds, the windows of *)
(* an attempt are of one identity and one activation group.  So Recover,   *)
(* which goes by the identity of the first, finds it for all of them, and  *)
(* PlanActivation (antigravity/adapter.go:101-105) never sees two groups.  *)
OneGroupPerAttempt ==
  \A id \in AttemptIds : \A c, d \in attempts[id].cycles :
    /\ InstanceOf(c.key) = InstanceOf(d.key)
    /\ SameGroup(c.key.bucket, d.key.bucket)

(* Buckets some answer shows with a window the adapter would activate. *)
Activatable ==
  {b \in Buckets : \E t \in 1..MaxTime : \E o \in Observe(t) :
                     b \in DOMAIN o /\ o[b].can}

(* controller.go:155, 174, 399, adapter.go's CanActivate: no cycle is      *)
(* fenced of a bucket that no answer shows as one to activate, whatever    *)
(* shares its credential, its reads or its attempts.                       *)
FencesOnlyActivatable == \A c \in ledger : c.key.bucket \in Activatable

-----------------------------------------------------------------------------
(* What a step may never do                                                *)

(* controller.go:452-454, 534: an attempt only moves forward, and only one *)
(* that was never sent is forgotten.                                       *)
Successors ==
  [none |-> {"prepared"}, prepared |-> {"none", "sending"},
   sending |-> {"sent", "sent_unknown"},
   sent |-> {"sent_unknown", "completed"},
   sent_unknown |-> {"completed"}, completed |-> {}]
AttemptMovesForward ==
  [][\A id \in AttemptIds :
       LET before == attempts[id].phase
           after == attempts'[id].phase
       IN  after = before \/ after \in Successors[before]]_vars

(* controller.go:359, 475-479: no verdict on a send is taken before its    *)
(* VerifyNotBefore, in the call that sent it or in any later one.          *)
VerifiesNotBefore ==
  [][\A id \in AttemptIds :
       attempts'[id].phase = "completed" /\ attempts[id].phase # "completed"
         => now >= VerifyNotBefore(attempts[id])]_vars

(* controller.go:183, 195, 405, 522-524: the baseline of a window that has *)
(* carried a send only moves to a provider window later by more than the   *)
(* skew; a window sliding ahead of the clock does not drag it along.       *)
BaselineOnlyRolls ==
  [][\A k \in Keys :
       windows[k].activated /\ windows'[k].reset # windows[k].reset
         => windows'[k].reset > windows[k].reset + Skew]_vars

(* controller.go:183, 195, 405, 515-530, whatever the adapter's verdict:   *)
(* the baseline of a window that has carried a send moves to a later       *)
(* window of the provider, or with the verification that completes an      *)
(* attempt that covers it; no slid window, back-off, recovery or renamed   *)
(* identity moves it.                                                      *)
BaselineMovesOnVerdict ==
  [][\A k \in Keys :
       windows[k].activated /\ windows'[k].reset # windows[k].reset
         => \/ windows'[k].reset > windows[k].reset + Skew
            \/ /\ windows'[k].state = "confirmed"
               /\ \E id \in AttemptIds :
                    /\ k \in KeysIn(attempts[id].cycles)
                    /\ attempts[id].phase # "completed"
                    /\ attempts'[id].phase = "completed"]_vars

(* README.md:20 "normal rollover: record normal_reset and do not send",    *)
(* controller.go:197 "window rolled without activation": the cycle that a  *)
(* normal reset ends is not one whose request was sent and verified.       *)
NormalResetEndsUnsentCycle ==
  [][\A k \in Keys :
       windows'[k].state = "normal_reset" /\ windows'[k].reset # windows[k].reset
         => ~ \E id \in AttemptIds :
                /\ attempts[id].phase = "completed"
                /\ Cycle(k, windows[k]) \in attempts[id].cycles \cap sent]_vars

(* controller.go:278-290, README.md:54: a controller in dry-run fences no  *)
(* cycle and sends nothing, also with attempts left by an earlier one.     *)
DryRunSendsNothing == [][dryRun => UNCHANGED <<ledger, sent>>]_vars

-----------------------------------------------------------------------------
(* The promise to the account owner (SendFence)                            *)

Armed == IF pc = "send" THEN attempts[call.attempt].cycles ELSE {}

Promise == INSTANCE SendFence WITH fenced <- ledger, armed <- Armed

(* README.md:30: the durable fence precedes the request. *)
FenceBeforeSend == Promise!Spec

-----------------------------------------------------------------------------
(* Every send is eventually verified                                       *)

(* What the runtime's loop and the world must grant: a call in progress    *)
(* takes its next step, the clock runs, and for each attempt what is tried *)
(* again and again is not cut off for ever.                                *)
Fairness ==
  /\ WF_vars(Elapse)
  /\ WF_vars(Step)
  /\ \A inst \in Instances : SF_vars(Recover(inst))
  /\ \A id \in AttemptIds :
       /\ SF_vars(RecoverInFlight(id))
       /\ SF_vars(Verify /\ call.attempt = id)

FairSpec == Spec /\ Fairness

(* controller.go:433-485, README.md:30: an attempt whose request may have  *)
(* left is verified in the end, across crashes, timeouts and failed reads. *)
InFlightSettles ==
  \A id \in AttemptIds :
    attempts[id].phase \in InFlight ~> attempts[id].phase = "completed"
=============================================================================
