------------------------------ MODULE Scheduler ------------------------------
(***************************************************************************)
(* cmd/plugin/runtime.go: the background loop.  It lists the credentials,  *)
(* checks each on a goroutine of its own, at most MaxConcurrency at once,  *)
(* waits for them, and sleeps until the next deadline it finds in the      *)
(* store.  A check calls the controller for one turn (BlockCredential, a   *)
(* Tick that only disables) or two (Recover, Tick); Controller.mu admits   *)
(* one turn at a time.  What a turn does is QuotaController's subject;     *)
(* here it takes time and sets the credential's next deadline.             *)
(*                                                                         *)
(* host.auth.list, host.auth.get and host.log take no context: each takes  *)
(* its time, also after Stop.  Time advances by units of one second,       *)
(* nextDelay's least delay.  Waits are counted down, so no clock needs a   *)
(* bound.  Store updates take no time.                                     *)
(***************************************************************************)
EXTENDS Integers, Sequences, FiniteSets

CONSTANTS
  Creds,               \* credentials of adapters in mode activate_if_lazy
  MaxConcurrency, RequestTimeout, ObservationInterval, \* the configuration
  ListTime, GetTime,   \* BOUNDS on the time host.auth.list and host.auth.get take
  LogTime,             \* BOUND on the time the entries logged in one place take
  TurnTimes,           \* possible bounds on the time a turn takes
  Delays,              \* BOUND: times to a deadline that a turn may set
  Off                  \* no deadline

ASSUME SchedulerAssumption ==
  /\ MaxConcurrency \in Nat \ {0} /\ RequestTimeout \in Nat \ {0}
  /\ ObservationInterval \in Nat \ {0}
  /\ ListTime \in Nat /\ GetTime \in Nat /\ LogTime \in Nat
  /\ TurnTimes \subseteq Nat /\ Delays \subseteq Nat
  /\ Off \notin Nat \cup Creds /\ IsFiniteSet(Creds)

VARIABLES
  turnTime,  \* the longest turn of this behaviour
  alarm,     \* for each credential the time to the earliest NextCheck that
             \* nextDelay heeds, 0 when it has come or passed, or Off
  loop,      \* where the loop is
  timer,     \* what is left of its sleep, or at most of its host calls
  cancelled, \* Stop has cancelled the context
  worker,    \* for each credential where its check is
  holder,    \* the check that holds Controller.mu, or Off
  queue,     \* the checks that wait for it
  overtaken, \* the first of them has lost the free mutex to a newcomer
  left,      \* for each check what is left of its request timeout
  spent,     \* for each check the time its callback or turn has taken
  late       \* history: time since the cancellation

loopVars == <<loop, timer>>
mutex == <<holder, queue, overtaken>>
vars == <<turnTime, alarm, loopVars, cancelled, worker, mutex, left, spent,
          late>>

Turns == {"block", "recover", "tick"}
HostCalls == {"get", "warn", "log"}
InSlot == {c \in Creds : worker[c] \notin {"none", "listed", "slot"}}
AtMutex == {c \in Creds : worker[c] \in Turns}
Queued == {queue[i] : i \in DOMAIN queue}

-----------------------------------------------------------------------------
(* The checks                                                              *)

(* Faulty variant: the slots do not limit. *)
AnySlot == TRUE
FreeSlot == Cardinality(InSlot) < MaxConcurrency

(* The request context starts with the slot.  A disabled credential is     *)
(* blocked by its Tick, a runtime-only one by BlockCredential.             *)
TakeSlot(c) ==
  /\ worker[c] = "slot" /\ FreeSlot
  /\ \E place \in {"get", "block"} : worker' = [worker EXCEPT ![c] = place]
  /\ left' = [left EXCEPT ![c] = RequestTimeout]
  /\ UNCHANGED <<turnTime, alarm, loopVars, cancelled, mutex, spent, late>>

(* Faulty variant: the wait for a slot does not look at the context. *)
NeverGivesUp(c) == FALSE
GivesUp(c) == worker[c] = "slot" /\ cancelled

LeaveSlots(c) ==
  /\ GivesUp(c)
  /\ worker' = [worker EXCEPT ![c] = "none"]
  /\ UNCHANGED <<turnTime, alarm, loopVars, cancelled, mutex, left, spent,
                 late>>

(* An error to log, a credential with its own proxy, or one to check.      *)
AfterGet == {"log", "block", "recover"}

GetReturns(c) ==
  /\ worker[c] = "get"
  /\ \E place \in AfterGet :
       /\ worker' = [worker EXCEPT ![c] = place]
       /\ left' = [left EXCEPT ![c] = IF place = "log" THEN 0 ELSE @]
  /\ spent' = [spent EXCEPT ![c] = 0]
  /\ UNCHANGED <<turnTime, alarm, loopVars, cancelled, mutex, late>>

(* An error of Recover is logged before Tick; what else there is to log    *)
(* is logged at the end, in the slot, when the request context no longer   *)
(* matters.                                                                *)
LogReturns(c) ==
  /\ worker[c] \in {"warn", "log"}
  /\ worker' = [worker EXCEPT ![c] = IF @ = "warn" THEN "tick" ELSE "none"]
  /\ spent' = [spent EXCEPT ![c] = 0]
  /\ UNCHANGED <<turnTime, alarm, loopVars, cancelled, mutex, left, late>>

(* sync.Mutex: whoever comes to a free mutex takes it, also before one who *)
(* waits and is being woken, but the one who lost it so is handed it next. *)
(* (Go does that from a wait of 1 ms on; the time of a turn is longer.)    *)
Lock(c) ==
  /\ c \in AtMutex \ (Queued \cup {holder})
  /\ IF holder = Off /\ ~overtaken
     THEN /\ holder' = c
          /\ overtaken' = (queue # <<>>)
          /\ queue' = queue
     ELSE /\ queue' = Append(queue, c)
          /\ UNCHANGED <<holder, overtaken>>
  /\ UNCHANGED <<turnTime, alarm, loopVars, cancelled, worker, left, spent,
                 late>>

LockFirst ==
  /\ holder = Off /\ queue # <<>>
  /\ holder' = Head(queue)
  /\ queue' = Tail(queue)
  /\ overtaken' = FALSE
  /\ UNCHANGED <<turnTime, alarm, loopVars, cancelled, worker, left, spent,
                 late>>

(* A turn that blocks the credential clears its deadlines.  Any other may  *)
(* set new ones, which may have passed by its end, or leave them as they   *)
(* are: several errors return before or instead of an Update.              *)
NewDeadlines(c) == IF worker[c] = "block" THEN {Off} ELSE Delays \cup {Off}

(* Faulty variant: a return keeps the mutex. *)
KeepLocked == holder' = holder
Unlock == holder' = Off

(* Faulty variant: a Recover that fails is repeated before Tick. *)
Repeats(c) == IF worker[c] = "recover" THEN {"recover", "tick"} ELSE {"none", "log"}
(* Recover is followed by Tick, also when it fails. *)
AfterTurn(c) == IF worker[c] = "recover" THEN {"warn", "tick"} ELSE {"none", "log"}

EndTurn(c) ==
  /\ holder = c
  /\ Unlock
  /\ \E place \in AfterTurn(c) :
       /\ worker' = [worker EXCEPT ![c] = place]
       /\ left' = [left EXCEPT ![c] = IF place \in {"none", "log"} THEN 0 ELSE @]
  /\ spent' = [spent EXCEPT ![c] = 0]
  /\ \/ alarm' = alarm
     \/ \E d \in NewDeadlines(c) : alarm' = [alarm EXCEPT ![c] = d]
  /\ UNCHANGED <<turnTime, loopVars, cancelled, queue, overtaken, late>>

-----------------------------------------------------------------------------
(* The loop                                                                *)

(* host.auth.list returns any set of credentials, or fails. *)
List(listed) ==
  /\ loop = "list"
  /\ loop' = "start" /\ timer' = LogTime
  /\ worker' = [c \in Creds |-> IF c \in listed THEN "listed" ELSE "none"]
  /\ UNCHANGED <<turnTime, alarm, cancelled, mutex, left, spent, late>>

ListFails ==
  /\ loop = "list"
  /\ loop' = "run" /\ timer' = 0
  /\ UNCHANGED <<turnTime, alarm, cancelled, worker, mutex, left, spent, late>>

(* The goroutines start one by one, while the loop logs the credentials    *)
(* that have no adapter.                                                   *)
Launch(c) ==
  /\ worker[c] = "listed"
  /\ worker' = [worker EXCEPT ![c] = "slot"]
  /\ UNCHANGED <<turnTime, alarm, loopVars, cancelled, mutex, left, spent,
                 late>>

Started ==
  /\ loop = "start" /\ \A c \in Creds : worker[c] # "listed"
  /\ loop' = "run" /\ timer' = 0
  /\ UNCHANGED <<turnTime, alarm, cancelled, worker, mutex, left, spent, late>>

(* Faulty variant: the checks are not waited for. *)
NotAwaited == TRUE
ChecksDone == \A c \in Creds : worker[c] = "none"

AtLeast(a, b) == IF a < b THEN b ELSE a
Wakers == {c \in Creds : alarm[c] # Off /\ AtLeast(alarm[c], 1) < ObservationInterval}

(* The earliest deadline, but at least a second and at most an interval. *)
IsNextDelay(d) ==
  IF Wakers = {} THEN d = ObservationInterval
  ELSE /\ \E c \in Wakers : d = AtLeast(alarm[c], 1)
       /\ \A c \in Wakers : d <= AtLeast(alarm[c], 1)

EndRun ==
  /\ loop = "run" /\ ChecksDone
  /\ loop' = "sleep"
  /\ \E d \in 1..ObservationInterval : IsNextDelay(d) /\ timer' = d
  /\ UNCHANGED <<turnTime, alarm, cancelled, worker, mutex, left, spent, late>>

(* When the timer fires and the context ends at once, select may choose    *)
(* either case.                                                            *)
Wake ==
  /\ loop = "sleep" /\ timer = 0
  /\ loop' = "list" /\ timer' = ListTime
  /\ UNCHANGED <<turnTime, alarm, cancelled, worker, mutex, left, spent, late>>

End ==
  /\ loop = "sleep" /\ cancelled
  /\ loop' = "over"
  /\ timer' = 0
  /\ UNCHANGED <<turnTime, alarm, cancelled, worker, mutex, left, spent, late>>

(* Stop *)
Cancel ==
  /\ ~cancelled
  /\ cancelled' = TRUE
  /\ UNCHANGED <<turnTime, alarm, loopVars, worker, mutex, left, spent, late>>

-----------------------------------------------------------------------------
(* Time                                                                    *)

(* The reads and waits of a turn end with its request context. *)
Ended(c) == cancelled \/ left[c] = 0

(* The longest that the present callback of check c takes. *)
CallTime(c) == IF worker[c] = "get" THEN GetTime ELSE LogTime

(* What can be done at once is done before time passes. *)
Idle ==
  /\ \/ loop \in {"list", "start"} /\ timer > 0
     \/ loop = "run" /\ ~ChecksDone
     \/ loop = "sleep" /\ timer > 0 /\ ~cancelled
  /\ \A c \in Creds : worker[c] = "slot" => ~FreeSlot /\ ~GivesUp(c)
  /\ \A c \in Creds : worker[c] \in HostCalls => spent[c] < CallTime(c)
  /\ AtMutex \subseteq Queued \cup {holder}
  /\ holder = Off => queue = <<>>
  /\ holder # Off => /\ worker[holder] # "block"
                     /\ ~Ended(holder) /\ spent[holder] < turnTime

Sooner(n) == IF n > 0 THEN n - 1 ELSE 0

Elapse ==
  /\ Idle
  /\ alarm' = [c \in Creds |-> IF alarm[c] = Off THEN Off ELSE Sooner(alarm[c])]
  /\ timer' = Sooner(timer)
  /\ left' = [c \in Creds |-> Sooner(left[c])]
  /\ spent' = [c \in Creds |->
       IF worker[c] \in HostCalls \/ holder = c THEN spent[c] + 1 ELSE spent[c]]
  /\ late' = IF cancelled THEN late + 1 ELSE late
  /\ UNCHANGED <<turnTime, loop, cancelled, worker, mutex>>

Init ==
  /\ turnTime \in TurnTimes
  /\ alarm \in [Creds -> Delays \cup {Off}]
  /\ loop = "list" /\ timer = ListTime
  /\ cancelled = FALSE
  /\ worker = [c \in Creds |-> "none"]
  /\ holder = Off /\ queue = <<>> /\ overtaken = FALSE
  /\ left = [c \in Creds |-> 0] /\ spent = [c \in Creds |-> 0]
  /\ late = 0

Run ==
  \/ \E listed \in SUBSET Creds : List(listed)
  \/ ListFails \/ Started
  \/ \E c \in Creds : \/ Launch(c) \/ TakeSlot(c) \/ LeaveSlots(c) \/ GetReturns(c)
                      \/ Lock(c) \/ EndTurn(c) \/ LogReturns(c)
  \/ LockFirst
  \/ EndRun \/ Wake \/ End
  \/ Elapse

Next == Run \/ Cancel

Spec == Init /\ [][Next]_vars /\ WF_vars(Run)

-----------------------------------------------------------------------------
(* Properties                                                              *)

(* The variables keep their types, a check holds or waits for the mutex    *)
(* only in a turn and only once, and the slots are never exceeded.         *)
TypeOK ==
  /\ turnTime \in TurnTimes
  /\ alarm \in [Creds -> Nat \cup {Off}]
  /\ loop \in {"list", "start", "run", "sleep", "over"} /\ timer \in Nat
  /\ cancelled \in BOOLEAN
  /\ worker \in [Creds -> {"none", "listed", "slot"} \cup HostCalls \cup Turns]
  /\ holder \in AtMutex \cup {Off}
  /\ queue \in Seq(Creds) /\ Queued \subseteq AtMutex \ {holder}
  /\ \A i, j \in DOMAIN queue : queue[i] = queue[j] => i = j
  /\ overtaken \in BOOLEAN
  /\ Cardinality(InSlot) <= MaxConcurrency
  /\ left \in [Creds -> 0..RequestTimeout] /\ spent \in [Creds -> Nat]
  /\ late \in Nat

(* runtime.go:77-95, 180: the loop never sleeps past a deadline it heeds,  *)
(* whichever checks set it and in whatever order they end.                 *)
NoDeadlineSleptThrough ==
  loop = "sleep" =>
    \A c \in Creds : alarm[c] # Off => timer <= AtLeast(alarm[c], 1)

(* runtime.go:145: the request timeout runs while a check waits for the    *)
(* mutex.  It still never ends a check with a turn to come if it exceeds   *)
(* host.auth.get, the logging between two turns and, for each of the two,  *)
(* the turns of the other checks in slots, which may overtake once each.   *)
LongestRequest == GetTime + LogTime + 2 * (2 * MaxConcurrency - 1) * turnTime

QueueingNeverTimesOut ==
  LongestRequest < RequestTimeout =>
    \A c \in InSlot : worker[c] # "log" => left[c] > 0

(* runtime.go:96-113: what has no context holds Stop up, but in sequence   *)
(* only a host.auth.list, the logging of the loop, and a host.auth.get and *)
(* the logging of one check, however many credentials wait, however long   *)
(* their turns take and whatever the request timeout.                      *)
StopWaitsForHostCalls == late <= ListTime + LogTime + GetTime + 2 * LogTime

(* runtime.go:114-180: every run ends: each check leaves its slot and the  *)
(* mutex on every path, and nobody waits for ever.                         *)
RunsEnd == (loop = "list") ~> (loop \in {"sleep", "over"})
=============================================================================
