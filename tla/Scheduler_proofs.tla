-------------------------- MODULE Scheduler_proofs --------------------------
(***************************************************************************)
(* What holds of the background loop for any credentials, any deadlines    *)
(* and any configuration.                                                  *)
(***************************************************************************)
EXTENDS Scheduler, FiniteSetTheorems, TLAPS

(* Checks start and run only in a run, and the sleep ends before every     *)
(* deadline.                                                               *)
LoopOK ==
  /\ loop \notin {"start", "run"} => ChecksDone
  /\ \A c \in Creds : worker[c] = "listed" => loop = "start"
  /\ NoDeadlineSleptThrough

(* Host calls and turns keep their bounds, and nothing else takes time. *)
SpentOK ==
  /\ \A c \in Creds : worker[c] \in HostCalls => spent[c] <= CallTime(c)
  /\ \A c \in Creds : worker[c] \notin HostCalls /\ c # holder => spent[c] = 0
  /\ holder # Off => spent[holder] <= turnTime

(* The host calls that may have been waited for since Stop before a check  *)
(* comes to this place.                                                    *)
Before(place) ==
  CASE place \in {"listed", "slot", "get"} -> ListTime + LogTime
    [] place \in {"block", "recover", "warn"} -> ListTime + LogTime + GetTime
    [] OTHER -> ListTime + LogTime + GetTime + LogTime

(* What the present host call of check c has taken. *)
Called(c) == IF worker[c] \in HostCalls THEN spent[c] ELSE 0

(* Once time passes after the cancellation the loop does not list again    *)
(* and sleeps no more, and all it has waited for are the host calls of the *)
(* loop and those of some check up to where that is now.                   *)
StopOK ==
  /\ late > 0 => cancelled /\ (loop = "sleep" => timer > 0)
  /\ loop = "list" => late + timer <= ListTime
  /\ loop = "start" => late + timer <= ListTime + LogTime
  /\ \A c \in Creds : worker[c] # "none" => late <= Before(worker[c]) + Called(c)
  /\ StopWaitsForHostCalls

IInv == TypeOK /\ LoopOK /\ SpentOK /\ StopOK

USE SchedulerAssumption

-----------------------------------------------------------------------------
(* Slots                                                                   *)

(* A check that enters a slot, and any that leave. *)
LEMMA SlotsFinite == IsFiniteSet(InSlot)
BY FS_Subset DEF InSlot

LEMMA SlotTaken ==
  ASSUME TypeOK, NEW c \in Creds, FreeSlot, InSlot' = InSlot \cup {c}
  PROVE  Cardinality(InSlot') <= MaxConcurrency
<1>1. /\ IsFiniteSet(InSlot) /\ Cardinality(InSlot) \in Nat
  BY SlotsFinite, FS_CardinalityType
<1>2. \/ Cardinality(InSlot \cup {c}) = Cardinality(InSlot)
      \/ Cardinality(InSlot \cup {c}) = Cardinality(InSlot) + 1
  BY <1>1, FS_AddElement
<1> QED
  BY <1>1, <1>2 DEF FreeSlot

LEMMA SlotsLeft ==
  ASSUME TypeOK, InSlot' \subseteq InSlot
  PROVE  Cardinality(InSlot') <= MaxConcurrency
<1>1. /\ IsFiniteSet(InSlot) /\ Cardinality(InSlot) \in Nat
  BY SlotsFinite, FS_CardinalityType
<1>2. /\ Cardinality(InSlot') <= Cardinality(InSlot) /\ IsFiniteSet(InSlot')
  BY <1>1, FS_Subset
<1>3. Cardinality(InSlot') \in Nat
  BY <1>2, FS_CardinalityType
<1> QED
  BY <1>1, <1>2, <1>3 DEF TypeOK

-----------------------------------------------------------------------------
(* The invariant holds at first                                            *)

LEMMA InitOK == Init => IInv
<1> SUFFICES ASSUME Init PROVE IInv
  OBVIOUS
<1>1. InSlot = {}
  BY DEF Init, InSlot
<1>2. Cardinality(InSlot) <= MaxConcurrency
  BY <1>1, FS_EmptySet
<1>3. DOMAIN queue = {} /\ queue \in Seq(Creds) /\ Queued = {}
  BY DEF Init, Queued
<1>4. TypeOK
  <2>1. alarm \in [Creds -> Nat \cup {Off}]
    BY DEF Init
  <2>2. /\ left \in [Creds -> 0..RequestTimeout] /\ spent \in [Creds -> Nat]
        /\ worker \in [Creds -> {"none", "listed", "slot"} \cup HostCalls \cup Turns]
    BY DEF Init
  <2>3. holder \in AtMutex \cup {Off} /\ Queued \subseteq AtMutex \ {holder}
    BY <1>3 DEF Init
  <2>4. \A i, j \in DOMAIN queue : queue[i] = queue[j] => i = j
    BY <1>3
  <2>5. turnTime \in TurnTimes /\ loop = "list" /\ timer \in Nat /\ late \in Nat
    BY DEF Init
  <2>6. cancelled \in BOOLEAN /\ overtaken \in BOOLEAN
    BY DEF Init
  <2> QED
    BY <1>2, <1>3, <2>1, <2>2, <2>3, <2>4, <2>5, <2>6 DEF TypeOK
<1>5. LoopOK
  BY DEF Init, LoopOK, ChecksDone, NoDeadlineSleptThrough
<1>7. SpentOK
  BY DEF Init, SpentOK, HostCalls
<1>6. StopOK
  <2>1. \A c \in Creds : Called(c) = 0 /\ CallTime(c) \in Nat
    BY DEF Init, Called, CallTime, HostCalls
  <2> QED
    BY <2>1 DEF Init, StopOK, StopWaitsForHostCalls
<1> QED
  BY <1>4, <1>5, <1>6, <1>7 DEF IInv

-----------------------------------------------------------------------------
(* Every step keeps the types                                              *)

LEMMA TypeStep == IInv /\ [Next]_vars => TypeOK'
<1> SUFFICES ASSUME IInv, [Next]_vars PROVE TypeOK'
  OBVIOUS
<1> USE DEF IInv, TypeOK, LoopOK
<1>1. ASSUME NEW listed \in SUBSET Creds, List(listed) PROVE TypeOK'
  <2>1. InSlot' = {}
    BY <1>1 DEF List, InSlot
  <2>2. AtMutex = {}
    BY <1>1 DEF List, ChecksDone, AtMutex, Turns
  <2>3. holder = Off /\ Queued = {}
    BY <2>2
  <2>4. Cardinality(InSlot') <= MaxConcurrency
    BY <2>1, FS_EmptySet
  <2>5. holder' = Off /\ Queued' = {}
    BY <1>1, <2>3 DEF List, mutex, Queued
  <2>6. /\ worker' \in [Creds -> {"none", "listed", "slot"} \cup HostCalls \cup Turns]
        /\ loop' = "start" /\ timer' \in Nat
    BY <1>1 DEF List
  <2> QED
    BY <1>1, <2>4, <2>5, <2>6 DEF List, mutex
<1>12. ASSUME NEW c \in Creds, Launch(c) PROVE TypeOK'
  <2>1. InSlot' = InSlot /\ AtMutex' = AtMutex
    BY <1>12 DEF Launch, InSlot, AtMutex, Turns, HostCalls
  <2>2. worker' \in [Creds -> {"none", "listed", "slot"} \cup HostCalls \cup Turns]
    BY <1>12 DEF Launch
  <2> QED
    BY <1>12, <2>1, <2>2 DEF Launch, mutex, loopVars, Queued
<1>13. ASSUME NEW c \in Creds, LogReturns(c) PROVE TypeOK'
  <2>1. PICK place \in {"tick", "none"} : worker' = [worker EXCEPT ![c] = place]
    BY <1>13 DEF LogReturns
  <2>2. InSlot' \subseteq InSlot /\ AtMutex \subseteq AtMutex'
    BY <1>13, <2>1 DEF LogReturns, InSlot, AtMutex, Turns
  <2>3. Cardinality(InSlot') <= MaxConcurrency
    BY <2>2, SlotsLeft
  <2>4. /\ worker' \in [Creds -> {"none", "listed", "slot"} \cup HostCalls \cup Turns]
        /\ spent' \in [Creds -> Nat]
    BY <1>13, <2>1 DEF LogReturns, Turns
  <2> QED
    BY <1>13, <2>2, <2>3, <2>4 DEF LogReturns, mutex, loopVars, Queued
<1>2. ASSUME NEW c \in Creds, TakeSlot(c) PROVE TypeOK'
  <2>1. PICK place \in {"get", "block"} : worker' = [worker EXCEPT ![c] = place]
    BY <1>2 DEF TakeSlot
  <2>2. InSlot' = InSlot \cup {c}
    BY <2>1 DEF InSlot
  <2>3. Cardinality(InSlot') <= MaxConcurrency
    BY <1>2, <2>2, SlotTaken DEF TakeSlot
  <2>4. AtMutex \subseteq AtMutex'
    BY <1>2, <2>1 DEF TakeSlot, AtMutex, Turns
  <2> QED
    BY <1>2, <2>1, <2>3, <2>4 DEF TakeSlot, Turns, HostCalls, mutex, loopVars, Queued
<1>3. ASSUME NEW c \in Creds, LeaveSlots(c) PROVE TypeOK'
  <2>1. InSlot' = InSlot /\ AtMutex' = AtMutex
    BY <1>3 DEF LeaveSlots, GivesUp, InSlot, AtMutex, Turns
  <2> QED
    BY <1>3, <2>1 DEF LeaveSlots, Turns, mutex, loopVars, Queued
<1>4. ASSUME NEW c \in Creds, GetReturns(c) PROVE TypeOK'
  <2>1. PICK place \in AfterGet :
          /\ worker' = [worker EXCEPT ![c] = place]
          /\ left' = [left EXCEPT ![c] = IF place = "log" THEN 0 ELSE @]
    BY <1>4 DEF GetReturns
  <2>2. InSlot' \subseteq InSlot /\ AtMutex \subseteq AtMutex'
    BY <1>4, <2>1 DEF GetReturns, AfterGet, InSlot, AtMutex, Turns
  <2>3. Cardinality(InSlot') <= MaxConcurrency
    BY <2>2, SlotsLeft
  <2> QED
    BY <1>4, <2>1, <2>2, <2>3 DEF GetReturns, AfterGet, Turns, HostCalls, mutex, loopVars, Queued
<1>5. ASSUME NEW c \in Creds, Lock(c) PROVE TypeOK'
  <2>1. InSlot' = InSlot /\ AtMutex' = AtMutex
    BY <1>5 DEF Lock, InSlot, AtMutex
  <2>2. CASE holder = Off /\ ~overtaken
    BY <1>5, <2>1, <2>2 DEF Lock, Turns, loopVars, Queued
  <2>3. CASE ~(holder = Off /\ ~overtaken)
    <3>1. queue' = Append(queue, c) /\ holder' = holder /\ overtaken' = overtaken
      BY <1>5, <2>3 DEF Lock
    <3>2. \A i \in DOMAIN queue' : i \in DOMAIN queue \/ i = Len(queue) + 1
      BY <3>1
    <3>3. c \notin Queued \cup {holder} /\ c \in AtMutex
      BY <1>5 DEF Lock
    <3>4. Queued' \subseteq AtMutex' \ {holder'}
      BY <2>1, <3>1, <3>2, <3>3 DEF Queued
    <3>5. \A i, j \in DOMAIN queue' : queue'[i] = queue'[j] => i = j
      BY <3>1, <3>2, <3>3 DEF Queued
    <3>6. queue' \in Seq(Creds)
      BY <3>1
    <3> QED
      BY <1>5, <2>1, <3>1, <3>4, <3>5, <3>6 DEF Lock, loopVars
  <2> QED
    BY <2>2, <2>3
<1>6. ASSUME LockFirst PROVE TypeOK'
  <2>1. InSlot' = InSlot /\ AtMutex' = AtMutex
    BY <1>6 DEF LockFirst, InSlot, AtMutex
  <2>2. /\ holder' = queue[1] /\ queue' = Tail(queue) /\ 1 \in DOMAIN queue
        /\ overtaken' = FALSE
    BY <1>6 DEF LockFirst
  <2>3. \A i \in DOMAIN queue' : i + 1 \in DOMAIN queue /\ queue'[i] = queue[i + 1]
    BY <2>2
  <2>4. queue' \in Seq(Creds)
    BY <2>2
  <2>5. Queued' \subseteq AtMutex' \ {holder'}
    BY <2>1, <2>2, <2>3 DEF Queued
  <2>6. \A i, j \in DOMAIN queue' : queue'[i] = queue'[j] => i = j
    BY <2>3, <2>4
  <2>7. holder' \in AtMutex' \cup {Off}
    BY <2>1, <2>2 DEF Queued
  <2> QED
    BY <1>6, <2>1, <2>2, <2>4, <2>5, <2>6, <2>7 DEF LockFirst, Turns, loopVars
<1>7. ASSUME NEW c \in Creds, EndTurn(c) PROVE TypeOK'
  <2>0. PICK place \in AfterTurn(c) :
          /\ worker' = [worker EXCEPT ![c] = place]
          /\ left' = [left EXCEPT ![c] = IF place \in {"none", "log"} THEN 0 ELSE @]
    BY <1>7 DEF EndTurn
  <2>1. /\ holder = c /\ holder' = Off /\ c \in AtMutex /\ queue' = queue
        /\ place \in {"warn", "tick", "log", "none"}
    BY <1>7 DEF EndTurn, Unlock, AfterTurn
  <2>2. alarm' \in [Creds -> Nat \cup {Off}]
    BY <1>7 DEF EndTurn, NewDeadlines
  <2>3. InSlot' \subseteq InSlot /\ AtMutex \ {c} \subseteq AtMutex'
    BY <2>0, <2>1 DEF InSlot, AtMutex, Turns
  <2>4. Cardinality(InSlot') <= MaxConcurrency
    BY <2>3, SlotsLeft
  <2>5. /\ worker' \in [Creds -> {"none", "listed", "slot"} \cup HostCalls \cup Turns]
        /\ left' \in [Creds -> 0..RequestTimeout] /\ spent' \in [Creds -> Nat]
    BY <1>7, <2>0, <2>1 DEF EndTurn, Turns, HostCalls
  <2>6. Queued' \subseteq AtMutex' \ {holder'}
    BY <2>1, <2>3 DEF Queued
  <2> QED
    BY <1>7, <2>1, <2>2, <2>4, <2>5, <2>6 DEF EndTurn, loopVars
<1>8. ASSUME EndRun PROVE TypeOK'
  BY <1>8 DEF EndRun, mutex, InSlot, AtMutex, Queued
<1>9. ASSUME ListFails \/ Started \/ Wake \/ End \/ Cancel PROVE TypeOK'
  <2>1. InSlot' = InSlot /\ AtMutex' = AtMutex /\ Queued' = Queued
    BY <1>9 DEF ListFails, Started, Wake, End, Cancel, mutex, InSlot, AtMutex, Queued
  <2>2. UNCHANGED <<mutex, turnTime, alarm, left, spent, late, worker>>
    BY <1>9 DEF ListFails, Started, Wake, End, Cancel
  <2>3. loop' \in {"list", "start", "run", "sleep", "over"} /\ cancelled' \in BOOLEAN
    BY <1>9 DEF ListFails, Started, Wake, End, Cancel, loopVars
  <2>4. timer' \in {timer, ListTime, 0}
    BY <1>9 DEF ListFails, Started, Wake, End, Cancel, loopVars
  <2> QED
    BY <2>1, <2>2, <2>3, <2>4 DEF mutex
<1>10. ASSUME Elapse PROVE TypeOK'
  <2>1. \A n \in Nat : Sooner(n) \in Nat /\ Sooner(n) <= n
    BY DEF Sooner
  <2>2. \A c \in Creds : alarm[c] # Off => alarm[c] \in Nat
    OBVIOUS
  <2>3. /\ alarm' \in [Creds -> Nat \cup {Off}]
        /\ timer' \in Nat /\ left' \in [Creds -> 0..RequestTimeout]
    <3>1. \A c \in Creds : (IF alarm[c] = Off THEN Off ELSE Sooner(alarm[c])) \in Nat \cup {Off}
      BY <2>1, <2>2
    <3>2. alarm' \in [Creds -> Nat \cup {Off}]
      BY <1>10, <3>1 DEF Elapse
    <3>3. timer' \in Nat
      BY <1>10, <2>1 DEF Elapse
    <3>4. \A c \in Creds : Sooner(left[c]) \in 0..RequestTimeout
      BY <2>1
    <3>5. left' \in [Creds -> 0..RequestTimeout]
      BY <1>10, <3>4 DEF Elapse
    <3> QED
      BY <3>2, <3>3, <3>5
  <2>4. spent' \in [Creds -> Nat] /\ late' \in Nat
    BY <1>10 DEF Elapse
  <2>5. InSlot' = InSlot /\ AtMutex' = AtMutex /\ Queued' = Queued
    BY <1>10 DEF Elapse, mutex, InSlot, AtMutex, Queued
  <2> QED
    BY <1>10, <2>3, <2>4, <2>5 DEF Elapse, mutex
<1>11. CASE UNCHANGED vars
  BY <1>11 DEF vars, loopVars, mutex, InSlot, AtMutex, Queued
<1> QED
  BY <1>1, <1>2, <1>3, <1>4, <1>5, <1>6, <1>7, <1>8, <1>9, <1>10, <1>11, <1>12, <1>13
     DEF Next, Run

-----------------------------------------------------------------------------
(* Checks only run in a run                                                *)

CheckStep(c) ==
  \/ Launch(c) \/ TakeSlot(c) \/ LeaveSlots(c) \/ GetReturns(c) \/ Lock(c)
  \/ EndTurn(c) \/ LogReturns(c)

(* Every step of a check is a step of a run. *)
LEMMA ChecksInRun ==
  ASSUME IInv, NEW c \in Creds, CheckStep(c)
  PROVE  /\ loop \in {"start", "run"} /\ loop' = loop /\ timer' = timer
         /\ \A b \in Creds : worker'[b] = "listed" => worker[b] = "listed"
<1>1. worker[c] # "none"
  BY DEF CheckStep, IInv, TypeOK, Launch, TakeSlot, LeaveSlots, GivesUp, GetReturns,
         Lock, EndTurn, LogReturns, AtMutex, Turns
<1>2. loop' = loop /\ timer' = timer
  BY DEF CheckStep, Launch, TakeSlot, LeaveSlots, GetReturns, Lock, EndTurn,
         LogReturns, loopVars
<1>3. \A b \in Creds : worker'[b] = "listed" => worker[b] = "listed"
  BY DEF CheckStep, IInv, TypeOK, Launch, TakeSlot, LeaveSlots, GetReturns, AfterGet,
         Lock, EndTurn, AfterTurn, LogReturns
<1> QED
  BY <1>1, <1>2, <1>3 DEF IInv, LoopOK, ChecksDone

(* Asleep, the time to the timer and to every deadline shrinks alike. *)
LEMMA LoopStep == IInv /\ [Next]_vars => LoopOK'
<1> SUFFICES ASSUME IInv, [Next]_vars PROVE LoopOK'
  OBVIOUS
<1> USE DEF LoopOK, NoDeadlineSleptThrough
<1>1. ASSUME NEW listed \in SUBSET Creds, List(listed) PROVE LoopOK'
  BY <1>1 DEF List
<1>9. ASSUME ListFails \/ Started PROVE LoopOK'
  <2>1. loop' = "run" /\ worker' = worker /\ \A c \in Creds : worker[c] # "listed"
    BY <1>9 DEF IInv, ListFails, Started, ChecksDone
  <2> QED
    BY <2>1
<1>2. ASSUME NEW c \in Creds, CheckStep(c) PROVE LoopOK'
  BY <1>2, ChecksInRun DEF IInv
<1>3. ASSUME LockFirst PROVE LoopOK'
  BY <1>3 DEF IInv, LockFirst, loopVars, ChecksDone
<1>4. ASSUME EndRun PROVE LoopOK'
  <2>1. PICK d \in 1..ObservationInterval : IsNextDelay(d) /\ timer' = d
    BY <1>4 DEF EndRun
  <2>2. ASSUME NEW c \in Creds, alarm[c] # Off PROVE d <= AtLeast(alarm[c], 1)
    <3>1. AtLeast(alarm[c], 1) \in Nat
      BY <2>2 DEF IInv, TypeOK, AtLeast
    <3>2. CASE c \in Wakers
      BY <2>1, <3>2 DEF IsNextDelay
    <3>3. CASE c \notin Wakers
      BY <2>1, <2>2, <3>1, <3>3 DEF Wakers
    <3> QED
      BY <3>2, <3>3
  <2>3. UNCHANGED <<alarm, worker>> /\ ChecksDone /\ loop' = "sleep"
    BY <1>4 DEF EndRun
  <2> QED
    BY <2>1, <2>2, <2>3 DEF ChecksDone
<1>5. ASSUME Wake \/ End PROVE LoopOK'
  BY <1>5 DEF IInv, Wake, End, ChecksDone
<1>6. ASSUME Cancel PROVE LoopOK'
  BY <1>6 DEF IInv, Cancel, loopVars, ChecksDone
<1>7. ASSUME Elapse PROVE LoopOK'
  <2>1. UNCHANGED <<loop, worker>>
    BY <1>7 DEF Elapse
  <2>2. ASSUME loop = "sleep", NEW c \in Creds, alarm'[c] # Off
        PROVE  timer' <= AtLeast(alarm'[c], 1)
    <3>1. /\ alarm'[c] = (IF alarm[c] = Off THEN Off ELSE Sooner(alarm[c]))
          /\ timer' = Sooner(timer)
      BY <1>7 DEF Elapse
    <3>2. alarm[c] \in Nat /\ timer \in Nat /\ timer <= AtLeast(alarm[c], 1)
      BY <2>2, <3>1 DEF IInv, TypeOK
    <3>3. alarm'[c] = Sooner(alarm[c])
      BY <2>2, <3>1
    <3> QED
      BY <3>1, <3>2, <3>3 DEF Sooner, AtLeast
  <2> QED
    BY <2>1, <2>2 DEF IInv, ChecksDone
<1>8. CASE UNCHANGED vars
  BY <1>8 DEF IInv, vars, loopVars, ChecksDone
<1> QED
  BY <1>1, <1>2, <1>3, <1>4, <1>5, <1>6, <1>7, <1>8, <1>9 DEF Next, Run, CheckStep

-----------------------------------------------------------------------------
(* What turns and host calls take                                          *)

LEMMA SpentStep == IInv /\ [Next]_vars => SpentOK'
<1> SUFFICES ASSUME IInv, [Next]_vars PROVE SpentOK'
  OBVIOUS
<1> USE DEF IInv, SpentOK
<1>1. ASSUME NEW listed \in SUBSET Creds, List(listed) PROVE SpentOK'
  <2>1. \A c \in Creds : worker[c] = "none" /\ c # holder
    BY <1>1 DEF LoopOK, ChecksDone, TypeOK, AtMutex, Turns, List
  <2>2. holder = Off
    BY <2>1 DEF TypeOK, AtMutex
  <2>3. \A c \in Creds : worker[c] \notin HostCalls /\ worker'[c] \notin HostCalls
    BY <1>1, <2>1 DEF List, HostCalls
  <2> QED
    BY <1>1, <2>2, <2>3 DEF List, mutex
<1>2. ASSUME NEW c \in Creds, Launch(c) \/ TakeSlot(c) \/ LeaveSlots(c) PROVE SpentOK'
  <2>1. c # holder /\ worker[c] \notin HostCalls /\ c # Off
    BY <1>2 DEF TypeOK, Launch, TakeSlot, LeaveSlots, GivesUp, AtMutex, Turns, HostCalls
  <2>2. /\ UNCHANGED <<mutex, spent, turnTime>>
        /\ \A b \in Creds \ {c} : worker'[b] = worker[b]
    BY <1>2 DEF TypeOK, Launch, TakeSlot, LeaveSlots
  <2>3. spent'[c] = 0
    BY <2>1, <2>2
  <2>4. CallTime(c)' \in Nat /\ \A b \in Creds \ {c} : CallTime(b)' = CallTime(b)
    BY <2>2 DEF CallTime
  <2> QED
    BY <2>1, <2>2, <2>3, <2>4 DEF mutex
<1>3. ASSUME NEW c \in Creds, GetReturns(c) \/ LogReturns(c) PROVE SpentOK'
  <2>1. c # holder
    BY <1>3 DEF TypeOK, GetReturns, LogReturns, AtMutex, Turns
  <2>2. /\ UNCHANGED <<mutex, turnTime>> /\ spent'[c] = 0
        /\ \A b \in Creds \ {c} : worker'[b] = worker[b] /\ spent'[b] = spent[b]
    BY <1>3 DEF TypeOK, GetReturns, LogReturns
  <2>3. holder # Off => holder \in Creds \ {c}
    BY <2>1 DEF TypeOK, AtMutex
  <2>4. CallTime(c)' \in Nat /\ \A b \in Creds \ {c} : CallTime(b)' = CallTime(b)
    BY <2>2 DEF CallTime
  <2> QED
    BY <2>1, <2>2, <2>3, <2>4 DEF mutex
<1>5. ASSUME NEW c \in Creds, Lock(c) PROVE SpentOK'
  <2>1. c # holder /\ worker[c] \notin HostCalls /\ turnTime \in Nat
    BY <1>5 DEF TypeOK, Lock, AtMutex, Turns, HostCalls
  <2>2. spent[c] = 0
    BY <2>1
  <2>3. UNCHANGED <<worker, spent, turnTime>> /\ (holder' = holder \/ (holder = Off /\ holder' = c))
    BY <1>5 DEF Lock
  <2>4. \A b \in Creds : CallTime(b)' = CallTime(b)
    BY <2>3 DEF CallTime
  <2> QED
    BY <2>1, <2>2, <2>3, <2>4 DEF TypeOK, AtMutex
<1>6. ASSUME LockFirst PROVE SpentOK'
  <2>1. holder' \in Queued /\ holder = Off
    BY <1>6 DEF TypeOK, LockFirst, Queued
  <2>2. worker[holder'] \notin HostCalls /\ holder' \in Creds /\ turnTime \in Nat
    BY <2>1 DEF TypeOK, AtMutex, Turns, HostCalls
  <2>3. holder' # holder
    BY <2>1, <2>2
  <2>4. UNCHANGED <<worker, spent, turnTime>> /\ \A b \in Creds : CallTime(b)' = CallTime(b)
    BY <1>6 DEF LockFirst, CallTime
  <2> QED
    BY <2>1, <2>2, <2>3, <2>4
<1>7. ASSUME NEW c \in Creds, EndTurn(c) PROVE SpentOK'
  <2>1. holder = c /\ holder' = Off /\ turnTime' = turnTime
    BY <1>7 DEF EndTurn, Unlock
  <2>2. /\ spent'[c] = 0
        /\ \A b \in Creds \ {c} : worker'[b] = worker[b] /\ spent'[b] = spent[b]
    BY <1>7 DEF TypeOK, EndTurn
  <2>3. CallTime(c)' \in Nat /\ \A b \in Creds \ {c} : CallTime(b)' = CallTime(b)
    BY <2>2 DEF CallTime
  <2> QED
    BY <2>1, <2>2, <2>3
<1>8. ASSUME ListFails \/ Started \/ EndRun \/ Wake \/ End \/ Cancel PROVE SpentOK'
  BY <1>8 DEF ListFails, Started, EndRun, Wake, End, Cancel, mutex, CallTime
<1>9. ASSUME Elapse PROVE SpentOK'
  <2>1. /\ UNCHANGED <<worker, mutex, turnTime>> /\ Idle
        /\ \A c \in Creds : spent'[c] =
             IF worker[c] \in HostCalls \/ holder = c THEN spent[c] + 1 ELSE spent[c]
    BY <1>9 DEF Elapse
  <2>2. /\ turnTime \in Nat /\ \A c \in Creds : spent[c] \in Nat /\ CallTime(c) \in Nat
        /\ holder # Off => holder \in Creds /\ spent[holder] < turnTime
    BY <2>1 DEF TypeOK, Idle, AtMutex, CallTime
  <2>3. \A c \in Creds : worker[c] \in HostCalls => spent[c] < CallTime(c)
    BY <2>1 DEF Idle
  <2>4. \A c \in Creds : CallTime(c)' = CallTime(c)
    BY <2>1 DEF CallTime
  <2> QED
    BY <2>1, <2>2, <2>3, <2>4 DEF mutex
<1>10. CASE UNCHANGED vars
  BY <1>10 DEF vars, mutex, CallTime
<1> QED
  BY <1>1, <1>2, <1>3, <1>5, <1>6, <1>7, <1>8, <1>9, <1>10 DEF Next, Run

-----------------------------------------------------------------------------
(* What is left to do once the loop is cancelled                           *)

LEMMA Bounds ==
  ASSUME IInv
  PROVE  /\ \A place : Before(place) \in Nat
         /\ \A c \in Creds : /\ Called(c) \in Nat /\ CallTime(c) \in Nat
                            /\ Called(c) <= CallTime(c)
         /\ late \in Nat /\ timer \in Nat
<1>1. \A place : Before(place) \in Nat
  BY DEF Before
<1>2. ASSUME NEW c \in Creds
      PROVE  Called(c) \in Nat /\ CallTime(c) \in Nat /\ Called(c) <= CallTime(c)
  BY DEF IInv, TypeOK, SpentOK, Called, CallTime
<1> QED
  BY <1>1, <1>2 DEF IInv, TypeOK

(* When time passes after the cancellation it waits for the host alone. *)
LEMMA OnlyHostCallsLeft ==
  ASSUME IInv, Idle, cancelled
  PROVE  /\ \/ loop \in {"list", "start"} /\ timer > 0
            \/ loop = "run" /\ \E c \in Creds : worker[c] \in HostCalls
         /\ \A c \in Creds : worker[c] \in {"none", "listed"} \cup HostCalls
<1>1. holder = Off /\ Queued = {}
  BY DEF IInv, TypeOK, Idle, Ended, Queued
<1>2. AtMutex = {}
  BY <1>1 DEF Idle, AtMutex
<1>3. \A c \in Creds : worker[c] # "slot"
  BY DEF Idle, GivesUp
<1>4. \A c \in Creds : worker[c] \in {"none", "listed"} \cup HostCalls
  BY <1>2, <1>3 DEF IInv, TypeOK, AtMutex
<1>5. loop = "run" /\ ~ChecksDone => \E c \in Creds : worker[c] \in HostCalls
  BY <1>4 DEF IInv, LoopOK, ChecksDone
<1> QED
  BY <1>4, <1>5 DEF Idle

(* A check that moves on has paid for its host call. *)
LEMMA CheckMoves ==
  ASSUME IInv, TypeOK', UNCHANGED <<late, cancelled, loop, timer>>, NEW c \in Creds,
         \A b \in Creds \ {c} : worker'[b] = worker[b] /\ spent'[b] = spent[b],
         worker'[c] # "none" =>
           worker[c] # "none" /\ Before(worker[c]) + Called(c) <= Before(worker'[c])
  PROVE  StopOK'
<1>1. \A b \in Creds \ {c} : Called(b)' = Called(b)
  BY DEF Called
<1>2. Called(c)' \in Nat
  BY DEF TypeOK, Called
<1>3. ASSUME worker'[c] # "none" PROVE late' <= Before(worker'[c]) + Called(c)'
  <2>1. late <= Before(worker[c]) + Called(c) /\ Before(worker[c]) + Called(c) <= Before(worker'[c])
    BY <1>3 DEF IInv, StopOK
  <2>2. /\ Before(worker[c]) \in Nat /\ Before(worker'[c]) \in Nat
        /\ late \in Nat /\ Called(c) \in Nat
    BY Bounds
  <2> QED
    BY <1>2, <2>1, <2>2
<1>4. ASSUME NEW b \in Creds, worker'[b] # "none" PROVE late' <= Before(worker[b])' + Called(b)'
  <2>1. CASE b = c
    BY <1>3, <1>4, <2>1 DEF Before
  <2>2. CASE b # c
    <3>1. worker'[b] = worker[b] /\ Called(b)' = Called(b) /\ late' = late
      BY <1>1, <2>2
    <3>2. Before(worker[b])' = Before(worker[b])
      BY <3>1 DEF Before
    <3> QED
      BY <1>4, <3>1, <3>2 DEF IInv, StopOK
  <2> QED
    BY <2>1, <2>2
<1> QED
  BY <1>4 DEF IInv, StopOK, StopWaitsForHostCalls

LEMMA StopStep == IInv /\ TypeOK' /\ [Next]_vars => StopOK'
<1> SUFFICES ASSUME IInv, TypeOK', [Next]_vars PROVE StopOK'
  OBVIOUS
<1>0. /\ \A place : Before(place) \in Nat
      /\ \A c \in Creds : /\ Called(c) \in Nat /\ CallTime(c) \in Nat
                         /\ Called(c) <= CallTime(c)
      /\ late \in Nat /\ timer \in Nat
  BY Bounds
<1>1. ASSUME NEW listed \in SUBSET Creds, List(listed) PROVE StopOK'
  <2>1. /\ late <= ListTime /\ late' = late /\ (late > 0 => cancelled')
        /\ loop' = "start" /\ timer' = LogTime
    BY <1>0, <1>1 DEF List, IInv, StopOK
  <2>2. ASSUME NEW c \in Creds, worker'[c] # "none" PROVE late' <= Before(worker[c])' + Called(c)'
    <3>1. worker'[c] = "listed"
      BY <1>1, <2>2 DEF List
    <3>2. Before(worker[c])' = ListTime + LogTime /\ Called(c)' = 0
      BY <3>1 DEF Before, Called, HostCalls
    <3> QED
      BY <1>0, <2>1, <3>2
  <2> QED
    BY <1>0, <2>1, <2>2 DEF StopOK, StopWaitsForHostCalls
<1>2. ASSUME NEW c \in Creds, CheckStep(c) PROVE StopOK'
  <2>1. UNCHANGED <<late, cancelled, loop, timer>>
    BY <1>2, ChecksInRun DEF CheckStep, Launch, TakeSlot, LeaveSlots, GetReturns, Lock,
                             EndTurn, LogReturns
  <2>0. DOMAIN worker = Creds /\ DOMAIN spent = Creds
    BY DEF IInv, TypeOK
  <2>2. \A b \in Creds \ {c} : worker'[b] = worker[b] /\ spent'[b] = spent[b]
    <3>1. CASE Launch(c) \/ TakeSlot(c) \/ LeaveSlots(c) \/ Lock(c)
      BY <2>0, <3>1 DEF Launch, TakeSlot, LeaveSlots, Lock
    <3>2. CASE GetReturns(c) \/ EndTurn(c) \/ LogReturns(c)
      BY <2>0, <3>2 DEF GetReturns, EndTurn, LogReturns
    <3> QED
      BY <1>2, <3>1, <3>2 DEF CheckStep
  <2>3. CASE Lock(c)
    <3>1. UNCHANGED <<worker, spent>>
      BY <2>3 DEF Lock
    <3> QED
      BY <2>1, <3>1 DEF IInv, StopOK, StopWaitsForHostCalls, Before, Called
  <2>4. CASE ~Lock(c)
    <3>1. ASSUME worker'[c] # "none"
          PROVE  /\ worker[c] # "none"
                 /\ Before(worker[c]) + Called(c) <= Before(worker'[c])
      <4>1. CASE Launch(c)
        <5>1. worker[c] = "listed" /\ worker'[c] = "slot"
          BY <4>1 DEF IInv, TypeOK, Launch
        <5> QED
          BY <5>1 DEF Before, Called, HostCalls
      <4>2. CASE TakeSlot(c)
        <5>1. worker[c] = "slot" /\ worker'[c] \in {"get", "block"}
          BY <4>2 DEF IInv, TypeOK, TakeSlot
        <5> QED
          BY <5>1 DEF Before, Called, HostCalls
      <4>3. CASE LeaveSlots(c)
        BY <3>1, <4>3 DEF IInv, TypeOK, LeaveSlots
      <4>4. CASE GetReturns(c)
        <5>1. worker[c] = "get" /\ worker'[c] \in {"log", "block", "recover"}
          BY <4>4 DEF IInv, TypeOK, GetReturns, AfterGet
        <5>2. Called(c) \in Nat /\ Called(c) <= GetTime
          BY <1>0, <5>1 DEF CallTime
        <5> QED
          BY <5>1, <5>2 DEF Before
      <4>5. CASE EndTurn(c)
        <5>1. /\ worker[c] \in Turns /\ worker'[c] \in AfterTurn(c)
          BY <4>5 DEF IInv, TypeOK, EndTurn, AtMutex
        <5>2. Called(c) = 0
          BY <5>1 DEF Called, Turns, HostCalls
        <5> QED
          BY <3>1, <5>1, <5>2 DEF AfterTurn, Turns, Before
      <4>6. CASE LogReturns(c)
        <5>1. worker[c] = "warn" /\ worker'[c] = "tick"
          BY <3>1, <4>6 DEF IInv, TypeOK, LogReturns
        <5>2. Called(c) \in Nat /\ Called(c) <= LogTime
          BY <1>0, <5>1 DEF CallTime
        <5> QED
          BY <5>1, <5>2 DEF Before
      <4> QED
        BY <1>2, <2>4, <4>1, <4>2, <4>3, <4>4, <4>5, <4>6 DEF CheckStep
    <3> QED
      BY <2>1, <2>2, <3>1, CheckMoves
  <2> QED
    BY <2>3, <2>4
<1>3. ASSUME LockFirst PROVE StopOK'
  BY <1>3 DEF LockFirst, loopVars, IInv, StopOK, StopWaitsForHostCalls, Before, Called
<1>4. ASSUME ListFails \/ Started \/ EndRun \/ End PROVE StopOK'
  <2>1. /\ UNCHANGED <<late, cancelled, worker, spent>>
        /\ loop' \in {"run", "over"} \/ (loop' = "sleep" /\ timer' > 0)
    BY <1>4 DEF ListFails, Started, EndRun, End
  <2> QED
    BY <2>1 DEF IInv, StopOK, StopWaitsForHostCalls, Before, Called
<1>5. ASSUME Wake PROVE StopOK'
  <2>1. late = 0 /\ late' = 0 /\ loop' = "list" /\ timer' = ListTime
    BY <1>0, <1>5 DEF Wake, IInv, StopOK
  <2>2. UNCHANGED <<worker, spent>>
    BY <1>5 DEF Wake
  <2> QED
    BY <2>1, <2>2 DEF IInv, StopOK, StopWaitsForHostCalls, Before, Called
<1>6. ASSUME Cancel PROVE StopOK'
  <2>1. UNCHANGED <<late, loop, timer, worker, spent>> /\ cancelled'
    BY <1>6 DEF Cancel, loopVars
  <2> QED
    BY <2>1 DEF IInv, StopOK, StopWaitsForHostCalls, Before, Called
<1>7. ASSUME Elapse PROVE StopOK'
  <2>1. Idle /\ UNCHANGED <<loop, cancelled, worker>> /\ timer' = Sooner(timer)
    BY <1>7 DEF Elapse
  <2>2. \A c \in Creds : Before(worker[c])' = Before(worker[c])
    BY <2>1 DEF Before
  <2>3. \A c \in Creds : worker[c] \in HostCalls =>
          Called(c)' = Called(c) + 1 /\ Called(c)' <= CallTime(c)
    <3> SUFFICES ASSUME NEW c \in Creds, worker[c] \in HostCalls
                 PROVE  Called(c)' = Called(c) + 1 /\ Called(c)' <= CallTime(c)
      OBVIOUS
    <3>1. Called(c) = spent[c] /\ Called(c)' = spent'[c] /\ spent'[c] = spent[c] + 1
      BY <1>7, <2>1 DEF Elapse, Called
    <3>2. spent[c] < CallTime(c)
      BY <2>1 DEF Idle
    <3> QED
      BY <1>0, <3>1, <3>2
  <2>4. CASE ~cancelled
    <3>1. late = 0 /\ late' = 0
      BY <1>0, <1>7, <2>4 DEF IInv, StopOK, Elapse
    <3>2. \A c \in Creds : Called(c)' \in Nat
      BY DEF TypeOK, Called
    <3>3. timer' \in Nat /\ timer' <= timer
      BY <1>0, <2>1 DEF Sooner
    <3>4. \A c \in Creds : late' <= Before(worker[c])' + Called(c)'
      BY <1>0, <2>2, <3>1, <3>2
    <3> QED
      BY <1>0, <2>1, <3>1, <3>3, <3>4 DEF IInv, StopOK, StopWaitsForHostCalls
  <2>5. CASE cancelled
    <3>1. late' = late + 1 /\ cancelled'
      BY <1>7, <2>1, <2>5 DEF Elapse
    <3>2. /\ \/ loop \in {"list", "start"} /\ timer > 0
             \/ loop = "run" /\ \E c \in Creds : worker[c] \in HostCalls
          /\ \A c \in Creds : worker[c] \in {"none", "listed"} \cup HostCalls
      BY <2>1, <2>5, OnlyHostCallsLeft
    <3>3. timer > 0 => timer' = timer - 1
      BY <2>1 DEF Sooner
    <3>4. ASSUME NEW c \in Creds, worker[c] \in HostCalls
          PROVE  /\ late' <= Before(worker[c])' + Called(c)'
                 /\ late' <= ListTime + LogTime + GetTime + 2 * LogTime
      <4>1. late <= Before(worker[c]) + Called(c)
        BY <3>4 DEF IInv, StopOK, HostCalls
      <4>2. late' <= Before(worker[c]) + Called(c)' /\ Called(c)' <= CallTime(c) /\ Called(c)' \in Nat
        BY <1>0, <2>3, <3>1, <3>4, <4>1
      <4>3. Before(worker[c]) + CallTime(c) <= ListTime + LogTime + GetTime + 2 * LogTime
        BY <3>4 DEF HostCalls, Before, CallTime
      <4>4. late' <= ListTime + LogTime + GetTime + 2 * LogTime
        BY <1>0, <3>1, <4>2, <4>3
      <4> QED
        BY <2>2, <4>2, <4>4
    <3>5. ASSUME NEW c \in Creds, worker[c] = "listed"
          PROVE  late' <= Before(worker[c])' + Called(c)'
      <4>1. loop = "start" /\ timer > 0
        BY <3>2, <3>5 DEF IInv, LoopOK
      <4>2. late + timer <= ListTime + LogTime
        BY <4>1 DEF IInv, StopOK
      <4>3. Before(worker[c])' = ListTime + LogTime /\ Called(c)' = 0
        BY <2>1, <3>5 DEF Before, Called, HostCalls
      <4> QED
        BY <1>0, <3>1, <4>1, <4>2, <4>3
    <3>6. \A c \in Creds : worker'[c] # "none" => late' <= Before(worker[c])' + Called(c)'
      BY <2>1, <3>2, <3>4, <3>5
    <3>7. /\ loop = "list" => late' + timer' <= ListTime
          /\ loop = "start" => late' + timer' <= ListTime + LogTime
      BY <1>0, <3>1, <3>2, <3>3 DEF IInv, StopOK
    <3>8. loop \in {"list", "start"} => late' <= ListTime + LogTime
      BY <1>0, <3>1, <3>2, <3>3, <3>7
    <3>9. late' <= ListTime + LogTime + GetTime + 2 * LogTime
      BY <1>0, <3>1, <3>2, <3>4, <3>8
    <3> QED
      BY <2>1, <3>1, <3>2, <3>6, <3>7, <3>9 DEF StopOK, StopWaitsForHostCalls
  <2> QED
    BY <2>4, <2>5
<1>8. CASE UNCHANGED vars
  BY <1>8 DEF vars, loopVars, IInv, StopOK, StopWaitsForHostCalls, Before, Called
<1> QED
  BY <1>1, <1>2, <1>3, <1>4, <1>5, <1>6, <1>7, <1>8 DEF Next, Run, CheckStep

-----------------------------------------------------------------------------

(* runtime.go:57-74, 114-184: the inductive invariant of the loop. *)
THEOREM SchedulerInvariant == Spec => []IInv
<1>1. IInv /\ [Next]_vars => IInv'
  BY TypeStep, LoopStep, SpentStep, StopStep DEF IInv
<1> QED
  BY InitOK, <1>1, PTL DEF Spec

(* runtime.go:120-144: types, slots and the queue on Controller.mu. *)
THEOREM SchedulerTypes == Spec => []TypeOK
<1>1. IInv => TypeOK
  BY DEF IInv
<1> QED
  BY <1>1, SchedulerInvariant, PTL

(* runtime.go:77-95: no deadline in the store is slept through, however    *)
(* many credentials there are.                                             *)
THEOREM WakesInTime == Spec => []NoDeadlineSleptThrough
<1>1. IInv => NoDeadlineSleptThrough
  BY DEF IInv, LoopOK
<1> QED
  BY <1>1, SchedulerInvariant, PTL

(* runtime.go:96-113: Stop waits for a list, one get and the logging       *)
(* around them, whatever the number of credentials and slots, the turns    *)
(* and the request timeout.                                                *)
THEOREM StopIsBounded == Spec => []StopWaitsForHostCalls
<1>1. IInv => StopWaitsForHostCalls
  BY DEF IInv, StopOK
<1> QED
  BY <1>1, SchedulerInvariant, PTL

-----------------------------------------------------------------------------
(***************************************************************************)
(* The sizing rule of the request timeout, for any number of credentials,  *)
(* slots and any longest turn: a check that queues for Controller.mu       *)
(* always has time left for all that may still come before its end.        *)
(***************************************************************************)

(* The longest wait for the mutex and the turn after it. *)
OneTurn == (2 * MaxConcurrency - 1) * turnTime

(* What may still follow the present turn of check c. *)
AfterThisTurn(c) == IF worker[c] = "recover" THEN LogTime + OneTurn ELSE 0

(* What may be left of the turn in progress, and the turn in which the     *)
(* first of the queue can no longer be overtaken.                          *)
InProgress == IF holder = Off THEN 0 ELSE turnTime - spent[holder]
Overtakes == IF overtaken THEN turnTime ELSE 0

NewAtMutex(c) == c \in AtMutex \ (Queued \cup {holder})

(* The turns of i checks, each of which is overtaken once. *)
Rounds(i) == i * (2 * turnTime)

(* What is left of a host call, and what may follow it. *)
CallFits(c) ==
  /\ worker[c] = "get" => left[c] > GetTime - spent[c] + LogTime + 2 * OneTurn
  /\ worker[c] = "warn" => left[c] > LogTime - spent[c] + OneTurn

(* Each check that waits has one turn of its own before it for everyone    *)
(* before it in the queue and one for each overtaking.                     *)
Budget ==
  /\ \A c \in Creds : CallFits(c)
  /\ \A c \in Creds : NewAtMutex(c) => left[c] > OneTurn + AfterThisTurn(c)
  /\ holder # Off => left[holder] > InProgress + AfterThisTurn(holder)
  /\ \A i \in DOMAIN queue :
       left[queue[i]] > InProgress - Overtakes + Rounds(i) + AfterThisTurn(queue[i])

BudgetOK == LongestRequest < RequestTimeout => Budget

-----------------------------------------------------------------------------
(* Arithmetic                                                              *)

LEMMA Times == ASSUME NEW i \in Nat, NEW t \in Nat PROVE i * (2 * t) \in Nat
OBVIOUS

LEMMA TimesMonotone ==
  ASSUME NEW i \in Nat, NEW j \in Nat, NEW t \in Nat, i <= j
  PROVE  i * (2 * t) <= j * (2 * t)
<1> DEFINE d == j - i
<1>1. d \in Nat /\ j * (2 * t) = i * (2 * t) + d * (2 * t) /\ d * (2 * t) \in Nat
  OBVIOUS
<1>2. i * (2 * t) \in Nat
  OBVIOUS
<1> QED
  BY <1>1, <1>2

LEMMA Units ==
  ASSUME TypeOK
  PROVE  /\ turnTime \in Nat /\ OneTurn \in Nat
         /\ LongestRequest = GetTime + LogTime + 2 * OneTurn
         /\ Rounds(MaxConcurrency) = OneTurn + turnTime
         /\ \A i \in Nat : Rounds(i) \in Nat /\ Rounds(i + 1) = Rounds(i) + 2 * turnTime
         /\ Rounds(1) = 2 * turnTime
         /\ \A i, j \in Nat : i <= j => Rounds(i) <= Rounds(j)
<1>1. turnTime \in Nat /\ MaxConcurrency \in Nat \ {0} /\ GetTime \in Nat /\ LogTime \in Nat
  BY DEF TypeOK
<1>2. OneTurn \in Nat
  BY <1>1 DEF OneTurn
<1>3. LongestRequest = GetTime + LogTime + 2 * OneTurn
  BY <1>1 DEF LongestRequest, OneTurn
<1>4. Rounds(MaxConcurrency) = OneTurn + turnTime
  BY <1>1 DEF Rounds, OneTurn
<1>5. \A i \in Nat : Rounds(i) \in Nat /\ Rounds(i + 1) = Rounds(i) + 2 * turnTime
  BY <1>1, Times DEF Rounds
<1>6. Rounds(1) = 2 * turnTime
  BY <1>1 DEF Rounds
<1>7. \A i, j \in Nat : i <= j => Rounds(i) <= Rounds(j)
  BY <1>1, TimesMonotone DEF Rounds
<1> QED
  BY <1>1, <1>2, <1>3, <1>4, <1>5, <1>6, <1>7

-----------------------------------------------------------------------------
(* The queue is no longer than the slots                                   *)

LEMMA QueueLength ==
  ASSUME TypeOK
  PROVE  IsFiniteSet(Queued) /\ Cardinality(Queued) = Len(queue) /\ Len(queue) \in Nat
<1>1. DOMAIN queue = 1..Len(queue) /\ Len(queue) \in Nat
  BY DEF TypeOK
<1>2. queue \in [1..Len(queue) -> Queued]
  BY <1>1 DEF TypeOK, Queued
<1>3. queue \in Bijection(1..Len(queue), Queued)
  <2>1. queue \in Injection(1..Len(queue), Queued)
    BY <1>1, <1>2 DEF TypeOK, Injection, IsInjective
  <2>2. queue \in Surjection(1..Len(queue), Queued)
    BY <1>1, <1>2 DEF Queued, Surjection
  <2> QED
    BY <2>1, <2>2 DEF Bijection
<1>4. Queued \subseteq InSlot
  BY DEF TypeOK, AtMutex, InSlot, Turns
<1>5. IsFiniteSet(Queued)
  BY <1>4, SlotsFinite, FS_Subset
<1>6. ExistsBijection(1..Len(queue), Queued)
  BY <1>3 DEF ExistsBijection
<1> QED
  BY <1>1, <1>5, <1>6, FS_CountingElements

LEMMA SubsetFits ==
  ASSUME TypeOK, NEW S, S \subseteq InSlot
  PROVE  Cardinality(S) <= MaxConcurrency
<1>1. IsFiniteSet(InSlot) /\ Cardinality(InSlot) \in Nat /\ Cardinality(InSlot) <= MaxConcurrency
  BY SlotsFinite, FS_CardinalityType DEF TypeOK
<1>2. IsFiniteSet(S) /\ Cardinality(S) <= Cardinality(InSlot)
  BY <1>1, FS_Subset
<1>3. Cardinality(S) \in Nat
  BY <1>2, FS_CardinalityType
<1> QED
  BY <1>1, <1>2, <1>3

(* Room for the check that comes to the mutex beside those at it. *)
LEMMA QueueFits ==
  ASSUME TypeOK, NEW c \in Creds, NewAtMutex(c)
  PROVE  /\ Len(queue) + 1 <= MaxConcurrency
         /\ holder # Off => Len(queue) + 2 <= MaxConcurrency
<1>1. IsFiniteSet(Queued) /\ Cardinality(Queued) = Len(queue) /\ Len(queue) \in Nat
  BY QueueLength
<1>2. /\ IsFiniteSet(Queued \cup {c})
      /\ Cardinality(Queued \cup {c}) = Len(queue) + 1
  <2>1. c \notin Queued
    BY DEF NewAtMutex
  <2> QED
    BY <1>1, <2>1, FS_AddElement
<1>3. Queued \cup {c} \subseteq InSlot
  <2>1. AtMutex \subseteq InSlot
    BY DEF AtMutex, InSlot, Turns
  <2> QED
    BY <2>1 DEF TypeOK, NewAtMutex
<1>4. Len(queue) + 1 <= MaxConcurrency
  BY <1>2, <1>3, SubsetFits
<1>5. ASSUME holder # Off PROVE Len(queue) + 2 <= MaxConcurrency
  <2>1. holder \notin Queued \cup {c}
    BY DEF TypeOK, NewAtMutex
  <2>2. Cardinality((Queued \cup {c}) \cup {holder}) = Len(queue) + 1 + 1
    BY <1>2, <2>1, FS_AddElement
  <2>3. (Queued \cup {c}) \cup {holder} \subseteq InSlot
    BY <1>3, <1>5 DEF TypeOK, AtMutex, InSlot, Turns
  <2>4. Cardinality((Queued \cup {c}) \cup {holder}) <= MaxConcurrency
    BY <2>3, SubsetFits
  <2> QED
    BY <1>1, <2>2, <2>4
<1> QED
  BY <1>4, <1>5

-----------------------------------------------------------------------------
(* The budget                                                              *)

LEMMA SameUnits ==
  ASSUME turnTime' = turnTime
  PROVE  /\ OneTurn' = OneTurn /\ LongestRequest' = LongestRequest
         /\ \A i : Rounds(i)' = Rounds(i)
BY DEF OneTurn, LongestRequest, Rounds

(* A check away from the mutex changes only its own budget. *)
LEMMA OthersKeep ==
  ASSUME IInv, Budget, NEW c \in Creds,
         UNCHANGED <<holder, queue, overtaken, turnTime>>, c # holder, c \notin Queued,
         \A b \in Creds \ {c} : worker'[b] = worker[b] /\ left'[b] = left[b] /\ spent'[b] = spent[b],
         worker'[c] = "get" => left'[c] > GetTime - spent'[c] + LogTime + 2 * OneTurn,
         worker'[c] = "warn" => left'[c] > LogTime - spent'[c] + OneTurn,
         worker'[c] \in Turns => left'[c] > OneTurn + (IF worker'[c] = "recover" THEN LogTime + OneTurn ELSE 0)
  PROVE  Budget'
<1>1. OneTurn' = OneTurn /\ \A i : Rounds(i)' = Rounds(i)
  BY SameUnits
<1>2. Overtakes' = Overtakes /\ Queued' = Queued /\ Queued \subseteq Creds \ {c}
  BY DEF Overtakes, Queued, IInv, TypeOK, AtMutex
<1>3. holder # Off => holder \in Creds \ {c}
  BY DEF IInv, TypeOK, AtMutex
<1>4. InProgress' = InProgress
  BY <1>3 DEF InProgress
<1>5. \A b \in Creds \ {c} : AfterThisTurn(b)' = AfterThisTurn(b) /\ NewAtMutex(b)' = NewAtMutex(b)
  BY <1>1, <1>2 DEF AfterThisTurn, NewAtMutex, AtMutex
<1>6. \A b \in Creds : CallFits(b)'
  BY <1>1 DEF Budget, CallFits
<1>7. \A b \in Creds : NewAtMutex(b)' => left'[b] > OneTurn' + AfterThisTurn(b)'
  <2>1. NewAtMutex(c)' => left'[c] > OneTurn' + AfterThisTurn(c)'
    BY <1>1 DEF NewAtMutex, AtMutex, AfterThisTurn
  <2> QED
    BY <1>1, <1>5, <2>1 DEF Budget
<1>8. holder' # Off => left'[holder'] > InProgress' + AfterThisTurn(holder)'
  <2>1. holder # Off => AfterThisTurn(holder)' = AfterThisTurn(holder)
    BY <1>1, <1>3 DEF AfterThisTurn
  <2> QED
    BY <1>3, <1>4, <2>1 DEF Budget
<1>9. \A i \in DOMAIN queue' :
        left'[queue'[i]] > InProgress' - Overtakes' + Rounds(i)' + AfterThisTurn(queue[i])'
  <2>1. \A i \in DOMAIN queue : queue[i] \in Creds \ {c}
    BY <1>2 DEF Queued
  <2>2. \A i \in DOMAIN queue : AfterThisTurn(queue[i])' = AfterThisTurn(queue[i])
    BY <1>1, <2>1 DEF AfterThisTurn
  <2> QED
    BY <1>1, <1>2, <1>4, <2>1, <2>2 DEF Budget
<1> QED
  BY <1>6, <1>7, <1>8, <1>9 DEF Budget

LEMMA InProgressBound ==
  ASSUME IInv
  PROVE  /\ InProgress \in Nat /\ InProgress <= turnTime
         /\ Overtakes \in Nat /\ (overtaken => Overtakes = turnTime)
<1>1. turnTime \in Nat
  BY DEF IInv, TypeOK
<1>2. CASE holder = Off
  BY <1>1, <1>2 DEF InProgress, Overtakes
<1>3. CASE holder # Off
  <2>1. spent[holder] \in Nat /\ spent[holder] <= turnTime
    BY <1>3 DEF IInv, TypeOK, AtMutex, SpentOK
  <2>2. InProgress = turnTime - spent[holder]
    BY <1>3 DEF InProgress
  <2> QED
    BY <1>1, <2>1, <2>2 DEF Overtakes
<1> QED
  BY <1>2, <1>3

(* The mutex goes to one who comes, before the queue, or he queues. *)
LEMMA LockBudget ==
  ASSUME IInv, TypeOK', Budget, NEW c \in Creds, Lock(c)
  PROVE  Budget'
<1>0. /\ turnTime \in Nat /\ OneTurn \in Nat
      /\ Rounds(MaxConcurrency) = OneTurn + turnTime
      /\ \A i \in Nat : Rounds(i) \in Nat /\ Rounds(i + 1) = Rounds(i) + 2 * turnTime
      /\ Rounds(1) = 2 * turnTime
      /\ \A i, j \in Nat : i <= j => Rounds(i) <= Rounds(j)
  BY Units DEF IInv
<1>1. /\ UNCHANGED <<worker, left, spent, turnTime>>
      /\ worker[c] \in Turns /\ c # holder /\ c \notin Queued /\ NewAtMutex(c) /\ spent[c] = 0
  BY DEF IInv, Lock, AtMutex, NewAtMutex, SpentOK, Turns, HostCalls
<1>2. OneTurn' = OneTurn /\ \A i : Rounds(i)' = Rounds(i)
  BY <1>1, SameUnits
<1>3. AtMutex' = AtMutex /\ \A b \in Creds : AfterThisTurn(b)' = AfterThisTurn(b)
  BY <1>1, <1>2 DEF AtMutex, AfterThisTurn
<1>4. /\ \A b \in Creds : left[b] \in Nat
      /\ \A b \in Creds : AfterThisTurn(b) \in Nat
      /\ \A i \in DOMAIN queue : queue[i] \in Creds /\ i \in Nat
  <2>1. \A b \in Creds : left[b] \in Nat
    BY DEF IInv, TypeOK
  <2>2. \A b \in Creds : AfterThisTurn(b) \in Nat
    BY <1>0 DEF AfterThisTurn
  <2>3. queue \in Seq(Creds)
    BY DEF IInv, TypeOK
  <2>4. \A i \in DOMAIN queue : queue[i] \in Creds /\ i \in Nat
    BY <2>3
  <2> QED
    BY <2>1, <2>2, <2>4
<1>5. left[c] > OneTurn + AfterThisTurn(c)
  BY <1>1 DEF Budget
<1>6. OneTurn >= turnTime
  <2>1. 1 <= MaxConcurrency /\ MaxConcurrency \in Nat
    OBVIOUS
  <2> QED
    BY <1>0, <2>1
<1>7. \A b \in Creds : CallFits(b)'
  BY <1>1, <1>2 DEF Budget, CallFits
<1>8. CASE holder = Off /\ ~overtaken
  <2>1. holder' = c /\ queue' = queue /\ overtaken' = (queue # <<>>) /\ c # Off
    BY <1>8 DEF Lock
  <2>2. InProgress = 0 /\ InProgress' = turnTime /\ Overtakes = 0
    <3>1. holder' # Off /\ spent'[holder'] = 0 /\ turnTime' = turnTime
      BY <1>1, <2>1
    <3>2. InProgress' = turnTime
      BY <1>0, <3>1 DEF InProgress
    <3> QED
      BY <1>8, <3>2 DEF InProgress, Overtakes
  <2>3. \A b \in Creds : NewAtMutex(b)' => left'[b] > OneTurn' + AfterThisTurn(b)'
    <3>1. \A b \in Creds : NewAtMutex(b)' => NewAtMutex(b)
      BY <1>3, <1>8, <2>1 DEF NewAtMutex, Queued, AtMutex
    <3> QED
      BY <1>1, <1>2, <1>3, <3>1 DEF Budget
  <2>4. left'[holder'] > InProgress' + AfterThisTurn(holder)'
    <3>1. AfterThisTurn(holder)' = AfterThisTurn(c)
      BY <1>1, <1>2, <2>1 DEF AfterThisTurn
    <3>2. left'[holder'] = left[c] /\ AfterThisTurn(c) \in Nat /\ left[c] \in Nat
      BY <1>1, <1>4, <2>1
    <3>3. left[c] > turnTime + AfterThisTurn(c)
      <4>1. turnTime \in Nat /\ OneTurn \in Nat
        BY <1>0
      <4> QED
        BY <1>5, <1>6, <3>2, <4>1
    <3> QED
      BY <2>2, <3>1, <3>2, <3>3
  <2>5. \A i \in DOMAIN queue' :
          left'[queue'[i]] > InProgress' - Overtakes' + Rounds(i)' + AfterThisTurn(queue[i])'
    <3> SUFFICES ASSUME NEW i \in DOMAIN queue
                 PROVE  left[queue[i]] > InProgress' - Overtakes' + Rounds(i) + AfterThisTurn(queue[i])'
      BY <1>1, <1>2, <2>1
    <3>1. Overtakes' = turnTime
      <4>1. queue # <<>>
        BY DEF IInv, TypeOK
      <4>2. overtaken' = TRUE
        BY <2>1, <4>1
      <4> QED
        BY <1>1, <4>2 DEF Overtakes
    <3>2. AfterThisTurn(queue[i])' = AfterThisTurn(queue[i])
      BY <1>1, <1>2, <2>1 DEF AfterThisTurn
    <3>3. left[queue[i]] > InProgress - Overtakes + Rounds(i) + AfterThisTurn(queue[i])
      BY DEF Budget
    <3> QED
      BY <1>0, <1>4, <2>2, <3>1, <3>2, <3>3
  <2> QED
    BY <1>7, <2>3, <2>4, <2>5 DEF Budget
<1>9. CASE ~(holder = Off /\ ~overtaken)
  <2>1. holder' = holder /\ queue' = Append(queue, c) /\ overtaken' = overtaken
    BY <1>9 DEF Lock
  <2>2. InProgress' = InProgress /\ Overtakes' = Overtakes
    BY <1>1, <2>1 DEF InProgress, Overtakes
  <2>0. /\ Len(queue) \in Nat /\ DOMAIN queue = 1..Len(queue)
        /\ DOMAIN queue' = 1..Len(queue) + 1 /\ queue'[Len(queue) + 1] = c
        /\ \A i \in DOMAIN queue : queue'[i] = queue[i]
    <3>1. queue \in Seq(Creds)
      BY DEF IInv, TypeOK
    <3> QED
      BY <2>1, <3>1
  <2>3. \A b \in Creds : NewAtMutex(b)' => left'[b] > OneTurn' + AfterThisTurn(b)'
    <3>1. Queued \subseteq Queued'
      BY <2>0 DEF Queued
    <3>2. \A b \in Creds : NewAtMutex(b)' => NewAtMutex(b)
      BY <1>3, <2>1, <3>1 DEF NewAtMutex
    <3> QED
      BY <1>1, <1>2, <1>3, <3>2 DEF Budget
  <2>4. holder' # Off => left'[holder'] > InProgress' + AfterThisTurn(holder)'
    <3>1. AfterThisTurn(holder)' = AfterThisTurn(holder)
      BY <1>1, <1>2, <2>1 DEF AfterThisTurn
    <3> QED
      BY <1>1, <2>1, <2>2, <3>1 DEF Budget
  <2>5. ASSUME NEW i \in DOMAIN queue'
        PROVE  left'[queue'[i]] > InProgress' - Overtakes' + Rounds(i)' + AfterThisTurn(queue[i])'
    <3>0. AfterThisTurn(queue[i])' = (IF worker[queue'[i]] = "recover" THEN LogTime + OneTurn ELSE 0)
      BY <1>1, <1>2 DEF AfterThisTurn
    <3>1. CASE i \in DOMAIN queue
      <4>1. queue'[i] = queue[i]
        BY <2>0, <3>1
      <4> QED
        BY <1>1, <1>2, <2>2, <3>0, <3>1, <4>1 DEF Budget, AfterThisTurn
    <3>2. CASE i \notin DOMAIN queue
      <4>1. i = Len(queue) + 1 /\ queue'[i] = c /\ Len(queue) \in Nat
        BY <2>0, <3>2
      <4>2. /\ Len(queue) + 1 <= MaxConcurrency
            /\ holder # Off => Len(queue) + 2 <= MaxConcurrency
        BY <1>1, QueueFits DEF IInv
      <4>3. /\ InProgress \in Nat /\ InProgress <= turnTime
            /\ Overtakes \in Nat /\ (overtaken => Overtakes = turnTime)
        BY InProgressBound
      <4>4. i \in Nat /\ Rounds(i) \in Nat
        BY <1>0, <4>1
      <4>5. InProgress - Overtakes + Rounds(i) <= OneTurn
        <5>2. CASE holder = Off
          <6>1. Rounds(i) <= Rounds(MaxConcurrency)
            BY <1>0, <4>1, <4>2, <4>4
          <6>2. InProgress = 0 /\ Overtakes = turnTime
            BY <1>9, <4>3, <5>2 DEF InProgress
          <6> QED
            BY <1>0, <4>4, <6>1, <6>2
        <5>3. CASE holder # Off
          <6>1. i + 1 \in Nat /\ i + 1 <= MaxConcurrency
            BY <4>1, <4>2, <5>3
          <6>2. Rounds(i + 1) <= Rounds(MaxConcurrency) /\ Rounds(i + 1) = Rounds(i) + 2 * turnTime
            BY <1>0, <4>4, <6>1
          <6> QED
            BY <1>0, <4>3, <4>4, <6>2
        <5> QED
          BY <5>2, <5>3
      <4>6. left'[queue'[i]] = left[c] /\ AfterThisTurn(queue[i])' = AfterThisTurn(c)
        BY <1>1, <3>0, <4>1 DEF AfterThisTurn
      <4>7. left[c] \in Nat /\ AfterThisTurn(c) \in Nat
        BY <1>4
      <4>8. left[c] > InProgress - Overtakes + Rounds(i) + AfterThisTurn(c)
        <5>1. turnTime \in Nat /\ OneTurn \in Nat
          BY <1>0
        <5> QED
          BY <1>5, <4>3, <4>4, <4>5, <4>7, <5>1
      <4> QED
        BY <1>2, <2>2, <4>6, <4>8
    <3> QED
      BY <3>1, <3>2
  <2> QED
    BY <1>7, <2>3, <2>4, <2>5 DEF Budget
<1> QED
  BY <1>8, <1>9

(* The first of the queue takes the free mutex. *)
LEMMA LockFirstBudget ==
  ASSUME IInv, TypeOK', Budget, LockFirst
  PROVE  Budget'
<1>0. /\ turnTime \in Nat
      /\ \A i \in Nat : Rounds(i) \in Nat /\ Rounds(i + 1) = Rounds(i) + 2 * turnTime
      /\ Rounds(1) = 2 * turnTime
  BY Units DEF IInv
<1>1. /\ UNCHANGED <<worker, left, spent, turnTime>> /\ holder = Off
      /\ holder' = Head(queue) /\ queue' = Tail(queue) /\ queue # <<>> /\ overtaken' = FALSE
  BY DEF LockFirst
<1>2. OneTurn' = OneTurn /\ \A i : Rounds(i)' = Rounds(i)
  BY <1>1, SameUnits
<1>3. /\ 1 \in DOMAIN queue /\ holder' = queue[1] /\ queue[1] \in Creds
      /\ \A i \in DOMAIN queue' : /\ i \in Nat /\ i + 1 \in DOMAIN queue
                                 /\ queue'[i] = queue[i + 1] /\ queue[i + 1] \in Creds
      /\ \A i \in DOMAIN queue : i = 1 \/ i - 1 \in DOMAIN queue'
  <2>1. queue \in Seq(Creds)
    BY DEF IInv, TypeOK
  <2> QED
    BY <1>1, <2>1
<1>4. AtMutex' = AtMutex /\ \A b \in Creds : AfterThisTurn(b)' = AfterThisTurn(b)
  BY <1>1, <1>2 DEF AtMutex, AfterThisTurn
<1>5. /\ InProgress = 0 /\ Overtakes \in Nat /\ Overtakes <= turnTime /\ Overtakes' = 0
  BY <1>0, <1>1 DEF InProgress, Overtakes
<1>6. InProgress' = turnTime
  <2>1. worker[queue[1]] \notin HostCalls /\ queue[1] # holder /\ queue[1] # Off
    BY <1>1, <1>3 DEF IInv, TypeOK, Queued, AtMutex, Turns, HostCalls
  <2>2. spent[queue[1]] = 0
    BY <1>3, <2>1 DEF IInv, SpentOK
  <2>3. holder' # Off /\ spent'[holder'] = 0 /\ turnTime' = turnTime
    BY <1>1, <1>3, <2>1, <2>2
  <2> QED
    BY <1>0, <2>3 DEF InProgress
<1>7. \A b \in Creds : left[b] \in Nat /\ AfterThisTurn(b) \in Nat
  <2>1. OneTurn \in Nat
    BY Units DEF IInv
  <2> QED
    BY <2>1 DEF IInv, TypeOK, AfterThisTurn
<1>8. \A b \in Creds : CallFits(b)'
  BY <1>1, <1>2 DEF Budget, CallFits
<1>9. \A b \in Creds : NewAtMutex(b)' => left'[b] > OneTurn' + AfterThisTurn(b)'
  <2>1. \A b \in Creds : b \in Queued => b = queue[1] \/ b \in Queued'
    <3> SUFFICES ASSUME NEW i \in DOMAIN queue
                 PROVE  queue[i] = queue[1] \/ queue[i] \in Queued'
      BY DEF Queued
    <3>1. CASE i = 1
      BY <3>1
    <3>2. CASE i # 1
      <4>1. i - 1 \in DOMAIN queue'
        BY <1>3, <3>2
      <4>2. i - 1 \in Nat /\ (i - 1) + 1 = i
        <5>1. queue \in Seq(Creds)
          BY DEF IInv, TypeOK
        <5>2. i \in Nat
          BY <5>1
        <5> QED
          BY <1>3, <4>1, <5>2
      <4>3. queue'[i - 1] = queue[i]
        BY <1>3, <4>1, <4>2
      <4> QED
        BY <4>1, <4>3 DEF Queued
    <3> QED
      BY <3>1, <3>2
  <2>2. \A b \in Creds : NewAtMutex(b)' => NewAtMutex(b)
    BY <1>1, <1>3, <1>4, <2>1 DEF NewAtMutex, AtMutex
  <2> QED
    BY <1>1, <1>2, <1>4, <2>2 DEF Budget
<1>10. left'[holder'] > InProgress' + AfterThisTurn(holder)'
  <2>1. left[queue[1]] > InProgress - Overtakes + Rounds(1) + AfterThisTurn(queue[1])
    BY <1>3 DEF Budget
  <2>2. left[queue[1]] > turnTime + AfterThisTurn(queue[1])
    <3>1. /\ turnTime \in Nat /\ Rounds(1) = 2 * turnTime /\ left[queue[1]] \in Nat
          /\ AfterThisTurn(queue[1]) \in Nat
      BY <1>0, <1>3, <1>7
    <3> QED
      BY <1>5, <2>1, <3>1
  <2>3. AfterThisTurn(holder)' = AfterThisTurn(queue[1])
    BY <1>1, <1>2, <1>3 DEF AfterThisTurn
  <2> QED
    BY <1>1, <1>3, <1>6, <2>2, <2>3
<1>11. ASSUME NEW i \in DOMAIN queue'
       PROVE  left'[queue'[i]] > InProgress' - Overtakes' + Rounds(i)' + AfterThisTurn(queue[i])'
  <2>1. left[queue[i + 1]] > InProgress - Overtakes + Rounds(i + 1) + AfterThisTurn(queue[i + 1])
    BY <1>3 DEF Budget
  <2>2. Rounds(i) \in Nat /\ Rounds(i + 1) = Rounds(i) + 2 * turnTime
    BY <1>0, <1>3
  <2>3. left[queue[i + 1]] \in Nat /\ AfterThisTurn(queue[i + 1]) \in Nat /\ turnTime \in Nat
    BY <1>0, <1>3, <1>7
  <2>4. left[queue[i + 1]] > turnTime - 0 + Rounds(i) + AfterThisTurn(queue[i + 1])
    BY <1>5, <2>1, <2>2, <2>3
  <2>5. AfterThisTurn(queue[i])' = AfterThisTurn(queue[i + 1])
    BY <1>1, <1>2, <1>3 DEF AfterThisTurn
  <2> QED
    BY <1>1, <1>2, <1>3, <1>5, <1>6, <2>4, <2>5
<1> QED
  BY <1>8, <1>9, <1>10, <1>11 DEF Budget

(* A turn ends, and Recover is followed by Tick. *)
LEMMA EndTurnBudget ==
  ASSUME IInv, TypeOK', Budget, NEW c \in Creds, EndTurn(c)
  PROVE  Budget'
<1>0. turnTime \in Nat /\ OneTurn \in Nat /\ \A i \in Nat : Rounds(i) \in Nat
  BY Units DEF IInv
<1>1. /\ holder = c /\ holder' = Off /\ UNCHANGED <<queue, overtaken, turnTime>> /\ c # Off
      /\ worker[c] \in Turns /\ worker'[c] \in AfterTurn(c) /\ spent'[c] = 0
      /\ \A b \in Creds \ {c} : worker'[b] = worker[b] /\ left'[b] = left[b] /\ spent'[b] = spent[b]
      /\ worker'[c] \notin {"none", "log"} => left'[c] = left[c]
  BY DEF IInv, TypeOK, EndTurn, Unlock, AtMutex
<1>2. OneTurn' = OneTurn /\ \A i : Rounds(i)' = Rounds(i)
  BY <1>1, SameUnits
<1>3. InProgress' = 0 /\ Overtakes' = Overtakes /\ Queued' = Queued
  BY <1>1 DEF InProgress, Overtakes, Queued
<1>4. /\ InProgress \in Nat /\ Overtakes \in Nat
  BY InProgressBound
<1>5. \A i \in DOMAIN queue : queue[i] \in Creds \ {c} /\ i \in Nat
  <2>1. queue \in Seq(Creds)
    BY DEF IInv, TypeOK
  <2>2. \A i \in DOMAIN queue : i \in Nat /\ queue[i] \in Creds
    BY <2>1
  <2> QED
    BY <1>1, <2>2 DEF IInv, TypeOK, Queued
<1>6. \A b \in Creds \ {c} : AfterThisTurn(b)' = AfterThisTurn(b)
  BY <1>1, <1>2 DEF AfterThisTurn
<1>7. \A b \in Creds : left[b] \in Nat /\ AfterThisTurn(b) \in Nat
  BY <1>0 DEF IInv, TypeOK, AfterThisTurn
<1>8. ASSUME NEW b \in Creds PROVE CallFits(b)'
  <2>1. CASE b # c
    BY <1>1, <1>2, <2>1 DEF Budget, CallFits
  <2>2. CASE b = c
    <3>1. worker'[c] # "get" /\ (worker'[c] = "warn" => worker[c] = "recover" /\ left'[c] = left[c])
      BY <1>1 DEF AfterTurn
    <3>2. worker[c] = "recover" => left[c] > InProgress + (LogTime + OneTurn)
      BY <1>1 DEF Budget, AfterThisTurn
    <3>3. worker'[c] = "warn" => left'[c] > LogTime - 0 + OneTurn
      BY <1>0, <1>4, <1>7, <3>1, <3>2
    <3> QED
      BY <1>1, <1>2, <2>2, <3>1, <3>3 DEF CallFits
  <2> QED
    BY <2>1, <2>2
<1>9. ASSUME NEW b \in Creds, NewAtMutex(b)' PROVE left'[b] > OneTurn' + AfterThisTurn(b)'
  <2>1. CASE b = c
    <3>1. worker[c] = "recover" /\ worker'[c] = "tick" /\ left'[c] = left[c]
      BY <1>1, <1>9, <2>1 DEF NewAtMutex, AtMutex, Turns, AfterTurn
    <3>2. left[c] > InProgress + AfterThisTurn(c) /\ AfterThisTurn(c) = LogTime + OneTurn
      BY <1>1, <3>1 DEF Budget, AfterThisTurn
    <3>3. AfterThisTurn(c)' = 0
      BY <3>1 DEF AfterThisTurn
    <3>4. left[c] > OneTurn + 0
      BY <1>0, <1>4, <1>7, <3>2
    <3> QED
      BY <1>2, <2>1, <3>1, <3>3, <3>4
  <2>2. CASE b # c
    <3>1. NewAtMutex(b)
      BY <1>1, <1>3, <1>9, <2>2 DEF NewAtMutex, AtMutex
    <3> QED
      BY <1>1, <1>2, <1>6, <2>2, <3>1 DEF Budget
  <2> QED
    BY <2>1, <2>2
<1>10. ASSUME NEW i \in DOMAIN queue'
       PROVE  left'[queue'[i]] > InProgress' - Overtakes' + Rounds(i)' + AfterThisTurn(queue[i])'
  <2>1. left[queue[i]] > InProgress - Overtakes + Rounds(i) + AfterThisTurn(queue[i])
    BY <1>1 DEF Budget
  <2>2. queue[i] \in Creds \ {c} /\ Rounds(i) \in Nat
    BY <1>0, <1>1, <1>5
  <2>3. left[queue[i]] \in Nat /\ AfterThisTurn(queue[i]) \in Nat
    BY <1>7, <2>2
  <2>4. left[queue[i]] > 0 - Overtakes + Rounds(i) + AfterThisTurn(queue[i])
    BY <1>4, <2>1, <2>2, <2>3
  <2>5. AfterThisTurn(queue[i])' = AfterThisTurn(queue[i])
    BY <1>1, <1>2, <2>2 DEF AfterThisTurn
  <2> QED
    BY <1>1, <1>2, <1>3, <2>2, <2>4, <2>5
<1> QED
  BY <1>1, <1>8, <1>9, <1>10 DEF Budget

(* Time passes for those who wait as it does for the one they wait for. *)
LEMMA ElapseBudget ==
  ASSUME IInv, TypeOK', Budget, Elapse
  PROVE  Budget'
<1>0. turnTime \in Nat /\ OneTurn \in Nat /\ \A i \in Nat : Rounds(i) \in Nat
  BY Units DEF IInv
<1>1. /\ Idle /\ UNCHANGED <<worker, holder, queue, overtaken, turnTime>>
      /\ \A b \in Creds : left'[b] = Sooner(left[b])
      /\ \A b \in Creds : spent'[b] = IF worker[b] \in HostCalls \/ holder = b THEN spent[b] + 1 ELSE spent[b]
  BY DEF Elapse, mutex
<1>2. OneTurn' = OneTurn /\ \A i : Rounds(i)' = Rounds(i)
  BY <1>1, SameUnits
<1>3. Overtakes' = Overtakes /\ Queued' = Queued /\ AtMutex' = AtMutex
  BY <1>1 DEF Overtakes, Queued, AtMutex
<1>4. \A b \in Creds : AfterThisTurn(b)' = AfterThisTurn(b)
  BY <1>1, <1>2 DEF AfterThisTurn
<1>5. \A b \in Creds : left[b] \in Nat /\ spent[b] \in Nat /\ AfterThisTurn(b) \in Nat
  BY <1>0 DEF IInv, TypeOK, AfterThisTurn
<1>6. \A b \in Creds : left'[b] >= left[b] - 1
  BY <1>1, <1>5 DEF Sooner
<1>7. \A b \in Creds : left'[b] \in Nat
  BY DEF TypeOK
<1>8. ASSUME NEW b \in Creds PROVE CallFits(b)'
  <2>1. /\ left[b] \in Nat /\ left'[b] \in Nat /\ spent[b] \in Nat /\ left'[b] >= left[b] - 1
        /\ worker'[b] = worker[b]
        /\ worker[b] \in {"get", "warn"} => spent'[b] = spent[b] + 1
    BY <1>1, <1>5, <1>6, <1>7 DEF HostCalls
  <2>2. CASE worker[b] = "get"
    <3>1. left[b] > GetTime - spent[b] + LogTime + 2 * OneTurn
      BY <2>2 DEF Budget, CallFits
    <3>2. left'[b] > GetTime - (spent[b] + 1) + LogTime + 2 * OneTurn
      BY <1>0, <2>1, <3>1
    <3> QED
      BY <1>2, <2>1, <2>2, <3>2 DEF CallFits
  <2>3. CASE worker[b] = "warn"
    <3>1. left[b] > LogTime - spent[b] + OneTurn
      BY <2>3 DEF Budget, CallFits
    <3>2. left'[b] > LogTime - (spent[b] + 1) + OneTurn
      BY <1>0, <2>1, <3>1
    <3> QED
      BY <1>2, <2>1, <2>3, <3>2 DEF CallFits
  <2>4. CASE worker[b] \notin {"get", "warn"}
    BY <2>1, <2>4 DEF CallFits
  <2> QED
    BY <2>2, <2>3, <2>4
<1>9. \A b \in Creds : ~NewAtMutex(b)'
  BY <1>1, <1>3 DEF Idle, NewAtMutex, AtMutex
<1>10. ASSUME holder # Off
       PROVE  InProgress' = InProgress - 1 /\ InProgress \in Nat /\ holder \in Creds
  <2>1. holder \in Creds /\ spent'[holder] = spent[holder] + 1 /\ spent[holder] \in Nat
    BY <1>1, <1>5, <1>10 DEF IInv, TypeOK, AtMutex
  <2>2. InProgress = turnTime - spent[holder] /\ InProgress' = turnTime - spent'[holder]
    BY <1>1, <1>10 DEF InProgress
  <2> QED
    BY <1>0, <2>1, <2>2, InProgressBound
<1>11. ASSUME holder' # Off PROVE left'[holder'] > InProgress' + AfterThisTurn(holder)'
  <2>1. holder # Off /\ holder' = holder
    BY <1>1, <1>11
  <2>2. InProgress' = InProgress - 1 /\ InProgress \in Nat /\ holder \in Creds
    BY <1>10, <2>1
  <2>3. left[holder] > InProgress + AfterThisTurn(holder)
    BY <2>1 DEF Budget
  <2>4. /\ left[holder] \in Nat /\ left'[holder] \in Nat /\ left'[holder] >= left[holder] - 1
        /\ AfterThisTurn(holder) \in Nat
    BY <1>5, <1>6, <1>7, <2>2
  <2>5. left'[holder] > (InProgress - 1) + AfterThisTurn(holder)
    BY <2>2, <2>3, <2>4
  <2>6. AfterThisTurn(holder)' = AfterThisTurn(holder)
    BY <1>1, <1>2 DEF AfterThisTurn
  <2> QED
    BY <2>1, <2>2, <2>5, <2>6
<1>12. ASSUME NEW i \in DOMAIN queue'
       PROVE  left'[queue'[i]] > InProgress' - Overtakes' + Rounds(i)' + AfterThisTurn(queue[i])'
  <2>1. /\ queue[i] \in Creds /\ i \in Nat /\ queue # <<>>
    <3>1. queue \in Seq(Creds) /\ i \in DOMAIN queue
      BY <1>1 DEF IInv, TypeOK
    <3> QED
      BY <3>1
  <2>2. holder # Off
    BY <1>1, <2>1 DEF Idle
  <2>3. InProgress' = InProgress - 1 /\ InProgress \in Nat
    BY <1>10, <2>2
  <2>4. left[queue[i]] > InProgress - Overtakes + Rounds(i) + AfterThisTurn(queue[i])
    BY <1>1 DEF Budget
  <2>5. /\ left[queue[i]] \in Nat /\ left'[queue[i]] \in Nat /\ left'[queue[i]] >= left[queue[i]] - 1
        /\ AfterThisTurn(queue[i]) \in Nat /\ Rounds(i) \in Nat
    BY <1>0, <1>5, <1>6, <1>7, <2>1
  <2>6. Overtakes \in Nat
    BY InProgressBound
  <2>7. left'[queue[i]] > (InProgress - 1) - Overtakes + Rounds(i) + AfterThisTurn(queue[i])
    BY <2>3, <2>4, <2>5, <2>6
  <2>8. AfterThisTurn(queue[i])' = AfterThisTurn(queue[i])
    BY <1>1, <1>2 DEF AfterThisTurn
  <2> QED
    BY <1>1, <1>2, <1>3, <2>3, <2>7, <2>8
<1> QED
  BY <1>8, <1>9, <1>11, <1>12 DEF Budget

LEMMA BudgetStep ==
  IInv /\ TypeOK' /\ Budget /\ LongestRequest < RequestTimeout /\ [Next]_vars
    => Budget'
<1> SUFFICES ASSUME IInv, TypeOK', Budget, LongestRequest < RequestTimeout, [Next]_vars
             PROVE  Budget'
  OBVIOUS
<1>0. OneTurn \in Nat /\ LongestRequest = GetTime + LogTime + 2 * OneTurn
  BY Units DEF IInv
<1>1. ASSUME NEW listed \in SUBSET Creds, List(listed) PROVE Budget'
  <2>1. \A c \in Creds : worker'[c] \in {"none", "listed"}
    BY <1>1 DEF List
  <2>2. AtMutex' = {}
    BY <2>1 DEF AtMutex, Turns
  <2>3. holder' = Off /\ DOMAIN queue' = {}
    <3>1. holder' \in AtMutex' \cup {Off} /\ Queued' \subseteq AtMutex' \ {holder'}
      BY DEF TypeOK
    <3>2. Queued' = {}
      BY <2>2, <3>1
    <3>3. \A i \in DOMAIN queue' : queue'[i] \in Queued'
      BY DEF Queued
    <3>4. DOMAIN queue' = {}
      BY <3>2, <3>3
    <3>5. holder' = Off
      BY <2>2, <3>1
    <3> QED
      BY <3>4, <3>5
  <2> QED
    BY <2>1, <2>2, <2>3 DEF Budget, CallFits, NewAtMutex
<1>2. ASSUME NEW c \in Creds,
             Launch(c) \/ TakeSlot(c) \/ LeaveSlots(c) \/ GetReturns(c) \/ LogReturns(c)
      PROVE  Budget'
  <2>1. /\ UNCHANGED <<holder, queue, overtaken, turnTime>>
        /\ worker[c] \in {"listed", "slot"} \cup HostCalls
        /\ \A b \in Creds \ {c} : worker'[b] = worker[b] /\ left'[b] = left[b] /\ spent'[b] = spent[b]
    BY <1>2 DEF IInv, TypeOK, Launch, TakeSlot, LeaveSlots, GivesUp, GetReturns,
                LogReturns, HostCalls, mutex
  <2>2. c # holder /\ c \notin Queued
    <3>1. c \notin AtMutex /\ c # Off
      BY <2>1 DEF AtMutex, Turns, HostCalls
    <3> QED
      BY <3>1 DEF IInv, TypeOK
  <2>3. left[c] \in Nat /\ spent[c] \in Nat /\ Budget
    BY DEF IInv, TypeOK
  <2>4. /\ worker'[c] = "get" => left'[c] > GetTime - spent'[c] + LogTime + 2 * OneTurn
        /\ worker'[c] = "warn" => left'[c] > LogTime - spent'[c] + OneTurn
        /\ worker'[c] \in Turns =>
             left'[c] > OneTurn + (IF worker'[c] = "recover" THEN LogTime + OneTurn ELSE 0)
    <3>1. CASE TakeSlot(c)
      <4>1. /\ worker'[c] \in {"get", "block"} /\ left'[c] = RequestTimeout
            /\ worker[c] = "slot" /\ spent'[c] = spent[c]
        BY <3>1 DEF IInv, TypeOK, TakeSlot
      <4>2. spent'[c] = 0
        BY <2>2, <4>1 DEF IInv, SpentOK, HostCalls
      <4> QED
        BY <1>0, <4>1, <4>2
    <3>2. CASE Launch(c) \/ LeaveSlots(c)
      <4>1. worker'[c] \in {"slot", "none"}
        BY <3>2 DEF IInv, TypeOK, Launch, LeaveSlots
      <4> QED
        BY <4>1 DEF Turns
    <3>3. CASE GetReturns(c)
      <4>1. worker[c] = "get" /\ spent[c] <= GetTime
        BY <3>3 DEF IInv, GetReturns, SpentOK, HostCalls, CallTime
      <4>2. left[c] > GetTime - spent[c] + LogTime + 2 * OneTurn
        BY <4>1 DEF Budget, CallFits
      <4>3. worker'[c] \in {"log", "block", "recover"} /\ (worker'[c] # "log" => left'[c] = left[c])
        BY <3>3 DEF IInv, TypeOK, GetReturns, AfterGet
      <4>4. left[c] > LogTime + 2 * OneTurn
        BY <1>0, <2>3, <4>1, <4>2
      <4> QED
        BY <1>0, <2>3, <4>3, <4>4 DEF Turns
    <3>4. CASE LogReturns(c)
      <4>1. /\ worker[c] \in {"warn", "log"} /\ left'[c] = left[c]
            /\ worker'[c] = IF worker[c] = "warn" THEN "tick" ELSE "none"
        BY <3>4 DEF IInv, TypeOK, LogReturns
      <4>2. worker[c] = "warn" => left[c] > LogTime - spent[c] + OneTurn /\ spent[c] <= LogTime
        BY DEF Budget, CallFits, IInv, SpentOK, HostCalls, CallTime
      <4>3. worker[c] = "warn" => left[c] > OneTurn
        BY <1>0, <2>3, <4>2
      <4> QED
        BY <1>0, <2>3, <4>1, <4>3 DEF Turns
    <3> QED
      BY <1>2, <3>1, <3>2, <3>3, <3>4
  <2> QED
    BY <2>1, <2>2, <2>4, OthersKeep
<1>3. ASSUME NEW c \in Creds, Lock(c) PROVE Budget'
  BY <1>3, LockBudget
<1>4. ASSUME LockFirst PROVE Budget'
  BY <1>4, LockFirstBudget
<1>5. ASSUME NEW c \in Creds, EndTurn(c) PROVE Budget'
  BY <1>5, EndTurnBudget
<1>6. ASSUME Elapse PROVE Budget'
  BY <1>6, ElapseBudget
<1>7. CASE ListFails \/ Started \/ EndRun \/ Wake \/ End \/ Cancel \/ UNCHANGED vars
  <2>1. UNCHANGED <<worker, holder, queue, overtaken, turnTime, left, spent>>
    BY <1>7 DEF ListFails, Started, EndRun, Wake, End, Cancel, vars, mutex
  <2> QED
    BY <2>1 DEF Budget, CallFits, NewAtMutex, AtMutex, Queued, AfterThisTurn, InProgress, Overtakes, Rounds, OneTurn
<1> QED
  BY <1>1, <1>2, <1>3, <1>4, <1>5, <1>6, <1>7 DEF Next, Run

-----------------------------------------------------------------------------

(* The inductive invariant of the request timeouts: every check has budget *)
(* left for what may come before its end.                                  *)
THEOREM TimeoutInvariant == Spec => [](IInv /\ BudgetOK)
<1>1. Init => BudgetOK
  BY DEF Init, BudgetOK, Budget, CallFits, NewAtMutex, AtMutex, Turns
<1>2. IInv /\ BudgetOK /\ [Next]_vars => IInv' /\ BudgetOK'
  <2> SUFFICES ASSUME IInv, BudgetOK, [Next]_vars PROVE IInv' /\ BudgetOK'
    OBVIOUS
  <2>1. IInv'
    BY TypeStep, LoopStep, SpentStep, StopStep DEF IInv
  <2>3. turnTime' = turnTime
    BY DEF Next, Run, List, ListFails, Launch, Started, TakeSlot, LeaveSlots, GetReturns,
           Lock, LockFirst, EndTurn, LogReturns, EndRun, Wake, End, Elapse, Cancel, vars
  <2>4. LongestRequest' = LongestRequest
    BY <2>3, SameUnits
  <2>5. LongestRequest < RequestTimeout => Budget'
    BY <2>1, BudgetStep DEF BudgetOK, IInv
  <2> QED
    BY <2>1, <2>4, <2>5 DEF BudgetOK
<1> QED
  BY <1>1, <1>2, InitOK, PTL DEF Spec

(* runtime.go:145: with the request timeout above LongestRequest no        *)
(* request context ends before its check does, for any number of           *)
(* credentials and slots.                                                  *)
THEOREM TimeoutsSpareTheQueue == Spec => []QueueingNeverTimesOut
<1>1. IInv /\ BudgetOK => QueueingNeverTimesOut
  <2> SUFFICES ASSUME IInv, Budget, NEW c \in InSlot, worker[c] # "log" PROVE left[c] > 0
    BY DEF BudgetOK, QueueingNeverTimesOut
  <2>1. /\ turnTime \in Nat /\ OneTurn \in Nat /\ \A i \in Nat : Rounds(i) \in Nat
        /\ Rounds(1) = 2 * turnTime /\ \A i, j \in Nat : i <= j => Rounds(i) <= Rounds(j)
    BY Units DEF IInv
  <2>2. c \in Creds /\ left[c] \in Nat /\ spent[c] \in Nat /\ AfterThisTurn(c) \in Nat
    BY <2>1 DEF InSlot, IInv, TypeOK, AfterThisTurn
  <2>3. CASE worker[c] \in {"get", "warn"}
    <3>1. spent[c] <= CallTime(c)
      BY <2>2, <2>3 DEF IInv, SpentOK, HostCalls
    <3> QED
      BY <2>1, <2>2, <2>3, <3>1 DEF Budget, CallFits, CallTime
  <2>4. CASE NewAtMutex(c)
    BY <2>1, <2>2, <2>4 DEF Budget
  <2>5. CASE c = holder
    <3>1. holder # Off /\ InProgress \in Nat
      BY <2>2, <2>5, InProgressBound
    <3> QED
      BY <2>2, <2>5, <3>1 DEF Budget
  <2>6. CASE c \in Queued
    <3>1. PICK i \in DOMAIN queue : queue[i] = c
      BY <2>6 DEF Queued
    <3>2. i \in Nat /\ 1 <= i
      <4>1. queue \in Seq(Creds)
        BY DEF IInv, TypeOK
      <4> QED
        BY <4>1
    <3>3. Rounds(1) <= Rounds(i) /\ Rounds(i) \in Nat
      BY <2>1, <3>2
    <3>4. InProgress \in Nat /\ Overtakes \in Nat /\ Overtakes <= turnTime
      BY <2>1, InProgressBound DEF Overtakes
    <3>5. left[c] > InProgress - Overtakes + Rounds(i) + AfterThisTurn(c)
      BY <3>1 DEF Budget
    <3>6. turnTime \in Nat /\ Rounds(1) = 2 * turnTime
      BY <2>1
    <3> QED
      BY <2>2, <3>3, <3>4, <3>5, <3>6
  <2>7. worker[c] \in {"get", "warn"} \/ NewAtMutex(c) \/ c = holder \/ c \in Queued
    BY DEF InSlot, IInv, TypeOK, NewAtMutex, AtMutex, HostCalls
  <2> QED
    BY <2>3, <2>4, <2>5, <2>6, <2>7
<1> QED
  BY <1>1, TimeoutInvariant, PTL
=============================================================================
