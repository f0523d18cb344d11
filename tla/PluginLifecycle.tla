--------------------------- MODULE PluginLifecycle ---------------------------
(***************************************************************************)
(* cmd/plugin: the lifecycle calls of the host (abi.go) and the background *)
(* loops they start and stop (runtime.go), over one state file.  Of a      *)
(* PersistentState only CycleLedger is kept, of a loop only what reads or  *)
(* writes it; QuotaController is about the rest.                           *)
(*                                                                         *)
(* External assumptions: the host makes one lifecycle call at a time, and  *)
(* after the shutdown function it registers the plugin only in a new       *)
(* process.                                                                *)
(***************************************************************************)
CONSTANTS
  Runtimes, \* supply of runtimeServices: BOUND on the calls of newRuntime
  Cycles,
  None

ASSUME NoneAssumption == None \notin Runtimes \cup Cycles

VARIABLES
  orderly, \* the host quiesces the plugin before each reconfigure, or never
  disk,    \* the cycles fenced in runtime-state.json
  memory,  \* for each runtime the cycles fenced in its Store.state
  loop,    \* for each runtime where its background loop is
  armed,   \* for each runtime the cycle fenced and about to be sent, or None
  flying,  \* cycles whose request is with host.http.do and has not left yet
  ended,   \* runtimes whose context is cancelled
  global,  \* globalRuntime
  request, \* the lifecycle call in progress
  sent,    \* history: cycles some request was sent for
  resent   \* history: cycles a second request was sent for

state == <<disk, memory>>
loops == <<loop, armed, flying>>
history == <<sent, resent>>
vars == <<orderly, state, loops, ended, global, request, history>>

Running == {r \in Runtimes : loop[r] = "running"}

-----------------------------------------------------------------------------
(* Lifecycle calls                                                         *)

NoRequest == [kind |-> "none", at |-> "none", next |-> None, old |-> None]

Requests ==
  [kind : {"none", "reconfigure", "quiesce", "shutdown"},
   at : {"none", "stop", "wait", "stopped", "unloaded"},
   next : Runtimes \cup {None}, old : Runtimes \cup {None}]

Call(kind, next) ==
  /\ request = NoRequest
  /\ request' = [kind |-> kind, at |-> "stop", next |-> next, old |-> global]

(* plugin.register and plugin.reconfigure: newRuntime opens the store.  An *)
(* error of decodeConfig or newRuntime changes nothing.                    *)
Reconfigure(r) ==
  /\ orderly => Running = {}
  /\ loop[r] = "none"
  /\ Call("reconfigure", r)
  /\ loop' = [loop EXCEPT ![r] = "loaded"]
  /\ memory' = [memory EXCEPT ![r] = disk]
  /\ UNCHANGED <<orderly, disk, armed, flying, ended, global, history>>

(* plugin.quiesce and plugin.shutdown. *)
Quiesce ==
  /\ Call("quiesce", None)
  /\ UNCHANGED <<orderly, state, loops, ended, global, history>>

(* cliproxyPluginShutdown *)
Shutdown ==
  /\ Call("shutdown", None)
  /\ global' = None
  /\ UNCHANGED <<orderly, state, loops, ended, history>>

(* Stop cancels the context of the loop, *)
StopCancels ==
  /\ request.at = "stop"
  /\ ended' = ended \cup ({request.old} \ {None})
  /\ request' = [request EXCEPT !.at = "wait"]
  /\ UNCHANGED <<orderly, state, loops, global, history>>

(* Faulty variant: Stop cancels and does not wait. *)
StopsAtOnce(r) == TRUE
IsDone(r) == r \notin Running

After(kind) == [reconfigure |-> [request EXCEPT !.at = "stopped"],
                quiesce |-> NoRequest,
                shutdown |-> [NoRequest EXCEPT !.at = "unloaded"]][kind]

(* and waits for its end; without a loop there is nothing to wait for. *)
StopReturns ==
  /\ request.at = "wait"
  /\ IsDone(request.old)
  /\ request' = After(request.kind)
  /\ UNCHANGED <<orderly, state, loops, ended, global, history>>

(* After 5 s Stop gives up: reconfigure and quiesce fail, the new runtime  *)
(* is dropped; shutdown does not look.                                     *)
StopTimesOut ==
  /\ request.at = "wait"
  /\ request.old \in Running
  /\ request' = IF request.kind = "shutdown" THEN After("shutdown")
                ELSE NoRequest
  /\ UNCHANGED <<orderly, state, loops, ended, global, history>>

(* The new runtime takes over; Start does nothing if it is not enabled. *)
Start ==
  /\ request.at = "stopped"
  /\ global' = request.next
  /\ loop' \in {loop, [loop EXCEPT ![request.next] = "running"]}
  /\ request' = NoRequest
  /\ UNCHANGED <<orderly, state, armed, flying, ended, history>>

-----------------------------------------------------------------------------
(* The background loops                                                    *)

(* Faulty variant: the file is left to a later Update. *)
PersistInMemory(r, cycles) ==
  /\ memory' = [memory EXCEPT ![r] = cycles]
  /\ disk' = disk
(* Store.Update writes the whole state. *)
Persist(r, cycles) ==
  /\ memory' = [memory EXCEPT ![r] = cycles]
  /\ disk' = cycles

(* Any Update but the fence that succeeds. *)
Observe(r) ==
  /\ r \in Running /\ armed[r] = None
  /\ Persist(r, memory[r])
  /\ UNCHANGED <<orderly, loops, ended, global, request, history>>

(* The fence of a cycle the loop takes for unfenced.  Neither the Updates  *)
(* nor host.http.do look at the context, so a cancelled loop may finish    *)
(* what it has begun.                                                      *)
Fence(r, c) ==
  /\ r \in Running /\ armed[r] = None
  /\ c \notin memory[r]
  /\ Persist(r, memory[r] \cup {c})
  /\ armed' = [armed EXCEPT ![r] = c]
  /\ UNCHANGED <<orderly, loop, flying, ended, global, request, history>>

(* An Update that reports an error: nothing is sent and Store.state keeps  *)
(* its value, but the file may hold the new one already, with the fence    *)
(* (cycles = {c}) or without.                                              *)
UpdateFails(r, cycles) ==
  /\ r \in Running /\ armed[r] = None
  /\ disk' \in {disk, memory[r] \cup cycles}
  /\ UNCHANGED <<orderly, memory, loops, ended, global, request, history>>

(* Client.do starts a goroutine that calls the host, and waits for it or   *)
(* for its context; the loop goes on in either case.                       *)
Send(r) ==
  /\ r \in Running /\ armed[r] # None
  /\ flying' = flying \cup {armed[r]}
  /\ resent' = resent \cup ((sent \cup flying) \cap {armed[r]})
  /\ armed' = [armed EXCEPT ![r] = None]
  /\ UNCHANGED <<orderly, state, loop, ended, global, request, sent>>

(* The goroutine gets to run: maybe long after its context, the loop that  *)
(* waited for it and the runtime they belong to have ended.                *)
Depart(c) ==
  /\ c \in flying
  /\ flying' = flying \ {c}
  /\ sent' = sent \cup {c}
  /\ UNCHANGED <<orderly, state, loop, armed, ended, global, request, resent>>

(* Faulty variant: the loop does not wait for the checks it started. *)
IdleAtOnce(r) == TRUE
Idle(r) == armed[r] = None

Finish(r) ==
  /\ r \in Running \cap ended /\ Idle(r)
  /\ loop' = [loop EXCEPT ![r] = "over"]
  /\ UNCHANGED <<orderly, state, armed, flying, ended, global, request, history>>

(* The process ends and starts again. *)
Restart ==
  /\ loop' = [r \in Runtimes |-> IF loop[r] = "none" THEN "none" ELSE "over"]
  /\ armed' = [r \in Runtimes |-> None]
  /\ flying' = {}
  /\ global' = None
  /\ request' = NoRequest
  /\ UNCHANGED <<orderly, state, ended, history>>

Init ==
  /\ orderly \in BOOLEAN
  /\ disk = {}
  /\ memory = [r \in Runtimes |-> {}]
  /\ loop = [r \in Runtimes |-> "none"]
  /\ armed = [r \in Runtimes |-> None]
  /\ flying = {}
  /\ ended = {}
  /\ global = None
  /\ request = NoRequest
  /\ sent = {} /\ resent = {}

Next ==
  \/ \E r \in Runtimes : Reconfigure(r)
  \/ Quiesce \/ Shutdown
  \/ StopCancels \/ StopReturns \/ StopTimesOut \/ Start
  \/ \E r \in Runtimes : Observe(r) \/ Send(r) \/ Finish(r)
  \/ \E r \in Runtimes, c \in Cycles : Fence(r, c) \/ UpdateFails(r, {c})
  \/ \E r \in Runtimes : UpdateFails(r, {})
  \/ \E c \in Cycles : Depart(c)
  \/ Restart

Spec == Init /\ [][Next]_vars

-----------------------------------------------------------------------------
(* Properties                                                              *)

(* The variables keep their types, and once Stop saw a loop end nothing it *)
(* started is still about to send (runtime.go:180, wg.Wait).               *)
TypeOK ==
  /\ \A r \in Runtimes : armed[r] # None => r \in Running
  /\ orderly \in BOOLEAN
  /\ disk \in SUBSET Cycles /\ memory \in [Runtimes -> SUBSET Cycles]
  /\ loop \in [Runtimes -> {"none", "loaded", "running", "over"}]
  /\ armed \in [Runtimes -> Cycles \cup {None}]
  /\ flying \in SUBSET Cycles
  /\ ended \in SUBSET Runtimes
  /\ global \in Runtimes \cup {None}
  /\ request \in Requests
  /\ sent \in SUBSET Cycles /\ resent \in SUBSET Cycles

(* runtime.go:96-113, abi.go:149-157: whatever lifecycle calls are made    *)
(* and whichever of them time out, no two loops work on the state file at  *)
(* once.                                                                   *)
OneLoopAtATime == \A r, s \in Running : r = s

(* Cycles that must never be sent for again. *)
Spent == (sent \cup flying \cup {armed[r] : r \in Running}) \ {None}

(* abi.go:142-157, client.go:79-86, store.go:67, README.md:30: if the host *)
(* lets the old loop end before it reconfigures, no cycle is sent for      *)
(* twice across any number of reloads, restarts and Updates that failed    *)
(* half way; the runtime that takes over knows the fence of every request, *)
(* the ones the last runtime left with the host included, and so does the  *)
(* file.                                                                   *)
OrderlyReloadsNeverResend ==
  orderly =>
    /\ resent = {}
    /\ \A r \in Running : Spent \subseteq memory[r] \cap disk

(* controller.go:328-329 "From this point onward no code path may          *)
(* authorize another send for these cycles."                               *)
NoCodePathResends == resent = {}
=============================================================================
