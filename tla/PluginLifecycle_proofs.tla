----------------------- MODULE PluginLifecycle_proofs -----------------------
(***************************************************************************)
(* For any number of runtimes and cycles: no two loops ever run, and a     *)
(* host that quiesces first never makes a reload send twice.               *)
(*                                                                         *)
(* Both rest on one invariant about the call in progress.  Stop is told    *)
(* about the one loop that may run (OldLoop), Start only comes when none   *)
(* does; and from load to Start of an orderly reload no loop runs, so the   *)
(* new runtime still knows every request made (Fresh), the ones the host   *)
(* has not let leave included.                                             *)
(***************************************************************************)
EXTENDS PluginLifecycle, TLAPS

(* Which loop may run while the call in progress is where it is. *)
OldLoop ==
  /\ request.at = "none" => request = NoRequest /\ Running \subseteq {global}
  /\ request.at \in {"stop", "wait"} => Running \subseteq {request.old}
  /\ request.at = "stopped" => Running = {} /\ request.kind = "reconfigure"
  /\ request.kind = "reconfigure" =>
       /\ request.next # None
       /\ request.old = global
  /\ request.kind = "quiesce" => request.old = global
  /\ request.at \in {"stop", "wait"} => request.kind # "none"
  /\ request.kind = "none" => request.at \in {"none", "unloaded"}
  /\ request.at = "unloaded" => request.kind = "none"

(* Whatever the call in progress. *)
OneLoop == \A r, s \in Running : r = s

(* A runtime that knows every request made and writes it to the file. *)
Knows(r) ==
  /\ sent \cup flying \subseteq memory[r]
  /\ memory[r] \subseteq disk

(* The runtime that runs, or will run next, knows every request made; when *)
(* none runs the file does.                                                *)
Fresh ==
  orderly =>
    /\ sent \cup flying \subseteq disk
    /\ \A r \in Running : Knows(r)
    /\ request.kind = "reconfigure" => Running = {} /\ Knows(request.next)

(* A cycle that is about to be sent is fenced and was not sent. *)
Unsent ==
  orderly =>
    /\ resent = {}
    /\ \A r \in Running :
         armed[r] # None => armed[r] \in memory[r] \ (sent \cup flying)

IInv == TypeOK /\ OldLoop /\ OneLoop /\ Fresh /\ Unsent

USE DEF NoRequest, Requests, Running, history, state, loops, Knows

-----------------------------------------------------------------------------
(* Each action preserves the invariant.                                    *)

(* The initial states satisfy it. *)
LEMMA InitIInv == Init => IInv
  BY NoneAssumption DEF Init, IInv, TypeOK, OldLoop, OneLoop, Fresh, Unsent

(* newRuntime loads what is on disk. *)
LEMMA ReconfigureIInv ==
  ASSUME IInv, NEW r \in Runtimes, Reconfigure(r) PROVE IInv'
  BY NoneAssumption
  DEF Reconfigure, Call, IInv, TypeOK, OldLoop, OneLoop, Fresh, Unsent

(* The other two calls only start to stop the loop. *)
LEMMA CallIInv == ASSUME IInv, Quiesce \/ Shutdown PROVE IInv'
  BY NoneAssumption
  DEF Quiesce, Shutdown, Call, IInv, TypeOK, OldLoop, OneLoop, Fresh, Unsent

(* Stop, whether the loop ends in time or not. *)
LEMMA StopIInv ==
  ASSUME IInv, StopCancels \/ StopReturns \/ StopTimesOut PROVE IInv'
<1>1. CASE StopCancels
  BY <1>1, NoneAssumption
  DEF StopCancels, IInv, TypeOK, OldLoop, OneLoop, Fresh, Unsent
<1>2. CASE StopReturns
  BY <1>2, NoneAssumption
  DEF StopReturns, IsDone, After, IInv, TypeOK, OldLoop, OneLoop, Fresh, Unsent
<1>3. CASE StopTimesOut
  BY <1>3, NoneAssumption
  DEF StopTimesOut, After, IInv, TypeOK, OldLoop, OneLoop, Fresh, Unsent
<1> QED BY <1>1, <1>2, <1>3

(* The new loop starts when no other runs. *)
LEMMA StartIInv == ASSUME IInv, Start PROVE IInv'
  BY NoneAssumption DEF Start, IInv, TypeOK, OldLoop, OneLoop, Fresh, Unsent

(* A loop writes the file it alone works on. *)
LEMMA LoopIInv ==
  ASSUME IInv, NEW r \in Runtimes, Observe(r) \/ Send(r) \/ Finish(r)
  PROVE IInv'
<1>1. CASE Observe(r)
  BY <1>1, NoneAssumption
  DEF Observe, Persist, IInv, TypeOK, OldLoop, OneLoop, Fresh, Unsent
<1>2. CASE Send(r)
  BY <1>2, NoneAssumption
  DEF Send, IInv, TypeOK, OldLoop, OneLoop, Fresh, Unsent
<1>3. CASE Finish(r)
  BY <1>3, NoneAssumption
  DEF Finish, Idle, IInv, TypeOK, OldLoop, OneLoop, Fresh, Unsent
<1> QED BY <1>1, <1>2, <1>3

(* The fence. *)
LEMMA FenceIInv ==
  ASSUME IInv, NEW r \in Runtimes, NEW c \in Cycles, Fence(r, c) PROVE IInv'
  BY NoneAssumption
  DEF Fence, Persist, IInv, TypeOK, OldLoop, OneLoop, Fresh, Unsent

(* An Update in doubt leaves at least what the loop knows in the file. *)
LEMMA UpdateFailsIInv ==
  ASSUME IInv, NEW r \in Runtimes, NEW cycles \in SUBSET Cycles,
         UpdateFails(r, cycles)
  PROVE  IInv'
  BY NoneAssumption
  DEF UpdateFails, IInv, TypeOK, OldLoop, OneLoop, Fresh, Unsent

(* A request that leaves late was made before. *)
LEMMA DepartIInv ==
  ASSUME IInv, NEW c \in Cycles, Depart(c) PROVE IInv'
  BY NoneAssumption DEF Depart, IInv, TypeOK, OldLoop, OneLoop, Fresh, Unsent

(* A restart ends every loop and every call. *)
LEMMA RestartIInv == ASSUME IInv, Restart PROVE IInv'
  BY NoneAssumption DEF Restart, IInv, TypeOK, OldLoop, OneLoop, Fresh, Unsent

(* One step per action. *)
LEMMA NextIInv == IInv /\ [Next]_vars => IInv'
<1> SUFFICES ASSUME IInv, [Next]_vars PROVE IInv'
  OBVIOUS
<1>1. CASE \E r \in Runtimes : Reconfigure(r)
  BY <1>1, ReconfigureIInv
<1>2. CASE Quiesce \/ Shutdown
  BY <1>2, CallIInv
<1>3. CASE StopCancels \/ StopReturns \/ StopTimesOut
  BY <1>3, StopIInv
<1>4. CASE Start
  BY <1>4, StartIInv
<1>5. CASE \E r \in Runtimes : Observe(r) \/ Send(r) \/ Finish(r)
  BY <1>5, LoopIInv
<1>6. CASE \E r \in Runtimes, c \in Cycles : Fence(r, c) \/ UpdateFails(r, {c})
  BY <1>6, FenceIInv, UpdateFailsIInv
<1>9. CASE \E r \in Runtimes : UpdateFails(r, {})
  BY <1>9, UpdateFailsIInv
<1>10. CASE \E c \in Cycles : Depart(c)
  BY <1>10, DepartIInv
<1>7. CASE Restart
  BY <1>7, RestartIInv
<1>8. CASE UNCHANGED vars
  BY <1>8 DEF vars, IInv, TypeOK, OldLoop, OneLoop, Fresh, Unsent
<1> QED
  BY <1>1, <1>2, <1>3, <1>4, <1>5, <1>6, <1>7, <1>8, <1>9, <1>10 DEF Next

-----------------------------------------------------------------------------
(* Theorems                                                                *)

(* The invariant holds throughout. *)
THEOREM LifecycleInvariant == Spec => []IInv
<1>1. Init => IInv
  BY InitIInv
<1>2. IInv /\ [Next]_vars => IInv'
  BY NextIInv
<1> QED BY <1>1, <1>2, PTL DEF Spec

(* abi.go, runtime.go: the global runtime, the loops and the call in       *)
(* progress keep their types, and only a loop that runs is about to send.  *)
THEOREM LifecycleTypes == Spec => []TypeOK
<1>1. IInv => TypeOK
  BY DEF IInv
<1> QED BY <1>1, LifecycleInvariant, PTL

(* abi.go:149-157, runtime.go:96-113: no two loops work on the state file  *)
(* at once, whichever calls are made and whichever time out.               *)
THEOREM NoTwoLoops == Spec => []OneLoopAtATime
<1>1. IInv => OneLoopAtATime
  BY DEF IInv, OneLoop, OneLoopAtATime
<1> QED BY <1>1, LifecycleInvariant, PTL

(* abi.go:142-157, client.go:79-86, store.go:67: with a host that quiesces *)
(* first, reloads never send twice, and the runtime that takes over knows  *)
(* the fence of every request, late ones included.                         *)
THEOREM OrderlyReloads == Spec => []OrderlyReloadsNeverResend
<1>1. ASSUME IInv, orderly, NEW r \in Running, NEW c \in Spent
      PROVE  c \in memory[r] /\ c \in disk
  <2>1. sent \cup flying \subseteq memory[r] /\ memory[r] \subseteq disk
    BY <1>1 DEF IInv, Fresh
  <2>2. CASE c \in sent \cup flying
    BY <2>1, <2>2
  <2>3. CASE c \in {armed[s] : s \in Running}
    BY <1>1, <2>1, <2>3 DEF IInv, OneLoop, Unsent, Spent
  <2> QED BY <1>1, <2>2, <2>3 DEF Spent
<1>2. IInv => OrderlyReloadsNeverResend
  BY <1>1 DEF IInv, Unsent, OrderlyReloadsNeverResend
<1> QED BY <1>2, LifecycleInvariant, PTL
=============================================================================
