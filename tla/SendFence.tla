----------------------------- MODULE SendFence -----------------------------
(***************************************************************************)
(* What the plugin promises about activation requests (README.md, "State   *)
(* machine"): a set of cycles is durably fenced in one step before the     *)
(* request for them leaves, a fence is never lifted, and a fenced cycle    *)
(* never authorizes another request.                                       *)
(***************************************************************************)
CONSTANT Cycles

VARIABLES
  fenced, \* cycles with a durable fence
  armed,  \* fenced cycles whose one request may still leave
  sent,   \* cycles a request has left for
  resent  \* cycles a second request has left for

vars == <<fenced, armed, sent, resent>>

Init == fenced = {} /\ armed = {} /\ sent = {} /\ resent = {}

(* Fence fresh cycles and arm the one request for them. *)
Arm ==
  /\ armed = {} /\ armed' # {}
  /\ armed' \subseteq Cycles
  /\ armed' \cap fenced = {}
  /\ fenced' = fenced \cup armed'
  /\ UNCHANGED <<sent, resent>>

(* The request leaves. *)
Fire ==
  /\ armed # {}
  /\ sent' = sent \cup armed
  /\ resent' = resent
  /\ armed' = {}
  /\ UNCHANGED fenced

(* A crash between fence and request: the cycles stay fenced, unsent. *)
Disarm ==
  /\ armed # {}
  /\ armed' = {}
  /\ UNCHANGED <<fenced, sent, resent>>

Next == Arm \/ Fire \/ Disarm

Spec == Init /\ [][Next]_vars
=============================================================================
