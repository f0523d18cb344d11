---------------------------- MODULE DurableState ----------------------------
(***************************************************************************)
(* What Store promises its controller: an Update that returned nil is the  *)
(* state every later restart finds, until another Update is attempted.  An *)
(* Update that failed or was cut off is in doubt: a restart finds it or    *)
(* the last acknowledged state, and nothing older or made up.              *)
(***************************************************************************)
CONSTANT States

VARIABLES
  memory, \* the state the process works on
  acked,  \* the state of the last Update that returned nil
  doubt   \* states of the Updates attempted since and not acknowledged

vars == <<memory, acked, doubt>>

Init ==
  /\ memory \in States
  /\ acked = memory
  /\ doubt = {}

(* Update is attempted: from here on it may or may not last. *)
Attempt ==
  /\ doubt' \subseteq States
  /\ \E s \in doubt' : doubt' = doubt \cup {s}
  /\ UNCHANGED <<memory, acked>>

(* It returns nil. *)
Acknowledge ==
  /\ memory' \in doubt
  /\ acked' = memory'
  /\ doubt' = {}

Restart ==
  /\ memory' \in {acked} \cup doubt
  /\ UNCHANGED <<acked, doubt>>

Next == Attempt \/ Acknowledge \/ Restart

Spec == Init /\ [][Next]_vars
=============================================================================
