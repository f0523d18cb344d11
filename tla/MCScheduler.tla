----------------------------- MODULE MCScheduler -----------------------------
(***************************************************************************)
(* Scheduler with a history of what woke the loop.                         *)
(***************************************************************************)
EXTENDS Scheduler

VARIABLE woken \* credentials whose deadline woke the loop and that have had no turn since

Due == {c \in Creds : alarm[c] = 0}

Noted ==
  woken' = ((IF loop = "sleep" /\ loop' = "list" THEN woken \cup Due ELSE woken)
            \ (IF holder' = Off THEN {holder} ELSE {}))

(* A plugin that is never stopped. *)
MCSpec == Init /\ woken = {} /\ [][Run /\ Noted]_<<vars, woken>>

=============================================================================
