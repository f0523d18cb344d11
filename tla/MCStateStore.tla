---------------------------- MODULE MCStateStore ----------------------------
(***************************************************************************)
(* Instances of StateStore for TLC.                                        *)
(***************************************************************************)
EXTENDS StateStore, TLC

(* A crash may cut an append short, the rename is one step; and Windows,   *)
(* where it may take two, when no append is cut.                           *)
SoundFilesystems ==
  {[cuts |-> {"crash"}, moveAside |-> FALSE], [cuts |-> {}, moveAside |-> TRUE]}

(* A disk that fills up cuts an append short and the process goes on. *)
FullDisk == {[cuts |-> {"error"}, moveAside |-> FALSE]}

ContentsSymmetry == Permutations(Contents)
=============================================================================
