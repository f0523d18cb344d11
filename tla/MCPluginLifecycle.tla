-------------------------- MODULE MCPluginLifecycle --------------------------
(***************************************************************************)
(* Instances of PluginLifecycle for TLC.                                   *)
(***************************************************************************)
EXTENDS PluginLifecycle, TLC

ReloadSymmetry == Permutations(Runtimes) \cup Permutations(Cycles)
=============================================================================
