---------------------------- MODULE MC_Executor ----------------------------
(* Executor with three invocations of either hook.                         *)
EXTENDS Executor, TLC

CONSTANTS i1, i2, i3

MC_Invocations == {i1, i2, i3}

MC_Symmetry == Permutations(MC_Invocations)
=============================================================================
