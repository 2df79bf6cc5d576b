---------------------------- MODULE MCWorkflowEvents ----------------------------
(***************************************************************************)
(* Symmetry for TLC: nothing distinguishes two turns or two dispatches.    *)
(***************************************************************************)
EXTENDS WorkflowEvents, TLC

Symmetry == Permutations(Turns) \union Permutations(Dispatches)
================================================================================
