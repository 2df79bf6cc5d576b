---------------------------- MODULE MCPreviewBuilds ----------------------------
(***************************************************************************)
(* Symmetry for TLC: nothing distinguishes two calls.                      *)
(***************************************************************************)
EXTENDS PreviewBuilds, TLC

Symmetry == Permutations(Requests)
================================================================================
