-------------------------- MODULE MCProjectDelivery --------------------------
(***************************************************************************)
(* ProjectDelivery for TLC: requests, version ids and output files are     *)
(* interchangeable.                                                        *)
(***************************************************************************)
EXTENDS ProjectDelivery, TLC

Symmetry == Permutations(Requests) \union Permutations(Versions) \union Permutations(Files)
===============================================================================
