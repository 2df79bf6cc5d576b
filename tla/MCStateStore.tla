------------------------------ MODULE MCStateStore ------------------------------
(***************************************************************************)
(* The stamps of the runs for TLC: one run starts before the other two,    *)
(* which have one stamp, and their rows may be stored in any order.        *)
(***************************************************************************)
EXTENDS StateStore

CONSTANT FirstRun

MCStartedAt ==
    [r \in Runs \union {SeedRun} |->
        CASE r = SeedRun -> 0 [] r = FirstRun -> 1 [] OTHER -> 2]
================================================================================
