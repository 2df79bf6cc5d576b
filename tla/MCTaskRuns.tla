------------------------------ MODULE MCTaskRuns ------------------------------
(***************************************************************************)
(* Model values and the refinement mapping with which TLC checks TaskRuns: *)
(* the engineer writes files and runs a shell, the reviewer only runs a    *)
(* shell, the product manager has neither (workspace-agents.ts).           *)
(***************************************************************************)
EXTENDS TaskRuns, TLC

CONSTANTS eng, rev, pm

MCAgents      == {eng, rev, pm}
MCFileWriters == {eng}
MCShellAgents == {eng, rev}
=============================================================================
