--------------------------- MODULE HandoffLifecycle ---------------------------
(***************************************************************************)
(* What the Runtime promises about a task handoff and the agent run that   *)
(* answers it, whatever turns, throws, deletions, crashes and recoveries   *)
(* do: the two rows move forward only, the run ends first, and the handoff *)
(* then takes over its result.                                             *)
(***************************************************************************)
EXTENDS FiniteSets

CONSTANT Handoffs

VARIABLES
    handoff,   \* [Handoffs -> status of the TaskHandoff row, "none" if absent]
    run        \* [Handoffs -> status of the AgentRun row, "none" if absent]

RunEnds == {"success", "partial", "failed"}

(* How a run's result reads on its handoff (toHandoffStatus). *)
ResultOf(result) == IF result = "success" THEN "completed" ELSE result

Init ==
    /\ handoff = [h \in Handoffs |-> "none"]
    /\ run = [h \in Handoffs |-> "none"]

MoveHandoff(h, from, to) ==
    /\ handoff[h] = from
    /\ handoff' = [handoff EXCEPT ![h] = to]
    /\ UNCHANGED run

MoveRun(h, from, to) ==
    /\ run[h] = from
    /\ run' = [run EXCEPT ![h] = to]
    /\ UNCHANGED handoff

Create(h) == run[h] = "none" /\ MoveHandoff(h, "none", "pending")

(* A run is opened for a pending handoff, or for one that was deleted. *)
OpenRun(h) == handoff[h] \in {"none", "pending"} /\ MoveRun(h, "none", "running")

Start(h) == run[h] = "running" /\ MoveHandoff(h, "pending", "running")

EndRun(h) ==
    /\ handoff[h] = "running"
    /\ \E result \in RunEnds : MoveRun(h, "running", result)

Settle(h) ==
    /\ run[h] \in RunEnds
    /\ MoveHandoff(h, "running", ResultOf(run[h]))

(* Interrupted runs fail together with the handoffs that wait for them. *)
Recover(stale) ==
    /\ \A h \in stale : run[h] = "running"
    /\ run' = [h \in Handoffs |-> IF h \in stale THEN "failed" ELSE run[h]]
    /\ handoff' = [h \in Handoffs |->
                      IF h \in stale /\ handoff[h] = "running"
                      THEN "failed" ELSE handoff[h]]

(* The workspace is deleted with every row. *)
DeleteAll ==
    /\ handoff' = [h \in Handoffs |-> "none"]
    /\ run' = [h \in Handoffs |-> "none"]

Next ==
    \/ \E h \in Handoffs :
          Create(h) \/ OpenRun(h) \/ Start(h) \/ EndRun(h) \/ Settle(h)
    \/ \E stale \in SUBSET Handoffs : Recover(stale)
    \/ DeleteAll

Spec == Init /\ [][Next]_<< handoff, run >>
=============================================================================
