----------------------------- MODULE DeliveryGate -----------------------------
(***************************************************************************)
(* The delivery gate of a project: what the business backend hears of the  *)
(* turns of the Runtime, what it records of them, and whether it lets the  *)
(* workspace be saved as a version.                                        *)
(*                                                                         *)
(* streamProjectMessage relays the event stream of a turn and records its  *)
(* events in the project's metadata when the stream has ended.  A turn is  *)
(* a list of runs; each ends with a status and, by its agent, the outcome  *)
(* of a validation of the files or a review verdict, and the Runtime       *)
(* repairs an unsuccessful engineer once.  The gate reads the recorded     *)
(* events, never the status of a run.                                      *)
(*                                                                         *)
(* The turns of the project follow each other: concurrent updates of its   *)
(* metadata are the subject of ProjectDelivery.                            *)
(***************************************************************************)
EXTENDS TurnRouting

CONSTANTS
    Judges,      \* agents whose output is read as a review verdict
    Statuses,    \* BOUND: statuses of runs
    Findings,    \* BOUND: validation outcomes and verdicts
    MaxTurns,    \* BOUND: messages streamed through the backend
    MaxLost,     \* BOUND: streams and records that break
    MaxThrows    \* BOUND: turns that throw

RunResults  == {"success", "partial", "failed"}
Validations == {"none", "pass", "partial", "skipped"}
Verdicts    == {"none", "pass", "partial", "fail", "unknown"}

ASSUME GateAssumption ==
    /\ Judges \subseteq Agents
    /\ Statuses \subseteq RunResults
    /\ Findings \subseteq Validations \cup Verdicts
    /\ {MaxTurns, MaxLost, MaxThrows} \subseteq Nat

VARIABLES
    phase,    \* progress of the turn, handleUserMessage in the Runtime
    plan,     \* what the turn dispatches
    result,   \* the results of its runs, by position
    relay,    \* progress of streamProjectMessage in the backend
    heard,    \* the last events of each kind the backend received
    doc,      \* latestWorkflow in the stored metadata
    before,   \* history: how the last earlier turn with an engineer ended
    turns, lost, throws   \* counters of the bounds

runtime == << phase, plan, result, throws >>
backend == << relay, heard, doc, lost >>
vars    == << runtime, backend, before, turns >>

(* ProjectWorkflowSummary: the fields the gate reads. *)
Summaries == [recorded: BOOLEAN, validation: Validations, verdict: Verdicts,
              blocked: BOOLEAN]
Nothing   == [recorded |-> FALSE, validation |-> "none", verdict |-> "none",
              blocked |-> FALSE]

(* What a turn dispatches, in a direct conversation or by a routed decision. *)
Plans == [dispatches: Seq(Agents), parallel: BOOLEAN, locked: BOOLEAN,
          allowed: BOOLEAN]

DirectPlan(a) == [dispatches |-> << a >>, parallel |-> FALSE, locked |-> TRUE,
                  allowed |-> TRUE]
MainPlan(d, allows) ==
    [dispatches |-> d.dispatches, parallel |-> d.execution = "parallel",
     locked |-> d.locked # NoAgent, allowed |-> allows]

TurnPlans ==
    {DirectPlan(a) : a \in Members} \cup
    UNION {{MainPlan(d, allows) : d \in RoutedDecisions(allows)} :
           allows \in BOOLEAN}

(* The positions of a turn's runs; a repair adds an engineer and a reviewer. *)
Positions  == 1..(MaxDispatches + 4)
Dispatched == Len(plan.dispatches)
AgentAt(i) == IF i <= Dispatched THEN plan.dispatches[i]
              ELSE IF i = Dispatched + 1 THEN Engineer ELSE Reviewer

------------------------------------------------------------------------------
(***************************************************************************)
(* How a run ends.                                                         *)
(***************************************************************************)
Results == [status: RunResults \cup {"none"}, validation: Validations,
            verdict: Verdicts]
NotRun     == [status |-> "none", validation |-> "none", verdict |-> "none"]

(* MUTANT: a blocked run is reported with a status of its own. *)
StatusBlocked == [status |-> "blocked", validation |-> "none", verdict |-> "none"]

BlockedRun == [status |-> "failed", validation |-> "none", verdict |-> "none"]

(* applyDeliveryGates: what validation and review found lowers the status. *)
Lowered(r) ==
    /\ r.verdict = "fail" => r.status = "failed"
    /\ "partial" \in {r.validation, r.verdict} => r.status # "success"

(* A validation of the files of whoever may write, a verdict of a judge. *)
Assessed(a) ==
    {r \in [status: Statuses, validation: Validations \cap (Findings \cup {"none"}),
            verdict: Verdicts \cap (Findings \cup {"none"})] :
        /\ r.validation # "none" <=> a \in FileWriters \cup {Engineer}
        /\ r.verdict # "none" <=> a \in Judges
        /\ Lowered(r)}

(* runTaskBrief: a read-only route blocks the run of an agent that may write. *)
Outcome(a) ==
    IF plan.allowed \/ a \notin FileWriters \cup ShellAgents
    THEN Assessed(a) ELSE {BlockedRun}

Returned(first, last) == \A i \in first..last : result[i] # NotRun

LastOf(a, i) ==
    /\ AgentAt(i) = a /\ result[i] # NotRun
    /\ \A j \in Positions : j > i /\ AgentAt(j) = a => result[j] = NotRun

Unsuccessful(a) == \E i \in Positions : LastOf(a, i) /\ result[i].status # "success"

(* planAutomaticRepair *)
NeedsRepair ==
    /\ ~plan.locked
    /\ Mentions(plan.dispatches, {Engineer})
    /\ Unsuccessful(Engineer) \/ Unsuccessful(Reviewer)

(* MUTANT: the repair counts as successful when its engineer was. *)
RepairFailsByEngineer(i, r) == i = Dispatched + 2 /\ result[i - 1].status # "success"

(* The pass over, runAutomaticRepairIfNeeded says so when it did not help. *)
RepairFails(i, r) ==
    /\ i = Dispatched + 2
    /\ r.status # "success" \/ result[i - 1].status # "success"

------------------------------------------------------------------------------
(* MUTANT: the first finding stays. *)
KeepsFirst(old, new) ==
    [recorded   |-> TRUE,
     validation |-> IF old.validation # "none" THEN old.validation ELSE new.validation,
     verdict    |-> IF old.verdict # "none" THEN old.verdict ELSE new.verdict,
     blocked    |-> old.blocked \/ new.blocked]

(* recordWorkflowEvents: the last event of each kind replaces what was known, *)
(* and what no event speaks of stays.                                        *)
Noted(old, new) ==
    [recorded   |-> TRUE,
     validation |-> IF new.validation # "none" THEN new.validation ELSE old.validation,
     verdict    |-> IF new.verdict # "none" THEN new.verdict ELSE old.verdict,
     blocked    |-> old.blocked \/ new.blocked]

(* VersionsService.assertAgentGate *)
GateOpens ==
    /\ doc.recorded
    /\ ~doc.blocked
    /\ doc.validation \in {"none", "pass"}
    /\ doc.verdict \in {"none", "pass"}

NoPlan == [dispatches |-> << >>, parallel |-> FALSE, locked |-> FALSE, allowed |-> TRUE]
NoRuns == [i \in Positions |-> NotRun]

Init ==
    /\ phase = "finished" /\ plan = NoPlan /\ result = NoRuns
    /\ relay = "recorded" /\ heard = Nothing /\ doc = Nothing
    /\ before = "none"
    /\ turns = 0 /\ lost = 0 /\ throws = 0

(* The turn has ended and the backend is done with its stream. *)
Quiet == phase \in {"finished", "threw"} /\ relay \in {"recorded", "lost"}

(* How the repository was left by the last turn whose engineer worked. *)
Endings == {"none", "unknown", "unsuccessful", "successful"}
LastWork ==
    IF \A i \in Positions : AgentAt(i) = Engineer => result[i] \in {NotRun, BlockedRun}
        THEN before
    ELSE IF phase # "finished" \/ relay # "recorded" \/ plan.locked THEN "unknown"
    ELSE IF Unsuccessful(Engineer) \/ Unsuccessful(Reviewer) THEN "unsuccessful"
    ELSE "successful"

------------------------------------------------------------------------------
(* A message is streamed to the Runtime, which plans its turn. *)
Begin ==
    /\ Quiet /\ turns < MaxTurns
    /\ phase' = "running" /\ relay' = "open"
    /\ plan' \in TurnPlans
    /\ result' = NoRuns /\ heard' = Nothing
    /\ before' = LastWork
    /\ turns' = turns + 1
    /\ UNCHANGED << doc, lost, throws >>

(* Runs return in order, those of a parallel batch in any order, and those   *)
(* of a repair behind the batch.                                             *)
MayReturn(i) ==
    /\ result[i] = NotRun
    /\ \/ phase = "running" /\ i \in 1..Dispatched
       \/ phase = "repairing" /\ i \in Dispatched + 1..Dispatched + 2
    /\ Returned(1, i - 1) \/ (plan.parallel /\ phase = "running")

(* A run ends; its events reach the backend while the stream holds. *)
Return(i) ==
    /\ MayReturn(i)
    /\ \E r \in Outcome(AgentAt(i)) :
        /\ result' = [result EXCEPT ![i] = r]
        /\ heard' = IF relay # "open" THEN heard
                    ELSE Noted(heard, [recorded   |-> TRUE,
                                       validation |-> r.validation,
                                       verdict    |-> r.verdict,
                                       blocked    |-> RepairFails(i, r)])
    /\ UNCHANGED << phase, plan, throws, relay, doc, lost, before, turns >>

Repair ==
    /\ phase = "running" /\ Returned(1, Dispatched) /\ NeedsRepair
    /\ phase' = "repairing"
    /\ UNCHANGED << plan, result, throws, backend, before, turns >>

Finish ==
    /\ \/ phase = "running" /\ Returned(1, Dispatched) /\ ~NeedsRepair
       \/ phase = "repairing" /\ Returned(1, Dispatched + 2)
    /\ phase' = "finished"
    /\ UNCHANGED << plan, result, throws, backend, before, turns >>

(* The turn throws wherever it is; the route reports it and ends the stream. *)
Throw ==
    /\ phase \in {"running", "repairing"} /\ throws < MaxThrows
    /\ phase' = "threw"
    /\ throws' = throws + 1
    /\ UNCHANGED << plan, result, backend, before, turns >>

------------------------------------------------------------------------------
(* MUTANT: the stream is ended behind the turn, not in a finally. *)
StreamEndsIfFinished == phase = "finished"

(* The Runtime ends the stream in a finally, however the turn ended. *)
StreamEnds == phase \in {"finished", "threw"}

(* The loop over the stream ends and updateProject records the events. *)
Record ==
    /\ relay = "open" /\ StreamEnds
    /\ relay' = "recorded"
    /\ doc' = Noted(doc, heard)
    /\ UNCHANGED << runtime, heard, lost, before, turns >>

(* The connection breaks, the backend stops or its update fails: reader.read *)
(* or the update rejects, and none of the events heard is recorded.          *)
Lose ==
    /\ relay = "open" /\ lost < MaxLost
    /\ relay' = "lost"
    /\ lost' = lost + 1
    /\ UNCHANGED << runtime, heard, doc, before, turns >>

Proceed == (\E i \in Positions : Return(i)) \/ Repair \/ Finish \/ Record

Next == Begin \/ Proceed \/ Throw \/ Lose

Spec == Init /\ [][Next]_vars

(* Agent processes end, and awaited reads and writes are answered. *)
FairSpec == Spec /\ WF_vars(Proceed)

------------------------------------------------------------------------------
TypeOK ==
    /\ phase \in {"running", "repairing", "finished", "threw"}
    /\ plan \in Plans
    /\ result \in [Positions -> Results]
    /\ relay \in {"open", "recorded", "lost"}
    /\ heard \in Summaries /\ doc \in Summaries
    /\ before \in Endings
    /\ turns \in 0..MaxTurns /\ lost \in 0..MaxLost /\ throws \in 0..MaxThrows

(* The gate looks at no run, yet it opens only for work that succeeded: the  *)
(* last turn that changed the files, if it ended by itself without a lock    *)
(* and was recorded, left its last engineer and its last reviewer run        *)
(* successful (applyDeliveryGates, the repair pass and its repair_blocked    *)
(* event, recordWorkflowEvents and assertAgentGate together).                *)
AdmittedWorkSucceeded == Quiet /\ GateOpens => LastWork # "unsuccessful"

(* The runs that may return after the one at position i, and whose findings  *)
(* then replace its findings: in a parallel batch every other one may.       *)
MayFollow(i) ==
    {j \in Positions :
        \/ j > i
        \/ plan.parallel /\ i <= Dispatched /\ j \in 1..Dispatched \ {i}}

(* The turn delivered: validated and reviewed with success, repaired or not. *)
Delivered ==
    /\ phase = "finished" /\ relay = "recorded"
    /\ \E i \in Positions :
        /\ result[i].status = "success" /\ result[i].validation = "pass"
        /\ \A j \in MayFollow(i) : result[j].validation = "none"
    /\ \E i \in Positions :
        /\ result[i].status = "success" /\ result[i].verdict = "pass"
        /\ \A j \in MayFollow(i) : result[j].verdict = "none"

(* What was wrong earlier does not stand in the way of a later delivery, in  *)
(* the same turn or the next, unless a repair was blocked: the gate is open  *)
(* after a turn that delivered (recordWorkflowEvents).                       *)
DeliveryOpensGate == Delivered /\ ~doc.blocked => GateOpens

(* Every stream is recorded or has broken, whatever became of its turn       *)
(* (streamProjectMessage, under FairSpec).                                   *)
StreamsAreRecorded == relay = "open" ~> Quiet

(***************************************************************************)
(* What the documentation says and the code does not keep.                 *)
(***************************************************************************)

(* "Requires the latest workflow not to be blocked, and its validation and   *)
(* review to have passed": a workflow like that is admitted.                 *)
GateFollowsLatestTurn == Delivered => GateOpens
===============================================================================
