------------------------------- MODULE TaskRuns -------------------------------
(***************************************************************************)
(* The task-dispatch core of the AgentHub Runtime: concurrent chat turns,  *)
(* the agent sessions, task handoffs and agent runs they record in the     *)
(* shared state store, and the workspace repository their agents edit.     *)
(*                                                                         *)
(* A turn is one handleUserMessage call.  Its i-th dispatch is the slot    *)
(* <<t, i>>; an automatic repair adds an engineer and a reviewer slot      *)
(* after the dispatched ones.  A slot creates at most one session, handoff *)
(* and run, and names them.  The Node.js process interleaves turns, slots  *)
(* and requests at every await, so each action below is the code between   *)
(* two awaits, with the one store update (serialised and atomic) or        *)
(* repository access it ends in.                                           *)
(*                                                                         *)
(* The module follows one workspace; the store keeps others apart by id.   *)
(***************************************************************************)
EXTENDS TurnRouting

CONSTANTS
    Turns,           \* user messages; each is handled by one turn
    TurnKinds,       \* BOUND: the kinds of turn, a subset of {"main", "direct"}
    Outcomes,        \* BOUND: assessed outcomes, a subset of RunResults
    MaxCrashes,      \* BOUND: process crashes
    MaxFailures,     \* BOUND: rejected store, git or file operations
    MayDelete        \* BOUND: whether a user deletes the workspace

RunResults == {"success", "partial", "failed"}

ASSUME TaskRunsAssumption ==
    /\ TurnKinds \subseteq {"main", "direct"}
    /\ Outcomes \subseteq RunResults
    /\ MaxCrashes \in Nat
    /\ MaxFailures \in Nat
    /\ MayDelete \in BOOLEAN

(* A routed decision has at most MaxRouted dispatches; a repair adds two. *)
MaxRouted == IF MaxDispatches >= 2 THEN MaxDispatches + 1 ELSE 3
Slots     == Turns \X (1..(MaxRouted + 2))

VARIABLES
    \* the state store
    ws,         \* the workspace row: "live", "deleting" (files left), "deleted"
    sessions,   \* active agent sessions, named by the slot that created them
    handoff,    \* [Slots -> status of the slot's TaskHandoff row]
    run,        \* [Slots -> status of the slot's AgentRun row]
    changeSet,  \* [Slots -> writes its ChangeSet row attributes to the run]
    messages,   \* conversation messages of agents; <<t, 0>>: the main brain's
    \* the workspace directory
    repo,       \* slots whose agent has written to the working tree
    \* the Runtime process
    up,         \* whether it runs
    phase,      \* [Turns -> progress of handleUserMessage]
    plan,       \* [Turns -> the routed decision]
    pc,         \* [Slots -> the await its dispatch is at]
    session,    \* [Slots -> the session it uses]
    before,     \* [Slots -> beforeSnapshot]
    changed,    \* [Slots -> the diff against beforeSnapshot]
    outcome,    \* [Slots -> assessDelivery's status]
    crashes, failures

store == << ws, sessions, handoff, run, changeSet, messages >>
local == << phase, plan, pc, session, before, changed, outcome >>
vars  == << store, repo, up, local, crashes, failures >>

------------------------------------------------------------------------------
(***************************************************************************)
(* What a turn does, as far as its dispatches can tell.                    *)
(***************************************************************************)
Plans ==
    [kind: {"main", "direct"}, dispatches: Seq(Agents), parallel: BOOLEAN,
     blocked: BOOLEAN,    \* the route forbids execution
     locked: BOOLEAN,     \* the decision carries a lockedAgentId
     visible: Speakers]   \* whose output is the reply; Orchestrator: a summary

NoPlan == [kind |-> "main", dispatches |-> << >>, parallel |-> FALSE,
           blocked |-> FALSE, locked |-> FALSE, visible |-> Orchestrator]

MainPlan(d, allows) ==
    [kind |-> "main", dispatches |-> d.dispatches,
     parallel |-> d.execution = "parallel", blocked |-> ~allows,
     locked |-> d.locked # NoAgent,
     visible |-> IF VisibleTurn(d).finalization = "speaker_direct"
                 THEN VisibleTurn(d).speaker ELSE Orchestrator]

(* A direct conversation, or a group turn handed to one agent. *)
DirectPlan(a) ==
    [kind |-> "direct", dispatches |-> << a >>, parallel |-> FALSE,
     blocked |-> FALSE, locked |-> TRUE, visible |-> a]

RoutedPlans ==
    {p \in {DirectPlan(a) : a \in Members} \cup
           UNION {{MainPlan(d, allows) : d \in RoutedDecisions(allows)} :
                  allows \in BOOLEAN} :
     p.kind \in TurnKinds}

Dispatched(t) == Len(plan[t].dispatches)

AgentOf(s) ==
    LET n == Dispatched(s[1])
    IN IF s[2] <= n THEN plan[s[1]].dispatches[s[2]]
       ELSE IF s[2] = n + 1 THEN Engineer ELSE Reviewer

IsRepair(s)  == s[2] > Dispatched(s[1])
CanWrite(a)  == a \in FileWriters \cup ShellAgents
Blocked(s)   == plan[s[1]].blocked /\ CanWrite(AgentOf(s))

(* MUTANT: every run posts its output, the default of runTaskBrief's option. *)
PublishesAlways(s) == TRUE

Publishes(s) == IsRepair(s) \/ plan[s[1]].visible = AgentOf(s)

(* MUTANT: the run's status is copied to the handoff. *)
StatusCopied(result) == result

(* MUTANT: a partial result counts as completed. *)
PartialCompletes(result) == IF result = "failed" THEN "failed" ELSE "completed"

ToHandoffStatus(result) == IF result = "success" THEN "completed" ELSE result

Settled == {"completed", "partial", "failed"}

(* The awaits a started dispatch can be suspended at. *)
InFlight == {"push_session", "create_handoff", "begin", "push_run",
             "mark_running", "adapter", "persist", "complete"}

PCs == InFlight \cup {"idle", "returned", "threw", "dead"}

Phases == {"idle", "planning", "dispatching", "repairing",
           "finished", "thrown", "lost"}

TypeOK ==
    /\ ws \in {"live", "deleting", "deleted"}
    /\ sessions \subseteq Slots
    /\ handoff \in [Slots -> {"none", "pending", "running"} \cup Settled]
    /\ run \in [Slots -> {"none", "running"} \cup RunResults]
    /\ changeSet \in [Slots -> SUBSET Slots]
    /\ messages \subseteq Turns \X (0..(MaxRouted + 2))
    /\ repo \subseteq Slots
    /\ up \in BOOLEAN
    /\ phase \in [Turns -> Phases]
    /\ plan \in [Turns -> Plans]
    /\ pc \in [Slots -> PCs]
    /\ session \in [Slots -> Slots]
    /\ before \in [Slots -> SUBSET Slots]
    /\ changed \in [Slots -> SUBSET Slots]
    /\ outcome \in [Slots -> {"none"} \cup RunResults]
    /\ crashes \in 0..MaxCrashes
    /\ failures \in 0..MaxFailures

Init ==
    /\ ws = "live"
    /\ sessions = {}
    /\ handoff = [s \in Slots |-> "none"]
    /\ run = [s \in Slots |-> "none"]
    /\ changeSet = [s \in Slots |-> {}]
    /\ messages = {}
    /\ repo = {}
    /\ up = TRUE
    /\ phase = [t \in Turns |-> "idle"]
    /\ plan = [t \in Turns |-> NoPlan]
    /\ pc = [s \in Slots |-> "idle"]
    /\ session = [s \in Slots |-> s]
    /\ before = [s \in Slots |-> {}]
    /\ changed = [s \in Slots |-> {}]
    /\ outcome = [s \in Slots |-> "none"]
    /\ crashes = 0
    /\ failures = 0

------------------------------------------------------------------------------
(***************************************************************************)
(* handleUserMessage: the user's message is stored only in a workspace     *)
(* that exists; then the turn is routed.                                   *)
(***************************************************************************)
ReceiveMessage(t) ==
    /\ up /\ phase[t] = "idle" /\ ws = "live"
    /\ phase' = [phase EXCEPT ![t] = "planning"]
    /\ UNCHANGED << store, repo, up, plan, pc, session, before, changed,
                    outcome, crashes, failures >>

PlanTurn(t) ==
    /\ up /\ phase[t] = "planning"
    /\ \E p \in RoutedPlans : plan' = [plan EXCEPT ![t] = p]
    /\ phase' = [phase EXCEPT ![t] = "dispatching"]
    /\ UNCHANGED << store, repo, up, pc, session, before, changed, outcome,
                    crashes, failures >>

(* Promise.all starts every dispatch of a parallel batch at once, and does  *)
(* not stop the others when one throws; the serial loop and the repair pass *)
(* start a dispatch when the one before it has returned.                    *)
CanStart(s) ==
    LET t == s[1]
        i == s[2]
        n == Dispatched(t)
        first(k) == i > k => pc[<< t, i - 1 >>] = "returned"
    IN /\ up /\ pc[s] = "idle"
       /\ \/ /\ i <= n /\ plan[t].parallel
             /\ phase[t] \in {"dispatching", "thrown"}
          \/ /\ i <= n /\ ~plan[t].parallel
             /\ phase[t] = "dispatching" /\ first(1)
          \/ /\ i \in {n + 1, n + 2}
             /\ phase[t] = "repairing" /\ first(n + 1)

(* The handler steps of slot s that store nothing but move it on. *)
Goto(s, l) == pc' = [pc EXCEPT ![s] = l]

------------------------------------------------------------------------------
(***************************************************************************)
(* createMainDispatchSessionScope, createRepairSessionScope and the start  *)
(* of a direct turn: ensureAgentSession reads the store, and pushes a new  *)
(* session in a later update when the read found none.  A direct turn has  *)
(* resolved its agent before; the others resolve it from a fresh read,     *)
(* where a deleted workspace has no agents.                                *)
(***************************************************************************)
OwnSessions(s) == {x \in sessions : AgentOf(x) = AgentOf(s)}

AgentResolves(s) == ws = "live" \/ plan[s[1]].kind = "direct"

FindSession(s) ==
    /\ CanStart(s) /\ AgentResolves(s)
    /\ \E x \in OwnSessions(s) : session' = [session EXCEPT ![s] = x]
    /\ Goto(s, "create_handoff")
    /\ UNCHANGED << store, repo, up, phase, plan, before, changed, outcome,
                    crashes, failures >>

MissSession(s) ==
    /\ CanStart(s) /\ AgentResolves(s)
    /\ OwnSessions(s) = {}
    /\ Goto(s, "push_session")
    /\ UNCHANGED << store, repo, up, phase, plan, session, before, changed,
                    outcome, crashes, failures >>

PushSession(s) ==
    /\ pc[s] = "push_session"
    /\ sessions' = sessions \cup {s}
    /\ session' = [session EXCEPT ![s] = s]
    /\ Goto(s, "create_handoff")
    /\ UNCHANGED << ws, handoff, run, changeSet, messages, repo, up, phase,
                    plan, before, changed, outcome, crashes, failures >>

(* MUTANT: createTaskHandoff does not look the session up. *)
CreateHandoffUnchecked(s) ==
    /\ pc[s] = "create_handoff"
    /\ handoff' = [handoff EXCEPT ![s] = "pending"]
    /\ Goto(s, "begin")
    /\ UNCHANGED << ws, sessions, run, changeSet, messages, repo, up, phase,
                    plan, session, before, changed, outcome, crashes, failures >>

(* createTaskHandoff: requiredById finds the session. *)
CreateHandoff(s) ==
    /\ pc[s] = "create_handoff" /\ session[s] \in sessions
    /\ handoff' = [handoff EXCEPT ![s] = "pending"]
    /\ Goto(s, "begin")
    /\ UNCHANGED << ws, sessions, run, changeSet, messages, repo, up, phase,
                    plan, session, before, changed, outcome, crashes, failures >>

(* streamAndPersistAgentReply: a direct turn that runs no task. *)
LightweightReply(s) ==
    /\ pc[s] = "create_handoff" /\ plan[s[1]].kind = "direct"
    /\ session[s] \in sessions /\ ws = "live"
    /\ messages' = messages \cup {s}
    /\ Goto(s, "returned")
    /\ UNCHANGED << ws, sessions, handoff, run, changeSet, repo, up, phase,
                    plan, session, before, changed, outcome, crashes, failures >>

------------------------------------------------------------------------------
(***************************************************************************)
(* runTaskBrief.  A route that forbids execution ends the dispatch before  *)
(* its handoff is touched; otherwise the repository is snapshot.           *)
(***************************************************************************)
BlockRun(s) ==
    /\ pc[s] = "begin" /\ ws = "live" /\ Blocked(s)
    /\ outcome' = [outcome EXCEPT ![s] = "failed"]
    /\ Goto(s, "returned")
    /\ UNCHANGED << store, repo, up, phase, plan, session, before, changed,
                    crashes, failures >>

BeginRun(s) ==
    /\ pc[s] = "begin" /\ ws = "live" /\ ~Blocked(s)
    /\ before' = [before EXCEPT ![s] = repo]
    /\ Goto(s, "push_run")
    /\ UNCHANGED << store, repo, up, phase, plan, session, changed, outcome,
                    crashes, failures >>

(* The run row is pushed without looking at the workspace. *)
PushRun(s) ==
    /\ pc[s] = "push_run"
    /\ run' = [run EXCEPT ![s] = "running"]
    /\ Goto(s, "mark_running")
    /\ UNCHANGED << ws, sessions, handoff, changeSet, messages, repo, up,
                    phase, plan, session, before, changed, outcome, crashes,
                    failures >>

(* markTaskHandoffRunning *)
MarkHandoffRunning(s) ==
    /\ pc[s] = "mark_running" /\ handoff[s] # "none"
    /\ handoff' = [handoff EXCEPT ![s] = "running"]
    /\ Goto(s, "adapter")
    /\ UNCHANGED << ws, sessions, run, changeSet, messages, repo, up, phase,
                    plan, session, before, changed, outcome, crashes, failures >>

(* The agent's own process edits files, with its edit tools or its shell. *)
AgentWrites(s) ==
    /\ up /\ pc[s] = "adapter" /\ CanWrite(AgentOf(s)) /\ s \notin repo
    /\ repo' = repo \cup {s}
    /\ UNCHANGED << store, up, local, crashes, failures >>

(* runAgentWithFallback answers with a result whatever the adapter does;    *)
(* the diff against beforeSnapshot, validation, review verdict and          *)
(* assessDelivery follow.                                                   *)
AgentReturns(s) ==
    /\ pc[s] = "adapter"
    /\ changed' = [changed EXCEPT ![s] = repo \ before[s]]
    /\ before' = [before EXCEPT ![s] = {}]
    /\ \E o \in Outcomes : outcome' = [outcome EXCEPT ![s] = o]
    /\ Goto(s, "persist")
    /\ UNCHANGED << store, repo, up, phase, plan, session, crashes, failures >>

(* persistRunResult: the run, its change set and, for the visible speaker,  *)
(* its message in one update that needs every row it touches.               *)
PersistRunResult(s) ==
    /\ pc[s] = "persist"
    /\ run[s] # "none" /\ session[s] \in sessions /\ ws = "live"
    /\ run' = [run EXCEPT ![s] = outcome[s]]
    /\ changeSet' = [changeSet EXCEPT ![s] = changed[s]]
    /\ messages' = IF Publishes(s) THEN messages \cup {s} ELSE messages
    /\ changed' = [changed EXCEPT ![s] = {}]
    /\ Goto(s, "complete")
    /\ UNCHANGED << ws, sessions, handoff, repo, up, phase, plan, session,
                    before, outcome, crashes, failures >>

(* completeTaskHandoff *)
CompleteHandoff(s) ==
    /\ pc[s] = "complete" /\ handoff[s] # "none" /\ session[s] \in sessions
    /\ handoff' = [handoff EXCEPT ![s] = ToHandoffStatus(outcome[s])]
    /\ Goto(s, "returned")
    /\ UNCHANGED << ws, sessions, run, changeSet, messages, repo, up, phase,
                    plan, session, before, changed, outcome, crashes, failures >>

------------------------------------------------------------------------------
(***************************************************************************)
(* An exception in a dispatch rejects the turn.  requiredById throws when  *)
(* a row is gone, and the update it throws in changes nothing.             *)
(***************************************************************************)
(* MUTANT: a deleted handoff is not noticed, its result is awaited. *)
RowMissingAfterRun(s) ==
    \/ CanStart(s) /\ ~AgentResolves(s)
    \/ pc[s] = "create_handoff" /\ session[s] \notin sessions
    \/ pc[s] \in {"begin", "persist"} /\ ws # "live"

RowMissing(s) ==
    \/ CanStart(s) /\ ~AgentResolves(s)
    \/ /\ pc[s] = "create_handoff"
       /\ \/ session[s] \notin sessions
          \/ plan[s[1]].kind = "direct" /\ ws # "live"
    \/ pc[s] = "begin" /\ ws # "live"
    \/ pc[s] = "mark_running" /\ handoff[s] = "none"
    \/ /\ pc[s] = "persist"
       /\ run[s] = "none" \/ session[s] \notin sessions \/ ws # "live"
    \/ /\ pc[s] = "complete"
       /\ handoff[s] = "none" \/ session[s] \notin sessions

(* MUTANT: the exception is logged and the dispatch returns. *)
ThrowSwallowed(s) ==
    /\ Goto(s, "returned")
    /\ UNCHANGED << store, repo, up, phase, plan, session, before, changed,
                    outcome, crashes >>

Throw(s) ==
    /\ Goto(s, "threw")
    /\ phase' = [phase EXCEPT ![s[1]] = "thrown"]
    /\ UNCHANGED << store, repo, up, plan, session, before, changed, outcome,
                    crashes >>

ThrowMissing(s) == RowMissing(s) /\ Throw(s) /\ UNCHANGED failures

(* The store, git or the file system rejects the awaited operation. *)
OperationFails(s) ==
    /\ failures < MaxFailures
    /\ pc[s] \in InFlight \/ CanStart(s)
    /\ failures' = failures + 1
    /\ Throw(s)

------------------------------------------------------------------------------
(***************************************************************************)
(* planAutomaticRepair: the latest engineer result was not a success, or   *)
(* the latest reviewer result was not.  (A failed validation or a FAIL or  *)
(* PARTIAL verdict has already lowered the assessed status.)               *)
(***************************************************************************)
(* MUTANT: Promise.race for Promise.all. *)
ReturnedAny(t, first, last) ==
    last < first \/ \E i \in first..last : pc[<< t, i >>] = "returned"

Returned(t, first, last) == \A i \in first..last : pc[<< t, i >>] = "returned"

LatestUnsuccessful(t, a) ==
    \E i \in 1..Dispatched(t) :
        /\ plan[t].dispatches[i] = a
        /\ \A j \in i + 1..Dispatched(t) : plan[t].dispatches[j] # a
        /\ outcome[<< t, i >>] # "success"

NeedsRepair(t) ==
    /\ ~plan[t].locked
    /\ Mentions(plan[t].dispatches, {Engineer})
    /\ LatestUnsuccessful(t, Engineer) \/ LatestUnsuccessful(t, Reviewer)

(* runAutomaticRepairIfNeeded *)
StartRepair(t) ==
    /\ phase[t] = "dispatching" /\ Returned(t, 1, Dispatched(t))
    /\ NeedsRepair(t)
    /\ phase' = [phase EXCEPT ![t] = "repairing"]
    /\ UNCHANGED << store, repo, up, plan, pc, session, before, changed,
                    outcome, crashes, failures >>

(* The turn is over: a single visible speaker or a locked agent has had the *)
(* word, otherwise the main brain's reply or synthesis is stored.           *)
(* MUTANT: nothing follows the repair pass. *)
EndedUnlessRepaired(t) ==
    /\ phase[t] = "dispatching" /\ Returned(t, 1, Dispatched(t))
    /\ ~NeedsRepair(t)

Ended(t) ==
    \/ /\ phase[t] = "dispatching" /\ Returned(t, 1, Dispatched(t))
       /\ ~NeedsRepair(t)
    \/ phase[t] = "repairing" /\ Returned(t, 1, Dispatched(t) + 2)

Summarises(t) ==
    /\ ~plan[t].locked
    /\ \/ plan[t].visible = Orchestrator
       \/ Dispatched(t) # 1
       \/ phase[t] = "repairing"

FinishTurn(t) ==
    /\ Ended(t) /\ up
    /\ Summarises(t) => ws = "live"
    /\ messages' = IF Summarises(t) THEN messages \cup {<< t, 0 >>} ELSE messages
    /\ phase' = [phase EXCEPT ![t] = "finished"]
    /\ UNCHANGED << ws, sessions, handoff, run, changeSet, repo, up, plan, pc,
                    session, before, changed, outcome, crashes, failures >>

SummaryThrows(t) ==
    /\ Ended(t) /\ up /\ Summarises(t) /\ ws # "live"
    /\ phase' = [phase EXCEPT ![t] = "thrown"]
    /\ UNCHANGED << store, repo, up, plan, pc, session, before, changed,
                    outcome, crashes, failures >>

------------------------------------------------------------------------------
(***************************************************************************)
(* DELETE /api/workspaces/:workspaceId: one update drops every row of the  *)
(* workspace, then its directory is removed.                               *)
(***************************************************************************)
DeleteWorkspace ==
    /\ MayDelete /\ up /\ ws = "live"
    /\ ws' = "deleting"
    /\ sessions' = {}
    /\ handoff' = [s \in Slots |-> "none"]
    /\ run' = [s \in Slots |-> "none"]
    /\ changeSet' = [s \in Slots |-> {}]
    /\ messages' = {}
    /\ UNCHANGED << repo, up, local, crashes, failures >>

RemoveDirectory ==
    /\ up /\ ws = "deleting"
    /\ ws' = "deleted"
    /\ repo' = {}
    /\ UNCHANGED << sessions, handoff, run, changeSet, messages, up, local,
                    crashes, failures >>

(***************************************************************************)
(* The process stops and forgets its turns; the store and the files stay.  *)
(***************************************************************************)
Crash ==
    /\ up /\ crashes < MaxCrashes
    /\ up' = FALSE
    /\ crashes' = crashes + 1
    /\ ws' = IF ws = "deleting" THEN "deleted" ELSE ws
    /\ phase' = [t \in Turns |->
                    IF phase[t] \in {"idle", "finished"} THEN phase[t] ELSE "lost"]
    /\ pc' = [s \in Slots |-> IF pc[s] \in InFlight THEN "dead" ELSE pc[s]]
    /\ UNCHANGED << sessions, handoff, run, changeSet, messages, repo, plan,
                    session, before, changed, outcome, failures >>

(***************************************************************************)
(* recoverStaleAgentRunsInState, run at startup only.  A run is stale when *)
(* it was started more than 900 seconds or twice its agent's limit ago;    *)
(* how long the process was down is arbitrary, so any of the running runs. *)
(***************************************************************************)
(* MUTANT: the recovery does not look at the status of a run. *)
RunsOfAnyStatus == {s \in Slots : run[s] # "none"}

RunsInProgress == {s \in Slots : run[s] = "running"}

Restart ==
    /\ ~up
    /\ up' = TRUE
    /\ \E stale \in SUBSET RunsInProgress :
        /\ run' = [s \in Slots |-> IF s \in stale THEN "failed" ELSE run[s]]
        /\ handoff' = [s \in Slots |->
                          IF s \in stale /\ handoff[s] = "running"
                          THEN "failed" ELSE handoff[s]]
    /\ UNCHANGED << ws, sessions, changeSet, messages, repo, local, crashes,
                    failures >>

------------------------------------------------------------------------------
Dispatch(s) ==
    \/ FindSession(s) \/ MissSession(s) \/ PushSession(s) \/ CreateHandoff(s)
    \/ LightweightReply(s) \/ BlockRun(s) \/ BeginRun(s) \/ PushRun(s)
    \/ MarkHandoffRunning(s) \/ AgentReturns(s) \/ PersistRunResult(s)
    \/ CompleteHandoff(s) \/ ThrowMissing(s)

Turn(t) == PlanTurn(t) \/ StartRepair(t) \/ FinishTurn(t) \/ SummaryThrows(t)

Next ==
    \/ \E s \in Slots : Dispatch(s) \/ AgentWrites(s) \/ OperationFails(s)
    \/ \E t \in Turns : ReceiveMessage(t) \/ Turn(t)
    \/ DeleteWorkspace \/ RemoveDirectory \/ Crash \/ Restart

Spec == Init /\ [][Next]_vars

(***************************************************************************)
(* The event loop runs every step whose await is answered; agent processes *)
(* are assumed to end (runProcess stops them after maxRunSeconds).  Users, *)
(* crashes and failing operations may never come.                          *)
(***************************************************************************)
Fairness ==
    /\ \A s \in Slots : WF_vars(Dispatch(s))
    /\ \A t \in Turns : WF_vars(Turn(t))

FairSpec == Spec /\ Fairness

------------------------------------------------------------------------------
(***************************************************************************)
(* Safety.                                                                 *)
(***************************************************************************)

(* TaskRuns implements the life cycle it promises for handoffs and runs:    *)
(* the rows move forward only and the run always ends before its handoff.   *)
Lifecycle == INSTANCE HandoffLifecycle WITH Handoffs <- Slots

LifecycleSpec == Lifecycle!Spec

(* A settled handoff tells the truth about its run: completed, partial or   *)
(* failed exactly as the run ended, across throws, deletion, crashes and    *)
(* the recovery of stale runs (persistRunResult before completeTaskHandoff, *)
(* recoverStaleAgentRunsInState).                                           *)
HandoffAgreesWithRun ==
    \A s \in Slots :
        /\ handoff[s] = "completed" => run[s] = "success"
        /\ handoff[s] \in {"partial", "failed"} => run[s] = handoff[s]

(* A turn that ends normally leaves no run open, and no handoff either,     *)
(* except the pending handoff of a dispatch its read-only route blocked.    *)
FinishedTurnIsSettled ==
    \A s \in Slots :
        phase[s[1]] = "finished" =>
            /\ run[s] # "running"
            /\ handoff[s] # "running"
            /\ handoff[s] = "pending" => Blocked(s) /\ run[s] = "none"

(* applyExecutionSafety at work: a change set never blames a run for what a *)
(* file-writing agent of another dispatch of the same turn wrote, in serial *)
(* and parallel batches, repairs, and batches a throw left running.         *)
OwnWritesWithinTurn ==
    \A s \in Slots : \A w \in changeSet[s] :
        w[1] = s[1] /\ w # s => AgentOf(w) \notin FileWriters

(* Rows never dangle: a handoff lies in a stored session and a change set    *)
(* belongs to an ended run, though the workspace may be deleted between any  *)
(* two updates of a dispatch (the requiredById calls in createTaskHandoff,   *)
(* persistRunResult and completeTaskHandoff).                                *)
ReferencesResolve ==
    \A s \in Slots :
        /\ handoff[s] # "none" => session[s] \in sessions
        /\ changeSet[s] # {} => run[s] \in RunResults

(* Until a repair starts, at most one speaker of a turn has posted: the     *)
(* visible agent or the main brain (resolveVisibleTurn,                     *)
(* shouldPersistChildRunAsConversationMessage, the ends of                  *)
(* handleUserMessage).                                                      *)
RepairStarted(t) ==
    \E i \in Dispatched(t) + 1..Dispatched(t) + 2 :
        <<t, i>> \in Slots /\ pc[<<t, i>>] # "idle"

OneSpeakerUnlessRepaired ==
    \A m1, m2 \in messages :
        m1[1] = m2[1] /\ ~RepairStarted(m1[1]) => m1 = m2

(***************************************************************************)
(* Liveness, under FairSpec.                                               *)
(***************************************************************************)
Busy == {"planning", "dispatching", "repairing"}

(* A turn that was accepted ends: it finishes, throws, or is lost in a crash. *)
TurnsEnd == \A t \in Turns : phase[t] \in Busy ~> phase[t] \notin Busy

(* A dispatch never hangs, also when its turn was rejected because of a     *)
(* sibling of the same parallel batch.                                      *)
DispatchesEnd == \A s \in Slots : pc[s] \in InFlight ~> pc[s] \notin InFlight

(***************************************************************************)
(* What the documentation says and the code does not keep.                 *)
(***************************************************************************)

(* "TaskHandoff is updated to completed / partial / failed with the final   *)
(* status of its AgentRun": the run ended and nobody works on it any more.  *)
HandoffFollowsRun ==
    \A s \in Slots :
        run[s] \in RunResults /\ pc[s] \notin InFlight => handoff[s] \in Settled

(* "One visible speaker per turn", repair or not. *)
OneVisibleSpeaker ==
    \A m1, m2 \in messages : m1[1] = m2[1] => m1 = m2

(* "One visible speaker per turn": a turn that finished has one. *)
FinishedTurnHasSpeaker ==
    \A t \in Turns : phase[t] = "finished" => \E m \in messages : m[1] = t

(* "File-writing agents require exclusive workspace writes", also of the    *)
(* agents of another turn in the same workspace.                            *)
ExclusiveWrites ==
    \A s \in Slots : \A w \in changeSet[s] :
        w # s => AgentOf(w) \notin FileWriters

(* "An engineer execution requires review before final synthesis." *)
DeliveryIsReviewed ==
    \A s \in Slots :
        /\ phase[s[1]] = "finished" /\ ~plan[s[1]].locked
        /\ pc[s] = "returned" /\ AgentOf(s) = Engineer
        => \E r \in Slots : /\ r[1] = s[1] /\ r[2] > s[2]
                            /\ pc[r] = "returned" /\ AgentOf(r) = Reviewer

(* "Deletes the run-time data and the local runtime directory": nothing of  *)
(* a deleted workspace comes back.                                          *)
DeletedWorkspaceIsEmpty ==
    ws = "deleted" /\ up =>
        /\ sessions = {} /\ messages = {} /\ repo = {}
        /\ \A s \in Slots : run[s] = "none" /\ handoff[s] = "none"

(* ensureAgentSession "returns the active session for an agent or creates   *)
(* one": an agent has one active session.                                   *)
OneSessionPerAgent ==
    \A x, y \in sessions : AgentOf(x) = AgentOf(y) => x = y
=============================================================================
