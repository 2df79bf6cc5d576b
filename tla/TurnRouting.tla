----------------------------- MODULE TurnRouting -----------------------------
(***************************************************************************)
(* How one user message of a conversation becomes a plan of agent runs.    *)
(*                                                                         *)
(* handleUserMessage asks a planner (a model, or deterministic rules) for  *)
(* a decision and passes it through four guards, in this order:            *)
(* applyTaskStageGuard, then lockRoutingDecisionToAgent when the message   *)
(* mentions one agent, else applyReviewSafety and applyExecutionSafety.    *)
(* The decision that comes out fixes who runs, in which mode, and whose    *)
(* output becomes the visible message of the turn.                         *)
(*                                                                         *)
(* Everything here is a pure operator: TaskRuns.tla gives it a state.      *)
(***************************************************************************)
EXTENDS Naturals, Sequences, FiniteSets

CONSTANTS
    Agents,          \* agents of the workspace
    Members,         \* the ones that take part in the conversation
    FileWriters,     \* agents with permissions.fileWrite
    ShellAgents,     \* agents with permissions.shell
    Engineer, Reviewer, ProductManager,   \* the built-in roles the guards name
    Orchestrator,    \* the main brain, a speaker that never runs a task
    NoAgent,         \* an absent optional agent id
    MaxDispatches    \* BOUND: dispatches of one planner decision

ASSUME AgentsAssumption ==
    /\ Members \subseteq Agents
    /\ FileWriters \subseteq Agents
    /\ ShellAgents \subseteq Agents
    /\ Engineer \in Agents
    /\ Reviewer \in Agents
    /\ ProductManager \in Agents
    /\ Orchestrator \notin Agents
    /\ NoAgent \notin Agents \cup {Orchestrator}

ASSUME BoundAssumption == MaxDispatches \in Nat \ {0}

Stages == {"chat", "requirements_intake", "planning",
           "awaiting_confirmation", "execution", "review"}

(***************************************************************************)
(* A decision: MainBrainTurn without its texts.                            *)
(***************************************************************************)
Speakers == Agents \cup {Orchestrator}

Decisions ==
    [kind: {"direct_answer", "ask_clarification", "dispatch_agents"},
     dispatches: Seq(Agents),
     execution: {"serial", "parallel"},
     speaker: Speakers \cup {NoAgent},
     finalization: {"speaker_direct", "main_synthesis", "local_summary", "none"},
     locked: Agents \cup {NoAgent}]

(* A turn answered by the main brain itself. *)
Reply(kind) ==
    [kind |-> kind, dispatches |-> << >>, execution |-> "serial",
     speaker |-> NoAgent, finalization |-> "none", locked |-> NoAgent]

(* One agent, whose output is the reply. *)
SpeakerDirect(a, lock) ==
    [kind |-> "dispatch_agents", dispatches |-> << a >>, execution |-> "serial",
     speaker |-> a, finalization |-> "speaker_direct", locked |-> lock]

Mentions(dispatches, group) ==
    \E i \in DOMAIN dispatches : dispatches[i] \in group

------------------------------------------------------------------------------
(***************************************************************************)
(* resolveVisibleTurn: the one visible speaker and the finalization mode.  *)
(***************************************************************************)
VisibleTurn(d) ==
    LET n       == Len(d.dispatches)
        given   == d.finalization # "none"
        main(m) == [speaker |-> Orchestrator, finalization |-> m]
    IN IF d.kind # "dispatch_agents"
       THEN main(IF given THEN d.finalization ELSE "speaker_direct")
       ELSE IF n <= 1 /\ given /\ d.finalization # "speaker_direct"
       THEN main(d.finalization)
       ELSE IF n # 1 \/ d.speaker = Orchestrator
       THEN main("main_synthesis")
       ELSE [speaker |-> d.dispatches[1], finalization |-> "speaker_direct"]

------------------------------------------------------------------------------
(* What validateKnownAgents makes of the speaker and the finalization mode *)
(* of a model's dispatch.                                                   *)
Validated(dispatches, execution, speaker, finalization, lock) ==
    LET given  == finalization # "none"
        main   == \/ Len(dispatches) > 1
                  \/ given /\ finalization # "speaker_direct"
                  \/ speaker = Orchestrator
    IN [kind |-> "dispatch_agents", dispatches |-> dispatches,
        execution |-> execution,
        speaker |-> IF main THEN Orchestrator ELSE dispatches[1],
        finalization |-> IF ~main THEN "speaker_direct"
                         ELSE IF given /\ finalization # "speaker_direct"
                              THEN finalization ELSE "main_synthesis",
        locked |-> lock]

DispatchLists == UNION {[1..n -> Members] : n \in 1..MaxDispatches}

(* Any reply of the planner model that passes the schema and validation. *)
ModelDecisions ==
    {Reply("direct_answer"), Reply("ask_clarification")} \cup
    {Validated(ds, ex, sp, fin, lock) :
        ds \in DispatchLists, ex \in {"serial", "parallel"},
        sp \in {NoAgent, Orchestrator},
        fin \in {"speaker_direct", "main_synthesis", "local_summary", "none"},
        lock \in Members \cup {NoAgent}}

(* decideRouting when no agent is targeted: the rules that replace a planner *)
(* model that failed or returned an invalid decision.                        *)
RuleDecisions ==
    {SpeakerDirect(a, NoAgent) : a \in {Reviewer} \cup ({Engineer} \cap Members)}
    \cup
    {Reply("direct_answer"),
     [kind |-> "dispatch_agents",
      dispatches |-> << ProductManager, Engineer, Reviewer >>,
      execution |-> "serial", speaker |-> Orchestrator,
      finalization |-> "main_synthesis", locked |-> NoAgent]}

(***************************************************************************)
(* decideRoutingWithPlanner.  A locked or targeted agent bypasses the      *)
(* model, and decideRouting stores that agent as the decision's lock; in a *)
(* read-only turn a rule's dispatch becomes a direct answer, a model's     *)
(* does not.                                                               *)
(***************************************************************************)
PlannerDecisions(target, allows) ==
    LET readOnly(d) == IF d.kind = "dispatch_agents" /\ ~allows
                       THEN Reply("direct_answer") ELSE d
    IN IF target # NoAgent
       THEN {readOnly(SpeakerDirect(target, target))}
       ELSE ModelDecisions \cup {readOnly(d) : d \in RuleDecisions}

------------------------------------------------------------------------------
(* isExecutionAgentDispatch *)
ExecutionAgents == FileWriters \cup ShellAgents \cup {Engineer}

(* The dispatches of agent a. *)
Only(dispatches, a) ==
    [k \in 1..Cardinality({i \in DOMAIN dispatches : dispatches[i] = a}) |-> a]

(***************************************************************************)
(* applyTaskStageGuard: no execution before the user confirmed.            *)
(***************************************************************************)
StageGuard(d, stage) ==
    LET intake == stage \in {"requirements_intake", "planning"}
    IN IF d.kind # "dispatch_agents"
       THEN IF intake THEN SpeakerDirect(ProductManager, NoAgent) ELSE d
       ELSE IF stage \in {"execution", "review"}
       THEN d
       ELSE IF stage = "chat"
       THEN Reply("direct_answer")
       ELSE IF intake /\ Mentions(d.dispatches, {ProductManager})
       THEN [d EXCEPT !.execution = "serial",
                      !.dispatches = Only(d.dispatches, ProductManager)]
       ELSE IF stage = "awaiting_confirmation" \/ Mentions(d.dispatches, ExecutionAgents)
       THEN Reply("ask_clarification")
       ELSE d

(***************************************************************************)
(* lockRoutingDecisionToAgent: keep only the locked agent's first dispatch.*)
(***************************************************************************)
LockToAgent(d, a) ==
    [kind |-> "dispatch_agents",
     dispatches |-> IF d.kind = "dispatch_agents" /\ Mentions(d.dispatches, {a})
                    THEN << a >> ELSE << >>,
     execution |-> "serial", speaker |-> a,
     finalization |-> "speaker_direct", locked |-> a]

(***************************************************************************)
(* applyReviewSafety: an engineer dispatch without a reviewer gets one.    *)
(***************************************************************************)
ReviewSafety(d) ==
    IF /\ d.kind = "dispatch_agents"
       /\ Mentions(d.dispatches, {Engineer})
       /\ ~Mentions(d.dispatches, {Reviewer})
       /\ Reviewer \in Members
    THEN [d EXCEPT !.execution = "serial",
                   !.dispatches = Append(d.dispatches, Reviewer)]
    ELSE d

(* MUTANT: a parallel batch runs as planned. *)
ExecutionUnchecked(d) == d

(***************************************************************************)
(* applyExecutionSafety: a parallel batch with a file writer runs serially.*)
(***************************************************************************)
ExecutionSafety(d) ==
    IF /\ d.execution = "parallel"
       /\ d.kind = "dispatch_agents"
       /\ Mentions(d.dispatches, FileWriters)
    THEN [d EXCEPT !.execution = "serial"]
    ELSE d

(* The guards in the order handleUserMessage applies them. *)
Guarded(d, stage, lock) ==
    LET staged == StageGuard(d, stage)
    IN IF lock # NoAgent
       THEN LockToAgent(staged, lock)
       ELSE ExecutionSafety(ReviewSafety(staged))

(***************************************************************************)
(* Every decision a turn of the main brain can act on.  lock is the agent  *)
(* the message mentions, target the agent it is addressed to (the mention, *)
(* the selected agent or the quoted one); a targeted read-only turn never  *)
(* reaches the planner.                                                    *)
(***************************************************************************)
DecisionsOf(target, lock, allows) ==
    {Guarded(d, stage, lock) :
        d \in PlannerDecisions(target, allows), stage \in Stages}

RoutedDecisions(allows) ==
    DecisionsOf(NoAgent, NoAgent, allows) \cup
    (IF allows
     THEN UNION {DecisionsOf(a, a, TRUE) \cup DecisionsOf(a, NoAgent, TRUE) :
                 a \in Members}
     ELSE {})
=============================================================================
