-------------------------- MODULE TurnRoutingProofs --------------------------
(***************************************************************************)
(* Facts about the routing guards, for any agents and any planner answer.  *)
(***************************************************************************)
EXTENDS TurnRouting, FiniteSetTheorems, TLAPS

(* A main-brain reply is a decision. *)
LEMMA ReplyTyping ==
    ASSUME NEW kind \in {"direct_answer", "ask_clarification"}
    PROVE  Reply(kind) \in Decisions
  BY DEF Reply, Decisions

(* A hand-over to one agent is a decision. *)
LEMMA SpeakerDirectTyping ==
    ASSUME NEW a \in Agents, NEW lock \in Agents \cup {NoAgent}
    PROVE  SpeakerDirect(a, lock) \in Decisions
  BY DEF SpeakerDirect, Decisions, Speakers

(* validateKnownAgents turns a non-empty list of agents into a decision. *)
LEMMA ValidatedTyping ==
    ASSUME NEW ds \in Seq(Agents), ds # << >>,
           NEW ex \in {"serial", "parallel"},
           NEW sp \in Speakers \cup {NoAgent},
           NEW fin \in {"speaker_direct", "main_synthesis", "local_summary", "none"},
           NEW lock \in Agents \cup {NoAgent}
    PROVE  Validated(ds, ex, sp, fin, lock) \in Decisions
  <1>1. ds[1] \in Agents
    OBVIOUS
  <1> QED
    BY <1>1 DEF Validated, Decisions, Speakers

(* The dispatches of one agent are a list of agents. *)
LEMMA OnlyTyping ==
    ASSUME NEW ds \in Seq(Agents), NEW a \in Agents
    PROVE  Only(ds, a) \in Seq(Agents)
  <1> DEFINE mine == {i \in DOMAIN ds : ds[i] = a}
  <1>1. IsFiniteSet(1..Len(ds))
    BY FS_Interval
  <1>2. mine \subseteq 1..Len(ds)
    OBVIOUS
  <1>3. Cardinality(mine) \in Nat
    BY <1>1, <1>2, FS_Subset, FS_CardinalityType
  <1> QED
    BY <1>3 DEF Only

(* Every planner answer is a decision of agents of the workspace. *)
LEMMA PlannerTyping ==
    ASSUME NEW target \in Members \cup {NoAgent}, NEW allows \in BOOLEAN
    PROVE  PlannerDecisions(target, allows) \subseteq Decisions
  <1>1. ModelDecisions \subseteq Decisions
    <2>1. ASSUME NEW ds \in DispatchLists
          PROVE  ds \in Seq(Agents) /\ ds # << >>
      <3>1. PICK n \in 1..MaxDispatches : ds \in [1..n -> Members]
        BY DEF DispatchLists
      <3> QED
        BY <3>1, AgentsAssumption, BoundAssumption
    <2>2. ASSUME NEW ds \in DispatchLists, NEW ex \in {"serial", "parallel"},
                 NEW sp \in {NoAgent, Orchestrator},
                 NEW fin \in {"speaker_direct", "main_synthesis",
                              "local_summary", "none"},
                 NEW lock \in Members \cup {NoAgent}
          PROVE  Validated(ds, ex, sp, fin, lock) \in Decisions
      <3>1. sp \in Speakers \cup {NoAgent} /\ lock \in Agents \cup {NoAgent}
        BY AgentsAssumption DEF Speakers
      <3> QED
        BY <2>1, <3>1, ValidatedTyping
    <2> QED
      BY <2>2, ReplyTyping DEF ModelDecisions
  <1>2. RuleDecisions \subseteq Decisions
    <2>1. ASSUME NEW a \in {Reviewer} \cup ({Engineer} \cap Members)
          PROVE  SpeakerDirect(a, NoAgent) \in Decisions
      BY SpeakerDirectTyping, AgentsAssumption
    <2>2. << ProductManager, Engineer, Reviewer >> \in Seq(Agents)
      BY AgentsAssumption
    <2>3. [kind |-> "dispatch_agents",
           dispatches |-> << ProductManager, Engineer, Reviewer >>,
           execution |-> "serial", speaker |-> Orchestrator,
           finalization |-> "main_synthesis", locked |-> NoAgent] \in Decisions
      BY <2>2 DEF Decisions, Speakers
    <2> QED
      BY <2>1, <2>3, ReplyTyping DEF RuleDecisions
  <1>3. target # NoAgent => SpeakerDirect(target, target) \in Decisions
    BY SpeakerDirectTyping, AgentsAssumption
  <1> QED
    BY <1>1, <1>2, <1>3, ReplyTyping DEF PlannerDecisions

(* applyTaskStageGuard keeps a decision a decision. *)
LEMMA StageGuardTyping ==
    ASSUME NEW d \in Decisions, NEW stage \in Stages
    PROVE  StageGuard(d, stage) \in Decisions
  <1>1. /\ SpeakerDirect(ProductManager, NoAgent) \in Decisions
        /\ Only(d.dispatches, ProductManager) \in Seq(Agents)
    BY SpeakerDirectTyping, OnlyTyping, AgentsAssumption DEF Decisions
  <1>2. [d EXCEPT !.execution = "serial",
                  !.dispatches = Only(d.dispatches, ProductManager)] \in Decisions
    BY <1>1 DEF Decisions
  <1> QED
    BY <1>1, <1>2, ReplyTyping DEF StageGuard

(* applyReviewSafety keeps a decision a decision. *)
LEMMA ReviewSafetyTyping ==
    ASSUME NEW d \in Decisions
    PROVE  ReviewSafety(d) \in Decisions
  <1>1. Append(d.dispatches, Reviewer) \in Seq(Agents)
    BY AgentsAssumption DEF Decisions
  <1>2. [d EXCEPT !.execution = "serial",
                  !.dispatches = Append(d.dispatches, Reviewer)] \in Decisions
    BY <1>1 DEF Decisions
  <1> QED
    BY <1>2 DEF ReviewSafety

(* The guards together keep a decision a decision. *)
LEMMA GuardedTyping ==
    ASSUME NEW d \in Decisions, NEW stage \in Stages,
           NEW lock \in Members \cup {NoAgent}
    PROVE  Guarded(d, stage, lock) \in Decisions
  <1>1. ASSUME NEW e \in Decisions, NEW a \in Members
        PROVE  LockToAgent(e, a) \in Decisions
    BY AgentsAssumption DEF LockToAgent, Decisions, Speakers
  <1>2. ASSUME NEW e \in Decisions
        PROVE  ExecutionSafety(e) \in Decisions
    BY DEF ExecutionSafety, Decisions
  <1> QED
    BY <1>1, <1>2, StageGuardTyping, ReviewSafetyTyping DEF Guarded

(* Whatever the planner answers, a routed turn is a decision. *)
LEMMA RoutedTyping ==
    ASSUME NEW allows \in BOOLEAN, NEW r \in RoutedDecisions(allows)
    PROVE  r \in Decisions
  <1>1. ASSUME NEW target \in Members \cup {NoAgent},
               NEW lock \in Members \cup {NoAgent}, NEW ok \in BOOLEAN
        PROVE  DecisionsOf(target, lock, ok) \subseteq Decisions
    BY PlannerTyping, GuardedTyping DEF DecisionsOf
  <1> QED
    BY <1>1 DEF RoutedDecisions

(* resolveVisibleTurn names an agent of the workspace or the main brain. *)
LEMMA VisibleTyping ==
    ASSUME NEW d \in Decisions
    PROVE  VisibleTurn(d).speaker \in Speakers
  <1>1. Len(d.dispatches) = 1 => d.dispatches[1] \in Agents
    BY DEF Decisions
  <1> QED
    BY <1>1 DEF VisibleTurn, Decisions, Speakers

(* A parallel decision that reaches the dispatch loop runs no agent that may *)
(* edit files: applyExecutionSafety comes last, and the locked path is       *)
(* serial.                                                                   *)
THEOREM ParallelNeverWrites ==
    ASSUME NEW d \in Decisions, NEW stage \in Stages,
           NEW lock \in Members \cup {NoAgent},
           Guarded(d, stage, lock).kind = "dispatch_agents",
           Guarded(d, stage, lock).execution = "parallel"
    PROVE  ~Mentions(Guarded(d, stage, lock).dispatches, FileWriters)
  <1>1. CASE lock # NoAgent
    BY <1>1 DEF Guarded, LockToAgent
  <1>2. CASE lock = NoAgent
    <2> DEFINE e == ReviewSafety(StageGuard(d, stage))
    <2>1. Guarded(d, stage, lock) = ExecutionSafety(e)
      BY <1>2 DEF Guarded
    <2>2. e \in Decisions
      BY StageGuardTyping, ReviewSafetyTyping
    <2> HIDE DEF e
    <2> QED
      BY <2>1, <2>2 DEF ExecutionSafety, Decisions
  <1> QED
    BY <1>1, <1>2

(* Only a dispatch is ever planned in parallel. *)
LEMMA ParallelDispatches ==
    ASSUME NEW target \in Members \cup {NoAgent}, NEW allows \in BOOLEAN,
           NEW d \in PlannerDecisions(target, allows), d.execution = "parallel"
    PROVE  d.kind = "dispatch_agents"
  <1>1. ASSUME NEW e \in ModelDecisions, e.execution = "parallel"
        PROVE  e.kind = "dispatch_agents"
    BY <1>1 DEF ModelDecisions, Reply, Validated
  <1>2. ASSUME NEW e \in RuleDecisions
        PROVE  e.execution = "serial"
    BY DEF RuleDecisions, Reply, SpeakerDirect
  <1> QED
    BY <1>1, <1>2 DEF PlannerDecisions, Reply, SpeakerDirect

(* The same of every turn, whatever its stage and lock. *)
LEMMA RoutedReaders ==
    ASSUME NEW allows \in BOOLEAN, NEW r \in RoutedDecisions(allows),
           r.execution = "parallel"
    PROVE  ~Mentions(r.dispatches, FileWriters)
  <1>1. PICK target \in Members \cup {NoAgent}, lock \in Members \cup {NoAgent},
             ok \in BOOLEAN : r \in DecisionsOf(target, lock, ok)
    BY DEF RoutedDecisions
  <1>2. PICK d \in PlannerDecisions(target, ok), stage \in Stages :
             r = Guarded(d, stage, lock)
    BY <1>1 DEF DecisionsOf
  <1>3. d \in Decisions
    BY PlannerTyping
  <1>4. d.execution = "parallel" => d.kind = "dispatch_agents"
    BY ParallelDispatches
  <1>5. r.kind = "dispatch_agents"
    <2> DEFINE e == StageGuard(d, stage)
    <2>1. e.execution = "parallel" => e.kind = "dispatch_agents"
      BY <1>4 DEF StageGuard, SpeakerDirect, Reply
    <2>2. e \in Decisions
      BY <1>3, StageGuardTyping
    <2>3. r = IF lock # NoAgent THEN LockToAgent(e, lock)
              ELSE ExecutionSafety(ReviewSafety(e))
      BY <1>2 DEF Guarded
    <2> HIDE DEF e
    <2> QED
      BY <2>1, <2>2, <2>3
         DEF LockToAgent, ReviewSafety, ExecutionSafety, Decisions
  <1> QED
    BY <1>2, <1>3, <1>5, ParallelNeverWrites
=============================================================================
