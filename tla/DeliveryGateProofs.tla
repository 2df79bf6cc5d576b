-------------------------- MODULE DeliveryGateProofs --------------------------
(***************************************************************************)
(* The delivery gate, for any agents, permissions, judges, plans and       *)
(* bounds: what the backend has recorded of a turn's events agrees with    *)
(* how its runs ended, so the gate neither opens for work that failed nor  *)
(* stays closed after a turn that delivered.                               *)
(***************************************************************************)
EXTENDS DeliveryGate, TurnRoutingProofs

(* A run returns after those before it, but for the runs of one batch.      *)
RunsInOrder ==
    \A i, k \in Positions :
        /\ result[i] # NotRun /\ k < i
        /\ plan.parallel => i > Dispatched
        => result[k] # NotRun

(* The runs a turn has, by its phase: no repair while the batch runs, and    *)
(* two more runs at most.                                                   *)
RunsByPhase ==
    /\ Dispatched + 2 \in Positions
    /\ \A i \in Positions :
        /\ i > Dispatched + 2 => result[i] = NotRun
        /\ i > Dispatched /\ phase = "running" => result[i] = NotRun
    /\ phase = "repairing" => Returned(1, Dispatched)

(* A turn finishes behind its repair pass, or without need of one.          *)
FinishedRuns ==
    phase = "finished" =>
        \/ Returned(1, Dispatched + 2)
        \/ /\ ~NeedsRepair
           /\ \A i \in Positions : i > Dispatched => result[i] = NotRun

(* While the stream holds, the backend knows the findings that came last.   *)
HeardFindings ==
    relay # "lost" =>
        \A i \in Positions :
            /\ /\ result[i].validation # "none"
               /\ \A j \in MayFollow(i) : result[j].validation = "none"
               => heard.validation = result[i].validation
            /\ /\ result[i].verdict # "none"
               /\ \A j \in MayFollow(i) : result[j].verdict = "none"
               => heard.verdict = result[i].verdict

(* ... and that the repair did not help.                                    *)
HeardRepair ==
    /\ relay # "lost"
    /\ result[Dispatched + 2] # NotRun
    /\ \/ result[Dispatched + 1].status # "success"
       \/ result[Dispatched + 2].status # "success"
    => heard.blocked

(* What was heard is recorded once the turn is over.                        *)
RecordedStream ==
    relay = "recorded" =>
        /\ phase \in {"finished", "threw"}
        /\ heard.validation # "none" =>
               doc.recorded /\ doc.validation = heard.validation
        /\ heard.verdict # "none" => doc.verdict = heard.verdict
        /\ heard.blocked => doc.blocked

(* A failure that no later work has replaced was recorded as blocked.       *)
KnownFailure == before = "unsuccessful" => doc.blocked

GateInv ==
    /\ RunsInOrder /\ RunsByPhase /\ FinishedRuns
    /\ HeardFindings /\ HeardRepair
    /\ RecordedStream /\ KnownFailure

------------------------------------------------------------------------------
(* The dispatches of one agent are no more than the positions it is at. *)
LEMMA OnlyLength ==
    ASSUME NEW ds \in Seq(Agents), NEW a \in Agents, NEW n \in Nat,
           \A i \in DOMAIN ds : ds[i] = a => i <= n
    PROVE  /\ Only(ds, a) \in Seq(Agents)
           /\ Len(Only(ds, a)) <= n
           /\ \A i \in DOMAIN Only(ds, a) : Only(ds, a)[i] = a
  <1> DEFINE mine == {i \in DOMAIN ds : ds[i] = a}
  <1>1. IsFiniteSet(1..n) /\ Cardinality(1..n) = n
    BY FS_Interval
  <1>2. mine \subseteq 1..n
    OBVIOUS
  <1>3. Cardinality(mine) \in Nat /\ Cardinality(mine) <= n
    BY <1>1, <1>2, FS_Subset, FS_CardinalityType
  <1> HIDE DEF mine
  <1>4. Only(ds, a) = [k \in 1..Cardinality(mine) |-> a]
    BY DEF Only, mine
  <1> QED
    BY <1>3, <1>4

(* The list decideRouting builds is the only one that may be longer than a  *)
(* planner's, and it has its reviewer already.                              *)
LEMMA PlannerLength ==
    ASSUME NEW target \in Members \cup {NoAgent}, NEW allows \in BOOLEAN,
           NEW d \in PlannerDecisions(target, allows)
    PROVE  \/ Len(d.dispatches) <= MaxDispatches
           \/ d.dispatches = << ProductManager, Engineer, Reviewer >>
  <1>1. \A kind \in {"direct_answer", "ask_clarification"} :
            Len(Reply(kind).dispatches) <= 1
    BY DEF Reply
  <1>2. \A a, lock : Len(SpeakerDirect(a, lock).dispatches) <= 1
    BY DEF SpeakerDirect
  <1>3. ASSUME NEW e \in ModelDecisions
        PROVE  Len(e.dispatches) <= MaxDispatches
    <2>1. CASE e \in {Reply("direct_answer"), Reply("ask_clarification")}
      BY <2>1, <1>1, BoundAssumption
    <2>2. CASE e \notin {Reply("direct_answer"), Reply("ask_clarification")}
      <3>1. PICK ds \in DispatchLists : e.dispatches = ds
        BY <2>2 DEF ModelDecisions, Validated
      <3>2. PICK n \in 1..MaxDispatches : ds \in [1..n -> Members]
        BY DEF DispatchLists
      <3>3. Len(ds) = n
        BY <3>2, BoundAssumption
      <3> QED
        BY <3>1, <3>3, BoundAssumption
    <2> QED
      BY <2>1, <2>2
  <1>4. ASSUME NEW e \in RuleDecisions
        PROVE  \/ Len(e.dispatches) <= 1
               \/ e.dispatches = << ProductManager, Engineer, Reviewer >>
    <2>1. CASE e = Reply("direct_answer")
      BY <2>1, <1>1
    <2>2. CASE \E a : e = SpeakerDirect(a, NoAgent)
      BY <2>2, <1>2
    <2>3. CASE e.dispatches = << ProductManager, Engineer, Reviewer >>
      BY <2>3
    <2> QED
      BY <2>1, <2>2, <2>3 DEF RuleDecisions
  <1>5. d \in ModelDecisions \/ d \in RuleDecisions \/ d = Reply("direct_answer")
        \/ d = SpeakerDirect(target, target)
    BY DEF PlannerDecisions
  <1>0. Len(d.dispatches) \in Nat
    BY PlannerTyping DEF Decisions
  <1>6. CASE d \in ModelDecisions
    BY <1>3, <1>6
  <1>7. CASE Len(d.dispatches) <= 1
    <2>1. MaxDispatches \in Nat /\ 1 <= MaxDispatches
      BY BoundAssumption
    <2>2. Len(d.dispatches) <= MaxDispatches
      BY <1>0, <1>7, <2>1
    <2> QED
      BY <2>2
  <1>8. d = Reply("direct_answer") \/ d = SpeakerDirect(target, target) =>
            Len(d.dispatches) <= 1
    BY <1>1, <1>2
  <1> QED
    BY <1>4, <1>5, <1>6, <1>7, <1>8

(* A turn dispatches at most two runs more than a planner may ask for. *)
LEMMA RoutedLength ==
    ASSUME NEW allows \in BOOLEAN, NEW r \in RoutedDecisions(allows)
    PROVE  Len(r.dispatches) <= MaxDispatches + 2
  <1>1. PICK target \in Members \cup {NoAgent}, lock \in Members \cup {NoAgent},
             ok \in BOOLEAN : r \in DecisionsOf(target, lock, ok)
    BY DEF RoutedDecisions
  <1>2. PICK d \in PlannerDecisions(target, ok), stage \in Stages :
             r = Guarded(d, stage, lock)
    BY <1>1 DEF DecisionsOf
  <1> DEFINE e == StageGuard(d, stage)
             Short(x) == \/ Len(x.dispatches) <= MaxDispatches
                         \/ /\ Len(x.dispatches) <= 3
                            /\ Len(x.dispatches) = 3 => Mentions(x.dispatches, {Reviewer})
  <1>3. d \in Decisions /\ e \in Decisions
    BY PlannerTyping, StageGuardTyping
  <1>4. d.dispatches \in Seq(Agents) /\ e.dispatches \in Seq(Agents)
    BY <1>3 DEF Decisions
  <1>5. Short(e)
    <2>1. CASE d.dispatches = << ProductManager, Engineer, Reviewer >>
      <3> DEFINE o == Only(d.dispatches, ProductManager)
      <3>1. /\ o \in Seq(Agents) /\ Len(o) <= 3
            /\ \A i \in DOMAIN o : o[i] = ProductManager
        <4>1. \A i \in DOMAIN d.dispatches : d.dispatches[i] = ProductManager => i <= 3
          BY <2>1
        <4> QED
          BY <1>4, <4>1, OnlyLength, AgentsAssumption
      <3>2. Reviewer # ProductManager => Len(o) <= 2
        <4> SUFFICES ASSUME Reviewer # ProductManager
                     PROVE  Len(o) <= 2
          OBVIOUS
        <4>1. \A i \in DOMAIN d.dispatches : d.dispatches[i] = ProductManager => i <= 2
          BY <2>1
        <4> QED
          BY <1>4, <4>1, OnlyLength, AgentsAssumption
      <3> HIDE DEF o
      <3>3. e.dispatches \in {<< >>, << ProductManager >>, d.dispatches, o}
        BY DEF StageGuard, Reply, SpeakerDirect, o
      <3>4. Mentions(d.dispatches, {Reviewer})
        BY <2>1 DEF Mentions
      <3>5. Len(o) = 3 => Mentions(o, {Reviewer})
        BY <3>1, <3>2 DEF Mentions
      <3> QED
        <4>1. CASE e.dispatches = << >> \/ e.dispatches = << ProductManager >>
          <5>1. Len(<< >>) <= 1 /\ Len(<< ProductManager >>) <= 1
            OBVIOUS
          <5>2. Len(e.dispatches) <= 1
            BY <4>1, <5>1
          <5>3. Len(e.dispatches) \in Nat
            BY <1>4
          <5> QED
            BY <5>2, <5>3, BoundAssumption
        <4>2. CASE e.dispatches = d.dispatches
          BY <2>1, <3>4, <4>2
        <4>3. CASE e.dispatches = o
          BY <3>1, <3>5, <4>3
        <4> QED
          BY <3>3, <4>1, <4>2, <4>3
    <2>2. CASE Len(d.dispatches) <= MaxDispatches
      <3> DEFINE o == Only(d.dispatches, ProductManager)
      <3>1. Len(o) <= MaxDispatches
        <4>1. \A i \in DOMAIN d.dispatches : i <= Len(d.dispatches)
          BY <1>4
        <4>2. Len(o) <= Len(d.dispatches) /\ o \in Seq(Agents)
          BY <1>4, <4>1, OnlyLength, AgentsAssumption
        <4> QED
          BY <1>4, <2>2, <4>2, BoundAssumption
      <3> HIDE DEF o
      <3>2. e.dispatches \in {<< >>, << ProductManager >>, d.dispatches, o}
        BY DEF StageGuard, Reply, SpeakerDirect, o
      <3> QED
        <4>1. CASE e.dispatches = << >> \/ e.dispatches = << ProductManager >>
          <5>1. Len(<< >>) <= 1 /\ Len(<< ProductManager >>) <= 1
            OBVIOUS
          <5>2. Len(e.dispatches) <= 1
            BY <4>1, <5>1
          <5>3. Len(e.dispatches) \in Nat
            BY <1>4
          <5> QED
            BY <5>2, <5>3, BoundAssumption
        <4>2. CASE e.dispatches = d.dispatches \/ e.dispatches = o
          BY <2>2, <3>1, <4>2
        <4> QED
          BY <3>2, <4>1, <4>2
    <2> QED
      BY <2>1, <2>2, PlannerLength
  <1>6. Len(ReviewSafety(e).dispatches) <= MaxDispatches + 2
    <2> HIDE DEF e
    <2>0. /\ Len(e.dispatches) \in Nat
          /\ \/ Len(e.dispatches) <= MaxDispatches
             \/ /\ Len(e.dispatches) <= 3
                /\ Len(e.dispatches) = 3 => Mentions(e.dispatches, {Reviewer})
      BY <1>4, <1>5
    <2>1. CASE ReviewSafety(e) = e
      BY <2>0, <2>1, BoundAssumption
    <2>2. CASE ReviewSafety(e) # e
      <3>1. /\ ~Mentions(e.dispatches, {Reviewer})
            /\ ReviewSafety(e).dispatches = Append(e.dispatches, Reviewer)
        BY <2>2, <1>3 DEF ReviewSafety, Decisions
      <3>2. Len(Append(e.dispatches, Reviewer)) = Len(e.dispatches) + 1
        BY <1>4
      <3>3. MaxDispatches \in Nat /\ 1 <= MaxDispatches
        BY BoundAssumption
      <3>4. Len(e.dispatches) + 1 <= MaxDispatches + 2
        <4>1. \/ Len(e.dispatches) <= MaxDispatches
              \/ Len(e.dispatches) <= 3 /\ Len(e.dispatches) # 3
          BY <2>0, <3>1, Zenon
        <4>2. Len(e.dispatches) \in Nat
          BY <2>0
        <4>3. \A n \in Nat : n <= MaxDispatches \/ (n <= 3 /\ n # 3) =>
                              n + 1 <= MaxDispatches + 2
          BY <3>3
        <4> QED
          BY <4>1, <4>2, <4>3, Zenon
      <3>5. Len(ReviewSafety(e).dispatches) = Len(e.dispatches) + 1
        BY <3>1, <3>2, Zenon
      <3> QED
        BY <3>4, <3>5
    <2> QED
      BY <2>1, <2>2
  <1>7. ReviewSafety(e) \in Decisions
    BY <1>3, ReviewSafetyTyping
  <1> HIDE DEF e
  <1>8. r = IF lock # NoAgent THEN LockToAgent(e, lock)
            ELSE ExecutionSafety(ReviewSafety(e))
    BY <1>2 DEF Guarded, e
  <1>9. Len(LockToAgent(e, lock).dispatches) <= 1
    BY DEF LockToAgent
  <1>10. ExecutionSafety(ReviewSafety(e)).dispatches = ReviewSafety(e).dispatches
    BY <1>7 DEF ExecutionSafety, Decisions
  <1> QED
    BY <1>6, <1>8, <1>9, <1>10, BoundAssumption
(* Every turn has a plan whose runs, with those of a repair, have positions. *)
LEMMA PlanTyping ==
    ASSUME NEW p \in TurnPlans
    PROVE  p \in Plans /\ Len(p.dispatches) + 2 \in Positions
  <1> DEFINE Fits(n) == n \in Nat /\ n <= MaxDispatches + 2
  <1>1. ASSUME NEW n, Fits(n)
        PROVE  n + 2 \in Positions
    BY <1>1, BoundAssumption DEF Positions
  <1> HIDE DEF Fits
  <1>2. ASSUME NEW a \in Members
        PROVE  DirectPlan(a) \in Plans /\ Len(DirectPlan(a).dispatches) + 2 \in Positions
    <2>1. << a >> \in Seq(Agents) /\ Fits(Len(<< a >>))
      BY AgentsAssumption, BoundAssumption DEF Fits
    <2>2. DirectPlan(a) \in Plans
      BY <2>1 DEF DirectPlan, Plans
    <2> QED
      BY <1>1, <2>1, <2>2 DEF DirectPlan
  <1>3. ASSUME NEW allows \in BOOLEAN, NEW d \in RoutedDecisions(allows)
        PROVE  /\ MainPlan(d, allows) \in Plans
               /\ Len(MainPlan(d, allows).dispatches) + 2 \in Positions
    <2>1. d.dispatches \in Seq(Agents)
      BY RoutedTyping DEF Decisions
    <2>2. Fits(Len(d.dispatches))
      BY <2>1, RoutedLength DEF Fits
    <2>3. MainPlan(d, allows) \in Plans
      BY <2>1 DEF MainPlan, Plans
    <2> QED
      BY <1>1, <2>2, <2>3 DEF MainPlan
  <1> QED
    BY <1>2, <1>3 DEF TurnPlans

(* A run ends with a result, which is not that of a run not started. *)
LEMMA OutcomeTyping ==
    ASSUME NEW a, NEW r \in Outcome(a)
    PROVE  r \in Results /\ r # NotRun
  <1>1. CASE r \in Assessed(a)
    <2>1. r \in Results
      BY <1>1, GateAssumption DEF Assessed, Results
    <2>2. r.status \in Statuses
      BY <1>1 DEF Assessed
    <2>3. r.status # "none"
      BY <2>2, GateAssumption DEF RunResults
    <2> QED
      BY <2>1, <2>3 DEF NotRun
  <1>2. CASE r = BlockedRun
    BY <1>2 DEF BlockedRun, NotRun, Results, RunResults, Validations, Verdicts
  <1> QED
    BY <1>1, <1>2 DEF Outcome

(* What is noted of two summaries is a summary. *)
LEMMA NotedTyping ==
    ASSUME NEW old \in Summaries, NEW new \in Summaries
    PROVE  Noted(old, new) \in Summaries
  BY DEF Noted, Summaries

(* Initially nothing has run and nothing is recorded. *)
LEMMA TypeInit == Init => TypeOK
  <1> SUFFICES ASSUME Init
               PROVE  TypeOK
    OBVIOUS
  <1>1. plan \in Plans
    BY DEF Init, NoPlan, Plans
  <1>2. result \in [Positions -> Results]
    BY DEF Init, NoRuns, NotRun, Results, Validations, Verdicts
  <1>3. heard \in Summaries /\ doc \in Summaries
    BY DEF Init, Nothing, Summaries, Validations, Verdicts
  <1>4. turns \in 0..MaxTurns /\ lost \in 0..MaxLost /\ throws \in 0..MaxThrows
    BY GateAssumption DEF Init
  <1> QED
    BY <1>1, <1>2, <1>3, <1>4 DEF Init, TypeOK, Endings

(* Every step keeps every variable in its type. *)
LEMMA TypeStep == TypeOK /\ [Next]_vars => TypeOK'
  <1> SUFFICES ASSUME TypeOK, [Next]_vars
               PROVE  TypeOK'
    OBVIOUS
  <1> USE DEF TypeOK
  <1>1. CASE Begin
    <2>1. plan' \in Plans
      BY <1>1, PlanTyping DEF Begin
    <2>2. result' \in [Positions -> Results]
      BY <1>1 DEF Begin, NoRuns, NotRun, Results, Validations, Verdicts
    <2>3. heard' \in Summaries
      BY <1>1 DEF Begin, Nothing, Summaries, Validations, Verdicts
    <2>4. before' \in Endings
      BY <1>1 DEF Begin, LastWork, Endings
    <2>5. turns' \in 0..MaxTurns
      BY <1>1, GateAssumption DEF Begin
    <2> QED
      BY <1>1, <2>1, <2>2, <2>3, <2>4, <2>5 DEF Begin
  <1>2. ASSUME NEW i \in Positions, Return(i)
        PROVE  TypeOK'
    <2>1. PICK r \in Outcome(AgentAt(i)) :
            /\ result' = [result EXCEPT ![i] = r]
            /\ heard' = IF relay # "open" THEN heard
                        ELSE Noted(heard, [recorded   |-> TRUE,
                                           validation |-> r.validation,
                                           verdict    |-> r.verdict,
                                           blocked    |-> RepairFails(i, r)])
      BY <1>2, Zenon DEF Return
    <2>2. r \in Results
      BY OutcomeTyping
    <2>3. RepairFails(i, r) \in BOOLEAN
      BY DEF RepairFails
    <2> DEFINE new == [recorded |-> TRUE, validation |-> r.validation,
                       verdict |-> r.verdict, blocked |-> RepairFails(i, r)]
    <2>4. new \in Summaries
      BY <2>2, <2>3 DEF Summaries, Results
    <2> HIDE DEF new
    <2>5. heard' = IF relay # "open" THEN heard ELSE Noted(heard, new)
      BY <2>1 DEF new
    <2>6. heard' \in Summaries
      BY <2>4, <2>5, NotedTyping
    <2>7. result' \in [Positions -> Results]
      BY <2>1, <2>2
    <2> QED
      BY <1>2, <2>6, <2>7 DEF Return
  <1>3. CASE Repair
    BY <1>3 DEF Repair, backend
  <1>4. CASE Finish
    BY <1>4 DEF Finish, backend
  <1>5. CASE Record
    <2>1. doc' \in Summaries
      BY <1>5, NotedTyping DEF Record
    <2> QED
      BY <1>5, <2>1 DEF Record, runtime
  <1>6. CASE Throw
    <2>1. throws' \in 0..MaxThrows
      BY <1>6, GateAssumption DEF Throw
    <2> QED
      BY <1>6, <2>1 DEF Throw, backend
  <1>7. CASE Lose
    <2>1. lost' \in 0..MaxLost
      BY <1>7, GateAssumption DEF Lose
    <2> QED
      BY <1>7, <2>1 DEF Lose, runtime
  <1>8. CASE UNCHANGED vars
    BY <1>8 DEF vars, runtime, backend
  <1> QED
    BY <1>1, <1>2, <1>3, <1>4, <1>5, <1>6, <1>7, <1>8 DEF Next, Proceed

(* Every variable keeps its type, for any agents, plans and bounds. *)
THEOREM TypeCorrect == Spec => []TypeOK
  BY TypeInit, TypeStep, PTL DEF Spec

------------------------------------------------------------------------------
(* The positions up to those of a repair exist. *)
LEMMA PositionFacts ==
    ASSUME TypeOK, RunsByPhase
    PROVE  /\ Dispatched \in Nat
           /\ Positions \subseteq Nat \ {0}
           /\ \A i \in Nat \ {0} : i <= Dispatched + 2 => i \in Positions
           /\ Dispatched + 1 \in Positions /\ Dispatched + 2 \in Positions
  <1>1. plan.dispatches \in Seq(Agents)
    BY DEF TypeOK, Plans
  <1>2. Dispatched \in Nat
    BY <1>1 DEF Dispatched
  <1>3. Dispatched + 2 \in Positions
    BY DEF RunsByPhase
  <1> QED
    BY <1>2, <1>3, BoundAssumption DEF Positions

(* A turn whose engineer's work was left unsuccessful has a repair that did  *)
(* not help, and the stored workflow is blocked.                             *)
LEMMA FailureIsBlocked ==
    ASSUME TypeOK, GateInv, Quiet, LastWork = "unsuccessful"
    PROVE  doc.blocked
  <1>1. CASE before = "unsuccessful"
    BY <1>1 DEF GateInv, KnownFailure
  <1>2. CASE before # "unsuccessful"
    <2>1. /\ phase = "finished" /\ relay = "recorded" /\ ~plan.locked
          /\ Unsuccessful(Engineer) \/ Unsuccessful(Reviewer)
          /\ \E i \in Positions : AgentAt(i) = Engineer /\ result[i] # NotRun
      BY <1>2 DEF LastWork
    <2>2. /\ Dispatched \in Nat /\ Positions \subseteq Nat \ {0}
          /\ Dispatched + 1 \in Positions /\ Dispatched + 2 \in Positions
      BY PositionFacts DEF GateInv
    <2>3. ~ (~NeedsRepair /\ \A i \in Positions : i > Dispatched => result[i] = NotRun)
      <3> SUFFICES ASSUME \A i \in Positions : i > Dispatched => result[i] = NotRun
                   PROVE  NeedsRepair
        OBVIOUS
      <3>1. PICK i \in Positions : AgentAt(i) = Engineer /\ result[i] # NotRun
        BY <2>1
      <3>2. i \in 1..Dispatched
        BY <2>2, <3>1
      <3>3. i \in DOMAIN plan.dispatches /\ plan.dispatches[i] = Engineer
        BY <2>2, <3>1, <3>2 DEF AgentAt, Dispatched, TypeOK, Plans
      <3> QED
        BY <2>1, <3>3 DEF NeedsRepair, Mentions
    <2>4. Returned(1, Dispatched + 2)
      BY <2>1, <2>3 DEF GateInv, FinishedRuns
    <2>5. result[Dispatched + 1] # NotRun /\ result[Dispatched + 2] # NotRun
      BY <2>2, <2>4 DEF Returned
    <2>6. AgentAt(Dispatched + 1) = Engineer /\ AgentAt(Dispatched + 2) = Reviewer
      BY <2>2 DEF AgentAt
    <2>7. PICK a \in {Engineer, Reviewer}, i \in Positions :
              LastOf(a, i) /\ result[i].status # "success"
      BY <2>1 DEF Unsuccessful
    <2>8. i <= Dispatched + 2
      BY <2>2, <2>7 DEF LastOf, GateInv, RunsByPhase
    <2>9. i = Dispatched + 1 \/ i = Dispatched + 2
      <3>1. CASE a = Engineer
        <4>1. ~ (Dispatched + 1 > i)
          BY <2>2, <2>5, <2>6, <2>7, <3>1 DEF LastOf
        <4> QED
          BY <2>2, <2>8, <4>1
      <3>2. CASE a = Reviewer
        <4>1. ~ (Dispatched + 2 > i)
          BY <2>2, <2>5, <2>6, <2>7, <3>2 DEF LastOf
        <4> QED
          BY <2>2, <2>8, <4>1
      <3> QED
        BY <2>7, <3>1, <3>2
    <2>10. heard.blocked
      BY <2>1, <2>5, <2>7, <2>9 DEF GateInv, HeardRepair
    <2> QED
      BY <2>1, <2>10 DEF GateInv, RecordedStream
  <1> QED
    BY <1>1, <1>2

(* Before the first turn there is nothing to know. *)
LEMMA GateInit == Init => GateInv
  <1> SUFFICES ASSUME Init
               PROVE  GateInv
    OBVIOUS
  <1>1. Dispatched = 0
    BY DEF Init, NoPlan, Dispatched
  <1>2. \A i \in Positions : result[i] = NotRun
    BY DEF Init, NoRuns
  <1>3. 2 \in Positions
    BY BoundAssumption DEF Positions
  <1>4. RunsByPhase
    BY <1>1, <1>2, <1>3 DEF RunsByPhase, Init
  <1>5. FinishedRuns
    <2>1. ~NeedsRepair
      BY DEF Init, NoPlan, NeedsRepair, Mentions
    <2> QED
      BY <1>2, <2>1 DEF FinishedRuns
  <1>6. HeardFindings
    BY <1>2 DEF HeardFindings, NotRun
  <1>7. HeardRepair
    BY <1>1, <1>2, <1>3 DEF HeardRepair
  <1>8. RecordedStream /\ KnownFailure
    BY DEF Init, Nothing, RecordedStream, KnownFailure
  <1> QED
    BY <1>2, <1>4, <1>5, <1>6, <1>7, <1>8 DEF GateInv, RunsInOrder

(* A new turn starts without runs. *)
LEMMA BeginKeeps ==
    ASSUME TypeOK, GateInv, Begin
    PROVE  GateInv'
  <1>1. Len(plan'.dispatches) + 2 \in Positions
    BY PlanTyping DEF Begin
  <1>2. Dispatched' + 2 \in Positions /\ \A i \in Positions : result'[i] = NotRun
    BY <1>1 DEF Begin, NoRuns, Dispatched
  <1>3. RunsByPhase'
    BY <1>2 DEF Begin, RunsByPhase
  <1>4. FinishedRuns' /\ RecordedStream'
    BY DEF Begin, FinishedRuns, RecordedStream
  <1>5. HeardFindings' /\ HeardRepair' /\ RunsInOrder'
    BY <1>2 DEF HeardFindings, HeardRepair, RunsInOrder, NotRun
  <1>6. KnownFailure'
    BY FailureIsBlocked DEF Begin, KnownFailure
  <1> QED
    BY <1>3, <1>4, <1>5, <1>6 DEF GateInv

(* A run that returns is the last to be heard of, or came with its batch. *)
LEMMA ReturnKeeps ==
    ASSUME TypeOK, GateInv, NEW i \in Positions, Return(i)
    PROVE  GateInv'
  <1>1. /\ Dispatched \in Nat /\ Positions \subseteq Nat \ {0}
        /\ \A k \in Nat \ {0} : k <= Dispatched + 2 => k \in Positions
        /\ Dispatched + 1 \in Positions /\ Dispatched + 2 \in Positions
    BY PositionFacts DEF GateInv
  <1>2. /\ result[i] = NotRun
        /\ \/ phase = "running" /\ i <= Dispatched
           \/ phase = "repairing" /\ i > Dispatched /\ i <= Dispatched + 2
        /\ Returned(1, i - 1) \/ (plan.parallel /\ phase = "running")
    BY <1>1 DEF Return, MayReturn
  <1>3. phase' = phase /\ plan' = plan /\ relay' = relay /\ doc' = doc /\ before' = before
    BY DEF Return
  <1>4. PICK r \in Outcome(AgentAt(i)) :
            /\ result' = [result EXCEPT ![i] = r]
            /\ heard' = IF relay # "open" THEN heard
                        ELSE Noted(heard, [recorded   |-> TRUE,
                                           validation |-> r.validation,
                                           verdict    |-> r.verdict,
                                           blocked    |-> RepairFails(i, r)])
    BY Zenon DEF Return
  <1>5. r # NotRun
    BY OutcomeTyping
  <1>6. result \in [Positions -> Results]
    BY DEF TypeOK
  <1>7. /\ result'[i] = r
        /\ \A k \in Positions \ {i} : result'[k] = result[k]
    BY <1>4, <1>6
  <1>8. relay # "lost" => relay = "open"
    BY <1>2 DEF TypeOK, GateInv, RecordedStream
  <1>9. relay # "lost" =>
            /\ heard'.validation = IF r.validation # "none" THEN r.validation
                                   ELSE heard.validation
            /\ heard'.verdict = IF r.verdict # "none" THEN r.verdict ELSE heard.verdict
            /\ heard'.blocked = (heard.blocked \/ RepairFails(i, r))
    BY <1>4, <1>8 DEF Noted
  <1>10. /\ Dispatched' = Dispatched
         /\ \A k \in Positions : MayFollow(k)' = MayFollow(k)
    BY <1>3 DEF MayFollow, Dispatched
  <1>11. RunsInOrder'
    <2> SUFFICES ASSUME NEW j \in Positions, NEW k \in Positions,
                        result'[j] # NotRun, k < j,
                        plan.parallel => j > Dispatched
                 PROVE  result'[k] # NotRun
      BY <1>3, <1>10 DEF RunsInOrder
    <2>1. CASE j = i
      <3>1. Returned(1, i - 1)
        BY <1>1, <1>2, <2>1
      <3>2. result[k] # NotRun
        BY <1>1, <2>1, <3>1 DEF Returned
      <3> QED
        BY <1>2, <1>7, <3>2
    <2>2. CASE j # i
      <3>1. result[k] # NotRun
        BY <1>7, <2>2 DEF GateInv, RunsInOrder
      <3> QED
        BY <1>2, <1>7, <3>1
    <2> QED
      BY <2>1, <2>2
  <1>12. RunsByPhase'
    <2>1. ASSUME NEW k \in Positions
          PROVE  /\ k > Dispatched + 2 => result'[k] = NotRun
                 /\ k > Dispatched /\ phase = "running" => result'[k] = NotRun
      <3>1. CASE k = i
        BY <1>1, <1>2, <3>1
      <3>2. CASE k # i
        BY <1>7, <3>2 DEF GateInv, RunsByPhase
      <3> QED
        BY <3>1, <3>2
    <2>2. phase = "repairing" => \A k \in 1..Dispatched : result'[k] # NotRun
      <3> SUFFICES ASSUME phase = "repairing", NEW k \in 1..Dispatched
                   PROVE  result'[k] # NotRun
        OBVIOUS
      <3>1. k \in Positions
        BY <1>1
      <3>2. result[k] # NotRun
        BY DEF GateInv, RunsByPhase, Returned
      <3> QED
        BY <1>2, <1>7, <3>1, <3>2
    <2> QED
      BY <1>1, <1>3, <1>10, <2>1, <2>2 DEF RunsByPhase, Returned
  <1>13. FinishedRuns'
    BY <1>2, <1>3 DEF FinishedRuns
  <1>14. ASSUME NEW j \in Positions, j # i, result[j] # NotRun, i \notin MayFollow(j)
         PROVE  FALSE
    <2>1. i < j /\ (plan.parallel => j > Dispatched \/ i > Dispatched)
      BY <1>1, <1>14 DEF MayFollow
    <2>2. plan.parallel => j > Dispatched
      BY <1>1, <2>1
    <2> QED
      BY <1>2, <1>14, <2>1, <2>2 DEF GateInv, RunsInOrder
  <1>15. HeardFindings'
    <2> SUFFICES ASSUME relay # "lost", NEW j \in Positions
                 PROVE  /\ /\ result'[j].validation # "none"
                           /\ \A k \in MayFollow(j) : result'[k].validation = "none"
                           => heard'.validation = result'[j].validation
                        /\ /\ result'[j].verdict # "none"
                           /\ \A k \in MayFollow(j) : result'[k].verdict = "none"
                           => heard'.verdict = result'[j].verdict
      BY <1>3, <1>10 DEF HeardFindings
    <2>0. result[i].validation = "none" /\ result[i].verdict = "none"
      BY <1>2 DEF NotRun
    <2>1. CASE j = i
      BY <1>7, <1>9, <2>1
    <2>2. CASE j # i
      <3>0. result'[j] = result[j]
        BY <1>7, <2>2
      <3>1. ASSUME result[j].validation # "none",
                   \A k \in MayFollow(j) : result'[k].validation = "none"
            PROVE  heard'.validation = result[j].validation
        <4>1. i \in MayFollow(j)
          BY <1>14, <2>2, <3>1 DEF NotRun
        <4>2. r.validation = "none"
          BY <1>7, <3>1, <4>1
        <4>3. \A k \in MayFollow(j) : result[k].validation = "none"
          BY <1>7, <2>0, <3>1 DEF MayFollow
        <4> QED
          BY <1>9, <3>1, <4>2, <4>3 DEF GateInv, HeardFindings
      <3>2. ASSUME result[j].verdict # "none",
                   \A k \in MayFollow(j) : result'[k].verdict = "none"
            PROVE  heard'.verdict = result[j].verdict
        <4>1. i \in MayFollow(j)
          BY <1>14, <2>2, <3>2 DEF NotRun
        <4>2. r.verdict = "none"
          BY <1>7, <3>2, <4>1
        <4>3. \A k \in MayFollow(j) : result[k].verdict = "none"
          BY <1>7, <2>0, <3>2 DEF MayFollow
        <4> QED
          BY <1>9, <3>2, <4>2, <4>3 DEF GateInv, HeardFindings
      <3> QED
        BY <3>0, <3>1, <3>2
    <2> QED
      BY <2>1, <2>2
  <1>16. HeardRepair'
    <2> SUFFICES ASSUME relay # "lost",
                        result'[Dispatched + 2] # NotRun,
                        \/ result'[Dispatched + 1].status # "success"
                        \/ result'[Dispatched + 2].status # "success"
                 PROVE  heard'.blocked
      BY <1>3, <1>10 DEF HeardRepair
    <2>1. CASE i = Dispatched + 2
      <3>1. i - 1 = Dispatched + 1 /\ i # Dispatched + 1
        BY <1>1, <2>1
      <3>2. result'[Dispatched + 1] = result[i - 1]
        BY <1>1, <1>7, <3>1
      <3>3. RepairFails(i, r)
        BY <1>7, <2>1, <3>2 DEF RepairFails
      <3> QED
        BY <1>9, <3>3
    <2>2. CASE i # Dispatched + 2
      <3>1. result[Dispatched + 2] # NotRun
        BY <1>1, <1>7, <2>2
      <3>2. i # Dispatched + 1
        <4>1. Dispatched + 1 < Dispatched + 2 /\ Dispatched + 2 > Dispatched
          BY <1>1
        <4>2. result[Dispatched + 1] # NotRun
          BY <1>1, <3>1, <4>1 DEF GateInv, RunsInOrder
        <4> QED
          BY <1>2, <4>2
      <3>3. /\ result'[Dispatched + 1] = result[Dispatched + 1]
            /\ result'[Dispatched + 2] = result[Dispatched + 2]
        BY <1>1, <1>7, <2>2, <3>2
      <3>4. heard.blocked
        BY <3>1, <3>3 DEF GateInv, HeardRepair
      <3> QED
        BY <1>9, <3>4
    <2> QED
      BY <2>1, <2>2
  <1>17. RecordedStream' /\ KnownFailure'
    BY <1>2, <1>3, <1>8 DEF RecordedStream, KnownFailure, GateInv
  <1> QED
    BY <1>11, <1>12, <1>13, <1>15, <1>16, <1>17 DEF GateInv

(* What depends only on the plan and the runs stays when they do. *)
LEMMA FrozenRuns ==
    ASSUME plan' = plan, result' = result
    PROVE  /\ Dispatched' = Dispatched
           /\ NeedsRepair' = NeedsRepair
           /\ RunsInOrder' = RunsInOrder
           /\ \A n : Returned(1, n)' = Returned(1, n)
           /\ \A i \in Positions : MayFollow(i)' = MayFollow(i)
  BY DEF Dispatched, NeedsRepair, Unsuccessful, LastOf, AgentAt, RunsInOrder,
         Returned, MayFollow

(* The turn goes on to its repair, ends or throws. *)
LEMMA PhaseKeeps ==
    ASSUME TypeOK, GateInv, Repair \/ Finish \/ Throw
    PROVE  GateInv'
  <1>1. /\ plan' = plan /\ result' = result /\ relay' = relay
        /\ heard' = heard /\ doc' = doc /\ before' = before
    BY DEF Repair, Finish, Throw, backend
  <1>2. phase \in {"running", "repairing"}
        /\ phase' \in {"repairing", "finished", "threw"}
    BY DEF Repair, Finish, Throw
  <1>3. RunsInOrder' /\ HeardFindings' /\ HeardRepair' /\ KnownFailure'
    BY <1>1, FrozenRuns DEF GateInv, HeardFindings, HeardRepair, KnownFailure
  <1>4. RunsByPhase'
    <2>1. phase' = "repairing" => Returned(1, Dispatched)
      BY DEF Repair, Finish, Throw
    <2> QED
      BY <1>1, <1>2, <2>1, FrozenRuns DEF GateInv, RunsByPhase
  <1>5. FinishedRuns'
    <2> SUFFICES ASSUME phase' = "finished"
                 PROVE  \/ Returned(1, Dispatched + 2)
                        \/ /\ ~NeedsRepair
                           /\ \A i \in Positions : i > Dispatched => result[i] = NotRun
      BY <1>1, FrozenRuns DEF FinishedRuns
    <2>1. \/ phase = "running" /\ ~NeedsRepair
          \/ Returned(1, Dispatched + 2)
      BY DEF Repair, Finish, Throw
    <2> QED
      BY <2>1 DEF GateInv, RunsByPhase
  <1>6. RecordedStream'
    BY <1>1, <1>2 DEF GateInv, RecordedStream
  <1> QED
    BY <1>3, <1>4, <1>5, <1>6 DEF GateInv

(* The backend records the stream, loses it, or nothing happens. *)
LEMMA BackendKeeps ==
    ASSUME TypeOK, GateInv, Record \/ Lose \/ UNCHANGED vars
    PROVE  GateInv'
  <1>1. /\ plan' = plan /\ result' = result /\ phase' = phase
        /\ heard' = heard /\ before' = before
    BY DEF Record, Lose, vars, runtime, backend
  <1>2. RunsInOrder' /\ RunsByPhase' /\ FinishedRuns'
    BY <1>1, FrozenRuns DEF GateInv, RunsByPhase, FinishedRuns
  <1>3. relay' # "lost" => relay # "lost"
    BY DEF Record, Lose, vars, backend
  <1>4. HeardFindings' /\ HeardRepair'
    BY <1>1, <1>3, FrozenRuns DEF GateInv, HeardFindings, HeardRepair
  <1>5. CASE Record
    <2>1. doc' = Noted(doc, heard) /\ phase \in {"finished", "threw"}
      BY <1>5 DEF Record, StreamEnds
    <2>2. RecordedStream' /\ KnownFailure'
      BY <1>1, <2>1 DEF Noted, GateInv, RecordedStream, KnownFailure
    <2> QED
      BY <1>2, <1>4, <2>2 DEF GateInv
  <1>6. CASE ~Record
    <2>1. doc' = doc /\ (relay' = "recorded" => relay = "recorded")
      BY <1>6 DEF Lose, vars, backend
    <2>2. RecordedStream' /\ KnownFailure'
      BY <1>1, <2>1 DEF GateInv, RecordedStream, KnownFailure
    <2> QED
      BY <1>2, <1>4, <2>2 DEF GateInv
  <1> QED
    BY <1>5, <1>6

(* The invariant of the gate is inductive. *)
LEMMA GateStep == TypeOK /\ GateInv /\ [Next]_vars => GateInv'
  <1> SUFFICES ASSUME TypeOK, GateInv, [Next]_vars
               PROVE  GateInv'
    OBVIOUS
  <1>1. \/ Begin \/ \E i \in Positions : Return(i)
        \/ Repair \/ Finish \/ Throw
        \/ Record \/ Lose \/ UNCHANGED vars
    BY Zenon DEF Next, Proceed
  <1> QED
    BY <1>1, BeginKeeps, ReturnKeeps, PhaseKeeps, BackendKeeps

(* What the gate knows holds throughout. *)
LEMMA GateInvariant == Spec => [](TypeOK /\ GateInv)
  <1>1. Init => TypeOK /\ GateInv
    BY TypeInit, GateInit
  <1>2. TypeOK /\ GateInv /\ [Next]_vars => (TypeOK /\ GateInv)'
    BY TypeStep, GateStep
  <1> QED
    BY <1>1, <1>2, PTL DEF Spec

(* The gate looks at no run, yet it opens only for work that succeeded: the  *)
(* last turn that changed the files, if it ended by itself without a lock    *)
(* and was recorded, left its last engineer and its last reviewer run        *)
(* successful.                                                               *)
THEOREM AdmittedWork == Spec => []AdmittedWorkSucceeded
  <1>1. TypeOK /\ GateInv => AdmittedWorkSucceeded
    BY FailureIsBlocked DEF AdmittedWorkSucceeded, GateOpens
  <1> QED
    BY <1>1, GateInvariant, PTL

(* A turn whose last validation and last verdict passed opens the gate,      *)
(* whatever earlier turns recorded, unless a repair was blocked.             *)
THEOREM DeliveredTurns == Spec => []DeliveryOpensGate
  <1>1. TypeOK /\ GateInv => DeliveryOpensGate
    <2> SUFFICES ASSUME TypeOK, GateInv, Delivered, ~doc.blocked
                 PROVE  GateOpens
      BY DEF DeliveryOpensGate
    <2>1. heard.validation = "pass"
      BY DEF Delivered, GateInv, HeardFindings
    <2>2. heard.verdict = "pass"
      BY DEF Delivered, GateInv, HeardFindings
    <2> QED
      BY <2>1, <2>2 DEF Delivered, GateInv, RecordedStream, GateOpens
  <1> QED
    BY <1>1, GateInvariant, PTL
===============================================================================
