---------------------------- MODULE TaskRunsProofs ----------------------------
(***************************************************************************)
(* Theorems about TaskRuns, for any agents, members, turns and bounds.     *)
(***************************************************************************)
EXTENDS TaskRuns, TurnRoutingProofs

(* A slot's message is a message of its turn. *)
LEMMA SlotsAreMessages ==
    /\ MaxRouted \in Nat
    /\ Slots \subseteq Turns \X (0..(MaxRouted + 2))
    /\ \A t \in Turns : << t, 0 >> \in Turns \X (0..(MaxRouted + 2))
  <1>1. MaxRouted \in Nat
    BY BoundAssumption DEF MaxRouted
  <1> QED
    BY <1>1 DEF Slots

(* What a turn is planned to do has the shape of a plan. *)
LEMMA PlanTyping == RoutedPlans \subseteq Plans
  <1>1. ASSUME NEW a \in Members
        PROVE  DirectPlan(a) \in Plans
    BY AgentsAssumption DEF DirectPlan, Plans, Speakers
  <1>2. ASSUME NEW allows \in BOOLEAN, NEW d \in RoutedDecisions(allows)
        PROVE  MainPlan(d, allows) \in Plans
    <2>1. d \in Decisions
      BY RoutedTyping
    <2>2. VisibleTurn(d).speaker \in Speakers
      BY <2>1, VisibleTyping
    <2> QED
      BY <2>1, <2>2 DEF MainPlan, Plans, Decisions, Speakers
  <1> QED
    BY <1>1, <1>2 DEF RoutedPlans

(* Every step keeps the types. *)
LEMMA TypeStep == TypeOK /\ [Next]_vars => TypeOK'
  <1> SUFFICES ASSUME TypeOK, [Next]_vars
               PROVE  TypeOK'
    OBVIOUS
  <1> USE DEF TypeOK, PCs, InFlight, Phases, Settled, RunResults, store, local
  <1>1. ASSUME NEW t \in Turns, ReceiveMessage(t)
        PROVE  TypeOK'
    BY <1>1 DEF ReceiveMessage
  <1>2. ASSUME NEW t \in Turns, PlanTurn(t)
        PROVE  TypeOK'
    BY <1>2, PlanTyping DEF PlanTurn
  <1>3. ASSUME NEW s \in Slots, FindSession(s)
        PROVE  TypeOK'
    BY <1>3 DEF FindSession, OwnSessions, Goto
  <1>4. ASSUME NEW s \in Slots, MissSession(s)
        PROVE  TypeOK'
    BY <1>4 DEF MissSession, Goto
  <1>5. ASSUME NEW s \in Slots, PushSession(s)
        PROVE  TypeOK'
    BY <1>5 DEF PushSession, Goto
  <1>6. ASSUME NEW s \in Slots, CreateHandoff(s)
        PROVE  TypeOK'
    BY <1>6 DEF CreateHandoff, Goto
  <1>7. ASSUME NEW s \in Slots, LightweightReply(s)
        PROVE  TypeOK'
    BY <1>7, SlotsAreMessages DEF LightweightReply, Goto
  <1>8. ASSUME NEW s \in Slots, BlockRun(s)
        PROVE  TypeOK'
    BY <1>8 DEF BlockRun, Goto
  <1>9. ASSUME NEW s \in Slots, BeginRun(s)
        PROVE  TypeOK'
    BY <1>9 DEF BeginRun, Goto
  <1>10. ASSUME NEW s \in Slots, PushRun(s)
         PROVE  TypeOK'
    BY <1>10 DEF PushRun, Goto
  <1>11. ASSUME NEW s \in Slots, MarkHandoffRunning(s)
         PROVE  TypeOK'
    BY <1>11 DEF MarkHandoffRunning, Goto
  <1>12. ASSUME NEW s \in Slots, AgentWrites(s)
         PROVE  TypeOK'
    BY <1>12 DEF AgentWrites
  <1>13. ASSUME NEW s \in Slots, AgentReturns(s)
         PROVE  TypeOK'
    BY <1>13, TaskRunsAssumption DEF AgentReturns, Goto
  <1>14. ASSUME NEW s \in Slots, PersistRunResult(s)
         PROVE  TypeOK'
    BY <1>14, SlotsAreMessages DEF PersistRunResult, Goto
  <1>15. ASSUME NEW s \in Slots, CompleteHandoff(s)
         PROVE  TypeOK'
    BY <1>15 DEF CompleteHandoff, ToHandoffStatus, Goto
  <1>16. ASSUME NEW s \in Slots, ThrowMissing(s)
         PROVE  TypeOK'
    BY <1>16 DEF ThrowMissing, Throw, Goto
  <1>17. ASSUME NEW s \in Slots, OperationFails(s)
         PROVE  TypeOK'
    <2>1. failures' \in 0..MaxFailures
      BY <1>17, TaskRunsAssumption DEF OperationFails
    <2> QED
      BY <1>17, <2>1 DEF OperationFails, Throw, Goto
  <1>18. ASSUME NEW t \in Turns, StartRepair(t)
         PROVE  TypeOK'
    BY <1>18 DEF StartRepair
  <1>19. ASSUME NEW t \in Turns, FinishTurn(t)
         PROVE  TypeOK'
    BY <1>19, SlotsAreMessages DEF FinishTurn
  <1>20. ASSUME NEW t \in Turns, SummaryThrows(t)
         PROVE  TypeOK'
    BY <1>20 DEF SummaryThrows
  <1>21. CASE DeleteWorkspace
    BY <1>21 DEF DeleteWorkspace
  <1>22. CASE RemoveDirectory
    BY <1>22 DEF RemoveDirectory
  <1>23. CASE Crash
    <2>1. crashes' \in 0..MaxCrashes
      BY <1>23, TaskRunsAssumption DEF Crash
    <2>2. /\ phase' \in [Turns -> Phases]
          /\ pc' \in [Slots -> PCs]
          /\ ws' \in {"live", "deleting", "deleted"}
      BY <1>23 DEF Crash
    <2> QED
      BY <1>23, <2>1, <2>2 DEF Crash
  <1>24. CASE Restart
    BY <1>24 DEF Restart
  <1>25. CASE UNCHANGED vars
    BY <1>25 DEF vars
  <1> QED
    BY <1>1, <1>2, <1>3, <1>4, <1>5, <1>6, <1>7, <1>8, <1>9, <1>10, <1>11,
       <1>12, <1>13, <1>14, <1>15, <1>16, <1>17, <1>18, <1>19, <1>20, <1>21,
       <1>22, <1>23, <1>24, <1>25 DEF Next, Dispatch, Turn

(* TaskRuns is type correct. *)
THEOREM TypeCorrect == Spec => []TypeOK
  <1>1. Init => TypeOK
    <2> SUFFICES ASSUME Init
                 PROVE  TypeOK
      OBVIOUS
    <2>1. NoPlan \in Plans
      BY DEF NoPlan, Plans, Speakers
    <2> QED
      BY <2>1, TaskRunsAssumption
         DEF Init, TypeOK, PCs, InFlight, Phases, Settled, RunResults
  <1> QED
    BY <1>1, TypeStep, PTL DEF Spec

------------------------------------------------------------------------------
(***************************************************************************)
(* The inductive invariant behind HandoffAgreesWithRun and LifecycleSpec:  *)
(* where a dispatch is suspended fixes what its two rows can hold.  A row   *)
(* may always be gone with its workspace; the run row is pushed without     *)
(* looking, so it may also stand alone at "mark_running".                   *)
(***************************************************************************)
RowsAt(s) ==
    /\ pc[s] \in {"idle", "push_session", "create_handoff"} =>
          handoff[s] = "none" /\ run[s] = "none"
    /\ pc[s] \in {"begin", "push_run"} =>
          handoff[s] \in {"none", "pending"} /\ run[s] = "none"
    /\ pc[s] = "mark_running" =>
          /\ handoff[s] \in {"none", "pending"}
          /\ run[s] \in {"none", "running"}
          /\ handoff[s] = "pending" => run[s] = "running"
    /\ pc[s] \in {"adapter", "persist"} =>
          \/ handoff[s] = "none" /\ run[s] = "none"
          \/ handoff[s] = "running" /\ run[s] = "running"
    /\ pc[s] = "complete" =>
          \/ handoff[s] = "none" /\ run[s] = "none"
          \/ handoff[s] = "running" /\ run[s] = outcome[s]
    /\ pc[s] \in {"persist", "complete"} => outcome[s] \in RunResults
    /\ handoff[s] = "completed" => run[s] = "success"
    /\ handoff[s] \in {"partial", "failed"} => run[s] = handoff[s]

(* A stopped process has no dispatch under way. *)
NoneInFlightWhenDown == ~up => \A s \in Slots : pc[s] \notin InFlight

RowsInv ==
    /\ \A s \in Slots : RowsAt(s)
    /\ NoneInFlightWhenDown

(* A step of slot s disturbs the rows of no other slot. *)
LEMMA OthersKeepTheirRows ==
    ASSUME RowsInv, NEW s \in Slots, RowsAt(s)',
           \A r \in Slots \ {s} : /\ pc'[r] = pc[r]
                                   /\ handoff'[r] = handoff[r]
                                   /\ run'[r] = run[r]
                                   /\ outcome'[r] = outcome[r]
    PROVE  \A r \in Slots : RowsAt(r)'
  BY DEF RowsInv, RowsAt

(* Every step keeps the rows in step with the dispatches. *)
LEMMA RowsStep == TypeOK /\ RowsInv /\ [Next]_vars => RowsInv'
  <1> SUFFICES ASSUME TypeOK, RowsInv, [Next]_vars
               PROVE  RowsInv'
    OBVIOUS
  <1> USE DEF RowsInv, NoneInFlightWhenDown, InFlight, store, local
  <1>1. ASSUME NEW s \in Slots, FindSession(s)
        PROVE  RowsInv'
    <2>1. RowsAt(s)'
      BY <1>1 DEF FindSession, CanStart, Goto, RowsAt, TypeOK
    <2>2. \A r \in Slots : RowsAt(r)'
      BY <1>1, <2>1, OthersKeepTheirRows DEF FindSession, CanStart, Goto, TypeOK
    <2>3. NoneInFlightWhenDown'
      BY <1>1 DEF FindSession, CanStart, Goto, TypeOK
    <2> QED
      BY <2>2, <2>3
  <1>2. ASSUME NEW s \in Slots, MissSession(s)
        PROVE  RowsInv'
    <2>1. RowsAt(s)'
      BY <1>2 DEF MissSession, CanStart, Goto, RowsAt, TypeOK
    <2>2. \A r \in Slots : RowsAt(r)'
      BY <1>2, <2>1, OthersKeepTheirRows DEF MissSession, CanStart, Goto, TypeOK
    <2>3. NoneInFlightWhenDown'
      BY <1>2 DEF MissSession, CanStart, Goto, TypeOK
    <2> QED
      BY <2>2, <2>3
  <1>3. ASSUME NEW s \in Slots, PushSession(s)
        PROVE  RowsInv'
    <2>1. RowsAt(s)'
      BY <1>3 DEF PushSession, Goto, RowsAt, TypeOK
    <2>2. \A r \in Slots : RowsAt(r)'
      BY <1>3, <2>1, OthersKeepTheirRows DEF PushSession, Goto, TypeOK
    <2>3. NoneInFlightWhenDown'
      BY <1>3 DEF PushSession, Goto, TypeOK
    <2> QED
      BY <2>2, <2>3
  <1>4. ASSUME NEW s \in Slots, CreateHandoff(s)
        PROVE  RowsInv'
    <2>1. RowsAt(s)'
      BY <1>4 DEF CreateHandoff, Goto, RowsAt, TypeOK
    <2>2. \A r \in Slots : RowsAt(r)'
      BY <1>4, <2>1, OthersKeepTheirRows DEF CreateHandoff, Goto, TypeOK
    <2>3. NoneInFlightWhenDown'
      BY <1>4 DEF CreateHandoff, Goto, TypeOK
    <2> QED
      BY <2>2, <2>3
  <1>5. ASSUME NEW s \in Slots, LightweightReply(s)
        PROVE  RowsInv'
    <2>1. RowsAt(s)'
      BY <1>5 DEF LightweightReply, Goto, RowsAt, TypeOK
    <2>2. \A r \in Slots : RowsAt(r)'
      BY <1>5, <2>1, OthersKeepTheirRows DEF LightweightReply, Goto, TypeOK
    <2>3. NoneInFlightWhenDown'
      BY <1>5 DEF LightweightReply, Goto, TypeOK
    <2> QED
      BY <2>2, <2>3
  <1>6. ASSUME NEW s \in Slots, BlockRun(s)
        PROVE  RowsInv'
    <2>1. RowsAt(s)'
      BY <1>6 DEF BlockRun, Goto, RowsAt, TypeOK
    <2>2. \A r \in Slots : RowsAt(r)'
      BY <1>6, <2>1, OthersKeepTheirRows DEF BlockRun, Goto, TypeOK
    <2>3. NoneInFlightWhenDown'
      BY <1>6 DEF BlockRun, Goto, TypeOK
    <2> QED
      BY <2>2, <2>3
  <1>7. ASSUME NEW s \in Slots, BeginRun(s)
        PROVE  RowsInv'
    <2>1. RowsAt(s)'
      BY <1>7 DEF BeginRun, Goto, RowsAt, TypeOK
    <2>2. \A r \in Slots : RowsAt(r)'
      BY <1>7, <2>1, OthersKeepTheirRows DEF BeginRun, Goto, TypeOK
    <2>3. NoneInFlightWhenDown'
      BY <1>7 DEF BeginRun, Goto, TypeOK
    <2> QED
      BY <2>2, <2>3
  <1>8. ASSUME NEW s \in Slots, PushRun(s)
        PROVE  RowsInv'
    <2>1. RowsAt(s)'
      BY <1>8 DEF PushRun, Goto, RowsAt, TypeOK
    <2>2. \A r \in Slots : RowsAt(r)'
      BY <1>8, <2>1, OthersKeepTheirRows DEF PushRun, Goto, TypeOK
    <2>3. NoneInFlightWhenDown'
      BY <1>8 DEF PushRun, Goto, TypeOK
    <2> QED
      BY <2>2, <2>3
  <1>9. ASSUME NEW s \in Slots, MarkHandoffRunning(s)
        PROVE  RowsInv'
    <2>1. RowsAt(s)'
      BY <1>9 DEF MarkHandoffRunning, Goto, RowsAt, TypeOK
    <2>2. \A r \in Slots : RowsAt(r)'
      BY <1>9, <2>1, OthersKeepTheirRows DEF MarkHandoffRunning, Goto, TypeOK
    <2>3. NoneInFlightWhenDown'
      BY <1>9 DEF MarkHandoffRunning, Goto, TypeOK
    <2> QED
      BY <2>2, <2>3
  <1>10. ASSUME NEW s \in Slots, AgentReturns(s)
        PROVE  RowsInv'
    <2>1. RowsAt(s)'
      BY <1>10, TaskRunsAssumption DEF AgentReturns, RunResults, Goto, RowsAt, TypeOK
    <2>2. \A r \in Slots : RowsAt(r)'
      BY <1>10, <2>1, OthersKeepTheirRows DEF AgentReturns, RunResults, Goto, TypeOK
    <2>3. NoneInFlightWhenDown'
      BY <1>10 DEF AgentReturns, RunResults, Goto, TypeOK
    <2> QED
      BY <2>2, <2>3
  <1>11. ASSUME NEW s \in Slots, PersistRunResult(s)
        PROVE  RowsInv'
    <2>1. RowsAt(s)'
      BY <1>11 DEF PersistRunResult, RunResults, Goto, RowsAt, TypeOK
    <2>2. \A r \in Slots : RowsAt(r)'
      BY <1>11, <2>1, OthersKeepTheirRows DEF PersistRunResult, RunResults, Goto, TypeOK
    <2>3. NoneInFlightWhenDown'
      BY <1>11 DEF PersistRunResult, RunResults, Goto, TypeOK
    <2> QED
      BY <2>2, <2>3
  <1>12. ASSUME NEW s \in Slots, CompleteHandoff(s)
        PROVE  RowsInv'
    <2>1. RowsAt(s)'
      BY <1>12 DEF CompleteHandoff, ToHandoffStatus, RunResults, Goto, RowsAt, TypeOK
    <2>2. \A r \in Slots : RowsAt(r)'
      BY <1>12, <2>1, OthersKeepTheirRows DEF CompleteHandoff, ToHandoffStatus, RunResults, Goto, TypeOK
    <2>3. NoneInFlightWhenDown'
      BY <1>12 DEF CompleteHandoff, ToHandoffStatus, RunResults, Goto, TypeOK
    <2> QED
      BY <2>2, <2>3
  <1>13. ASSUME NEW s \in Slots, ThrowMissing(s)
        PROVE  RowsInv'
    <2>1. RowsAt(s)'
      BY <1>13 DEF ThrowMissing, Throw, Goto, RowsAt, TypeOK
    <2>2. \A r \in Slots : RowsAt(r)'
      BY <1>13, <2>1, OthersKeepTheirRows DEF ThrowMissing, Throw, Goto, TypeOK
    <2>3. NoneInFlightWhenDown'
      BY <1>13 DEF ThrowMissing, Throw, Goto, TypeOK
    <2> QED
      BY <2>2, <2>3
  <1>14. ASSUME NEW s \in Slots, OperationFails(s)
        PROVE  RowsInv'
    <2>1. RowsAt(s)'
      BY <1>14 DEF OperationFails, Throw, CanStart, Goto, RowsAt, TypeOK
    <2>2. \A r \in Slots : RowsAt(r)'
      BY <1>14, <2>1, OthersKeepTheirRows DEF OperationFails, Throw, CanStart, Goto, TypeOK
    <2>3. NoneInFlightWhenDown'
      BY <1>14 DEF OperationFails, Throw, CanStart, Goto, TypeOK
    <2> QED
      BY <2>2, <2>3
  <1>15. ASSUME NEW s \in Slots, AgentWrites(s)
        PROVE  RowsInv'
    BY <1>15 DEF AgentWrites, RowsAt
  <1>16. ASSUME NEW t \in Turns, ReceiveMessage(t)
        PROVE  RowsInv'
    BY <1>16 DEF ReceiveMessage, RowsAt
  <1>17. ASSUME NEW t \in Turns, PlanTurn(t)
        PROVE  RowsInv'
    BY <1>17 DEF PlanTurn, RowsAt
  <1>18. ASSUME NEW t \in Turns, StartRepair(t)
        PROVE  RowsInv'
    BY <1>18 DEF StartRepair, RowsAt
  <1>19. ASSUME NEW t \in Turns, FinishTurn(t)
        PROVE  RowsInv'
    BY <1>19 DEF FinishTurn, RowsAt
  <1>20. ASSUME NEW t \in Turns, SummaryThrows(t)
        PROVE  RowsInv'
    BY <1>20 DEF SummaryThrows, RowsAt
  <1>21. CASE DeleteWorkspace
    BY <1>21 DEF DeleteWorkspace, RowsAt, TypeOK
  <1>22. CASE RemoveDirectory
    BY <1>22 DEF RemoveDirectory, RowsAt, TypeOK
  <1>23. CASE Crash
    BY <1>23 DEF Crash, RowsAt, TypeOK
  <1>24. CASE Restart
    <2>1. PICK stale \in SUBSET RunsInProgress :
              /\ run' = [s \in Slots |-> IF s \in stale THEN "failed" ELSE run[s]]
              /\ handoff' = [s \in Slots |->
                                IF s \in stale /\ handoff[s] = "running"
                                THEN "failed" ELSE handoff[s]]
      BY <1>24 DEF Restart
    <2>2. pc' = pc /\ outcome' = outcome /\ ~up /\ up'
      BY <1>24 DEF Restart
    <2>3. ASSUME NEW s \in Slots
          PROVE  RowsAt(s)'
      <3>1. pc[s] \notin InFlight
        BY <2>2
      <3>2. CASE s \in stale
        BY <2>1, <2>2, <3>1, <3>2 DEF RowsAt, RunsInProgress
      <3>3. CASE s \notin stale
        BY <2>1, <2>2, <3>1, <3>3 DEF RowsAt
      <3> QED
        BY <3>2, <3>3
    <2> QED
      BY <2>2, <2>3
  <1>25. CASE UNCHANGED vars
    BY <1>25 DEF vars, RowsAt
  <1> QED
    BY <1>1, <1>2, <1>3, <1>4, <1>5, <1>6, <1>7, <1>8, <1>9, <1>10, <1>11,
       <1>12, <1>13, <1>14, <1>15, <1>16, <1>17, <1>18, <1>19, <1>20, <1>21,
       <1>22, <1>23, <1>24, <1>25 DEF Next, Dispatch, Turn

(* The rows are in step with the dispatches in every reachable state. *)
THEOREM RowsFollowDispatches == Spec => []RowsInv
  <1>1. Init => RowsInv
    BY DEF Init, RowsInv, RowsAt, NoneInFlightWhenDown
  <1> QED
    BY <1>1, RowsStep, TypeCorrect, PTL DEF Spec

(* A settled handoff tells the truth about its run, for any number of turns, *)
(* dispatches, failures and crashes.                                         *)
THEOREM HandoffTruth == Spec => []HandoffAgreesWithRun
  <1>1. RowsInv => HandoffAgreesWithRun
    BY DEF RowsInv, RowsAt, HandoffAgreesWithRun
  <1> QED
    BY <1>1, RowsFollowDispatches, PTL

------------------------------------------------------------------------------
(* A step of TaskRuns is a step of the life cycle, or leaves both rows alone. *)
LEMMA LifecycleStep ==
    TypeOK /\ RowsInv /\ [Next]_vars => [Lifecycle!Next]_<< handoff, run >>
  <1> SUFFICES ASSUME TypeOK, RowsInv, [Next]_vars
               PROVE  Lifecycle!Next \/ UNCHANGED << handoff, run >>
    OBVIOUS
  <1> USE DEF TypeOK, RowsInv, RowsAt, store, local
  <1>1. ASSUME NEW s \in Slots, CreateHandoff(s)
        PROVE  Lifecycle!Next
    <2>1. Lifecycle!Create(s)
      BY <1>1 DEF CreateHandoff, Lifecycle!Create, Lifecycle!MoveHandoff
    <2> QED
      BY <2>1 DEF Lifecycle!Next
  <1>2. ASSUME NEW s \in Slots, PushRun(s)
        PROVE  Lifecycle!Next
    <2>1. Lifecycle!OpenRun(s)
      BY <1>2 DEF PushRun, Lifecycle!OpenRun, Lifecycle!MoveRun
    <2> QED
      BY <2>1 DEF Lifecycle!Next
  <1>3. ASSUME NEW s \in Slots, MarkHandoffRunning(s)
        PROVE  Lifecycle!Next
    <2>1. Lifecycle!Start(s)
      BY <1>3 DEF MarkHandoffRunning, Lifecycle!Start, Lifecycle!MoveHandoff
    <2> QED
      BY <2>1 DEF Lifecycle!Next
  <1>4. ASSUME NEW s \in Slots, PersistRunResult(s)
        PROVE  Lifecycle!Next
    <2>1. Lifecycle!EndRun(s)
      BY <1>4 DEF PersistRunResult, RunResults, Lifecycle!RunEnds,
                  Lifecycle!EndRun, Lifecycle!MoveRun
    <2> QED
      BY <2>1 DEF Lifecycle!Next
  <1>5. ASSUME NEW s \in Slots, CompleteHandoff(s)
        PROVE  Lifecycle!Next
    <2>1. Lifecycle!Settle(s)
      BY <1>5 DEF CompleteHandoff, ToHandoffStatus, RunResults, Lifecycle!RunEnds,
                  Lifecycle!ResultOf, Lifecycle!Settle, Lifecycle!MoveHandoff
    <2> QED
      BY <2>1 DEF Lifecycle!Next
  <1>6. CASE Restart
    <2>1. PICK stale \in SUBSET RunsInProgress : Lifecycle!Recover(stale)
      BY <1>6 DEF Restart, RunsInProgress, Lifecycle!Recover
    <2>2. stale \in SUBSET Slots
      BY DEF RunsInProgress
    <2> QED
      BY <2>1, <2>2 DEF Lifecycle!Next
  <1>7. CASE DeleteWorkspace
    BY <1>7 DEF DeleteWorkspace, Lifecycle!DeleteAll, Lifecycle!Next
  <1>8. ASSUME NEW s \in Slots, FindSession(s)
        PROVE  UNCHANGED << handoff, run >>
    BY <1>8 DEF FindSession
  <1>9. ASSUME NEW s \in Slots, MissSession(s)
        PROVE  UNCHANGED << handoff, run >>
    BY <1>9 DEF MissSession
  <1>10. ASSUME NEW s \in Slots, PushSession(s)
        PROVE  UNCHANGED << handoff, run >>
    BY <1>10 DEF PushSession
  <1>11. ASSUME NEW s \in Slots, LightweightReply(s)
        PROVE  UNCHANGED << handoff, run >>
    BY <1>11 DEF LightweightReply
  <1>12. ASSUME NEW s \in Slots, BlockRun(s)
        PROVE  UNCHANGED << handoff, run >>
    BY <1>12 DEF BlockRun
  <1>13. ASSUME NEW s \in Slots, BeginRun(s)
        PROVE  UNCHANGED << handoff, run >>
    BY <1>13 DEF BeginRun
  <1>14. ASSUME NEW s \in Slots, AgentReturns(s)
        PROVE  UNCHANGED << handoff, run >>
    BY <1>14 DEF AgentReturns
  <1>15. ASSUME NEW s \in Slots, AgentWrites(s)
        PROVE  UNCHANGED << handoff, run >>
    BY <1>15 DEF AgentWrites
  <1>16. ASSUME NEW s \in Slots, ThrowMissing(s)
        PROVE  UNCHANGED << handoff, run >>
    BY <1>16 DEF ThrowMissing, Throw
  <1>17. ASSUME NEW s \in Slots, OperationFails(s)
        PROVE  UNCHANGED << handoff, run >>
    BY <1>17 DEF OperationFails, Throw
  <1>18. ASSUME NEW t \in Turns, ReceiveMessage(t)
        PROVE  UNCHANGED << handoff, run >>
    BY <1>18 DEF ReceiveMessage
  <1>19. ASSUME NEW t \in Turns, PlanTurn(t)
        PROVE  UNCHANGED << handoff, run >>
    BY <1>19 DEF PlanTurn
  <1>20. ASSUME NEW t \in Turns, StartRepair(t)
        PROVE  UNCHANGED << handoff, run >>
    BY <1>20 DEF StartRepair
  <1>21. ASSUME NEW t \in Turns, FinishTurn(t)
        PROVE  UNCHANGED << handoff, run >>
    BY <1>21 DEF FinishTurn
  <1>22. ASSUME NEW t \in Turns, SummaryThrows(t)
        PROVE  UNCHANGED << handoff, run >>
    BY <1>22 DEF SummaryThrows
  <1>23. CASE RemoveDirectory
    BY <1>23 DEF RemoveDirectory
  <1>24. CASE Crash
    BY <1>24 DEF Crash
  <1>25. CASE UNCHANGED vars
    BY <1>25 DEF vars
  <1> QED
    BY <1>1, <1>2, <1>3, <1>4, <1>5, <1>6, <1>7, <1>8, <1>9, <1>10, <1>11,
       <1>12, <1>13, <1>14, <1>15, <1>16, <1>17, <1>18, <1>19, <1>20, <1>21,
       <1>22, <1>23, <1>24, <1>25 DEF Next, Dispatch, Turn

(* TaskRuns implements the life cycle of handoffs and runs.                  *)
THEOREM ImplementsLifecycle == Spec => LifecycleSpec
  <1>1. Init => Lifecycle!Init
    BY DEF Init, Lifecycle!Init
  <1> QED
    BY <1>1, LifecycleStep, TypeCorrect, RowsFollowDispatches, PTL
       DEF Spec, LifecycleSpec, Lifecycle!Spec
=============================================================================
