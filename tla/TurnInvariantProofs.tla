-------------------------- MODULE TurnInvariantProofs --------------------------
(***************************************************************************)
(* The invariants of turns and their rows, for any agents, turns and       *)
(* bounds.                                                                 *)
(*                                                                         *)
(* applyExecutionSafety at work: within one turn no change set contains    *)
(* what a file-writing agent of another dispatch wrote.  Behind it: a turn *)
(* runs two dispatches at once only in a parallel batch, and no file       *)
(* writer gets into one.                                                   *)
(*                                                                         *)
(* What the store holds when work is over: rows refer to rows that exist,  *)
(* and a turn that ended normally left nothing open and, unless it was     *)
(* repaired, had one speaker.                                              *)
(***************************************************************************)
EXTENDS TaskRunsProofs

(* Only a plan of several agents is parallel, and none of them may edit     *)
(* files.                                                                   *)
ReadersInParallel(p) ==
    p.parallel => \A i \in 1..Len(p.dispatches) : p.dispatches[i] \notin FileWriters

(* Another dispatch of the same turn whose agent may edit files. *)
Rival(s, w) == w[1] = s[1] /\ w # s /\ AgentOf(w) \in FileWriters

(* A dispatch of a parallel batch, as opposed to the repair pass. *)
InBatch(s) == plan[s[1]].parallel /\ s[2] <= Dispatched(s[1])

Watching == {"push_run", "mark_running", "adapter"}

PlansAreSafe == \A t \in Turns : ReadersInParallel(plan[t])

(* Before a turn is planned, its dispatches have left no trace. *)
Untouched ==
    \A s \in Slots :
        phase[s[1]] \in {"idle", "planning"} =>
            pc[s] = "idle" /\ changed[s] = {} /\ changeSet[s] = {}

(* Outside a parallel batch, a dispatch starts after all before it returned. *)
InOrder ==
    \A r, s \in Slots :
        /\ r[1] = s[1] /\ r[2] < s[2]
        /\ pc[s] # "idle" /\ ~InBatch(s)
        => pc[r] = "returned"

(* The repair pass starts after the whole batch returned. *)
BatchBeforeRepair ==
    \A s \in Slots :
        phase[s[1]] = "repairing" /\ s[2] <= Dispatched(s[1]) => pc[s] = "returned"

OwnDiffs ==
    \A s, w \in Slots :
        /\ w \in changeSet[s] \cup changed[s] => ~Rival(s, w)
        /\ pc[s] \in Watching /\ w \in repo \ before[s] => ~Rival(s, w)

IsolationInv ==
    /\ PlansAreSafe
    /\ Untouched
    /\ InOrder
    /\ BatchBeforeRepair
    /\ OwnDiffs

(* Who rivals whom is fixed by the plans. *)
LEMMA PlanKept ==
    ASSUME plan' = plan
    PROVE  /\ \A s, w \in Slots : Rival(s, w)' <=> Rival(s, w)
           /\ \A s \in Slots : InBatch(s)' <=> InBatch(s)
           /\ \A t \in Turns : Dispatched(t)' = Dispatched(t)
  BY DEF Rival, AgentOf, InBatch, Dispatched

(* Slots are pairs of a turn and a position. *)
LEMMA SlotShape ==
    ASSUME NEW s \in Slots
    PROVE  s[1] \in Turns /\ s[2] \in Nat /\ s[2] >= 1
  BY SlotsAreMessages DEF Slots

(* The slot before a slot of a turn is a slot. *)
LEMMA SlotBefore ==
    ASSUME NEW s \in Slots, s[2] > 1
    PROVE  << s[1], s[2] - 1 >> \in Slots
  BY SlotsAreMessages DEF Slots

(* Slots with the same turn and position are the same. *)
LEMMA SlotsAreEqual ==
    ASSUME NEW s \in Slots, NEW r \in Slots, s[1] = r[1], s[2] = r[2]
    PROVE  s = r
  BY DEF Slots

(* A plan's length is a number. *)
LEMMA DispatchedIsNat ==
    ASSUME TypeOK, NEW t \in Turns
    PROVE  Dispatched(t) \in Nat
  BY DEF TypeOK, Plans, Dispatched

(* Two dispatches of a turn under way at once belong to a parallel batch,    *)
(* so neither may edit files.                                                *)
LEMMA NoRivalAtWork ==
    ASSUME TypeOK, IsolationInv, NEW s \in Slots, NEW w \in Slots,
           pc[s] \notin {"idle", "returned"}, pc[w] \notin {"idle", "returned"}
    PROVE  ~Rival(s, w)
  <1> SUFFICES ASSUME w[1] = s[1], w # s
               PROVE  AgentOf(w) \notin FileWriters
    BY DEF Rival
  <1> DEFINE i == s[2]
             j == w[2]
             n == Dispatched(s[1])
  <1>1. i \in Nat /\ j \in Nat /\ j >= 1 /\ s[1] \in Turns
    BY SlotShape
  <1>2. n \in Nat
    BY <1>1, DispatchedIsNat
  <1>3. i # j
    BY SlotsAreEqual
  <1>4. i < j => InBatch(w)
    BY DEF IsolationInv, InOrder
  <1>5. j < i => InBatch(s)
    BY DEF IsolationInv, InOrder
  <1>6. InBatch(s) <=> plan[s[1]].parallel /\ i <= n
    BY DEF InBatch
  <1>7. InBatch(w) <=> plan[s[1]].parallel /\ j <= n
    BY DEF InBatch
  <1> HIDE DEF i, j, n
  <1>8. InBatch(w)
    BY <1>1, <1>2, <1>3, <1>4, <1>5, <1>6, <1>7
  <1>9. j \in 1..n /\ plan[s[1]].parallel
    BY <1>1, <1>2, <1>7, <1>8
  <1>10. AgentOf(w) = plan[s[1]].dispatches[j] /\ n = Len(plan[s[1]].dispatches)
    BY <1>9 DEF AgentOf, Dispatched, i, j, n
  <1> QED
    BY <1>1, <1>9, <1>10 DEF IsolationInv, PlansAreSafe, ReadersInParallel

(* A dispatch may start only after those it must wait for. *)
LEMMA StartsInOrder ==
    ASSUME TypeOK, IsolationInv, NEW s \in Slots, CanStart(s), ~InBatch(s),
           NEW r \in Slots, r[1] = s[1], r[2] < s[2]
    PROVE  pc[r] = "returned"
  <1> DEFINE t == s[1]
             i == s[2]
             j == r[2]
             n == Dispatched(t)
             q == << t, i - 1 >>
  <1>1. i \in Nat /\ j \in Nat /\ j >= 1 /\ t \in Turns
    BY SlotShape
  <1>2. n \in Nat
    BY <1>1, DispatchedIsNat
  <1>3. q \in Slots
    BY <1>1, SlotBefore
  <1>4. q[1] = t /\ q[2] = i - 1
    OBVIOUS
  <1>5. \/ i <= n /\ pc[q] = "returned" /\ ~plan[t].parallel
        \/ i = n + 1 /\ phase[t] = "repairing"
        \/ i = n + 2 /\ phase[t] = "repairing" /\ pc[q] = "returned"
    <2>1. i > 1
      BY <1>1
    <2>2. CASE i <= n
      BY <1>1, <1>2, <2>1, <2>2 DEF CanStart, InBatch
    <2>3. CASE ~(i <= n)
      BY <1>1, <1>2, <2>1, <2>3 DEF CanStart
    <2> QED
      BY <2>2, <2>3
  <1>6. phase[t] = "repairing" /\ j <= n => pc[r] = "returned"
    BY DEF IsolationInv, BatchBeforeRepair
  <1>7. InBatch(q) <=> plan[t].parallel /\ i - 1 <= n
    BY <1>4 DEF InBatch
  <1>8. pc[q] = "returned" /\ ~InBatch(q) /\ j < i - 1 => pc[r] = "returned"
    BY <1>3, <1>4 DEF IsolationInv, InOrder
  <1>9. j = i - 1 => r = q
    BY <1>3, <1>4, SlotsAreEqual
  <1>10. j < i
    OBVIOUS
  <1> HIDE DEF i, j, n, q, t
  <1> QED
    BY <1>1, <1>2, <1>5, <1>6, <1>7, <1>8, <1>9, <1>10

(* What a step that moves one dispatch on leaves true. *)
LEMMA Movement ==
    ASSUME TypeOK, IsolationInv, NEW s \in Slots, NEW l,
           pc' = [pc EXCEPT ![s] = l], plan' = plan,
           pc[s] # "returned", pc[s] = "idle" => CanStart(s),
           \A t \in Turns : phase'[t] = phase[t] \/ phase'[t] = "thrown",
           \A r \in Slots : r # s => /\ changed'[r] = changed[r]
                                     /\ changeSet'[r] = changeSet[r]
    PROVE  PlansAreSafe' /\ Untouched' /\ InOrder' /\ BatchBeforeRepair'
  <1>1. /\ \A r \in Slots : r # s => pc'[r] = pc[r]
        /\ \A r \in Slots : pc[r] = "returned" => pc'[r] = "returned"
    BY DEF TypeOK
  <1>2. PlansAreSafe'
    BY DEF IsolationInv, PlansAreSafe, ReadersInParallel
  <1>3. Untouched'
    <2>1. phase[s[1]] \notin {"idle", "planning"}
      BY DEF IsolationInv, Untouched, CanStart
    <2>2. ASSUME NEW r \in Slots, phase'[r[1]] \in {"idle", "planning"}
          PROVE  pc'[r] = "idle" /\ changed'[r] = {} /\ changeSet'[r] = {}
      <3>1. phase[r[1]] \in {"idle", "planning"}
        BY <2>2, SlotShape
      <3>2. r # s
        BY <2>1, <3>1
      <3> QED
        BY <1>1, <3>1, <3>2 DEF IsolationInv, Untouched
    <2> QED
      BY <2>2 DEF Untouched
  <1>4. InOrder'
    <2> SUFFICES ASSUME NEW r \in Slots, NEW x \in Slots, r[1] = x[1], r[2] < x[2],
                        pc'[x] # "idle", ~InBatch(x)
                 PROVE  pc'[r] = "returned"
      BY PlanKept DEF InOrder
    <2>1. pc[r] = "returned"
      <3>1. CASE pc[x] = "idle"
        <4>1. x = s
          BY <1>1, <3>1
        <4> QED
          BY <3>1, <4>1, StartsInOrder
      <3>2. CASE pc[x] # "idle"
        BY <3>2 DEF IsolationInv, InOrder
      <3> QED
        BY <3>1, <3>2
    <2> QED
      BY <1>1, <2>1
  <1>5. BatchBeforeRepair'
    <2> SUFFICES ASSUME NEW r \in Slots, phase'[r[1]] = "repairing",
                        r[2] <= Dispatched(r[1])
                 PROVE  pc'[r] = "returned"
      BY PlanKept, SlotShape DEF BatchBeforeRepair
    <2>1. phase[r[1]] = "repairing"
      BY SlotShape
    <2> QED
      BY <1>1, <2>1 DEF IsolationInv, BatchBeforeRepair
  <1> QED
    BY <1>2, <1>3, <1>4, <1>5

(* What a step that starts and returns no dispatch leaves true. *)
LEMMA Standstill ==
    ASSUME IsolationInv, plan' = plan, changed' = changed,
           \A r \in Slots : /\ pc'[r] = "idle" <=> pc[r] = "idle"
                            /\ pc'[r] = "returned" <=> pc[r] = "returned"
                            /\ changeSet'[r] \in {changeSet[r], {}},
           \A t \in Turns :
              /\ phase'[t] \in {"idle", "planning"} => phase[t] \in {"idle", "planning"}
              /\ phase'[t] = "repairing" => \/ phase[t] = "repairing"
                                            \/ Returned(t, 1, Dispatched(t))
    PROVE  PlansAreSafe' /\ Untouched' /\ InOrder' /\ BatchBeforeRepair'
  <1>1. PlansAreSafe'
    BY DEF IsolationInv, PlansAreSafe, ReadersInParallel
  <1>2. Untouched'
    <2> SUFFICES ASSUME NEW r \in Slots, phase'[r[1]] \in {"idle", "planning"}
                 PROVE  pc'[r] = "idle" /\ changed'[r] = {} /\ changeSet'[r] = {}
      BY DEF Untouched
    <2>1. phase[r[1]] \in {"idle", "planning"}
      BY SlotShape
    <2> QED
      BY <2>1 DEF IsolationInv, Untouched
  <1>3. InOrder'
    <2> SUFFICES ASSUME NEW r \in Slots, NEW s \in Slots, r[1] = s[1], r[2] < s[2],
                        pc'[s] # "idle", ~InBatch(s)
                 PROVE  pc'[r] = "returned"
      BY PlanKept DEF InOrder
    <2> QED
      BY DEF IsolationInv, InOrder
  <1>4. BatchBeforeRepair'
    <2> SUFFICES ASSUME NEW r \in Slots, phase'[r[1]] = "repairing",
                        r[2] <= Dispatched(r[1])
                 PROVE  pc'[r] = "returned"
      BY PlanKept, SlotShape DEF BatchBeforeRepair
    <2>1. CASE phase[r[1]] = "repairing"
      BY <2>1 DEF IsolationInv, BatchBeforeRepair
    <2>2. CASE Returned(r[1], 1, Dispatched(r[1]))
      <3>1. r[2] \in 1..Dispatched(r[1]) /\ r = << r[1], r[2] >>
        BY SlotShape DEF Slots
      <3> QED
        BY <2>2, <3>1 DEF Returned
    <2> QED
      BY <2>1, <2>2, SlotShape
  <1> QED
    BY <1>1, <1>2, <1>3, <1>4

(* The writes a running dispatch would be given if it returned now. *)
Seen(s) == IF pc[s] \in Watching THEN repo \ before[s] ELSE {}

(* Attribution stays clean when no dispatch comes to see anything new. *)
LEMMA NothingNewSeen ==
    ASSUME OwnDiffs, plan' = plan,
           \A s \in Slots :
              changeSet'[s] \cup changed'[s] \cup Seen(s)'
                  \subseteq changeSet[s] \cup changed[s] \cup Seen(s)
    PROVE  OwnDiffs'
  BY PlanKept DEF OwnDiffs, Seen

(* A routed plan runs only readers in parallel. *)
LEMMA PlanIsSafe ==
    ASSUME NEW p \in RoutedPlans
    PROVE  ReadersInParallel(p)
  <1>1. CASE \E a \in Members : p = DirectPlan(a)
    BY <1>1 DEF DirectPlan, ReadersInParallel
  <1>2. CASE \E allows \in BOOLEAN : \E d \in RoutedDecisions(allows) :
                p = MainPlan(d, allows)
    <2>0. PICK allows \in BOOLEAN :
                \E d \in RoutedDecisions(allows) : p = MainPlan(d, allows)
      BY <1>2
    <2>1. PICK d \in RoutedDecisions(allows) : p = MainPlan(d, allows)
      BY <2>0
    <2>2. d.dispatches \in Seq(Agents)
      BY RoutedTyping DEF Decisions
    <2>3. d.execution = "parallel" => ~Mentions(d.dispatches, FileWriters)
      BY RoutedReaders
    <2>4. p.parallel = (d.execution = "parallel") /\ p.dispatches = d.dispatches
      BY <2>1 DEF MainPlan
    <2>5. DOMAIN d.dispatches = 1..Len(d.dispatches)
      BY <2>2
    <2> QED
      BY <2>3, <2>4, <2>5 DEF ReadersInParallel, Mentions
  <1> QED
    BY <1>1, <1>2 DEF RoutedPlans

(* The first plan of a turn meets no trace of its dispatches. *)
LEMMA PlanningIsClean ==
    ASSUME TypeOK, IsolationInv, NEW t \in Turns, PlanTurn(t)
    PROVE  IsolationInv'
  <1>1. PICK p \in RoutedPlans : plan' = [plan EXCEPT ![t] = p]
    BY DEF PlanTurn
  <1>2. /\ phase[t] = "planning" /\ phase'[t] = "dispatching"
        /\ \A x \in Turns : x # t => phase'[x] = phase[x] /\ plan'[x] = plan[x]
        /\ plan'[t] = p
        /\ UNCHANGED << pc, changed, changeSet, repo, before >>
    BY <1>1 DEF PlanTurn, TypeOK, store
  <1>3. \A s \in Slots : s[1] = t => pc[s] = "idle" /\ changed[s] = {} /\ changeSet[s] = {}
    BY <1>2 DEF IsolationInv, Untouched
  <1>4. \A s, w \in Slots : s[1] # t => Rival(s, w)' = Rival(s, w)
    BY <1>2, SlotShape DEF Rival, AgentOf, Dispatched
  <1>5. \A s \in Slots : s[1] # t => /\ InBatch(s)' = InBatch(s)
                                     /\ Dispatched(s[1])' = Dispatched(s[1])
    BY <1>2, SlotShape DEF InBatch, Dispatched
  <1>6. PlansAreSafe'
    BY <1>2, PlanIsSafe DEF IsolationInv, PlansAreSafe, ReadersInParallel
  <1>7. Untouched'
    BY <1>2, SlotShape DEF IsolationInv, Untouched
  <1>8. InOrder'
    BY <1>2, <1>3, <1>5 DEF IsolationInv, InOrder
  <1>9. BatchBeforeRepair'
    BY <1>2, <1>5, SlotShape DEF IsolationInv, BatchBeforeRepair
  <1>10. OwnDiffs'
    BY <1>2, <1>3, <1>4 DEF IsolationInv, OwnDiffs, Watching
  <1> QED
    BY <1>6, <1>7, <1>8, <1>9, <1>10 DEF IsolationInv

(* A write is seen by dispatches at work, and none of them is a rival. *)
LEMMA WritingIsSeenByOthers ==
    ASSUME TypeOK, IsolationInv, NEW x \in Slots, AgentWrites(x)
    PROVE  OwnDiffs'
  <1>1. /\ repo' = repo \cup {x} /\ pc[x] = "adapter" /\ plan' = plan
        /\ UNCHANGED << pc, changed, changeSet, before >>
    BY DEF AgentWrites, store, local
  <1>2. \A s \in Slots : pc[s] \in Watching => ~Rival(s, x)
    BY <1>1, NoRivalAtWork DEF Watching
  <1> QED
    BY <1>1, <1>2, PlanKept DEF IsolationInv, OwnDiffs

(* The steps of a dispatch. *)
LEMMA DispatchIsolated ==
    ASSUME TypeOK, IsolationInv, NEW s \in Slots,
           Dispatch(s) \/ OperationFails(s)
    PROVE  IsolationInv'
  <1> USE DEF Goto, store
  <1>1. \E l : /\ pc' = [pc EXCEPT ![s] = l]
               /\ pc[s] # "returned" /\ (pc[s] = "idle" => CanStart(s))
               /\ l \in Watching => \/ before'[s] = repo
                                    \/ pc[s] \in Watching /\ before' = before
    BY DEF Dispatch, FindSession, MissSession, PushSession, CreateHandoff, CanStart,
           LightweightReply, BlockRun, BeginRun, PushRun, MarkHandoffRunning,
           AgentReturns, PersistRunResult, CompleteHandoff, ThrowMissing,
           OperationFails, Throw, RowMissing, InFlight, Watching, TypeOK
  <1>2. /\ plan' = plan /\ repo' = repo
        /\ phase' = phase \/ phase' = [phase EXCEPT ![s[1]] = "thrown"]
        /\ before' = before \/ \E b : before' = [before EXCEPT ![s] = b]
        /\ changed' = changed \/ \E c : changed' = [changed EXCEPT ![s] = c]
        /\ changeSet' = changeSet \/ changeSet' = [changeSet EXCEPT ![s] = changed[s]]
    BY DEF Dispatch, FindSession, MissSession, PushSession, CreateHandoff,
           LightweightReply, BlockRun, BeginRun, PushRun, MarkHandoffRunning,
           AgentReturns, PersistRunResult, CompleteHandoff, ThrowMissing,
           OperationFails, Throw
  <1>3. \/ changed' = changed
        \/ changed'[s] = {}
        \/ pc[s] = "adapter" /\ changed'[s] = repo \ before[s]
    BY DEF Dispatch, FindSession, MissSession, PushSession, CreateHandoff,
           LightweightReply, BlockRun, BeginRun, PushRun, MarkHandoffRunning,
           AgentReturns, PersistRunResult, CompleteHandoff, ThrowMissing,
           OperationFails, Throw, TypeOK
  <1>4. \A t \in Turns : phase'[t] = phase[t] \/ phase'[t] = "thrown"
    BY <1>2, SlotShape DEF TypeOK
  <1>5. \A r \in Slots : r # s => /\ changed'[r] = changed[r]
                                  /\ changeSet'[r] = changeSet[r]
                                  /\ before'[r] = before[r]
                                  /\ pc'[r] = pc[r]
    BY <1>1, <1>2 DEF TypeOK
  <1>6. PlansAreSafe' /\ Untouched' /\ InOrder' /\ BatchBeforeRepair'
    BY <1>1, <1>2, <1>4, <1>5, Movement
  <1>7. OwnDiffs'
    <2> SUFFICES ASSUME NEW r \in Slots
                 PROVE  changeSet'[r] \cup changed'[r] \cup Seen(r)'
                            \subseteq changeSet[r] \cup changed[r] \cup Seen(r)
      BY <1>2, NothingNewSeen DEF IsolationInv
    <2>1. CASE r # s
      BY <1>2, <1>5, <2>1 DEF Seen
    <2>2. CASE r = s
      <3>1. changed'[s] \subseteq changed[s] \cup Seen(s)
        BY <1>3 DEF Seen, Watching
      <3>2. changeSet'[s] \subseteq changeSet[s] \cup changed[s]
        BY <1>2 DEF TypeOK
      <3>3. Seen(s)' \subseteq Seen(s)
        <4>1. pc'[s] \in Watching => \/ before'[s] = repo
                                     \/ pc[s] \in Watching /\ before' = before
          BY <1>1 DEF TypeOK
        <4> QED
          BY <1>2, <4>1 DEF Seen
      <3> QED
        BY <2>2, <3>1, <3>2, <3>3
    <2> QED
      BY <2>1, <2>2
  <1> QED
    BY <1>6, <1>7 DEF IsolationInv

(* The steps of the turn itself, of the user and of the process. *)
LEMMA SurroundingsIsolated ==
    ASSUME TypeOK, IsolationInv,
           \/ \E t \in Turns : ReceiveMessage(t) \/ StartRepair(t)
                               \/ FinishTurn(t) \/ SummaryThrows(t)
           \/ DeleteWorkspace \/ RemoveDirectory \/ Crash \/ Restart
           \/ UNCHANGED vars
    PROVE  IsolationInv'
  <1>1. /\ plan' = plan /\ changed' = changed /\ before' = before
        /\ \A r \in Slots : pc'[r] = pc[r] \/ (pc'[r] = "dead" /\ pc[r] \in InFlight)
        /\ \A r \in Slots : changeSet'[r] \in {changeSet[r], {}}
        /\ repo' \in {repo, {}}
    BY DEF ReceiveMessage, StartRepair, FinishTurn, SummaryThrows, DeleteWorkspace,
           RemoveDirectory, Crash, Restart, vars, store, local, TypeOK
  <1>2. \A t \in Turns :
            /\ phase'[t] \in {"idle", "planning"} => phase[t] \in {"idle", "planning"}
            /\ phase'[t] = "repairing" => \/ phase[t] = "repairing"
                                          \/ Returned(t, 1, Dispatched(t))
    BY DEF ReceiveMessage, StartRepair, FinishTurn, SummaryThrows, DeleteWorkspace,
           RemoveDirectory, Crash, Restart, vars, store, local, TypeOK
  <1>3. \A r \in Slots : /\ pc'[r] = "idle" <=> pc[r] = "idle"
                         /\ pc'[r] = "returned" <=> pc[r] = "returned"
    BY <1>1 DEF InFlight
  <1>4. PlansAreSafe' /\ Untouched' /\ InOrder' /\ BatchBeforeRepair'
    BY <1>1, <1>2, <1>3, Standstill
  <1>5. \A r \in Slots : changeSet'[r] \cup changed'[r] \cup Seen(r)'
                             \subseteq changeSet[r] \cup changed[r] \cup Seen(r)
    BY <1>1 DEF Seen, Watching
  <1>6. OwnDiffs'
    BY <1>1, <1>5, NothingNewSeen DEF IsolationInv
  <1> QED
    BY <1>4, <1>6 DEF IsolationInv

(* Every step keeps the attribution of writes clean. *)
LEMMA IsolationStep ==
    TypeOK /\ IsolationInv /\ [Next]_vars => IsolationInv'
  <1> SUFFICES ASSUME TypeOK, IsolationInv, [Next]_vars
               PROVE  IsolationInv'
    OBVIOUS
  <1>1. ASSUME NEW s \in Slots, Dispatch(s) \/ OperationFails(s)
        PROVE  IsolationInv'
    BY <1>1, DispatchIsolated
  <1>2. ASSUME NEW s \in Slots, AgentWrites(s)
        PROVE  IsolationInv'
    <2>1. UNCHANGED << plan, pc, phase, changed, changeSet >>
      BY <1>2 DEF AgentWrites, store, local
    <2>2. PlansAreSafe' /\ Untouched' /\ InOrder' /\ BatchBeforeRepair'
      BY <2>1, Standstill
    <2> QED
      BY <1>2, <2>2, WritingIsSeenByOthers DEF IsolationInv
  <1>3. ASSUME NEW t \in Turns, PlanTurn(t)
        PROVE  IsolationInv'
    BY <1>3, PlanningIsClean
  <1>4. CASE \/ \E t \in Turns : ReceiveMessage(t) \/ StartRepair(t)
                                 \/ FinishTurn(t) \/ SummaryThrows(t)
             \/ DeleteWorkspace \/ RemoveDirectory \/ Crash \/ Restart
             \/ UNCHANGED vars
    BY <1>4, SurroundingsIsolated
  <1> QED
    BY <1>1, <1>2, <1>3, <1>4 DEF Next, Turn

(* A change set never contains what a file-writing agent of another dispatch *)
(* of the same turn wrote: in serial and parallel batches, repairs, batches  *)
(* a throw left running, and across deletions, crashes and restarts          *)
(* (applyExecutionSafety, the dispatch loop and runAutomaticRepairIfNeeded). *)
THEOREM WritesStayWithinDispatch == Spec => []OwnWritesWithinTurn
  <1>1. Init => IsolationInv
    <2> SUFFICES ASSUME Init PROVE IsolationInv
      OBVIOUS
    <2>1. PlansAreSafe
      BY DEF Init, PlansAreSafe, ReadersInParallel, NoPlan
    <2>2. \A s \in Slots : pc[s] = "idle" /\ changed[s] = {} /\ changeSet[s] = {}
      BY DEF Init
    <2>3. \A s \in Slots : s[1] \in Turns
      BY SlotShape
    <2>4. \A t \in Turns : phase[t] = "idle"
      BY DEF Init
    <2> QED
      BY <2>1, <2>2, <2>3, <2>4
         DEF IsolationInv, Untouched, InOrder, BatchBeforeRepair, OwnDiffs, Watching
  <1>2. TypeOK /\ IsolationInv => OwnWritesWithinTurn
    BY DEF TypeOK, IsolationInv, OwnDiffs, Rival, OwnWritesWithinTurn
  <1> QED
    BY <1>1, <1>2, IsolationStep, TypeCorrect, PTL DEF Spec

-------------------------------------------------------------------------------
(* A dispatch starts in its phase of the turn, and no other slot starts.    *)
StartsInPhase(s) ==
    /\ phase[s[1]] \in {"idle", "planning"} => pc[s] = "idle"
    /\ phase[s[1]] = "dispatching" /\ IsRepair(s) => pc[s] = "idle"
    /\ s[2] > Dispatched(s[1]) + 2 => pc[s] = "idle"

(* A turn finishes when none of its dispatches is under way or has thrown.  *)
FinishesQuiet(s) == phase[s[1]] = "finished" => pc[s] \in {"idle", "returned"}

(* A dispatch returns with its rows closed. *)
ReturnsClosed(s) ==
    pc[s] = "returned" =>
        /\ run[s] # "running"
        /\ handoff[s] # "running"
        /\ handoff[s] = "pending" => Blocked(s) /\ run[s] = "none"

SettlementInv ==
    \A s \in Slots : StartsInPhase(s) /\ FinishesQuiet(s) /\ ReturnsClosed(s)

------------------------------------------------------------------------------
(* Every step keeps the references of the rows resolved. *)
LEMMA ReferencesStep ==
    TypeOK /\ RowsInv /\ ReferencesResolve /\ [Next]_vars => ReferencesResolve'
  <1> SUFFICES ASSUME TypeOK, RowsInv, ReferencesResolve, [Next]_vars
               PROVE  ReferencesResolve'
    OBVIOUS
  <1> DEFINE Kept == \A r \in Slots :
                        /\ handoff'[r] = handoff[r]
                        /\ session'[r] = session[r]
                        /\ changeSet'[r] = changeSet[r]
                        /\ run'[r] = run[r]
  <1>1. ASSUME Kept, sessions \subseteq sessions'
        PROVE  ReferencesResolve'
    BY <1>1 DEF ReferencesResolve
  <1>2. ASSUME NEW s \in Slots, FindSession(s) \/ MissSession(s) \/ PushSession(s)
        PROVE  ReferencesResolve'
    <2>1. handoff[s] = "none" /\ UNCHANGED << handoff, changeSet, run >>
      BY <1>2 DEF FindSession, MissSession, PushSession, CanStart, store,
                  RowsInv, RowsAt
    <2>2. /\ sessions \subseteq sessions'
          /\ \A r \in Slots : r # s => session'[r] = session[r]
      BY <1>2 DEF FindSession, MissSession, PushSession, store, TypeOK
    <2> QED
      BY <2>1, <2>2 DEF ReferencesResolve
  <1>3. ASSUME NEW s \in Slots, CreateHandoff(s)
        PROVE  ReferencesResolve'
    BY <1>3 DEF CreateHandoff, ReferencesResolve, TypeOK
  <1>4. ASSUME NEW s \in Slots, PushRun(s)
        PROVE  ReferencesResolve'
    <2>1. run[s] = "none" /\ changeSet[s] = {}
      BY <1>4 DEF PushRun, ReferencesResolve, RowsInv, RowsAt, RunResults
    <2> QED
      BY <1>4, <2>1 DEF PushRun, ReferencesResolve, TypeOK
  <1>5. ASSUME NEW s \in Slots, MarkHandoffRunning(s) \/ CompleteHandoff(s)
        PROVE  ReferencesResolve'
    <2>1. /\ handoff[s] # "none"
          /\ \A r \in Slots : r # s => handoff'[r] = handoff[r]
          /\ UNCHANGED << sessions, session, changeSet, run >>
      BY <1>5 DEF MarkHandoffRunning, CompleteHandoff, TypeOK
    <2> QED
      BY <2>1 DEF ReferencesResolve
  <1>6. ASSUME NEW s \in Slots, PersistRunResult(s)
        PROVE  ReferencesResolve'
    <2>1. outcome[s] \in RunResults
      BY <1>6 DEF PersistRunResult, RowsInv, RowsAt
    <2> QED
      BY <1>6, <2>1 DEF PersistRunResult, ReferencesResolve, TypeOK
  <1>7. CASE DeleteWorkspace
    BY <1>7 DEF DeleteWorkspace, ReferencesResolve
  <1>8. CASE Restart
    <2>1. PICK stale \in SUBSET RunsInProgress :
              /\ run' = [s \in Slots |-> IF s \in stale THEN "failed" ELSE run[s]]
              /\ handoff' = [s \in Slots |->
                                IF s \in stale /\ handoff[s] = "running"
                                THEN "failed" ELSE handoff[s]]
      BY <1>8 DEF Restart
    <2>2. UNCHANGED << sessions, session, changeSet >>
      BY <1>8 DEF Restart, local
    <2> QED
      BY <2>1, <2>2 DEF ReferencesResolve, RunResults
  <1>9. ASSUME NEW s \in Slots,
               \/ LightweightReply(s) \/ BlockRun(s) \/ BeginRun(s)
               \/ AgentReturns(s) \/ ThrowMissing(s) \/ AgentWrites(s)
               \/ OperationFails(s)
        PROVE  UNCHANGED << sessions, session, handoff, changeSet, run >>
    BY <1>9 DEF LightweightReply, BlockRun, BeginRun, AgentReturns, ThrowMissing,
                AgentWrites, OperationFails, Throw, store, local
  <1>10. ASSUME NEW t \in Turns, ReceiveMessage(t) \/ Turn(t)
         PROVE  UNCHANGED << sessions, session, handoff, changeSet, run >>
    BY <1>10 DEF ReceiveMessage, Turn, PlanTurn, StartRepair, FinishTurn,
                 SummaryThrows, store
  <1>11. CASE RemoveDirectory \/ Crash \/ UNCHANGED vars
    <2>1. UNCHANGED << sessions, session, handoff, changeSet, run >>
      BY <1>11 DEF RemoveDirectory, Crash, vars, store, local
    <2> QED
      BY <1>1, <2>1
  <1> QED
    BY <1>1, <1>2, <1>3, <1>4, <1>5, <1>6, <1>7, <1>8, <1>9, <1>10, <1>11
       DEF Next, Dispatch

(* A handoff's session is stored and a change set's run has ended, though a  *)
(* deletion may fall between any two updates of a dispatch (requiredById in  *)
(* createTaskHandoff, persistRunResult and completeTaskHandoff).             *)
THEOREM RowsNeverDangle == Spec => []ReferencesResolve
  <1>1. Init => ReferencesResolve
    BY DEF Init, ReferencesResolve
  <1> QED
    BY <1>1, ReferencesStep, TypeCorrect, RowsFollowDispatches, PTL DEF Spec

------------------------------------------------------------------------------
(* The slots of a turn have a turn and a position. *)
LEMMA SlotPair ==
    ASSUME NEW s \in Slots
    PROVE  s[1] \in Turns /\ s[2] \in Nat /\ s[2] >= 1 /\ s = << s[1], s[2] >>
  BY SlotsAreMessages DEF Slots

(* A dispatch returns only with closed rows. *)
LEMMA ReturnStep ==
    ASSUME TypeOK, RowsInv, NEW s \in Slots, Dispatch(s) \/ OperationFails(s),
           pc'[s] = "returned"
    PROVE  ReturnsClosed(s)'
  <1>1. CASE LightweightReply(s)
    BY <1>1 DEF LightweightReply, ReturnsClosed, RowsInv, RowsAt
  <1>2. CASE BlockRun(s)
    BY <1>2 DEF BlockRun, ReturnsClosed, RowsInv, RowsAt, store, Blocked, AgentOf,
                Dispatched
  <1>3. CASE CompleteHandoff(s)
    BY <1>3 DEF CompleteHandoff, ReturnsClosed, RowsInv, RowsAt, ToHandoffStatus,
                RunResults, TypeOK
  <1> QED
    BY <1>1, <1>2, <1>3
       DEF Dispatch, FindSession, MissSession, PushSession, CreateHandoff, BeginRun,
           PushRun, MarkHandoffRunning, AgentReturns, PersistRunResult, ThrowMissing,
           OperationFails, Throw, Goto, TypeOK

(* The steps of a dispatch. *)
LEMMA DispatchSettles ==
    ASSUME TypeOK, RowsInv, SettlementInv, NEW s \in Slots,
           Dispatch(s) \/ OperationFails(s)
    PROVE  SettlementInv'
  <1>1. /\ plan' = plan
        /\ pc[s] # "returned" /\ (pc[s] = "idle" => CanStart(s))
        /\ phase' = phase \/ phase' = [phase EXCEPT ![s[1]] = "thrown"]
        /\ pc'[s] # "idle"
    BY DEF Dispatch, FindSession, MissSession, PushSession, CreateHandoff, CanStart,
           LightweightReply, BlockRun, BeginRun, PushRun, MarkHandoffRunning,
           AgentReturns, PersistRunResult, CompleteHandoff, ThrowMissing,
           OperationFails, Throw, RowMissing, InFlight, Goto, TypeOK
  <1>2. \A r \in Slots : r # s => /\ pc'[r] = pc[r]
                                  /\ run'[r] = run[r]
                                  /\ handoff'[r] = handoff[r]
    BY DEF Dispatch, FindSession, MissSession, PushSession, CreateHandoff,
           LightweightReply, BlockRun, BeginRun, PushRun, MarkHandoffRunning,
           AgentReturns, PersistRunResult, CompleteHandoff, ThrowMissing,
           OperationFails, Throw, Goto, store, TypeOK
  <1>3. \A t \in Turns : phase'[t] = phase[t] \/ phase'[t] = "thrown"
    BY <1>1, SlotPair DEF TypeOK
  <1>4. \A r \in Slots : /\ Dispatched(r[1])' = Dispatched(r[1])
                         /\ IsRepair(r)' = IsRepair(r)
                         /\ Blocked(r)' = Blocked(r)
    BY <1>1 DEF Dispatched, IsRepair, Blocked, AgentOf
  <1>5. ASSUME NEW r \in Slots, r # s
        PROVE  StartsInPhase(r)' /\ FinishesQuiet(r)' /\ ReturnsClosed(r)'
    <2>1. phase'[r[1]] = phase[r[1]] \/ phase'[r[1]] = "thrown"
      BY <1>3, SlotPair
    <2>2. StartsInPhase(r) /\ FinishesQuiet(r) /\ ReturnsClosed(r)
      BY DEF SettlementInv
    <2> QED
      BY <1>2, <1>4, <1>5, <2>1, <2>2 DEF StartsInPhase, FinishesQuiet, ReturnsClosed
  <1>6. /\ phase[s[1]] \notin {"idle", "planning", "finished"}
        /\ phase[s[1]] = "dispatching" => ~IsRepair(s)
        /\ ~(s[2] > Dispatched(s[1]) + 2)
    <2>1. CASE pc[s] = "idle"
      <3>1. s[2] \in Nat /\ Dispatched(s[1]) \in Nat
        BY SlotPair DEF TypeOK, Plans, Dispatched
      <3> QED
        BY <1>1, <2>1, <3>1 DEF CanStart, IsRepair
    <2>2. CASE pc[s] # "idle"
      BY <1>1, <2>2 DEF SettlementInv, StartsInPhase, FinishesQuiet
    <2> QED
      BY <2>1, <2>2
  <1>7. StartsInPhase(s)' /\ FinishesQuiet(s)'
    <2>1. phase'[s[1]] = phase[s[1]] \/ phase'[s[1]] = "thrown"
      BY <1>3, SlotPair
    <2> QED
      BY <1>4, <1>6, <2>1 DEF StartsInPhase, FinishesQuiet
  <1>8. ReturnsClosed(s)'
    BY ReturnStep DEF ReturnsClosed
  <1> QED
    BY <1>5, <1>7, <1>8 DEF SettlementInv

(* Planning a turn: its slots are idle. *)
LEMMA PlanSettles ==
    ASSUME TypeOK, SettlementInv, NEW t \in Turns, PlanTurn(t)
    PROVE  SettlementInv'
  <1>1. /\ UNCHANGED << pc, run, handoff >>
        /\ phase[t] = "planning" /\ phase'[t] = "dispatching"
        /\ \A x \in Turns : x # t => plan'[x] = plan[x] /\ phase'[x] = phase[x]
    BY DEF PlanTurn, store, TypeOK
  <1>2. ASSUME NEW s \in Slots, s[1] = t
        PROVE  StartsInPhase(s)' /\ FinishesQuiet(s)' /\ ReturnsClosed(s)'
    <2>1. pc'[s] = "idle"
      BY <1>1, <1>2 DEF SettlementInv, StartsInPhase
    <2> QED
      BY <2>1 DEF StartsInPhase, FinishesQuiet, ReturnsClosed
  <1>3. ASSUME NEW s \in Slots, s[1] # t
        PROVE  StartsInPhase(s)' /\ FinishesQuiet(s)' /\ ReturnsClosed(s)'
    <2>1. plan'[s[1]] = plan[s[1]] /\ phase'[s[1]] = phase[s[1]]
      BY <1>1, <1>3, SlotPair
    <2> QED
      BY <1>1, <2>1 DEF SettlementInv, StartsInPhase, FinishesQuiet, ReturnsClosed,
                        IsRepair, Dispatched, Blocked, AgentOf
  <1> QED
    BY <1>2, <1>3 DEF SettlementInv

(* The end of a turn: all its slots have returned or never started. *)
LEMMA FinishSettles ==
    ASSUME TypeOK, SettlementInv, NEW t \in Turns, Ended(t),
           NEW s \in Slots, s[1] = t
    PROVE  pc[s] \in {"idle", "returned"}
  <1> DEFINE n == Dispatched(t)
             i == s[2]
  <1>1. n \in Nat /\ i \in Nat /\ i >= 1 /\ s = << t, i >>
    BY SlotPair DEF TypeOK, Plans, Dispatched
  <1>2. /\ phase[t] = "dispatching" /\ i > n => pc[s] = "idle"
        /\ i > n + 2 => pc[s] = "idle"
    BY DEF SettlementInv, StartsInPhase, IsRepair
  <1>3. CASE phase[t] = "dispatching" /\ Returned(t, 1, n)
    <2>1. i \in 1..n => pc[s] = "returned"
      BY <1>1, <1>3 DEF Returned
    <2> QED
      BY <1>1, <1>2, <1>3, <2>1
  <1>4. CASE Returned(t, 1, n + 2)
    <2>1. i \in 1..n + 2 => pc[s] = "returned"
      BY <1>1, <1>4 DEF Returned
    <2> QED
      BY <1>1, <1>2, <2>1
  <1> QED
    BY <1>3, <1>4 DEF Ended

(* The other steps of a turn. *)
LEMMA TurnSettles ==
    ASSUME TypeOK, SettlementInv, NEW t \in Turns,
           \/ ReceiveMessage(t) \/ StartRepair(t)
           \/ FinishTurn(t) \/ SummaryThrows(t)
    PROVE  SettlementInv'
  <1>1. /\ UNCHANGED << pc, run, handoff, plan >>
        /\ \A x \in Turns : x # t => phase'[x] = phase[x]
        /\ \/ phase[t] = "idle" /\ phase'[t] = "planning"
           \/ phase'[t] \in {"repairing", "thrown"}
           \/ phase'[t] = "finished" /\ Ended(t)
    BY DEF ReceiveMessage, StartRepair, FinishTurn, SummaryThrows, store, TypeOK
  <1> SUFFICES ASSUME NEW s \in Slots
               PROVE  StartsInPhase(s)' /\ FinishesQuiet(s)' /\ ReturnsClosed(s)'
    BY DEF SettlementInv
  <1>2. /\ Dispatched(s[1])' = Dispatched(s[1])
        /\ IsRepair(s)' = IsRepair(s) /\ Blocked(s)' = Blocked(s)
    BY <1>1 DEF Dispatched, IsRepair, Blocked, AgentOf
  <1>3. StartsInPhase(s) /\ FinishesQuiet(s) /\ ReturnsClosed(s)
    BY DEF SettlementInv
  <1>4. CASE s[1] # t
    <2>1. phase'[s[1]] = phase[s[1]]
      BY <1>1, <1>4, SlotPair
    <2> QED
      BY <1>1, <1>2, <1>3, <2>1 DEF StartsInPhase, FinishesQuiet, ReturnsClosed
  <1>5. CASE s[1] = t
    <2>1. phase'[t] = "finished" => pc[s] \in {"idle", "returned"}
      BY <1>1, <1>5, FinishSettles
    <2> QED
      BY <1>1, <1>2, <1>3, <1>5, <2>1 DEF StartsInPhase, FinishesQuiet, ReturnsClosed
  <1> QED
    BY <1>4, <1>5

(* Deletions, crashes, restarts and the agents' own writes. *)
LEMMA OutsideSettles ==
    ASSUME TypeOK, RowsInv, SettlementInv,
           \/ DeleteWorkspace \/ RemoveDirectory \/ Crash \/ Restart
           \/ UNCHANGED vars \/ \E x \in Slots : AgentWrites(x)
    PROVE  SettlementInv'
  <1> SUFFICES ASSUME NEW s \in Slots
               PROVE  StartsInPhase(s)' /\ FinishesQuiet(s)' /\ ReturnsClosed(s)'
    BY DEF SettlementInv
  <1>1. StartsInPhase(s) /\ FinishesQuiet(s) /\ ReturnsClosed(s)
    BY DEF SettlementInv
  <1>2. plan' = plan
    BY DEF DeleteWorkspace, RemoveDirectory, Crash, Restart, AgentWrites, vars, local
  <1>3. /\ Dispatched(s[1])' = Dispatched(s[1])
        /\ IsRepair(s)' = IsRepair(s) /\ Blocked(s)' = Blocked(s)
    BY <1>2 DEF Dispatched, IsRepair, Blocked, AgentOf
  <1>4. /\ pc[s] \in {"idle", "returned"} => pc'[s] = pc[s]
        /\ pc'[s] = "returned" => pc[s] = "returned"
    BY DEF DeleteWorkspace, RemoveDirectory, Crash, Restart, AgentWrites, vars, local,
           InFlight, TypeOK
  <1>5. \/ phase'[s[1]] = phase[s[1]]
        \/ phase'[s[1]] = "lost"
    BY SlotPair DEF DeleteWorkspace, RemoveDirectory, Crash, Restart, AgentWrites,
                    vars, local, TypeOK
  <1>6. pc[s] = "returned" =>
            \/ run'[s] = run[s] /\ handoff'[s] = handoff[s]
            \/ run'[s] = "none" /\ handoff'[s] = "none"
    <2>1. CASE Restart
      BY <1>1, <2>1 DEF Restart, RunsInProgress, ReturnsClosed
    <2>2. CASE DeleteWorkspace
      BY <2>2 DEF DeleteWorkspace
    <2> QED
      BY <2>1, <2>2 DEF RemoveDirectory, Crash, AgentWrites, vars, store
  <1>7. StartsInPhase(s)' /\ FinishesQuiet(s)'
    BY <1>1, <1>3, <1>4, <1>5 DEF StartsInPhase, FinishesQuiet
  <1>8. ReturnsClosed(s)'
    BY <1>1, <1>3, <1>4, <1>6 DEF ReturnsClosed
  <1> QED
    BY <1>7, <1>8

LEMMA Settlement == Spec => []SettlementInv
  <1>1. Init => SettlementInv
    <2> SUFFICES ASSUME Init, NEW s \in Slots
                 PROVE  StartsInPhase(s) /\ FinishesQuiet(s) /\ ReturnsClosed(s)
      BY DEF SettlementInv
    <2>1. pc[s] = "idle" /\ phase[s[1]] = "idle"
      BY SlotPair DEF Init
    <2> QED
      BY <2>1 DEF StartsInPhase, FinishesQuiet, ReturnsClosed
  <1>2. TypeOK /\ RowsInv /\ SettlementInv /\ [Next]_vars => SettlementInv'
    <2> SUFFICES ASSUME TypeOK, RowsInv, SettlementInv, [Next]_vars
                 PROVE  SettlementInv'
      OBVIOUS
    <2>1. ASSUME NEW s \in Slots, Dispatch(s) \/ OperationFails(s)
          PROVE  SettlementInv'
      BY <2>1, DispatchSettles
    <2>2. ASSUME NEW t \in Turns, PlanTurn(t)
          PROVE  SettlementInv'
      BY <2>2, PlanSettles
    <2>3. ASSUME NEW t \in Turns,
                 \/ ReceiveMessage(t) \/ StartRepair(t)
                 \/ FinishTurn(t) \/ SummaryThrows(t)
          PROVE  SettlementInv'
      BY <2>3, TurnSettles
    <2>4. CASE \/ DeleteWorkspace \/ RemoveDirectory \/ Crash \/ Restart
               \/ UNCHANGED vars \/ \E x \in Slots : AgentWrites(x)
      BY <2>4, OutsideSettles
    <2> QED
      BY <2>1, <2>2, <2>3, <2>4 DEF Next, Turn
  <1> QED
    BY <1>1, <1>2, TypeCorrect, RowsFollowDispatches, PTL DEF Spec

(* A turn that ends normally leaves no run open, and no handoff but the one  *)
(* a read-only route blocked (runTaskBrief, persistRunResult,                *)
(* completeTaskHandoff and the ends of handleUserMessage).                   *)
THEOREM FinishedTurnsAreSettled == Spec => []FinishedTurnIsSettled
  <1>1. RowsInv /\ SettlementInv => FinishedTurnIsSettled
    BY DEF RowsInv, RowsAt, SettlementInv, FinishesQuiet, ReturnsClosed,
           FinishedTurnIsSettled
  <1> QED
    BY <1>1, Settlement, RowsFollowDispatches, PTL

------------------------------------------------------------------------------
(* Only a single dispatch is visible, and the agent of a direct turn is.    *)
SpeakerPlan(p) ==
    /\ p.visible # Orchestrator =>
           Len(p.dispatches) = 1 /\ p.dispatches[1] = p.visible
    /\ p.kind = "direct" => p.visible # Orchestrator

(* Why a message may be there: the main brain speaks last and in place of a *)
(* visible agent or after a repair, and an agent when its output is the     *)
(* reply or the repair's.                                                   *)
MainVoice(t) ==
    /\ phase[t] = "finished"
    /\ \/ plan[t].visible = Orchestrator
       \/ Dispatched(t) # 1
       \/ RepairStarted(t)

Voice(m) == IF m[2] = 0 THEN MainVoice(m[1])
            ELSE m \in Slots /\ pc[m] # "idle" /\ Publishes(m)

SpeakerInv ==
    /\ \A t \in Turns : SpeakerPlan(plan[t])
    /\ \A m \in messages : Voice(m)

(* What resolveVisibleTurn makes of a routed decision. *)
LEMMA RoutedSpeakers ==
    ASSUME NEW p \in RoutedPlans
    PROVE  SpeakerPlan(p)
  <1>1. ASSUME NEW a \in Members
        PROVE  SpeakerPlan(DirectPlan(a))
    BY AgentsAssumption DEF SpeakerPlan, DirectPlan
  <1>2. ASSUME NEW allows \in BOOLEAN, NEW d \in RoutedDecisions(allows)
        PROVE  SpeakerPlan(MainPlan(d, allows))
    <2>1. \/ VisibleTurn(d).speaker = Orchestrator
          \/ Len(d.dispatches) = 1 /\ VisibleTurn(d).speaker = d.dispatches[1]
      <3>1. d \in Decisions
        BY RoutedTyping
      <3> QED
        BY <3>1 DEF VisibleTurn, Decisions
    <2> QED
      BY <2>1 DEF SpeakerPlan, MainPlan
  <1> QED
    BY <1>1, <1>2 DEF RoutedPlans

(* A dispatch that has begun stays so, and so does a repair. *)
LEMMA VoicesKept ==
    ASSUME TypeOK, SpeakerInv, plan' = plan, NEW m \in messages,
           \A s \in Slots : pc[s] # "idle" => pc'[s] # "idle",
           phase[m[1]] = "finished" => phase'[m[1]] = "finished"
    PROVE  Voice(m)'
  <1>1. Voice(m)
    BY DEF SpeakerInv
  <1>2. \A t : RepairStarted(t) => RepairStarted(t)'
    BY DEF RepairStarted, Dispatched
  <1>3. CASE m[2] = 0
    BY <1>1, <1>2, <1>3 DEF Voice, MainVoice, Dispatched
  <1>4. CASE m[2] # 0
    BY <1>1, <1>4 DEF Voice, Publishes, IsRepair, AgentOf, Dispatched
  <1> QED
    BY <1>3, <1>4

(* The steps of a dispatch. *)
LEMMA DispatchSpeaks ==
    ASSUME TypeOK, SettlementInv, SpeakerInv, NEW s \in Slots,
           Dispatch(s) \/ OperationFails(s)
    PROVE  SpeakerInv'
  <1>1. /\ plan' = plan
        /\ pc[s] # "returned" /\ (pc[s] = "idle" => CanStart(s))
        /\ phase' = phase \/ phase' = [phase EXCEPT ![s[1]] = "thrown"]
        /\ pc'[s] # "idle"
        /\ \A r \in Slots : r # s => pc'[r] = pc[r]
    BY DEF Dispatch, FindSession, MissSession, PushSession, CreateHandoff, CanStart,
           LightweightReply, BlockRun, BeginRun, PushRun, MarkHandoffRunning,
           AgentReturns, PersistRunResult, CompleteHandoff, ThrowMissing,
           OperationFails, Throw, RowMissing, InFlight, Goto, TypeOK
  <1>2. phase[s[1]] # "finished"
    BY <1>1 DEF CanStart, SettlementInv, FinishesQuiet
  <1>3. \A t \in Turns : phase[t] = "finished" => phase'[t] = "finished"
    BY <1>1, <1>2, SlotPair DEF TypeOK
  <1>4. ASSUME NEW m \in messages
        PROVE  Voice(m)'
    <2>1. m[1] \in Turns
      BY DEF TypeOK
    <2> QED
      BY <1>1, <1>3, <2>1, VoicesKept
  <1>5. Publishes(s)' = Publishes(s) /\ s[2] # 0
    BY <1>1, SlotPair DEF Publishes, IsRepair, AgentOf, Dispatched
  <1>6. messages' = messages \/ (messages' = messages \cup {s} /\ Publishes(s))
    <2>1. CASE LightweightReply(s)
      <3>1. SpeakerPlan(plan[s[1]]) /\ plan[s[1]].kind = "direct"
        BY <2>1, SlotPair DEF SpeakerInv, LightweightReply
      <3>2. Dispatched(s[1]) = 1 /\ plan[s[1]].dispatches[1] = plan[s[1]].visible
        BY <3>1 DEF SpeakerPlan, Dispatched
      <3>3. s[2] = 1 \/ IsRepair(s)
        BY <3>2, SlotPair DEF IsRepair
      <3>4. Publishes(s)
        BY <3>2, <3>3 DEF Publishes, AgentOf
      <3> QED
        BY <2>1, <3>4 DEF LightweightReply
    <2>2. CASE PersistRunResult(s)
      BY <2>2 DEF PersistRunResult
    <2> QED
      BY <2>1, <2>2
         DEF Dispatch, FindSession, MissSession, PushSession, CreateHandoff, BlockRun,
             BeginRun, PushRun, MarkHandoffRunning, AgentReturns, CompleteHandoff,
             ThrowMissing, OperationFails, Throw, store
  <1>7. ASSUME Publishes(s)
        PROVE  Voice(s)'
    BY <1>1, <1>5, <1>7 DEF Voice
  <1> QED
    BY <1>1, <1>4, <1>6, <1>7 DEF SpeakerInv

(* Planning a turn: nothing has been said in it. *)
LEMMA PlanSpeaks ==
    ASSUME TypeOK, SettlementInv, SpeakerInv, NEW t \in Turns, PlanTurn(t)
    PROVE  SpeakerInv'
  <1>1. PICK p \in RoutedPlans : plan' = [plan EXCEPT ![t] = p]
    BY DEF PlanTurn
  <1>2. /\ UNCHANGED << pc, messages >>
        /\ phase[t] = "planning"
        /\ \A x \in Turns : x # t => plan'[x] = plan[x] /\ phase'[x] = phase[x]
    BY DEF PlanTurn, store, TypeOK
  <1>3. \A x \in Turns : SpeakerPlan(plan'[x])
    BY <1>1, RoutedSpeakers DEF SpeakerInv, TypeOK
  <1>4. ASSUME NEW m \in messages
        PROVE  Voice(m)'
    <2>1. Voice(m) /\ m[1] \in Turns
      BY DEF SpeakerInv, TypeOK
    <2>2. m[1] # t
      BY <1>2, <2>1 DEF Voice, MainVoice, SettlementInv, StartsInPhase
    <2>3. /\ Dispatched(m[1])' = Dispatched(m[1])
          /\ plan'[m[1]] = plan[m[1]] /\ phase'[m[1]] = phase[m[1]]
      BY <1>2, <2>1, <2>2 DEF Dispatched
    <2>4. RepairStarted(m[1])' = RepairStarted(m[1])
      BY <1>2, <2>3 DEF RepairStarted
    <2> QED
      BY <1>2, <2>1, <2>3, <2>4
         DEF Voice, MainVoice, Publishes, IsRepair, AgentOf
  <1> QED
    BY <1>2, <1>3, <1>4 DEF SpeakerInv

(* The end of a turn: the main brain speaks where no agent did, or after a  *)
(* repair that has run.                                                     *)
LEMMA FinishSpeaks ==
    ASSUME TypeOK, NEW t \in Turns, FinishTurn(t), Summarises(t)
    PROVE  MainVoice(t)'
  <1>1. plan' = plan /\ pc' = pc /\ phase'[t] = "finished"
    BY DEF FinishTurn, TypeOK
  <1>2. ASSUME Dispatched(t) = 1, phase[t] = "repairing"
        PROVE  RepairStarted(t)
    <2>1. MaxRouted \in Nat /\ MaxRouted >= 2
      BY BoundAssumption DEF MaxRouted
    <2>2. << t, 2 >> \in Slots
      BY <2>1 DEF Slots
    <2>3. pc[<< t, 2 >>] = "returned"
      BY <1>2 DEF FinishTurn, Ended, Returned
    <2> QED
      BY <1>2, <2>2, <2>3 DEF RepairStarted
  <1>3. RepairStarted(t)' = RepairStarted(t) /\ Dispatched(t)' = Dispatched(t)
    BY <1>1 DEF RepairStarted, Dispatched
  <1> QED
    BY <1>1, <1>2, <1>3 DEF MainVoice, Summarises

(* The other steps of a turn, and the steps outside turns. *)
LEMMA OthersSpeak ==
    ASSUME TypeOK, SettlementInv, SpeakerInv,
           \/ \E t \in Turns : \/ ReceiveMessage(t) \/ StartRepair(t)
                               \/ FinishTurn(t) \/ SummaryThrows(t)
           \/ DeleteWorkspace \/ RemoveDirectory \/ Crash \/ Restart
           \/ UNCHANGED vars \/ \E x \in Slots : AgentWrites(x)
    PROVE  SpeakerInv'
  <1>1. /\ plan' = plan
        /\ \A s \in Slots : pc[s] # "idle" => pc'[s] # "idle"
        /\ \A x \in Turns : phase[x] = "finished" => phase'[x] = "finished"
    BY DEF ReceiveMessage, StartRepair, FinishTurn, SummaryThrows, Ended,
           DeleteWorkspace, RemoveDirectory, Crash, Restart, AgentWrites, vars,
           store, local, InFlight, TypeOK
  <1>2. ASSUME NEW m \in messages
        PROVE  Voice(m)'
    <2>1. m[1] \in Turns
      BY DEF TypeOK
    <2> QED
      BY <1>1, <2>1, VoicesKept
  <1>3. ASSUME NEW t \in Turns, FinishTurn(t), NEW m \in messages'
        PROVE  Voice(m)'
    <2>1. CASE m \in messages
      BY <1>2, <2>1
    <2>2. CASE m \notin messages
      <3>1. m = << t, 0 >> /\ Summarises(t)
        BY <1>3, <2>2 DEF FinishTurn
      <3> QED
        BY <1>3, <3>1, FinishSpeaks DEF Voice
    <2> QED
      BY <2>1, <2>2
  <1>4. messages' \subseteq messages \/ \E t \in Turns : FinishTurn(t)
    BY DEF ReceiveMessage, StartRepair, SummaryThrows, DeleteWorkspace,
           RemoveDirectory, Crash, Restart, AgentWrites, vars, store
  <1> QED
    BY <1>1, <1>2, <1>3, <1>4 DEF SpeakerInv

(* Until a repair starts, at most one speaker of a turn has posted, whatever *)
(* was planned, failed or was deleted (resolveVisibleTurn,                   *)
(* shouldPersistChildRunAsConversationMessage, handleUserMessage).           *)
THEOREM OneSpeaker == Spec => []OneSpeakerUnlessRepaired
  <1>1. Init => SpeakerInv
    BY DEF Init, SpeakerInv, SpeakerPlan, NoPlan
  <1>2. TypeOK /\ SettlementInv /\ SpeakerInv /\ [Next]_vars => SpeakerInv'
    <2> SUFFICES ASSUME TypeOK, SettlementInv, SpeakerInv, [Next]_vars
                 PROVE  SpeakerInv'
      OBVIOUS
    <2>1. ASSUME NEW s \in Slots, Dispatch(s) \/ OperationFails(s)
          PROVE  SpeakerInv'
      BY <2>1, DispatchSpeaks
    <2>2. ASSUME NEW t \in Turns, PlanTurn(t)
          PROVE  SpeakerInv'
      BY <2>2, PlanSpeaks
    <2>3. CASE \/ \E t \in Turns : \/ ReceiveMessage(t) \/ StartRepair(t)
                                   \/ FinishTurn(t) \/ SummaryThrows(t)
               \/ DeleteWorkspace \/ RemoveDirectory \/ Crash \/ Restart
               \/ UNCHANGED vars \/ \E x \in Slots : AgentWrites(x)
      BY <2>3, OthersSpeak
    <2> QED
      BY <2>1, <2>2, <2>3 DEF Next, Turn
  <1>3. TypeOK /\ SettlementInv /\ SpeakerInv => OneSpeakerUnlessRepaired
    <2> SUFFICES ASSUME TypeOK, SettlementInv, SpeakerInv,
                        NEW m1 \in messages, NEW m2 \in messages,
                        m1[1] = m2[1], ~RepairStarted(m1[1])
                 PROVE  m1 = m2
      BY DEF OneSpeakerUnlessRepaired
    <2> DEFINE t == m1[1]
    <2>1. /\ t \in Turns /\ Voice(m1) /\ Voice(m2) /\ SpeakerPlan(plan[t])
          /\ m1 = << t, m1[2] >> /\ m2 = << t, m2[2] >>
      BY DEF TypeOK, SpeakerInv
    <2>2. ASSUME NEW m \in messages, m[1] = t, m[2] # 0, Voice(m)
          PROVE  plan[t].visible # Orchestrator /\ Dispatched(t) = 1 /\ m[2] = 1
      <3>1. /\ m \in Slots /\ pc[m] # "idle" /\ Publishes(m)
            /\ m[2] \in Nat /\ m[2] >= 1 /\ m = << t, m[2] >>
        BY <2>2, SlotPair DEF Voice
      <3>2. Dispatched(t) \in Nat /\ plan[t].dispatches \in Seq(Agents)
        BY <2>1 DEF TypeOK, Plans, Dispatched
      <3>3. ~IsRepair(m)
        <4>1. ~(m[2] > Dispatched(t) + 2)
          BY <2>2, <3>1 DEF SettlementInv, StartsInPhase
        <4> QED
          BY <2>2, <3>1, <3>2, <4>1 DEF IsRepair, RepairStarted
      <3>4. m[2] \in 1..Dispatched(t) /\ plan[t].visible = plan[t].dispatches[m[2]]
        BY <2>2, <3>1, <3>2, <3>3 DEF Publishes, IsRepair, AgentOf
      <3>5. plan[t].visible # Orchestrator
        BY <3>2, <3>4, AgentsAssumption DEF Dispatched
      <3> QED
        BY <2>1, <3>1, <3>4, <3>5 DEF SpeakerPlan, Dispatched
    <2>3. ~(MainVoice(t) /\ plan[t].visible # Orchestrator /\ Dispatched(t) = 1)
      BY DEF MainVoice
    <2> QED
      BY <2>1, <2>2, <2>3 DEF Voice
  <1> QED
    BY <1>1, <1>2, <1>3, TypeCorrect, Settlement, PTL DEF Spec
===============================================================================
