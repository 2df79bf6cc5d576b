------------------------- MODULE WorkflowEventsProofs -------------------------
(***************************************************************************)
(* What the turns emit is stored, displaced by retention, or accounted for, *)
(* and what retention keeps: proofs for any turns, dispatches and limits.   *)
(*                                                                         *)
(* The account of a turn's events takes retention as it comes: it only     *)
(* matters that what it removes is recorded as displaced. What retention   *)
(* leaves is counted afterwards.                                           *)
(***************************************************************************)
EXTENDS WorkflowEvents, FiniteSetTheorems, WellFoundedInduction, TLAPS

(* The parts of the variables' types the argument needs. *)
Typed ==
    /\ clock \in Nat
    /\ phase \in [Turns -> Phases]
    /\ active \in [Turns -> SUBSET Dispatches]
    /\ log \in [Turns -> SUBSET [at : Nat, turn : Turns \union {Route}, kind : EventKinds]]
    /\ batch \in [Turns -> SUBSET [at : Nat, turn : Turns \union {Route}, kind : EventKinds]]
    /\ saving \in [Turns -> {"none", "sent", "applied"}]
    /\ emitted \in [Turns -> SUBSET [at : Nat, turn : Turns \union {Route}, kind : EventKinds]]
    /\ closed \in [Turns -> Nat]
    /\ \A t \in Turns : closed[t] <= clock
    /\ thrown \subseteq Turns
    /\ failures \in [Turns -> Nat]

(* A save carries the buffer it copied, and has a phase that awaits it; what  *)
(* took effect is in the store, or was.                                       *)
SaveShape(t) ==
    /\ (saving[t] # "none") = (phase[t] \in {"saving", "retrying"})
    /\ saving[t] = "applied" => \A e \in batch[t] : Kept(e)
    /\ phase[t] \in {"new", "open", "saving", "reading"} => t \notin thrown
    /\ phase[t] = "new" => active[t] = {}

(* A turn whose body did not throw waits for its dispatches before it saves,  *)
(* and keeps the buffer after a rejected save.                                *)
Orderly(t) ==
    /\ phase[t] = "new" => emitted[t] = {} /\ log[t] = {}
    /\ phase[t] \in {"new", "open"} => emitted[t] \subseteq log[t] /\ failures[t] = 0
    /\ phase[t] \in {"saving", "reading", "finally", "retrying", "ended"} => active[t] = {}
    /\ phase[t] = "saving" => emitted[t] \subseteq batch[t] /\ log[t] = batch[t] /\ failures[t] = 0
    /\ phase[t] \in {"reading", "finally"} =>
          /\ failures[t] < 2 /\ (failures[t] = 0 => log[t] = {})
          /\ \A e \in emitted[t] : Kept(e) \/ e \in log[t]
    /\ phase[t] = "retrying" =>
          /\ failures[t] = 1
          /\ \A e \in emitted[t] : Kept(e) \/ e \in batch[t]
    /\ phase[t] = "ended" /\ failures[t] < 2 => \A e \in emitted[t] : Kept(e)

(* A turn whose body threw still has in its buffer what it emitted; its one   *)
(* save misses only what came later.                                          *)
Failed(t) ==
    /\ phase[t] = "finally" => emitted[t] \subseteq log[t]
    /\ phase[t] = "retrying" => \A e \in emitted[t] : e \in batch[t] \/ e.at > closed[t]
    /\ phase[t] = "ended" /\ failures[t] = 0 =>
          \A e \in emitted[t] : Kept(e) \/ e.at > closed[t]

Accounted(t) ==
    /\ SaveShape(t)
    /\ t \notin thrown => Orderly(t)
    /\ t \in thrown => Failed(t)

Inv == Typed /\ \A t \in Turns : Accounted(t)

-------------------------------------------------------------------------------
(* Nothing leaves the store unrecorded. *)
KeptGrows == \A e : Kept(e) => Kept(e)'

LEMMA StepKeeps == ASSUME [Next]_vars PROVE KeptGrows
<1>1. CASE ZipRoute
  BY <1>1 DEF ZipRoute, KeptGrows, Kept
<1>2. ASSUME NEW t \in Turns, SaveApplies(t) PROVE KeptGrows
  BY <1>2 DEF SaveApplies, KeptGrows, Kept
<1>3. CASE UNCHANGED <<stored, displaced>>
  BY <1>3 DEF KeptGrows, Kept
<1>4. \/ ZipRoute
      \/ \E t \in Turns : SaveApplies(t)
      \/ UNCHANGED <<stored, displaced>>
  BY DEF Next, Run, vars, Begin, Throw, Finish, Finally, Read, SaveResolves, SaveRejects,
         Emit, Dispatch, DispatchEnds, Stop, Save
<1> QED BY <1>1, <1>2, <1>3, <1>4

LEMMA InitInv == Init => Inv
BY DEF Init, Inv, Typed, Accounted, SaveShape, Orderly, Failed, Phases

LEMMA TypedStep == ASSUME Inv, [Next]_vars PROVE Typed'
<1> USE DEF Inv, Typed, Phases, EventKinds
<1>1. ASSUME NEW t \in Turns, Begin(t) PROVE Typed'
  BY <1>1 DEF Begin, history
<1>2. ASSUME NEW t \in Turns, NEW kind \in EventKinds, Emit(t, kind) PROVE Typed'
  BY <1>2 DEF Emit, Event
<1>3. ASSUME NEW t \in Turns, NEW some \in SUBSET Dispatches, Dispatch(t, some) PROVE Typed'
  BY <1>3 DEF Dispatch, history
<1>4. ASSUME NEW t \in Turns, NEW d \in Dispatches, DispatchEnds(t, d) PROVE Typed'
  BY <1>4 DEF DispatchEnds, history
<1>5. ASSUME NEW t \in Turns, Throw(t) PROVE Typed'
  BY <1>5 DEF Throw
<1>6. ASSUME NEW t \in Turns, Finish(t) PROVE Typed'
  BY <1>6 DEF Finish, Save, Event
<1>7. ASSUME NEW t \in Turns, Finally(t) PROVE Typed'
  BY <1>7 DEF Finally, Save, history
<1>8. ASSUME NEW t \in Turns, Read(t) PROVE Typed'
  BY <1>8 DEF Read, history
<1>9. ASSUME NEW t \in Turns, SaveApplies(t) PROVE Typed'
  BY <1>9 DEF SaveApplies, history
<1>10. ASSUME NEW t \in Turns, SaveResolves(t) PROVE Typed'
  BY <1>10 DEF SaveResolves, AfterSave, history
<1>11. ASSUME NEW t \in Turns, SaveRejects(t) PROVE Typed'
  BY <1>11 DEF SaveRejects, AfterSave, LogAfterFailure
<1>12. CASE ZipRoute
  BY <1>12 DEF ZipRoute, turnVars, history
<1>13. CASE Stop
  BY <1>13 DEF Stop, history
<1>14. CASE UNCHANGED vars
  BY <1>14 DEF vars, turnVars, history
<1> QED
  BY <1>1, <1>2, <1>3, <1>4, <1>5, <1>6, <1>7, <1>8, <1>9, <1>10, <1>11, <1>12, <1>13, <1>14
     DEF Next, Run

(* A step that leaves a turn's own state alone keeps its account. *)
LEMMA OthersKept ==
    ASSUME Inv, KeptGrows, NEW t \in Turns,
           phase'[t] = phase[t], active'[t] = active[t], log'[t] = log[t],
           batch'[t] = batch[t], saving'[t] = saving[t], emitted'[t] = emitted[t],
           closed'[t] = closed[t], (t \in thrown') = (t \in thrown), failures'[t] = failures[t]
    PROVE  Accounted(t)'
BY DEF Inv, KeptGrows, Accounted, SaveShape, Orderly, Failed

LEMMA AccountedStep == ASSUME Inv, [Next]_vars PROVE \A t \in Turns : Accounted(t)'
<1> SUFFICES ASSUME NEW t \in Turns PROVE Accounted(t)'
  OBVIOUS
<1>0. KeptGrows
  BY StepKeeps
<1> DEFINE Same == /\ phase'[t] = phase[t] /\ active'[t] = active[t] /\ log'[t] = log[t]
                   /\ batch'[t] = batch[t] /\ saving'[t] = saving[t]
                   /\ emitted'[t] = emitted[t] /\ closed'[t] = closed[t]
                   /\ (t \in thrown') = (t \in thrown) /\ failures'[t] = failures[t]
<1>same. CASE Same
  BY <1>same, <1>0, OthersKept
<1> USE <1>0 DEF Inv, KeptGrows, Accounted
<1>1. CASE Begin(t)
  BY <1>1 DEF Begin, history, SaveShape, Orderly, Failed, Typed
<1>2. ASSUME NEW kind \in EventKinds, Emit(t, kind) PROVE Accounted(t)'
  <2>1. /\ emitted'[t] = emitted[t] \union {Event(t, kind)}
        /\ log'[t] = log[t] \union {Event(t, kind)}
        /\ phase[t] = "open" \/ active[t] # {}
        /\ Event(t, kind).at > closed[t]
        /\ UNCHANGED <<phase, active, batch, saving, closed, thrown, failures, stored, displaced>>
    BY <1>2 DEF Emit, Typed, Event
  <2>2. SaveShape(t)'
    BY <2>1 DEF SaveShape, Kept
  <2>3. CASE t \notin thrown
    BY <2>1, <2>2, <2>3 DEF Orderly, SaveShape, Typed, Phases, Kept
  <2>4. CASE t \in thrown
    <3>1. Failed(t)'
      BY <2>1, <2>4 DEF Failed, Kept
    <3> QED BY <2>1, <2>2, <2>4, <3>1
  <2> QED BY <2>3, <2>4
<1>3. ASSUME NEW some \in SUBSET Dispatches, Dispatch(t, some) PROVE Accounted(t)'
  BY <1>3 DEF Dispatch, history, SaveShape, Orderly, Failed, Typed, Kept
<1>4. ASSUME NEW d \in Dispatches, DispatchEnds(t, d) PROVE Accounted(t)'
  BY <1>4 DEF DispatchEnds, history, SaveShape, Orderly, Failed, Typed, Kept
<1>5. CASE Throw(t)
  BY <1>5 DEF Throw, SaveShape, Orderly, Failed, Typed, Kept
<1>6. CASE Finish(t)
  BY <1>6 DEF Finish, Save, Event, DispatchesDone, SaveShape, Orderly, Failed, Typed, Kept
<1>7. CASE Finally(t)
  BY <1>7 DEF Finally, Save, history, SaveShape, Orderly, Failed, Typed, Kept
<1>8. CASE Read(t)
  BY <1>8 DEF Read, history, SaveShape, Orderly, Failed, Typed, Kept
<1>9. CASE SaveApplies(t)
  BY <1>9 DEF SaveApplies, history, SaveShape, Orderly, Failed, Typed, Kept
<1>10. CASE SaveResolves(t)
  <2>1. /\ saving[t] = "applied" /\ saving'[t] = "none"
        /\ log'[t] = {} /\ phase'[t] = AfterSave(t) /\ UNCHANGED <<failures>>
        /\ UNCHANGED <<active, stored, displaced, emitted, closed, thrown>>
    BY <1>10 DEF SaveResolves, history, Typed
  <2>2. phase[t] \in {"saving", "retrying"}
    BY <2>1 DEF SaveShape
  <2>3. SaveShape(t)'
    BY <2>1, <2>2 DEF SaveShape, AfterSave
  <2>4. CASE t \notin thrown
    <3>1. CASE phase[t] = "saving"
      BY <2>1, <2>3, <2>4, <3>1 DEF AfterSave, SaveShape, Orderly, Typed, Kept
    <3>2. CASE phase[t] = "retrying"
      BY <2>1, <2>3, <2>4, <3>2 DEF AfterSave, SaveShape, Orderly, Typed, Kept
    <3> QED BY <2>2, <3>1, <3>2
  <2>5. CASE t \in thrown
    BY <2>1, <2>2, <2>3, <2>5 DEF AfterSave, SaveShape, Failed, Typed, Kept
  <2> QED BY <2>4, <2>5
<1>11. CASE SaveRejects(t)
  <2>1. /\ saving[t] # "none" /\ saving'[t] = "none"
        /\ log'[t] = log[t] /\ phase'[t] = AfterSave(t) /\ failures'[t] = failures[t] + 1
        /\ UNCHANGED <<active, stored, displaced, emitted, closed, thrown>>
    BY <1>11 DEF SaveRejects, Typed, LogAfterFailure
  <2>2. phase[t] \in {"saving", "retrying"}
    BY <2>1 DEF SaveShape
  <2>3. SaveShape(t)'
    BY <2>1, <2>2 DEF SaveShape, AfterSave
  <2>4. CASE t \notin thrown
    <3>1. CASE phase[t] = "saving"
      BY <2>1, <2>3, <2>4, <3>1 DEF AfterSave, SaveShape, Orderly, Typed, Kept
    <3>2. CASE phase[t] = "retrying"
      BY <2>1, <2>3, <2>4, <3>2 DEF AfterSave, SaveShape, Orderly, Typed, Kept
    <3> QED BY <2>2, <3>1, <3>2
  <2>5. CASE t \in thrown
    BY <2>1, <2>2, <2>3, <2>5 DEF AfterSave, SaveShape, Failed, Typed, Kept
  <2> QED BY <2>4, <2>5
<1>12. CASE Stop
  <2>1. /\ phase'[t] = IF phase[t] \in {"new", "ended"} THEN phase[t] ELSE "gone"
        /\ active'[t] = {} /\ log'[t] = {} /\ batch'[t] = {} /\ saving'[t] = "none"
        /\ UNCHANGED <<stored, displaced, emitted, closed, thrown, failures>>
    BY <1>12 DEF Stop, history
  <2>2. CASE phase[t] = "new"
    <3>1. t \notin thrown /\ log[t] = {} /\ emitted[t] = {}
      BY <2>2 DEF SaveShape, Orderly
    <3> QED BY <2>1, <2>2, <3>1 DEF SaveShape, Orderly
  <2>3. CASE phase[t] = "ended"
    BY <2>1, <2>3 DEF SaveShape, Orderly, Failed, Kept
  <2>4. CASE phase[t] \notin {"new", "ended"}
    BY <2>1, <2>4 DEF SaveShape, Orderly, Failed
  <2> QED BY <2>2, <2>3, <2>4
<1>13. ASSUME NEW u \in Turns, u # t, Run(u) PROVE Same
  BY <1>13 DEF Run, Begin, Throw, Finish, Finally, Read, SaveApplies, SaveResolves, SaveRejects,
               Emit, Dispatch, DispatchEnds, Save, history, Typed
<1>14. CASE ZipRoute \/ UNCHANGED vars
  BY <1>14, <1>same DEF ZipRoute, vars, turnVars, history
<1> QED
  BY <1>same, <1>1, <1>2, <1>3, <1>4, <1>5, <1>6, <1>7, <1>8, <1>9, <1>10, <1>11, <1>12,
     <1>13, <1>14 DEF Next, Run

LEMMA Invariance == Spec => []Inv
<1>1. Inv /\ [Next]_vars => Inv'
  BY TypedStep, AccountedStep DEF Inv
<1> QED BY InitInv, <1>1, PTL DEF Spec

-------------------------------------------------------------------------------
(* A turn that ends by itself has every event it emitted in the store, or     *)
(* displaced from it by later events, unless both its saves were rejected     *)
(* (persistWorkflowEvents, called in the body and in finally).                *)
THEOREM FinishedTurns == Spec => []FinishedTurnsAreLogged
<1>1. Inv => FinishedTurnsAreLogged
  BY DEF Inv, Accounted, Orderly, FinishedTurnsAreLogged
<1> QED BY Invariance, <1>1, PTL

(* What a turn that threw loses, unless its save is rejected, was emitted by  *)
(* dispatches that ran on after the throw.                                    *)
THEOREM LateEvents == Spec => []OnlyLateEventsAreLost
<1>1. Inv => OnlyLateEventsAreLost
  BY DEF Inv, Typed, Accounted, Failed, OnlyLateEventsAreLost
<1> QED BY Invariance, <1>1, PTL

-------------------------------------------------------------------------------
(* A finite set of events, each of its own time. *)
Timed(E) ==
    /\ E \subseteq Events /\ IsFiniteSet(E)
    /\ \A e, f \in E : e.at = f.at => e = f

LEMMA TimedSubset == ASSUME NEW E, Timed(E), NEW F, F \subseteq E PROVE Timed(F)
BY FS_Subset DEF Timed

(* Retention's order is total on such a set. *)
LEMMA BeforeOrders ==
    ASSUME NEW E, Timed(E), NEW new
    PROVE  /\ \A e \in E : ~ Before(e, e, new)
           /\ \A e, f \in E : e # f => (Before(e, f, new) \/ Before(f, e, new))
           /\ \A e, f, g \in E : Before(e, f, new) /\ Before(f, g, new) => Before(e, g, new)
<1>1. \A e \in E : e.at \in Nat
  BY LimitAssumption DEF Timed, Events
<1>2. \A e \in E : ~ Before(e, e, new)
  BY <1>1 DEF Before
<1>3. ASSUME NEW e \in E, NEW f \in E, e # f
      PROVE  Before(e, f, new) \/ Before(f, e, new)
  <2>1. e.at < f.at \/ f.at < e.at
    BY <1>1, <1>3 DEF Timed
  <2>2. CASE (e \in new) = (f \in new)
    BY <2>1, <2>2 DEF Before
  <2>3. CASE (e \in new) # (f \in new)
    BY <2>3 DEF Before
  <2> QED BY <2>2, <2>3
<1>4. ASSUME NEW e \in E, NEW f \in E, NEW g \in E, Before(e, f, new), Before(f, g, new)
      PROVE  Before(e, g, new)
  <2>1. CASE e \in new
    BY <1>1, <1>4, <2>1 DEF Before
  <2>2. CASE e \notin new
    BY <1>1, <1>4, <2>2 DEF Before
  <2> QED BY <2>1, <2>2
<1> QED BY <1>2, <1>3, <1>4

(* The events of E that retention prefers to e. *)
Later(e, E, new) == {f \in E : Before(e, f, new)}

LEMMA LaterCount ==
    ASSUME NEW E, Timed(E), NEW new
    PROVE  /\ \A e \in E : IsFiniteSet(Later(e, E, new)) /\ Cardinality(Later(e, E, new)) \in Nat
           /\ \A e, f \in E : Before(e, f, new) =>
                  Cardinality(Later(f, E, new)) < Cardinality(Later(e, E, new))
<1>1. ASSUME NEW e \in E
      PROVE  IsFiniteSet(Later(e, E, new)) /\ Cardinality(Later(e, E, new)) \in Nat
  <2>1. Later(e, E, new) \in SUBSET E
    BY DEF Later
  <2>2. IsFiniteSet(Later(e, E, new))
    BY <2>1, FS_Subset DEF Timed
  <2> QED BY <2>2, FS_CardinalityType
<1>2. ASSUME NEW e \in E, NEW f \in E, Before(e, f, new)
      PROVE  Cardinality(Later(f, E, new)) < Cardinality(Later(e, E, new))
  <2>1. Later(f, E, new) \in SUBSET Later(e, E, new)
    BY <1>2, BeforeOrders DEF Later
  <2>2. f \in Later(e, E, new) /\ f \notin Later(f, E, new)
    BY <1>2, BeforeOrders DEF Later
  <2>3. /\ Cardinality(Later(f, E, new)) <= Cardinality(Later(e, E, new))
        /\ Cardinality(Later(e, E, new)) # Cardinality(Later(f, E, new))
    BY <1>1, <2>1, <2>2, FS_Subset
  <2> QED BY <1>1, <2>3
<1> QED BY <1>1, <1>2

(* A set of numbers has a least one. *)
LEMMA LeastNat ==
    ASSUME NEW T, T \subseteq Nat, T # {}
    PROVE  \E m \in T : \A n \in T : m <= n
<1> DEFINE less == {p \in Nat \X Nat : p[1] < p[2]}
<1>1. IsWellFoundedOn(less, Nat)
  BY NatLessThanWellFounded DEF OpToRel
<1>2. PICK m \in T : \A n \in T : ~ (<<n, m>> \in less)
  <2> HIDE DEF less
  <2> QED BY <1>1, WFMin
<1>3. \A n \in T : ~ (n < m)
  BY <1>2
<1> QED BY <1>3

(* Latest takes no more than it is told, and as many while it leaves any out: *)
(* count from the oldest it takes, and from the newest it leaves.             *)
LEMMA LatestCount ==
    ASSUME NEW E, Timed(E), NEW new, NEW n \in Nat
    PROVE  /\ IsFiniteSet(Latest(n, E, new)) /\ Cardinality(Latest(n, E, new)) \in Nat
           /\ Cardinality(Latest(n, E, new)) <= n
           /\ E \ Latest(n, E, new) # {} => Cardinality(Latest(n, E, new)) = n
<1> DEFINE L == Latest(n, E, new)
           rank(e) == Cardinality(Later(e, E, new))
<1>1. L = {e \in E : rank(e) < n}
  BY DEF Latest, Later
<1>2. \A e \in E : rank(e) \in Nat /\ IsFiniteSet(Later(e, E, new))
  BY LaterCount
<1>3. \A e, f \in E : Before(e, f, new) => rank(f) < rank(e)
  BY LaterCount
<1>4. L \in SUBSET E /\ IsFiniteSet(L) /\ Cardinality(L) \in Nat
  <2>1. L \in SUBSET E
    BY <1>1
  <2> HIDE DEF L
  <2>2. IsFiniteSet(L)
    BY <2>1, FS_Subset DEF Timed
  <2> QED BY <2>1, <2>2, FS_CardinalityType
<1>5. Cardinality(L) <= n
  <2>1. CASE L = {}
    BY <2>1, FS_EmptySet
  <2>2. CASE L # {}
    <3> DEFINE T == {n - rank(e) : e \in L}
    <3>1. T \subseteq Nat /\ T # {}
      <4> HIDE DEF L, rank
      <4>1. \A e \in L : rank(e) \in Nat /\ rank(e) < n
        BY <1>1, <1>2
      <4> QED BY <2>2, <4>1
    <3>2. PICK k \in T : \A l \in T : k <= l
      <4> HIDE DEF T
      <4> QED BY <3>1, LeastNat
    <3>3. PICK m \in L : k = n - rank(m)
      OBVIOUS
    <3> HIDE DEF L, rank
    <3>4. \A e \in L : rank(e) <= rank(m)
      BY <1>1, <1>2, <3>2, <3>3
    <3>5. \A e \in L \ {m} : Before(m, e, new)
      BY <1>2, <1>3, <1>4, <3>4, BeforeOrders
    <3>6. L \ {m} \in SUBSET Later(m, E, new)
      BY <1>4, <3>5 DEF Later
    <3>7. Cardinality(L \ {m}) <= rank(m)
      BY <1>2, <1>4, <3>6, FS_Subset DEF rank
    <3>8. Cardinality(L \ {m}) = Cardinality(L) - 1
      BY <1>4, FS_RemoveElement
    <3>9. rank(m) \in Nat /\ rank(m) < n
      BY <1>1, <1>2
    <3> QED BY <1>4, <3>7, <3>8, <3>9
  <2> QED BY <2>1, <2>2
<1>6. ASSUME E \ L # {} PROVE n <= Cardinality(L)
  <2> DEFINE T == {rank(e) : e \in E \ L}
  <2>1. T \subseteq Nat /\ T # {}
    <3> HIDE DEF L, rank
    <3> QED BY <1>2, <1>6
  <2>2. PICK k \in T : \A l \in T : k <= l
    <3> HIDE DEF T
    <3> QED BY <2>1, LeastNat
  <2>3. PICK m \in E \ L : k = rank(m)
    OBVIOUS
  <2> HIDE DEF L, rank
  <2>4. \A f \in E : rank(f) < rank(m) => f \in L
    BY <1>2, <2>2, <2>3
  <2>5. Later(m, E, new) \in SUBSET L
    BY <1>3, <2>4 DEF Later
  <2>6. rank(m) <= Cardinality(L)
    BY <1>4, <2>5, FS_Subset DEF rank
  <2>7. n <= rank(m) /\ rank(m) \in Nat
    BY <1>1, <1>2
  <2> QED BY <1>4, <2>6, <2>7
<1>7. E \ L # {} => Cardinality(L) = n
  <2> HIDE DEF L
  <2> QED BY <1>4, <1>5, <1>6
<1> QED BY <1>4, <1>5, <1>7

(* A save leaves at most EventLimit events; when it displaces a critical one, *)
(* it leaves as many, and high-volume events are within their own limit.      *)
LEMMA RetainedCount ==
    ASSUME NEW old, NEW new, Timed(old \union new)
    PROVE  /\ Retained(old, new) \subseteq old \union new
           /\ Cardinality(Retained(old, new)) <= EventLimit
           /\ OfKind((old \union new) \ Retained(old, new), "critical") # {} =>
                 /\ Cardinality(OfKind(Retained(old, new), "volume")) <= HighVolumeLimit
                 /\ Cardinality(Retained(old, new)) = EventLimit
<1> DEFINE all == old \union new
           noise == OfKind(all, "volume")
           critical == OfKind(all, "critical")
           volume == Latest(HighVolumeLimit, noise, new)
           rest == EventLimit - Cardinality(volume)
           kept == Latest(rest, critical, new)
<1>0. /\ EventLimit \in Nat /\ HighVolumeLimit \in Nat /\ HighVolumeLimit < EventLimit
      /\ Timed(all)
  BY LimitAssumption
<1>1. CASE Cardinality(all) <= EventLimit
  <2>1. Retained(old, new) = all
    BY <1>1 DEF Retained
  <2> HIDE DEF all
  <2>2. OfKind(all \ Retained(old, new), "critical") = {}
    BY <2>1 DEF OfKind
  <2> QED BY <1>1, <2>1, <2>2 DEF all
<1>2. CASE ~ (Cardinality(all) <= EventLimit)
  <2>1. Retained(old, new) = volume \union kept
    BY <1>2 DEF Retained
  <2>2. Timed(noise) /\ Timed(critical) /\ noise \subseteq all /\ critical \subseteq all
    <3> HIDE DEF all
    <3>1. noise \subseteq all /\ critical \subseteq all
      BY DEF OfKind
    <3> QED BY <1>0, <3>1, TimedSubset
  <2>3. noise \cap critical = {}
    BY DEF OfKind
  <2>4. volume \subseteq noise /\ kept \subseteq critical
    BY DEF Latest
  <2>5. \A e \in all : e \in critical => e.kind = "critical"
    BY DEF OfKind
  <2>6. \A e \in volume : e.kind = "volume"
    BY <2>4 DEF OfKind
  <2>7. OfKind(all \ (volume \union kept), "critical") # {} => critical \ kept # {}
    BY DEF OfKind
  <2> HIDE DEF all, noise, critical
  <2>8. IsFiniteSet(volume) /\ Cardinality(volume) \in Nat /\ Cardinality(volume) <= HighVolumeLimit
    BY <1>0, <2>2, LatestCount
  <2> HIDE DEF volume
  <2>9. rest \in Nat /\ Cardinality(volume) + rest = EventLimit
    BY <1>0, <2>8
  <2>10. /\ IsFiniteSet(kept) /\ Cardinality(kept) \in Nat /\ Cardinality(kept) <= rest
         /\ critical \ kept # {} => Cardinality(kept) = rest
    <3> HIDE DEF rest
    <3> QED BY <2>2, <2>9, LatestCount
  <2> HIDE DEF kept, rest
  <2>11. Cardinality(volume \union kept) = Cardinality(volume) + Cardinality(kept)
    <3>1. volume \cap kept = {}
      BY <2>3, <2>4
    <3>2. Cardinality(volume \cap kept) = 0
      BY <3>1, FS_EmptySet
    <3>3. Cardinality(volume \union kept) =
              Cardinality(volume) + Cardinality(kept) - Cardinality(volume \cap kept)
      BY <2>8, <2>10, FS_Union
    <3> QED BY <2>8, <2>10, <3>2, <3>3
  <2>12. OfKind(volume \union kept, "volume") = volume
    BY <2>2, <2>4, <2>5, <2>6 DEF OfKind
  <2>13. volume \union kept \subseteq all
    BY <2>2, <2>4
  <2>14. Cardinality(volume \union kept) <= EventLimit
    BY <1>0, <2>8, <2>9, <2>10, <2>11
  <2>15. critical \ kept # {} => Cardinality(volume \union kept) = EventLimit
    BY <2>9, <2>10, <2>11
  <2> QED BY <2>1, <2>7, <2>8, <2>12, <2>13, <2>14, <2>15 DEF all
<1> QED BY <1>1, <1>2

-------------------------------------------------------------------------------
(* The events some turn has emitted, or the store holds. *)
Known(e) == e \in stored \/ \E t \in Turns : e \in emitted[t]

(* Each has its own time, which has passed; *)
OwnTimes == \A e, f : Known(e) /\ Known(f) /\ e.at = f.at => e = f
PastEvents == \A e : Known(e) => e \in Events /\ e.at <= clock

(* what a turn buffers or saves it has emitted; *)
Buffered ==
    \A t \in Turns : log[t] \subseteq emitted[t] /\ batch[t] \subseteq emitted[t]

FiniteLogs ==
    IsFiniteSet(stored) /\ \A t \in Turns : IsFiniteSet(emitted[t])

(* and the store respects its limit. *)
LogInv ==
    /\ OwnTimes /\ PastEvents /\ Buffered /\ FiniteLogs
    /\ clock <= MaxEvents
    /\ stored \subseteq Events /\ displaced \subseteq Events
    /\ Cardinality(stored) <= EventLimit

LEMMA InitLog == Init => LogInv
<1> SUFFICES ASSUME Init PROVE LogInv
  OBVIOUS
<1>1. IsFiniteSet({}) /\ Cardinality({}) = 0
  BY FS_EmptySet
<1> QED BY <1>1, LimitAssumption DEF Init, LogInv, OwnTimes, PastEvents, Buffered, FiniteLogs, Known

(* A step that makes no event known and leaves the store alone. *)
LEMMA LogKept ==
    ASSUME LogInv, \A t \in Turns : log'[t] \subseteq emitted[t] /\ batch'[t] \subseteq emitted[t],
           UNCHANGED <<clock, stored, displaced, emitted>>
    PROVE  LogInv'
BY DEF LogInv, OwnTimes, PastEvents, Buffered, FiniteLogs, Known

(* A turn emits one event. *)
LEMMA EmitLog ==
    ASSUME Typed, LogInv, NEW t \in Turns, NEW kind \in EventKinds, clock < MaxEvents,
           clock' = clock + 1,
           emitted' = [emitted EXCEPT ![t] = @ \union {Event(t, kind)}],
           \A u \in Turns : log'[u] \subseteq emitted'[u] /\ batch'[u] \subseteq emitted'[u],
           UNCHANGED <<stored, displaced>>
    PROVE  LogInv'
<1> DEFINE new == Event(t, kind)
<1>1. new \in Events /\ new.at = clock + 1 /\ clock \in Nat /\ MaxEvents \in Nat
  BY LimitAssumption DEF Event, Events, Typed
<1>2. /\ emitted'[t] = emitted[t] \union {new}
      /\ \A u \in Turns \ {t} : emitted'[u] = emitted[u]
  BY DEF Typed
<1> HIDE DEF new
<1>3. \A e : Known(e)' => Known(e) \/ e = new
  BY <1>2 DEF Known
<1>4. \A e : Known(e) => e \in Events /\ e.at \in Nat /\ e.at <= clock
  BY LimitAssumption DEF LogInv, PastEvents, Events
<1>5. OwnTimes'
  BY <1>1, <1>3, <1>4 DEF LogInv, OwnTimes
<1>6. PastEvents'
  BY <1>1, <1>3, <1>4 DEF PastEvents
<1>7. FiniteLogs'
  <2>1. IsFiniteSet(emitted[t] \union {new})
    BY FS_AddElement DEF LogInv, FiniteLogs
  <2> QED BY <1>2, <2>1 DEF LogInv, FiniteLogs
<1> QED BY <1>1, <1>5, <1>6, <1>7 DEF LogInv, Buffered

(* A set of known events is a timed one. *)
LEMMA KnownTimed ==
    ASSUME LogInv, NEW E, IsFiniteSet(E), \A e \in E : Known(e)
    PROVE  Timed(E)
BY DEF LogInv, OwnTimes, PastEvents, Timed

LEMMA BatchTimed ==
    ASSUME LogInv, NEW t \in Turns
    PROVE  Timed(stored \union batch[t])
<1>1. IsFiniteSet(batch[t])
  BY FS_Subset DEF LogInv, Buffered, FiniteLogs
<1>2. IsFiniteSet(stored \union batch[t])
  BY <1>1, FS_Union DEF LogInv, FiniteLogs
<1> QED BY <1>2, KnownTimed DEF LogInv, Buffered, Known

LEMMA SaveLog ==
    ASSUME LogInv, NEW t \in Turns, SaveApplies(t)
    PROVE  LogInv'
<1>1. Timed(stored \union batch[t])
  BY BatchTimed
<1>2. /\ stored' = Retained(stored, batch[t]) /\ UNCHANGED <<clock, log, batch, emitted>>
      /\ displaced' = displaced \union ((stored \union batch[t]) \ stored')
  BY DEF SaveApplies, history
<1>3. stored' \in SUBSET (stored \union batch[t]) /\ Cardinality(stored') <= EventLimit
  BY <1>1, <1>2, RetainedCount
<1>4. IsFiniteSet(stored')
  BY <1>1, <1>3, FS_Subset DEF Timed
<1>5. \A e : Known(e)' => Known(e)
  BY <1>2, <1>3 DEF LogInv, Buffered, Known
<1>6. stored' \subseteq Events /\ displaced' \subseteq Events
  BY <1>1, <1>2, <1>3 DEF Timed, LogInv
<1> QED BY <1>2, <1>3, <1>4, <1>5, <1>6 DEF LogInv, OwnTimes, PastEvents, Buffered, FiniteLogs

LEMMA ZipLog ==
    ASSUME Typed, LogInv, ZipRoute
    PROVE  LogInv'
<1> DEFINE first == [at |-> clock + 1, turn |-> Route, kind |-> "critical"]
           second == [at |-> clock + 2, turn |-> Route, kind |-> "critical"]
           new == {[at |-> clock + n, turn |-> Route, kind |-> "critical"] : n \in {1, 2}}
           all == stored \union new
<1>1. /\ clock + 2 <= MaxEvents /\ clock' = clock + 2 /\ UNCHANGED <<log, batch, emitted>>
      /\ stored' = Latest(EventLimit, all, new)
      /\ displaced' = displaced \union (all \ stored')
  BY DEF ZipRoute, turnVars, history
<1>2. new = {first, second}
  OBVIOUS
<1>3. /\ first \in Events /\ second \in Events /\ first.at = clock + 1 /\ second.at = clock + 2
      /\ clock \in Nat /\ MaxEvents \in Nat /\ EventLimit \in Nat
  BY <1>1, LimitAssumption DEF Events, EventKinds, Typed
<1> HIDE DEF first, second, new
<1>4. \A e : Known(e) => e \in Events /\ e.at \in Nat /\ e.at <= clock
  BY LimitAssumption DEF LogInv, PastEvents, Events
<1>5. \A e, f :
          (Known(e) \/ e \in new) /\ (Known(f) \/ f \in new) /\ e.at = f.at => e = f
  BY <1>2, <1>3, <1>4 DEF LogInv, OwnTimes
<1>6. \A e \in all : Known(e) \/ e \in new
  BY DEF Known
<1>7. IsFiniteSet(all)
  <2>1. IsFiniteSet(stored \union {first})
    BY FS_AddElement DEF LogInv, FiniteLogs
  <2>2. IsFiniteSet((stored \union {first}) \union {second})
    BY <2>1, FS_AddElement
  <2>3. all = (stored \union {first}) \union {second}
    BY <1>2
  <2> QED BY <2>2, <2>3
<1>8. Timed(all)
  <2>1. all \subseteq Events
    BY <1>2, <1>3 DEF LogInv
  <2> HIDE DEF all
  <2> QED BY <1>5, <1>6, <1>7, <2>1 DEF Timed
<1>9. stored' \subseteq all /\ Cardinality(stored') <= EventLimit /\ IsFiniteSet(stored')
  <2> HIDE DEF all
  <2>1. Latest(EventLimit, all, new) \subseteq all
    BY DEF Latest
  <2> QED BY <1>1, <1>3, <1>8, <2>1, LatestCount
<1>10. \A e : Known(e)' => Known(e) \/ e \in new
  BY <1>1, <1>6, <1>9 DEF Known
<1>11. OwnTimes'
  BY <1>5, <1>10 DEF OwnTimes
<1>12. PastEvents'
  BY <1>1, <1>2, <1>3, <1>4, <1>10 DEF PastEvents
<1>13. stored' \subseteq Events /\ displaced' \subseteq Events
  BY <1>1, <1>8, <1>9 DEF Timed, LogInv
<1> QED BY <1>1, <1>3, <1>9, <1>11, <1>12, <1>13 DEF LogInv, Buffered, FiniteLogs

LEMMA LogStep == Typed /\ LogInv /\ [Next]_vars => LogInv'
<1> SUFFICES ASSUME Typed, LogInv, [Next]_vars PROVE LogInv'
  OBVIOUS
<1>0. \A t \in Turns : log[t] \subseteq emitted[t] /\ batch[t] \subseteq emitted[t]
  BY DEF LogInv, Buffered
<1>1. ASSUME NEW t \in Turns, NEW kind \in EventKinds, Emit(t, kind) PROVE LogInv'
  BY <1>0, <1>1, EmitLog DEF Emit, Typed
<1>2. ASSUME NEW t \in Turns, Finish(t) PROVE LogInv'
  <2>1. "critical" \in EventKinds
    BY DEF EventKinds
  <2> QED BY <1>0, <1>2, <2>1, EmitLog DEF Finish, Save, Typed
<1>3. ASSUME NEW t \in Turns, Finally(t) PROVE LogInv'
  BY <1>0, <1>3, LogKept DEF Finally, Save, history, Typed
<1>4. ASSUME NEW t \in Turns, SaveApplies(t) PROVE LogInv'
  BY <1>4, SaveLog
<1>5. ASSUME NEW t \in Turns, SaveResolves(t) PROVE LogInv'
  BY <1>0, <1>5, LogKept DEF SaveResolves, history, Typed
<1>6. ASSUME NEW t \in Turns, SaveRejects(t) PROVE LogInv'
  BY <1>0, <1>6, LogKept DEF SaveRejects, LogAfterFailure, Typed
<1>7. ASSUME NEW t \in Turns, Begin(t) \/ Throw(t) \/ Read(t) PROVE LogInv'
  BY <1>0, <1>7, LogKept DEF Begin, Throw, Read, history
<1>8. ASSUME NEW t \in Turns, NEW some \in SUBSET Dispatches, Dispatch(t, some) PROVE LogInv'
  BY <1>0, <1>8, LogKept DEF Dispatch, history
<1>9. ASSUME NEW t \in Turns, NEW d \in Dispatches, DispatchEnds(t, d) PROVE LogInv'
  BY <1>0, <1>9, LogKept DEF DispatchEnds, history
<1>10. CASE ZipRoute
  BY <1>10, ZipLog
<1>11. CASE Stop
  BY <1>11, LogKept DEF Stop, history
<1>12. CASE UNCHANGED vars
  BY <1>0, <1>12, LogKept DEF vars, turnVars, history
<1> QED
  BY <1>1, <1>2, <1>3, <1>4, <1>5, <1>6, <1>7, <1>8, <1>9, <1>10, <1>11, <1>12 DEF Next, Run

LEMMA LogInvariance == Spec => [](Typed /\ LogInv)
<1>1. Inv => Typed
  BY DEF Inv
<1> QED BY Invariance, <1>1, InitLog, LogStep, PTL DEF Spec

(* Every variable has its type, and no save, nor the zip route's own update,  *)
(* leaves more events in the store than the retention allows.                 *)
THEOREM EventsTyped == Spec => []TypeOK
<1>1. ASSUME Typed, LogInv PROVE TypeOK
  <2>1. /\ clock \in 0 .. MaxEvents /\ MaxEvents \in Nat
        /\ closed \in [Turns -> 0 .. MaxEvents]
    BY <1>1, LimitAssumption DEF Typed, LogInv
  <2>2. \A t \in Turns : emitted[t] \subseteq Events
    BY <1>1 DEF LogInv, PastEvents, Known
  <2>3. /\ emitted \in [Turns -> SUBSET Events] /\ log \in [Turns -> SUBSET Events]
        /\ batch \in [Turns -> SUBSET Events]
    BY <1>1, <2>2 DEF Typed, LogInv, Buffered
  <2> QED BY <1>1, <2>1, <2>3 DEF Typed, LogInv, TypeOK
<1> QED BY LogInvariance, <1>1, PTL

(* A save makes room with critical events only when the store is full and     *)
(* high-volume events hold no more than their own share of it.                *)
THEOREM NoiseShare == Spec => NoiseKeepsItsShare
<1>1. ASSUME Typed, LogInv, [Next]_vars
      PROVE  \A t \in Turns :
                (/\ saving[t] = "sent" /\ saving'[t] = "applied"
                 /\ OfKind((stored \union batch[t]) \ stored', "critical") # {}) =>
                    /\ Cardinality(OfKind(stored', "volume")) <= HighVolumeLimit
                    /\ Cardinality(stored') = EventLimit
  <2> SUFFICES ASSUME NEW t \in Turns, saving[t] = "sent", saving'[t] = "applied",
                      OfKind((stored \union batch[t]) \ stored', "critical") # {}
               PROVE  /\ Cardinality(OfKind(stored', "volume")) <= HighVolumeLimit
                      /\ Cardinality(stored') = EventLimit
    OBVIOUS
  <2>1. SaveApplies(t)
    <3>1. ASSUME NEW u \in Turns, SaveApplies(u) PROVE u = t
      BY <1>1, <3>1 DEF SaveApplies, Typed
    <3>2. ASSUME NEW u \in Turns, Run(u), ~ SaveApplies(u) PROVE saving'[t] # "applied"
      BY <1>1, <3>2 DEF Run, Begin, Throw, Finish, Finally, Read, SaveResolves, SaveRejects,
                        Emit, Dispatch, DispatchEnds, Save, history, Typed
    <3>3. ASSUME Stop \/ ZipRoute \/ UNCHANGED vars PROVE saving'[t] # "applied"
      BY <3>3 DEF Stop, ZipRoute, vars, turnVars
    <3> QED BY <1>1, <3>1, <3>2, <3>3 DEF Next
  <2>2. stored' = Retained(stored, batch[t])
    BY <2>1 DEF SaveApplies
  <2>3. Timed(stored \union batch[t])
    BY <1>1, BatchTimed
  <2> QED BY <2>2, <2>3, RetainedCount
<1> QED BY LogInvariance, <1>1, PTL DEF Spec, NoiseKeepsItsShare
================================================================================
