---------------------------- MODULE StateStoreProofs ----------------------------
(***************************************************************************)
(* The PostgreSQL store, for any calls, workspaces, runs and limit: it     *)
(* implements the atomic register, its variables have their types, the     *)
(* runs a dispatch of this process has open stay open, and an open run     *)
(* makes room for no earlier one but the one just pushed.                  *)
(*                                                                         *)
(* The refinement holds for any mutator: what an update does to the tables *)
(* is opened only for the theorems after it.                               *)
(***************************************************************************)
EXTENDS StateStore, SequenceTheorems, FiniteSetTheorems, TLAPS

USE NothingAssumption

(* The fields of a call. *)
Shape ==
    /\ call = [c \in Calls |-> [pc |-> call[c].pc, op |-> call[c].op,
                                draft |-> call[c].draft, result |-> call[c].result]]
    /\ \A c \in Calls : call[c].pc \in PCs
    /\ queue \in Seq(Calls)

(* A call under way has its operation, and an idle one nothing else. *)
Consistent(c) ==
    /\ call[c].pc = "idle" => call[c].op = Nothing
    /\ call[c].pc # "idle" => call[c].op \in Operations
    /\ call[c].pc = "queued" => call[c].op \in Updates
    /\ call[c].op \in Updates /\ call[c].pc \notin {"idle", "queued"} =>
          queue # << >> /\ Head(queue) = c

(* What the holder of the lock has read is what is stored. *)
Current(c) ==
    /\ lock = c <=> call[c].pc \in Locked
    /\ call[c].pc = "reading" => call[c].draft = [ws |-> db.ws, runs |-> {}]
    /\ call[c].pc = "loaded" /\ call[c].op \in Updates =>
          /\ ~ Throws(call[c].op, db)
          /\ call[c].draft \in Effects(call[c].op, db)

(* No transaction is open while the server starts. *)
QuietStart == server # "up" => \A c \in Calls : call[c].pc = "idle"

(* The tables are a record of two fields. *)
TwoTables == db = [ws |-> db.ws, runs |-> db.runs]

Inv ==
    /\ Shape
    /\ \A c \in Calls : Consistent(c) /\ Current(c)
    /\ QuietStart
    /\ TwoTables

Record(t) == t = [ws |-> t.ws, runs |-> t.runs]

(* Reads are no updates. *)
LEMMA Kindness == \A op \in Operations : op \in Reads <=> op \notin Updates
  BY DEF Operations, Reads, Updates, Kinds

(* Pruning leaves the two tables, of which it cuts the second. *)
LEMMA PruningRecord ==
    ASSUME NEW t, NEW pushed, NEW u \in Prunings(t, pushed)
    PROVE  Record(u) /\ u.ws = t.ws /\ u.runs \in Retentions(t.runs, pushed)
  BY DEF Record, Prunings

LEMMA EffectRecord ==
    ASSUME NEW op, NEW t, NEW u \in Effects(op, t)
    PROVE  Record(u)
  BY PruningRecord DEF Effects

LEMMA BootRecord ==
    ASSUME NEW t
    PROVE  /\ \A u \in Initialized(t) : Record(u)
           /\ \A stale : \A u \in Prunings(Recovered(t, stale), NoRun) : Record(u)
  BY PruningRecord DEF Initialized

-------------------------------------------------------------------------------
LEMMA InitInv == Init => Inv
  <1> SUFFICES ASSUME Init PROVE Inv
    OBVIOUS
  <1>1. Shape
    BY DEF Init, Shape, IdleCall, PCs
  <1>2. \A c \in Calls : Consistent(c) /\ Current(c)
    BY DEF Init, IdleCall, Consistent, Current, Locked
  <1>3. QuietStart
    BY DEF Init, QuietStart
  <1>4. TwoTables
    BY DEF Init, Seed, TwoTables
  <1> QED BY <1>1, <1>2, <1>3, <1>4 DEF Inv

(* An answered update was the head of the queue. *)
LEMMA AdvancedQueue ==
    ASSUME Inv, NEW c \in Calls, call[c].pc \notin {"idle", "queued"}, NEW result,
           queue' = Advanced(c, result)
    PROVE  /\ queue' \in Seq(Calls)
           /\ call[c].op \in Updates => queue # << >> /\ Head(queue) = c /\ queue' = Tail(queue)
           /\ call[c].op \notin Updates => queue' = queue
           /\ \A d \in Calls \ {c} :
                call[d].op \in Updates /\ call[d].pc \notin {"idle", "queued"} =>
                    queue' # << >> /\ Head(queue') = d
  BY HeadTailProperties DEF Inv, Shape, Consistent, Advanced, IsUpdate

(* The four fields of a call. *)
Call(k) == k = [pc |-> k.pc, op |-> k.op, draft |-> k.draft, result |-> k.result]

(* What a step leaves of the calls it does not touch. *)
Others(c) == \A d \in Calls \ {c} : call'[d] = call[d]

LEMMA StepShape ==
    ASSUME Inv, NEW c \in Calls, NEW new, Call(new), new.pc \in PCs,
           call' = [call EXCEPT ![c] = new],
           queue' \in Seq(Calls)
    PROVE  Shape' /\ Others(c) /\ call'[c] = new
  <1>1. /\ DOMAIN call = Calls
        /\ call = [x \in Calls |-> call[x]]
    BY DEF Inv, Shape
  <1>2. Others(c) /\ call'[c] = new
    BY <1>1 DEF Others
  <1>3. call' = [x \in Calls |-> call'[x]]
    BY <1>1
  <1>4. \A x \in Calls : call'[x] = [pc |-> call'[x].pc, op |-> call'[x].op,
                                     draft |-> call'[x].draft, result |-> call'[x].result]
    <2> SUFFICES ASSUME NEW x \in Calls
                 PROVE  call'[x] = [pc |-> call'[x].pc, op |-> call'[x].op,
                                    draft |-> call'[x].draft, result |-> call'[x].result]
      OBVIOUS
    <2>1. CASE x = c
      BY <1>2, <2>1 DEF Call
    <2>2. CASE x # c
      <3>1. call[x] = [pc |-> call[x].pc, op |-> call[x].op,
                       draft |-> call[x].draft, result |-> call[x].result]
        BY DEF Inv, Shape
      <3> QED BY <1>2, <2>2, <3>1 DEF Others
    <2> QED BY <2>1, <2>2
  <1>5. \A x \in Calls : call'[x].pc \in PCs
    BY <1>2 DEF Inv, Shape, Others
  <1>6. Shape'
    BY <1>3, <1>4, <1>5 DEF Shape
  <1> QED BY <1>2, <1>6

LEMMA GotoShape ==
    ASSUME Inv, NEW c \in Calls, NEW p \in PCs, NEW d, Goto(c, p, d), queue' = queue
    PROVE  /\ Shape' /\ Others(c)
           /\ call'[c] = [pc |-> p, op |-> call[c].op, draft |-> d, result |-> call[c].result]
  <1> DEFINE new == [pc |-> p, op |-> call[c].op, draft |-> d, result |-> call[c].result]
  <1>1. Call(new) /\ new.pc \in PCs
    BY DEF Call
  <1>2. call' = [call EXCEPT ![c] = new] /\ queue' \in Seq(Calls)
    BY DEF Goto, Inv, Shape
  <1>3. Shape' /\ Others(c) /\ call'[c] = new
    <2> HIDE DEF new
    <2> QED BY <1>1, <1>2, StepShape
  <1> QED BY <1>3

(* The register's copies of the operators on tables are the store's. *)
LEMMA SameOperators ==
    /\ Register!Updates = Updates /\ Register!Reads = Reads
    /\ \A op, t : Register!Effects(op, t) = Effects(op, t)
    /\ \A op, t : Register!Throws(op, t) = Throws(op, t)
    /\ \A t : Register!Served(t) = Served(t) /\ Register!Initialized(t) = Initialized(t)
    /\ \A t, stale : Register!Prunings(Register!Recovered(t, stale), NoRun)
                          = Prunings(Recovered(t, stale), NoRun)
    /\ Register!Seed = Seed
  <1>1. Register!Updates = Updates /\ Register!Reads = Reads
    BY DEF Register!Updates, Register!Reads, Updates, Reads, Register!Kinds, Kinds
  <1>2. \A rows, pushed : Register!Retentions(rows, pushed) = Retentions(rows, pushed)
    BY DEF Register!Retentions, Retentions, Register!MayPrecede, MayPrecede,
           Register!Cardinality, Cardinality
  <1>3. \A t, pushed : Register!Prunings(t, pushed) = Prunings(t, pushed)
    BY <1>2 DEF Register!Prunings, Prunings
  <1>4. \A rows, S : Register!Ended(rows, S) = Ended(rows, S)
    BY DEF Register!Ended, Ended
  <1>5. \A op, t : Register!Mutated(op, t) = Mutated(op, t)
    BY <1>4 DEF Register!Mutated, Mutated
  <1>6. Register!Seed = Seed
    BY DEF Register!Seed, Seed
  <1>7. \A op, t : Register!Throws(op, t) = Throws(op, t)
    BY DEF Register!Throws, Throws, Register!HasRun, HasRun
  <1>8. \A t, stale : Register!Recovered(t, stale) = Recovered(t, stale)
    BY <1>4 DEF Register!Recovered, Recovered
  <1>9. \A op, t : Register!Effects(op, t) = Effects(op, t)
    BY <1>3, <1>5 DEF Register!Effects, Effects, Register!Pushed, Pushed
  <1>10. \A t : Register!Served(t) = Served(t) /\ Register!Initialized(t) = Initialized(t)
    BY <1>3, <1>6 DEF Register!Served, Register!Initialized, Served, Initialized
  <1> QED BY <1>1, <1>3, <1>6, <1>7, <1>8, <1>9, <1>10

Abs == [c \in Calls |-> Seen(c)]

LEMMA AbsMoves ==
    ASSUME NEW c \in Calls, Others(c)
    PROVE  Abs' = [Abs EXCEPT ![c] = Seen(c)']
  BY DEF Abs, Others, Seen

(* A step of one call that leaves db and lock alone disturbs no other call. *)
LEMMA OthersKeep ==
    ASSUME Inv, NEW c \in Calls, Others(c), db' = db,
           \A d \in Calls \ {c} : lock' = d <=> lock = d,
           \A d \in Calls \ {c} :
               call[d].op \in Updates /\ call[d].pc \notin {"idle", "queued"} =>
                   queue' # << >> /\ Head(queue') = d
    PROVE  \A d \in Calls \ {c} : Consistent(d)' /\ Current(d)'
  BY DEF Inv, Others, Consistent, Current

LEMMA SameQueue ==
    ASSUME Inv, queue' = queue
    PROVE  \A d \in Calls : call[d].op \in Updates /\ call[d].pc \notin {"idle", "queued"} =>
               queue' # << >> /\ Head(queue') = d
  BY DEF Inv, Consistent

LEMMA InvokeStep ==
    ASSUME Inv, NEW c \in Calls, NEW op \in Operations, Invoke(c, op)
    PROVE  Inv' /\ Register!Invoke(c, op)
  <1> DEFINE p == IF op \in Updates THEN "queued" ELSE "connecting"
  <1>1. queue' = IF op \in Updates THEN Append(queue, c) ELSE queue
    BY DEF Invoke
  <1>2. queue' \in Seq(Calls)
    BY <1>1 DEF Inv, Shape
  <1>3. /\ Shape' /\ Others(c)
        /\ call'[c] = [pc |-> p, op |-> op, draft |-> Nothing, result |-> "none"]
    <2> DEFINE new == [pc |-> p, op |-> op, draft |-> Nothing, result |-> "none"]
    <2>1. Call(new) /\ new.pc \in PCs
      BY DEF PCs, Call
    <2>2. call' = [call EXCEPT ![c] = new]
      BY DEF Invoke
    <2>3. Shape' /\ Others(c) /\ call'[c] = new
      <3> HIDE DEF new
      <3> QED BY <1>2, <2>1, <2>2, StepShape
    <2> QED BY <2>3
  <1>4. \A d \in Calls \ {c} : Consistent(d)' /\ Current(d)'
    <2>1. \A d \in Calls : call[d].op \in Updates /\ call[d].pc \notin {"idle", "queued"} =>
               queue' # << >> /\ Head(queue') = d
      BY <1>1, HeadTailAppend, AppendProperties DEF Inv, Consistent, Shape
    <2> QED BY <1>3, <2>1, OthersKeep DEF Invoke
  <1>5. Consistent(c)' /\ Current(c)'
    BY <1>3 DEF Invoke, Inv, Consistent, Current, Locked
  <1>6. Inv'
    BY <1>3, <1>4, <1>5 DEF Inv, Invoke, QuietStart, TwoTables
  <1>7. Seen(c).phase = "idle"
    BY DEF Invoke, Seen
  <1>8. Seen(c)' = [phase |-> "waiting", op |-> op, shown |-> Nothing, result |-> "none"]
    BY <1>3 DEF Seen
  <1>9. Abs' = [Abs EXCEPT ![c] = Seen(c)']
    BY <1>3, AbsMoves
  <1>10. Abs[c] = Seen(c)
    BY DEF Abs
  <1>11. /\ Abs[c].phase = "idle"
         /\ Abs' = [Abs EXCEPT ![c] =
              [phase |-> "waiting", op |-> op, shown |-> Nothing, result |-> "none"]]
         /\ queue' = IF op \in Updates THEN Append(queue, c) ELSE queue
         /\ UNCHANGED db
    BY <1>1, <1>7, <1>8, <1>9, <1>10 DEF Invoke
  <1>12. Register!Invoke(c, op)
    BY <1>11, SameOperators DEF Register!Invoke, Abs
  <1> QED BY <1>6, <1>12

(* The steps that only bring a call closer to its instant. *)
LEMMA BeginStep ==
    ASSUME Inv, NEW c \in Calls, Begin(c)
    PROVE  Inv' /\ UNCHANGED <<db, Abs, queue>>
  <1>1. /\ Shape' /\ Others(c)
        /\ call'[c] = [pc |-> "connecting", op |-> call[c].op, draft |-> call[c].draft,
                       result |-> call[c].result]
    BY GotoShape DEF Begin, PCs
  <1>2. \A d \in Calls \ {c} : Consistent(d)' /\ Current(d)'
    BY <1>1, SameQueue, OthersKeep DEF Begin
  <1>3. Consistent(c)' /\ Current(c)'
    BY <1>1 DEF Begin, Turn, Inv, Consistent, Current, Locked
  <1>4. Inv'
    BY <1>1, <1>2, <1>3 DEF Inv, Begin, Turn, QuietStart, TwoTables
  <1>5. Seen(c)' = Seen(c)
    BY <1>1 DEF Seen, Begin, Turn
  <1>6. Abs' = Abs
    BY <1>1, <1>5, AbsMoves DEF Abs
  <1> QED BY <1>4, <1>6 DEF Begin

LEMMA LockStep ==
    ASSUME Inv, NEW c \in Calls, Lock(c)
    PROVE  Inv' /\ UNCHANGED <<db, Abs, queue>>
  <1>1. /\ Shape' /\ Others(c)
        /\ call'[c] = [pc |-> "reading", op |-> call[c].op,
                       draft |-> [ws |-> db.ws, runs |-> {}], result |-> call[c].result]
    BY GotoShape DEF Lock, PCs
  <1>2. \A d \in Calls \ {c} : Consistent(d)' /\ Current(d)'
    <2>1. \A d \in Calls \ {c} : lock' = d <=> lock = d
      BY DEF Lock, LockFree
    <2> QED BY <1>1, <2>1, SameQueue, OthersKeep DEF Lock
  <1>3. Consistent(c)' /\ Current(c)'
    BY <1>1 DEF Lock, Inv, Consistent, Current, Locked
  <1>4. Inv'
    BY <1>1, <1>2, <1>3 DEF Inv, Lock, QuietStart, TwoTables
  <1>5. Seen(c)' = Seen(c)
    BY <1>1 DEF Seen, Lock
  <1>6. Abs' = Abs
    BY <1>1, <1>5, AbsMoves DEF Abs
  <1> QED BY <1>4, <1>6 DEF Lock

(* What Load reads is what is stored; a read has its answer then. *)
LEMMA LoadStep ==
    ASSUME Inv, NEW c \in Calls, Load(c)
    PROVE  Inv' /\ (UNCHANGED <<db, Abs, queue>> \/ Register!Show(c))
  <1>1. [ws |-> call[c].draft.ws, runs |-> db.runs] = db
    BY DEF Load, Inv, Current, TwoTables
  <1>2. PICK new \in IF IsUpdate(c) THEN Effects(call[c].op, db) ELSE Served(db) :
            ~ Throws(call[c].op, db) /\ Goto(c, "loaded", new)
    BY <1>1 DEF Load
  <1>3. /\ Shape' /\ Others(c)
        /\ call'[c] = [pc |-> "loaded", op |-> call[c].op, draft |-> new,
                       result |-> call[c].result]
    BY <1>2, GotoShape DEF Load, PCs
  <1>4. call[c].op \in Operations /\ call[c].pc = "reading"
    BY DEF Inv, Consistent, Load
  <1>5. \A d \in Calls \ {c} : Consistent(d)' /\ Current(d)'
    BY <1>3, SameQueue, OthersKeep DEF Load
  <1>6. Consistent(c)'
    BY <1>3, <1>4 DEF Load, Inv, Consistent
  <1>7. Current(c)'
    <2>1. lock = c /\ lock' = c /\ db' = db
      BY DEF Load, Inv, Current, Locked
    <2>2. call'[c].op \in Updates => call'[c].draft \in Effects(call[c].op, db)
      BY <1>2, <1>3 DEF IsUpdate
    <2> QED BY <1>2, <1>3, <2>1, <2>2 DEF Current, Locked
  <1>8. Inv'
    BY <1>3, <1>5, <1>6, <1>7 DEF Inv, Load, QuietStart, TwoTables
  <1>9. CASE call[c].op \in Updates
    <2>1. Seen(c)' = Seen(c)
      BY <1>3, <1>4, <1>9, Kindness DEF Seen
    <2>2. Abs' = Abs
      BY <1>3, <2>1, AbsMoves DEF Abs
    <2> QED BY <1>8, <2>2 DEF Load
  <1>10. CASE call[c].op \notin Updates
    <2>1. call[c].op \in Reads /\ new \in Served(db)
      BY <1>2, <1>4, <1>10, Kindness DEF IsUpdate
    <2>2. Seen(c) = [phase |-> "waiting", op |-> call[c].op, shown |-> Nothing,
                     result |-> call[c].result]
      BY <1>4 DEF Seen
    <2>3. Seen(c)' = [phase |-> "applied", op |-> call[c].op, shown |-> new,
                      result |-> call[c].result]
      BY <1>3, <2>1 DEF Seen
    <2>4. Abs' = [Abs EXCEPT ![c] = Seen(c)'] /\ Abs[c] = Seen(c)
      BY <1>3, AbsMoves DEF Abs
    <2>5. new \in Register!Served(db)
      BY <2>1, SameOperators
    <2> DEFINE Shows(shown) ==
                 Abs' = [Abs EXCEPT ![c] = [phase |-> "applied", op |-> Abs[c].op,
                                            shown |-> shown, result |-> Abs[c].result]]
    <2>6. \E shown \in Register!Served(db) : Shows(shown)
      <3>1. Shows(new)
        BY <2>2, <2>3, <2>4
      <3> HIDE DEF Shows
      <3> QED BY <2>5, <3>1
    <2>7. /\ Abs[c].phase = "waiting" /\ Abs[c].op \in Register!Reads
          /\ UNCHANGED <<db, queue>>
      BY <2>1, <2>2, <2>4, SameOperators DEF Load
    <2>8. Register!Show(c)
      BY <2>6, <2>7 DEF Register!Show, Register!Goto, Abs
    <2> QED BY <1>8, <2>8
  <1> QED BY <1>9, <1>10

(* The commit is the instant of an update. *)
LEMMA CommitStep ==
    ASSUME Inv, NEW c \in Calls, Commit(c)
    PROVE  Inv' /\ (UNCHANGED <<db, Abs, queue>> \/ Register!Apply(c))
  <1>1. /\ Shape' /\ Others(c)
        /\ call'[c] = [pc |-> "committed", op |-> call[c].op, draft |-> call[c].draft,
                       result |-> call[c].result]
    BY GotoShape DEF Commit, PCs
  <1>2. /\ call[c].pc = "loaded" /\ lock = c /\ lock' = NoCall
        /\ call[c].op \in Operations
    BY DEF Commit, Inv, Consistent, Current, Locked
  <1>3. \A d \in Calls \ {c} : call[d].pc \notin Locked
    BY <1>2 DEF Inv, Current
  <1>4. \A d \in Calls \ {c} : Consistent(d)' /\ Current(d)'
    BY <1>1, <1>2, <1>3 DEF Commit, Inv, Others, Consistent, Current, Locked
  <1>5. Consistent(c)' /\ Current(c)'
    BY <1>1, <1>2 DEF Commit, Inv, Consistent, Current, Locked
  <1>6. TwoTables'
    <2>1. CASE call[c].op \in Updates
      <3>1. db' \in Effects(call[c].op, db)
        BY <1>2, <2>1 DEF Commit, IsUpdate, Inv, Current
      <3>2. Record(db')
        BY <3>1, EffectRecord
      <3> QED BY <3>2 DEF TwoTables, Record
    <2>2. CASE call[c].op \notin Updates
      BY <2>2 DEF Commit, IsUpdate, Inv, TwoTables
    <2> QED BY <2>1, <2>2
  <1>7. Inv'
    BY <1>1, <1>4, <1>5, <1>6 DEF Inv, Commit, QuietStart
  <1>8. CASE call[c].op \in Updates
    <2>1. /\ ~ Throws(call[c].op, db) /\ db' \in Effects(call[c].op, db)
          /\ queue # << >> /\ Head(queue) = c /\ queue' = queue
      BY <1>2, <1>8 DEF Commit, IsUpdate, Inv, Current, Consistent
    <2>2. Seen(c) = [phase |-> "waiting", op |-> call[c].op, shown |-> Nothing,
                     result |-> call[c].result]
      BY <1>2, <1>8, Kindness DEF Seen
    <2>3. Seen(c)' = [phase |-> "applied", op |-> call[c].op, shown |-> Nothing,
                      result |-> call[c].result]
      BY <1>1, <1>2, <1>8, Kindness DEF Seen
    <2>4. Abs' = [Abs EXCEPT ![c] = Seen(c)'] /\ Abs[c] = Seen(c)
      BY <1>1, AbsMoves DEF Abs
    <2>5. /\ Abs[c].phase = "waiting" /\ Abs[c].op \in Updates
          /\ queue # << >> /\ Head(queue) = c
          /\ ~ Throws(Abs[c].op, db) /\ db' \in Effects(Abs[c].op, db)
          /\ Abs' = [Abs EXCEPT ![c] = [phase |-> "applied", op |-> Abs[c].op,
                                        shown |-> Nothing, result |-> Abs[c].result]]
          /\ UNCHANGED queue
      BY <1>8, <2>1, <2>2, <2>3, <2>4
    <2>6. Register!Apply(c)
      BY <2>5, SameOperators DEF Register!Apply, Register!Goto, Abs
    <2> QED BY <1>7, <2>6
  <1>9. CASE call[c].op \notin Updates
    <2>1. call[c].op \in Reads
      BY <1>2, <1>9, Kindness
    <2>2. Seen(c)' = Seen(c)
      BY <1>1, <1>2, <2>1 DEF Seen
    <2>3. Abs' = Abs
      BY <1>1, <2>2, AbsMoves DEF Abs
    <2> QED BY <1>7, <1>9, <2>3 DEF Commit, IsUpdate
  <1> QED BY <1>8, <1>9

(* What answering a call does, resolved or rejected. *)
LEMMA AnswerStep ==
    ASSUME Inv, NEW c \in Calls, NEW result, call[c].pc \notin {"idle", "queued"},
           call' = [call EXCEPT ![c] = IdleCall(result)], queue' = Advanced(c, result),
           lock' = IF lock = c THEN NoCall ELSE lock, UNCHANGED <<server, db>>
    PROVE  Inv' /\ Register!Answered(c, result)
  <1>1. queue' \in Seq(Calls)
    BY AdvancedQueue
  <1>2. Shape' /\ Others(c) /\ call'[c] = IdleCall(result)
    <2>1. Call(IdleCall(result)) /\ IdleCall(result).pc \in PCs
      BY DEF Call, IdleCall, PCs
    <2> QED BY <1>1, <2>1, StepShape
  <1>3. \A d \in Calls \ {c} : Consistent(d)' /\ Current(d)'
    <2>1. \A d \in Calls \ {c} : lock' = d <=> lock = d
      OBVIOUS
    <2> QED BY <1>2, <2>1, AdvancedQueue, OthersKeep
  <1>4. Consistent(c)' /\ Current(c)'
    BY <1>2 DEF IdleCall, Inv, Consistent, Current, Locked, Operations, Updates, Reads
  <1>5. Inv'
    BY <1>2, <1>3, <1>4 DEF Inv, QuietStart, TwoTables
  <1>6. Seen(c)' = [phase |-> "idle", op |-> Nothing, shown |-> Nothing, result |-> result]
    BY <1>2 DEF Seen, IdleCall, Operations
  <1>7. Abs' = [Abs EXCEPT ![c] = Seen(c)'] /\ Abs[c].op = call[c].op
    BY <1>2, AbsMoves DEF Abs, Seen
  <1>8. /\ Abs' = [Abs EXCEPT ![c] =
             [phase |-> "idle", op |-> Nothing, shown |-> Nothing, result |-> result]]
        /\ IF Abs[c].op \in Updates
           THEN queue # << >> /\ Head(queue) = c /\ queue' = Tail(queue)
           ELSE UNCHANGED queue
        /\ UNCHANGED db
    BY <1>6, <1>7, AdvancedQueue
  <1> QED BY <1>5, <1>8, SameOperators DEF Register!Answered, Register!IdleCall, Abs

LEMMA ResolveStep ==
    ASSUME Inv, NEW c \in Calls, Resolve(c)
    PROVE  Inv' /\ Register!Resolve(c)
  <1>1. lock' = IF lock = c THEN NoCall ELSE lock
    BY DEF Resolve, Inv, Current, Locked
  <1>2. Inv' /\ Register!Answered(c, "ok")
    BY <1>1, AnswerStep DEF Resolve
  <1>3. Abs[c].phase = "applied"
    BY DEF Abs, Seen, Resolve
  <1> QED BY <1>2, <1>3 DEF Register!Resolve, Abs

LEMMA RejectStep ==
    ASSUME Inv, NEW c \in Calls, Reject(c)
    PROVE  Inv' /\ Register!Reject(c)
  <1>1. Inv' /\ Register!Answered(c, "error")
    BY AnswerStep DEF Reject
  <1>2. Abs[c].phase # "idle"
    BY DEF Abs, Seen, Reject, Inv, Shape, PCs
  <1> QED BY <1>1, <1>2 DEF Register!Reject, Abs

LEMMA StopStep ==
    ASSUME Inv, Stop
    PROVE  Inv' /\ Register!Stop
  <1>1. \A c \in Calls : call'[c] = IdleCall("none")
    BY DEF Stop
  <1>2. Shape'
    BY DEF Stop, Shape, IdleCall, PCs
  <1>3. \A c \in Calls : Consistent(c)' /\ Current(c)'
    BY <1>1 DEF Stop, IdleCall, Consistent, Current, Locked, Operations, Updates
  <1>4. Inv'
    BY <1>1, <1>2, <1>3 DEF Inv, Stop, QuietStart, TwoTables, IdleCall
  <1>5. \A c \in Calls : Seen(c)' =
            [phase |-> "idle", op |-> Nothing, shown |-> Nothing, result |-> "none"]
    BY <1>1 DEF Seen, IdleCall, Operations
  <1>6. Abs' = [c \in Calls |->
            [phase |-> "idle", op |-> Nothing, shown |-> Nothing, result |-> "none"]]
    BY <1>5 DEF Abs
  <1> QED BY <1>4, <1>6 DEF Stop, Register!Stop, Register!IdleCall, Abs

LEMMA BootStep ==
    ASSUME Inv, Initialize \/ Migrate
    PROVE  Inv' /\ Register!Boot
  <1>1. server # "up" /\ UNCHANGED <<lock, queue, call>>
    BY DEF Initialize, Migrate, Migrating
  <1>2. \A c \in Calls : call[c].pc = "idle"
    BY <1>1 DEF Inv, QuietStart
  <1>4. \/ db' \in Initialized(db)
        \/ \E stale \in SUBSET (Runs \union {SeedRun}) :
               db' \in Prunings(Recovered(db, stale), NoRun)
    BY DEF Initialize, Migrate
  <1>5. TwoTables'
    BY <1>4, BootRecord DEF TwoTables, Record
  <1>6. Shape' /\ QuietStart'
    BY <1>1, <1>2 DEF Inv, Shape, QuietStart
  <1>7. \A c \in Calls : Consistent(c)' /\ Current(c)'
    <2> SUFFICES ASSUME NEW c \in Calls PROVE Consistent(c)' /\ Current(c)'
      OBVIOUS
    <2>1. Consistent(c) /\ Current(c) /\ call'[c] = call[c] /\ call[c].pc = "idle"
      BY <1>1, <1>2 DEF Inv
    <2> QED BY <1>1, <2>1 DEF Consistent, Current, Locked
  <1>8. Abs' = Abs
    BY <1>1 DEF Abs, Seen
  <1>9. Register!Boot
    BY <1>1, <1>4, <1>8, SameOperators DEF Register!Boot, Abs
  <1> QED BY <1>5, <1>6, <1>7, <1>9 DEF Inv

LEMMA StutterStep ==
    ASSUME Inv, UNCHANGED vars
    PROVE  Inv' /\ UNCHANGED <<db, Abs, queue>>
  BY DEF vars, Inv, Shape, Consistent, Current, QuietStart, TwoTables, Abs, Seen

-------------------------------------------------------------------------------
(* A step of the store is a step of the register, or none. *)
Refines == [Register!Next]_<<db, Abs, queue>>

LEMMA TransactStep ==
    ASSUME Inv, NEW c \in Calls, Transact(c)
    PROVE  Inv' /\ Refines
  <1>1. CASE Lock(c)
    BY <1>1, LockStep DEF Refines
  <1>2. CASE Load(c)
    <2>1. Inv' /\ (UNCHANGED <<db, Abs, queue>> \/ Register!Show(c))
      BY <1>2, LoadStep
    <2> QED BY <2>1 DEF Refines, Register!Next
  <1>3. CASE Commit(c)
    <2>1. Inv' /\ (UNCHANGED <<db, Abs, queue>> \/ Register!Apply(c))
      BY <1>3, CommitStep
    <2> QED BY <2>1 DEF Refines, Register!Next
  <1>4. CASE Resolve(c)
    BY <1>4, ResolveStep DEF Refines, Register!Next
  <1>5. CASE Reject(c)
    BY <1>5, RejectStep DEF Refines, Register!Next
  <1> QED BY <1>1, <1>2, <1>3, <1>4, <1>5 DEF Transact

LEMMA NextStep == Inv /\ [Next]_vars => Inv' /\ Refines
  <1> SUFFICES ASSUME Inv, [Next]_vars PROVE Inv' /\ Refines
    OBVIOUS
  <1>1. CASE Stop
    BY <1>1, StopStep DEF Refines, Register!Next
  <1>2. CASE Initialize \/ Migrate
    BY <1>2, BootStep DEF Refines, Register!Next
  <1>3. ASSUME NEW c \in Calls, NEW op \in Operations, Invoke(c, op) PROVE Inv' /\ Refines
    <2>1. op \in Register!Operations
      BY SameOperators DEF Register!Operations, Operations
    <2> QED BY <1>3, <2>1, InvokeStep DEF Refines, Register!Next
  <1>4. ASSUME NEW c \in Calls, Begin(c) PROVE Inv' /\ Refines
    BY <1>4, BeginStep DEF Refines
  <1>5. ASSUME NEW c \in Calls, Transact(c) PROVE Inv' /\ Refines
    BY <1>5, TransactStep
  <1>6. CASE UNCHANGED vars
    BY <1>6, StutterStep DEF Refines
  <1> QED BY <1>1, <1>2, <1>3, <1>4, <1>5, <1>6 DEF Next

LEMMA InitRefines == Init => Register!Init
  <1> SUFFICES ASSUME Init PROVE Register!Init
    OBVIOUS
  <1>1. \A c \in Calls : Seen(c) =
            [phase |-> "idle", op |-> Nothing, shown |-> Nothing, result |-> "none"]
    BY DEF Init, Seen, IdleCall, Operations
  <1>2. Abs = [c \in Calls |->
            [phase |-> "idle", op |-> Nothing, shown |-> Nothing, result |-> "none"]]
    BY <1>1 DEF Abs
  <1> QED BY <1>2, SameOperators DEF Init, Register!Init, Register!IdleCall, Abs

(* The PostgreSQL store implements the atomic register that the models of    *)
(* the workflow assume: whatever calls overlap, time out, throw or lose      *)
(* their answers, and wherever the process stops.                            *)
THEOREM ImplementsRegister == Spec => RegisterSpec
  <1>1. Spec => []Inv
    BY InitInv, NextStep, PTL DEF Spec
  <1>2. Inv /\ [Next]_vars => Refines
    BY NextStep
  <1> QED
    BY <1>1, <1>2, InitRefines, PTL DEF Spec, RegisterSpec, Register!Spec, Refines, Abs

-------------------------------------------------------------------------------
(* The rows that may be kept: all of them, or the RunLimit last. *)
LEMMA RetentionFacts ==
    ASSUME NEW rows, IsFiniteSet(rows), NEW pushed, NEW kept \in Retentions(rows, pushed)
    PROVE  /\ kept \subseteq rows /\ IsFiniteSet(kept) /\ Cardinality(kept) <= RunLimit
           /\ Cardinality(rows) <= RunLimit => kept = rows
           /\ ~ (Cardinality(rows) <= RunLimit) =>
                /\ Cardinality(kept) = RunLimit
                /\ \A cut \in rows \ kept : \A row \in kept : MayPrecede(cut, row, pushed)
  <1>1. RunLimit \in Nat
    BY RunLimitAssumption
  <1>2. CASE Cardinality(rows) <= RunLimit
    BY <1>2 DEF Retentions
  <1>3. CASE ~ (Cardinality(rows) <= RunLimit)
    <2>1. /\ kept \in SUBSET rows /\ Cardinality(kept) = RunLimit
          /\ \A cut \in rows \ kept : \A row \in kept : MayPrecede(cut, row, pushed)
      BY <1>3 DEF Retentions
    <2>2. IsFiniteSet(kept)
      BY <2>1, FS_Subset
    <2> QED BY <1>1, <1>3, <2>1, <2>2
  <1> QED BY <1>2, <1>3

(* Ending rows adds none, and changes only those it ends. *)
LEMMA EndedFacts ==
    ASSUME NEW rows \in SUBSET Rows, IsFiniteSet(rows), NEW S
    PROVE  /\ Ended(rows, S) \subseteq Rows /\ IsFiniteSet(Ended(rows, S))
           /\ Cardinality(Ended(rows, S)) <= Cardinality(rows)
           /\ \A row \in rows : \E new \in Ended(rows, S) : new.run = row.run
           /\ \A new \in Ended(rows, S) : \E row \in rows :
                 row.run = new.run /\ (row.run \notin S => new = row)
  <1> DEFINE End(row) == IF row.run \in S THEN [row EXCEPT !.open = FALSE] ELSE row
             f == [row \in rows |-> End(row)]
  <1>1. Ended(rows, S) = {End(row) : row \in rows}
    BY DEF Ended
  <1>2. ASSUME NEW row \in rows
        PROVE  End(row) \in Rows /\ End(row).run = row.run /\ (row.run \notin S => End(row) = row)
    <2>1. row \in Rows
      OBVIOUS
    <2>2. CASE row.run \in S
      <3>1. End(row) = [run |-> row.run, ws |-> row.ws, open |-> FALSE]
        BY <2>1, <2>2 DEF Rows
      <3>2. row.run \in Runs \union {SeedRun} /\ row.ws \in Workspaces
        BY <2>1 DEF Rows
      <3> HIDE DEF End
      <3> QED BY <2>2, <3>1, <3>2 DEF Rows
    <2>3. CASE row.run \notin S
      BY <2>1, <2>3
    <2> QED BY <2>2, <2>3
  <1> HIDE DEF End
  <1>3. f \in Surjection(rows, Ended(rows, S))
    BY <1>1 DEF Surjection
  <1>4. IsFiniteSet(Ended(rows, S)) /\ Cardinality(Ended(rows, S)) <= Cardinality(rows)
    <2> HIDE DEF f
    <2> QED BY <1>3, FS_Surjection
  <1> QED BY <1>1, <1>2, <1>4

(* What the mutators do to the two tables. *)
LEMMA MutatedFields ==
    ASSUME NEW op, NEW t, Record(t)
    PROVE  /\ op.kind = "create" =>
                Mutated(op, t) = [ws |-> t.ws \union {op.ws}, runs |-> t.runs]
           /\ op.kind = "delete" =>
                Mutated(op, t) = [ws   |-> t.ws \ {op.ws},
                                  runs |-> {row \in t.runs : row.ws # op.ws}]
           /\ op.kind = "start" =>
                Mutated(op, t) =
                  [ws   |-> t.ws,
                   runs |-> t.runs \union {[run |-> op.run, ws |-> op.ws, open |-> TRUE]}]
           /\ op.kind = "end" =>
                Mutated(op, t) = [ws |-> t.ws, runs |-> Ended(t.runs, {op.run})]
           /\ \A stale : Recovered(t, stale) = [ws |-> t.ws, runs |-> Ended(t.runs, stale)]
  <1>1. ASSUME NEW rows PROVE [t EXCEPT !.runs = rows] = [ws |-> t.ws, runs |-> rows]
    BY DEF Record
  <1>2. ASSUME NEW ws PROVE [t EXCEPT !.ws = ws] = [ws |-> ws, runs |-> t.runs]
    BY DEF Record
  <1>3. op.kind = "create" => Mutated(op, t) = [ws |-> t.ws \union {op.ws}, runs |-> t.runs]
    BY <1>2 DEF Mutated
  <1>4. op.kind = "delete" => Mutated(op, t) = [ws   |-> t.ws \ {op.ws},
                                                runs |-> {row \in t.runs : row.ws # op.ws}]
    BY DEF Mutated
  <1>5. op.kind = "start" =>
            Mutated(op, t) =
              [ws   |-> t.ws,
               runs |-> t.runs \union {[run |-> op.run, ws |-> op.ws, open |-> TRUE]}]
    BY <1>1 DEF Mutated
  <1>6. op.kind = "end" =>
            Mutated(op, t) = [ws |-> t.ws, runs |-> Ended(t.runs, {op.run})]
    BY <1>1 DEF Mutated
  <1>7. \A stale : Recovered(t, stale) = [ws |-> t.ws, runs |-> Ended(t.runs, stale)]
    BY <1>1 DEF Recovered
  <1> QED BY <1>3, <1>4, <1>5, <1>6, <1>7

LEMMA TableFields ==
    ASSUME NEW t \in Tables
    PROVE  /\ Record(t) /\ t.ws \subseteq Workspaces
           /\ t.runs \subseteq Rows /\ IsFiniteSet(t.runs) /\ Cardinality(t.runs) \in Nat
  <1>1. /\ Record(t) /\ t.ws \subseteq Workspaces
        /\ t.runs \subseteq Rows /\ IsFiniteSet(t.runs)
    BY DEF Tables, Record
  <1> QED BY <1>1, FS_CardinalityType

(* A mutator leaves the tables of their type, with no more rows unless it    *)
(* starts a run.                                                             *)
LEMMA MutatedTyping ==
    ASSUME NEW op \in Updates, op.kind = "start" => op.run \in Runs, NEW t \in Tables
    PROVE  /\ Mutated(op, t) \in Tables
           /\ op.kind # "start" => Cardinality(Mutated(op, t).runs) <= Cardinality(t.runs)
  <1>0. /\ op.kind \in Kinds /\ op.ws \in Workspaces
        /\ Record(t) /\ t.ws \subseteq Workspaces
        /\ t.runs \subseteq Rows /\ IsFiniteSet(t.runs) /\ Cardinality(t.runs) \in Nat
    BY TableFields DEF Updates
  <1>1. CASE op.kind = "create"
    <2>1. Mutated(op, t) = [ws |-> t.ws \union {op.ws}, runs |-> t.runs]
      BY <1>0, <1>1, MutatedFields
    <2> QED BY <1>0, <2>1 DEF Tables
  <1>2. CASE op.kind = "delete"
    <2> DEFINE rows == {row \in t.runs : row.ws # op.ws}
    <2>1. Mutated(op, t) = [ws |-> t.ws \ {op.ws}, runs |-> rows]
      BY <1>0, <1>2, MutatedFields
    <2>2. rows \in SUBSET t.runs
      OBVIOUS
    <2> HIDE DEF rows
    <2>3. IsFiniteSet(rows) /\ Cardinality(rows) <= Cardinality(t.runs)
      BY <1>0, <2>2, FS_Subset
    <2> QED BY <1>0, <2>1, <2>2, <2>3 DEF Tables
  <1>3. CASE op.kind = "start"
    <2> DEFINE row == [run |-> op.run, ws |-> op.ws, open |-> TRUE]
    <2>1. row \in Rows
      BY <1>0, <1>3 DEF Rows
    <2>2. Mutated(op, t) = [ws |-> t.ws, runs |-> t.runs \union {row}]
      BY <1>0, <1>3, MutatedFields
    <2> HIDE DEF row
    <2>3. IsFiniteSet(t.runs \union {row})
      BY <1>0, FS_AddElement
    <2> QED BY <1>0, <1>3, <2>1, <2>2, <2>3 DEF Tables
  <1>4. CASE op.kind = "end"
    <2> DEFINE rows == Ended(t.runs, {op.run})
    <2>1. Mutated(op, t) = [ws |-> t.ws, runs |-> rows]
      BY <1>0, <1>4, MutatedFields
    <2>2. rows \subseteq Rows /\ IsFiniteSet(rows) /\ Cardinality(rows) <= Cardinality(t.runs)
      BY <1>0, EndedFacts
    <2> HIDE DEF rows
    <2> QED BY <1>0, <2>1, <2>2 DEF Tables
  <1> QED BY <1>0, <1>1, <1>2, <1>3, <1>4 DEF Kinds

(* Pruning leaves tables within the limit, *)
LEMMA PruningTyping ==
    ASSUME NEW t \in Tables, NEW pushed, NEW u \in Prunings(t, pushed)
    PROVE  /\ u \in Tables /\ Cardinality(u.runs) <= RunLimit /\ u.runs \subseteq t.runs
           /\ Cardinality(t.runs) <= RunLimit => u.runs = t.runs
  <1>1. /\ t.ws \subseteq Workspaces /\ t.runs \subseteq Rows /\ IsFiniteSet(t.runs)
        /\ Record(u) /\ u.ws = t.ws /\ u.runs \in Retentions(t.runs, pushed)
    BY TableFields, PruningRecord
  <1>2. /\ u.runs \subseteq t.runs /\ IsFiniteSet(u.runs) /\ Cardinality(u.runs) <= RunLimit
        /\ Cardinality(t.runs) <= RunLimit => u.runs = t.runs
    BY <1>1, RetentionFacts
  <1>3. u = [ws |-> u.ws, runs |-> u.runs]
    BY <1>1 DEF Record
  <1>4. u.ws \subseteq Workspaces /\ u.runs \subseteq Rows
    BY <1>1, <1>2
  <1> QED BY <1>2, <1>3, <1>4 DEF Tables

(* so does every update, *)
LEMMA EffectTyping ==
    ASSUME NEW op \in Updates, op.kind = "start" => op.run \in Runs, NEW t \in Tables,
           NEW u \in Effects(op, t)
    PROVE  u \in Tables /\ Cardinality(u.runs) <= RunLimit
  <1>1. Mutated(op, t) \in Tables
    BY MutatedTyping
  <1> QED BY <1>1, PruningTyping DEF Effects

LEMMA SeedTyping == Seed \in Tables /\ Cardinality(Seed.runs) <= RunLimit
  <1> DEFINE home == CHOOSE w \in SeedWorkspaces : TRUE
             row == [run |-> SeedRun, ws |-> home, open |-> FALSE]
  <1>1. home \in Workspaces
    BY SeedAssumption
  <1>2. row \in Rows
    <2> HIDE DEF home
    <2> QED BY <1>1 DEF Rows
  <1>3. Seed = [ws |-> SeedWorkspaces, runs |-> {row}]
    BY DEF Seed
  <1> HIDE DEF row
  <1>4. IsFiniteSet({row}) /\ Cardinality({row}) = 1
    BY FS_Singleton
  <1>5. RunLimit \in Nat \ {0} /\ SeedWorkspaces \subseteq Workspaces
    BY RunLimitAssumption, SeedAssumption
  <1> QED BY <1>2, <1>3, <1>4, <1>5 DEF Tables

(* and what the startup writes. *)
LEMMA RecoveredTyping ==
    ASSUME NEW t \in Tables, NEW stale
    PROVE  /\ Recovered(t, stale) \in Tables
           /\ Cardinality(Recovered(t, stale).runs) <= Cardinality(t.runs)
  <1> DEFINE rows == Ended(t.runs, stale)
  <1>1. /\ Record(t) /\ t.ws \subseteq Workspaces
        /\ t.runs \subseteq Rows /\ IsFiniteSet(t.runs)
    BY TableFields
  <1>2. Recovered(t, stale) = [ws |-> t.ws, runs |-> rows]
    BY <1>1, MutatedFields
  <1>3. rows \subseteq Rows /\ IsFiniteSet(rows) /\ Cardinality(rows) <= Cardinality(t.runs)
    BY <1>1, EndedFacts
  <1> HIDE DEF rows
  <1> QED BY <1>1, <1>2, <1>3 DEF Tables

LEMMA BootTyping ==
    ASSUME NEW t \in Tables
    PROVE  /\ \A u \in Initialized(t) : u \in Tables /\ Cardinality(u.runs) <= RunLimit
           /\ \A u \in Served(t) : u \in Tables
           /\ \A stale : \A u \in Prunings(Recovered(t, stale), NoRun) :
                 u \in Tables /\ Cardinality(u.runs) <= RunLimit
  <1>1. (IF t.ws = {} THEN Seed ELSE t) \in Tables
    BY SeedTyping
  <1> QED BY <1>1, RecoveredTyping, PruningTyping DEF Initialized, Served

-------------------------------------------------------------------------------
(* The types of the calls' records. *)
CallSet ==
    [pc : PCs, op : Operations \union {Nothing},
     draft : Tables \union {Nothing}, result : Results]

(* A pending start names a run: Invoke makes no other. *)
StartsARun(c) ==
    call[c].op \in Updates => (call[c].op.kind = "start" => call[c].op.run \in Runs)

TypeInv ==
    /\ TypeOK
    /\ \A c \in Calls : StartsARun(c)

LEMMA InitTyped == Init => TypeInv
  <1> SUFFICES ASSUME Init PROVE TypeInv
    OBVIOUS
  <1>1. call \in [Calls -> CallSet]
    BY DEF Init, IdleCall, CallSet, PCs, Results
  <1>2. TypeOK
    BY <1>1, SeedTyping DEF Init, TypeOK, CallSet, Stages
  <1>3. \A c \in Calls : StartsARun(c)
    BY DEF Init, IdleCall, StartsARun, Operations
  <1> QED BY <1>2, <1>3 DEF TypeInv

(* What a pending update would make of the stored tables. *)
LEMMA PendingEffect ==
    ASSUME Inv, TypeInv, NEW c \in Calls, call[c].op \in Updates, NEW u \in Effects(call[c].op, db)
    PROVE  u \in Tables /\ Cardinality(u.runs) <= RunLimit
  BY EffectTyping DEF TypeInv, TypeOK, StartsARun

(* Calls are typed as long as each one that changes is. *)
LEMMA CallsTyped ==
    ASSUME TypeOK, NEW c \in Calls, NEW new \in CallSet, call' = [call EXCEPT ![c] = new]
    PROVE  call' \in [Calls -> CallSet] /\ Others(c) /\ call'[c] = new
  <1>1. call \in [Calls -> CallSet]
    BY DEF TypeOK, CallSet
  <1> QED BY <1>1 DEF Others

LEMMA GotoTyped ==
    ASSUME TypeInv, NEW c \in Calls, NEW p \in PCs, NEW d \in Tables \union {Nothing}, Goto(c, p, d)
    PROVE  call' \in [Calls -> CallSet] /\ \A x \in Calls : StartsARun(x)'
  <1> DEFINE new == [pc |-> p, op |-> call[c].op, draft |-> d, result |-> call[c].result]
  <1>1. call[c].op \in Operations \union {Nothing} /\ call[c].result \in Results
    BY DEF TypeInv, TypeOK
  <1>2. new \in CallSet /\ new.op = call[c].op
    BY <1>1 DEF CallSet
  <1>3. call' = [call EXCEPT ![c] = new]
    BY DEF Goto
  <1>4. call' \in [Calls -> CallSet] /\ Others(c) /\ call'[c] = new
    <2> HIDE DEF new
    <2> QED BY <1>2, <1>3, CallsTyped DEF TypeInv
  <1>5. \A x \in Calls : call'[x].op = call[x].op
    <2> HIDE DEF new
    <2> QED BY <1>2, <1>4 DEF Others
  <1> QED BY <1>4, <1>5 DEF TypeInv, StartsARun

LEMMA IdleTyped ==
    ASSUME TypeInv, NEW c \in Calls, NEW result \in Results, call' = [call EXCEPT ![c] = IdleCall(result)]
    PROVE  call' \in [Calls -> CallSet] /\ \A x \in Calls : StartsARun(x)'
  <1>1. IdleCall(result) \in CallSet /\ IdleCall(result).op \notin Updates
    BY DEF IdleCall, CallSet, PCs, Operations
  <1>2. call' \in [Calls -> CallSet] /\ Others(c) /\ call'[c] = IdleCall(result)
    BY <1>1, CallsTyped DEF TypeInv
  <1> QED BY <1>1, <1>2 DEF TypeInv, StartsARun, Others

LEMMA InvokeTyped ==
    ASSUME TypeInv, NEW c \in Calls, NEW op \in Operations, Invoke(c, op)
    PROVE  call' \in [Calls -> CallSet] /\ \A x \in Calls : StartsARun(x)'
  <1> DEFINE new == [pc |-> IF op \in Updates THEN "queued" ELSE "connecting",
                     op |-> op, draft |-> Nothing, result |-> "none"]
  <1>1. new \in CallSet /\ new.op = op
    BY DEF CallSet, PCs, Results
  <1>2. call' = [call EXCEPT ![c] = new]
    BY DEF Invoke
  <1>3. call' \in [Calls -> CallSet] /\ Others(c) /\ call'[c].op = op
    <2> HIDE DEF new
    <2> QED BY <1>1, <1>2, CallsTyped DEF TypeInv
  <1>4. op.kind = "start" => op.run \in Runs
    BY DEF Invoke, Sensible
  <1> QED BY <1>3, <1>4 DEF TypeInv, StartsARun, Others

LEMMA TypeStep == Inv /\ TypeInv /\ [Next]_vars => TypeInv'
  <1> SUFFICES ASSUME Inv, TypeInv, [Next]_vars PROVE TypeInv'
    OBVIOUS
  <1> USE DEF CallSet
  <1>0. /\ queue' \in Seq(Calls)
        /\ db \in Tables /\ Cardinality(db.runs) <= RunLimit /\ db.ws \in SUBSET Workspaces
        /\ lock \in Calls \union {NoCall} /\ server \in Stages /\ live \subseteq Runs
        /\ call \in [Calls -> CallSet]
    BY NextStep DEF Inv, Shape, TypeInv, TypeOK, Tables
  <1>1. CASE Stop
    <2>1. IdleCall("none") \in CallSet /\ IdleCall("none").op \notin Updates
      BY DEF IdleCall, PCs, Results, Operations
    <2>2. call' = [c \in Calls |-> IdleCall("none")]
      BY <1>1 DEF Stop
    <2>3. call' \in [Calls -> CallSet] /\ \A c \in Calls : StartsARun(c)'
      <3> HIDE DEF CallSet
      <3> QED BY <2>1, <2>2 DEF StartsARun
    <2> QED BY <1>0, <1>1, <2>3 DEF Stop, TypeInv, TypeOK, Stages
  <1>2. CASE Initialize
    <2>1. db' \in Tables /\ Cardinality(db'.runs) <= RunLimit
      BY <1>0, <1>2, BootTyping DEF Initialize
    <2>2. server' \in Stages /\ UNCHANGED <<lock, queue, call, live>>
      BY <1>2 DEF Initialize, Stages
    <2> QED BY <1>0, <2>1, <2>2 DEF TypeInv, TypeOK, StartsARun
  <1>3. CASE Migrate
    <2>1. PICK stale \in SUBSET (Runs \union {SeedRun}) :
              db' \in Prunings(Recovered(db, stale), NoRun)
      BY <1>3 DEF Migrate
    <2>2. db' \in Tables /\ Cardinality(db'.runs) <= RunLimit
      BY <1>0, <2>1, BootTyping
    <2>3. server' \in Stages /\ UNCHANGED <<lock, queue, call, live>>
      BY <1>3 DEF Migrate, Stages
    <2> QED BY <1>0, <2>2, <2>3 DEF TypeInv, TypeOK, StartsARun
  <1>4. ASSUME NEW c \in Calls, NEW op \in Operations, Invoke(c, op) PROVE TypeInv'
    <2>1. call' \in [Calls -> CallSet] /\ \A x \in Calls : StartsARun(x)'
      BY <1>4, InvokeTyped
    <2> QED BY <1>0, <1>4, <2>1 DEF Invoke, TypeInv, TypeOK
  <1>5. ASSUME NEW c \in Calls, Begin(c) PROVE TypeInv'
    <2>1. call[c].draft \in Tables \union {Nothing}
      BY <1>0
    <2>2. call' \in [Calls -> CallSet] /\ \A x \in Calls : StartsARun(x)'
      BY <1>5, <2>1, GotoTyped DEF Begin, PCs
    <2> QED BY <1>0, <1>5, <2>2 DEF Begin, TypeInv, TypeOK
  <1>6. ASSUME NEW c \in Calls, Lock(c) PROVE TypeInv'
    <2>1. [ws |-> db.ws, runs |-> {}] \in Tables
      BY <1>0, FS_EmptySet DEF Tables
    <2>2. call' \in [Calls -> CallSet] /\ \A x \in Calls : StartsARun(x)'
      BY <1>6, <2>1, GotoTyped DEF Lock, PCs
    <2> QED BY <1>0, <1>6, <2>2 DEF Lock, TypeInv, TypeOK
  <1>7. ASSUME NEW c \in Calls, Load(c) PROVE TypeInv'
    <2>1. [ws |-> call[c].draft.ws, runs |-> db.runs] = db
      BY <1>7 DEF Load, Inv, Current, TwoTables
    <2>2. PICK new \in IF IsUpdate(c) THEN Effects(call[c].op, db) ELSE Served(db) :
              Goto(c, "loaded", new)
      BY <1>7, <2>1 DEF Load
    <2>3. new \in Tables
      BY <1>0, PendingEffect, BootTyping DEF IsUpdate
    <2>4. call' \in [Calls -> CallSet] /\ \A x \in Calls : StartsARun(x)'
      BY <2>2, <2>3, GotoTyped DEF PCs
    <2> QED BY <1>0, <1>7, <2>4 DEF Load, TypeInv, TypeOK
  <1>8. ASSUME NEW c \in Calls, Commit(c) PROVE TypeInv'
    <2>1. call[c].draft \in Tables \union {Nothing}
      BY <1>0
    <2>2. call' \in [Calls -> CallSet] /\ \A x \in Calls : StartsARun(x)'
      BY <1>8, <2>1, GotoTyped DEF Commit, PCs
    <2>3. IF IsUpdate(c) THEN db' \in Effects(call[c].op, db) ELSE db' = db
      BY <1>8 DEF Commit, Inv, Current, IsUpdate
    <2>4. db' \in Tables /\ Cardinality(db'.runs) <= RunLimit
      BY <1>0, <2>3, PendingEffect DEF IsUpdate
    <2> QED BY <1>0, <1>8, <2>2, <2>4 DEF Commit, TypeInv, TypeOK
  <1>9. ASSUME NEW c \in Calls, Resolve(c) PROVE TypeInv'
    <2>1. call' \in [Calls -> CallSet] /\ \A x \in Calls : StartsARun(x)'
      BY <1>9, IdleTyped DEF Resolve, Results
    <2>2. call[c].op \in Operations
      BY <1>9 DEF Resolve, Inv, Consistent
    <2>3. call[c].op.kind = "start" => call[c].op.run \in Runs
      BY <2>2 DEF Operations, Reads, TypeInv, StartsARun
    <2> QED BY <1>0, <1>9, <2>1, <2>3 DEF Resolve, TypeInv, TypeOK
  <1>10. ASSUME NEW c \in Calls, Reject(c) PROVE TypeInv'
    <2>1. call' \in [Calls -> CallSet] /\ \A x \in Calls : StartsARun(x)'
      BY <1>10, IdleTyped DEF Reject, Results
    <2> QED BY <1>0, <1>10, <2>1 DEF Reject, TypeInv, TypeOK
  <1>11. CASE UNCHANGED vars
    BY <1>0, <1>11 DEF vars, TypeInv, TypeOK, StartsARun
  <1> QED BY <1>1, <1>2, <1>3, <1>4, <1>5, <1>6, <1>7, <1>8, <1>9, <1>10, <1>11
          DEF Next, Transact

(* Every variable of the store has its type, and no stored table of runs is  *)
(* longer than RunLimit: every write, at startup or by an update, prunes.    *)
THEOREM StoreTyped == Spec => []TypeOK
  <1>1. TypeInv => TypeOK
    BY DEF TypeInv
  <1> QED BY <1>1, InitInv, NextStep, InitTyped, TypeStep, PTL DEF Spec

-------------------------------------------------------------------------------
(* Every stored row of the run is open. *)
AllOpen(r, t) == \A row \in t.runs : row.run = r => row.open

(* A pending update starts or ends the run. *)
Concerns(c, r) ==
    call[c].op \in Updates /\ call[c].op.kind \in {"start", "end"} /\ call[c].op.run = r

(* No two pending calls start or end one run, *)
OneCallPerRun == \A c, d \in Calls : \A r : Concerns(c, r) /\ Concerns(d, r) => c = d

(* none starts or ends a run that is live: Invoke of its end has taken it    *)
(* out, and Resolve of its start has yet to put it in;                       *)
NoCallOnLiveRun == \A c \in Calls : \A r \in live : ~ Concerns(c, r)

(* until a start is answered, nothing has closed its row,                    *)
StartsAreOpen ==
    \A c \in Calls :
        call[c].op \in Updates => (call[c].op.kind = "start" => AllOpen(call[c].op.run, db))

(* and until it is committed, its run has none.                              *)
FreshStarts ==
    \A c \in Calls :
        call[c].op \in Updates =>
            (call[c].op.kind = "start" /\ call[c].pc # "committed" =>
                ~ HasRun(db, call[c].op.run))

LiveInv ==
    /\ OneCallPerRun
    /\ NoCallOnLiveRun
    /\ StartsAreOpen
    /\ FreshStarts
    /\ \A r \in live : AllOpen(r, db)
    /\ server # "up" => live = {}

(* Only its own end closes the row of a run, and only its start adds one. *)
LEMMA MutatedRows ==
    ASSUME NEW op \in Updates, NEW t \in Tables, NEW row \in Mutated(op, t).runs
    PROVE  \/ op.kind = "start" /\ row.run = op.run /\ row.open
           \/ \E old \in t.runs :
                 old.run = row.run /\ ((op.kind = "end" /\ op.run = row.run) \/ row = old)
  <1>0. op.kind \in Kinds /\ Record(t) /\ t.runs \subseteq Rows /\ IsFiniteSet(t.runs)
    BY TableFields DEF Updates
  <1>1. CASE op.kind = "create"
    <2>1. Mutated(op, t) = [ws |-> t.ws \union {op.ws}, runs |-> t.runs]
      BY <1>0, <1>1, MutatedFields
    <2> QED BY <2>1
  <1>2. CASE op.kind = "delete"
    <2>1. Mutated(op, t) = [ws |-> t.ws \ {op.ws}, runs |-> {r \in t.runs : r.ws # op.ws}]
      BY <1>0, <1>2, MutatedFields
    <2>2. row \in t.runs
      BY <2>1
    <2> QED BY <2>2
  <1>3. CASE op.kind = "start"
    <2> DEFINE new == [run |-> op.run, ws |-> op.ws, open |-> TRUE]
    <2>1. Mutated(op, t) = [ws |-> t.ws, runs |-> t.runs \union {new}]
      BY <1>0, <1>3, MutatedFields
    <2>2. row \in t.runs \/ row = new
      <3> HIDE DEF new
      <3> QED BY <2>1
    <2>3. CASE row \in t.runs
      BY <2>3
    <2>4. CASE row = new
      BY <1>3, <2>4
    <2> QED BY <2>2, <2>3, <2>4
  <1>4. CASE op.kind = "end"
    <2> DEFINE rows == Ended(t.runs, {op.run})
    <2>1. Mutated(op, t) = [ws |-> t.ws, runs |-> rows]
      BY <1>0, <1>4, MutatedFields
    <2>2. \A new \in rows : \E old \in t.runs :
              old.run = new.run /\ (old.run \notin {op.run} => new = old)
      BY <1>0, EndedFacts
    <2> HIDE DEF rows
    <2>3. PICK old \in t.runs : old.run = row.run /\ (old.run \notin {op.run} => row = old)
      BY <2>1, <2>2
    <2> QED BY <1>4, <2>3
  <1> QED BY <1>0, <1>1, <1>2, <1>3, <1>4 DEF Kinds

LEMMA OpenAfterEffect ==
    ASSUME NEW op \in Updates, op.kind = "start" => op.run \in Runs, NEW t \in Tables,
           NEW u \in Effects(op, t), NEW r
    PROVE  /\ (op.kind = "end" => op.run # r) /\ AllOpen(r, t) => AllOpen(r, u)
           /\ (op.kind = "start" => op.run # r) /\ ~ HasRun(t, r) => ~ HasRun(u, r)
  <1>1. Mutated(op, t) \in Tables
    BY MutatedTyping
  <1>2. u.runs \subseteq Mutated(op, t).runs
    BY <1>1, PruningTyping DEF Effects
  <1>3. ASSUME NEW row \in u.runs, row.run = r
        PROVE  \/ op.kind = "start" /\ op.run = r /\ row.open
               \/ \E old \in t.runs :
                     old.run = r /\ ((op.kind = "end" /\ op.run = r) \/ row = old)
    BY <1>2, <1>3, MutatedRows
  <1>4. ASSUME op.kind = "end" => op.run # r, AllOpen(r, t), NEW row \in u.runs, row.run = r
        PROVE  row.open
    BY <1>3, <1>4 DEF AllOpen
  <1>5. ASSUME op.kind = "start" => op.run # r, NEW row \in u.runs, row.run = r
        PROVE  HasRun(t, r)
    BY <1>3, <1>5 DEF HasRun
  <1> QED BY <1>4, <1>5 DEF AllOpen, HasRun

LEMMA InitLive == Init => LiveInv
  BY DEF Init, IdleCall, LiveInv, OneCallPerRun, NoCallOnLiveRun, StartsAreOpen, FreshStarts,
         Concerns, Operations

(* A step that changes no operation, no table and no live run. *)
LEMMA LiveKept ==
    ASSUME LiveInv, UNCHANGED <<db, live, server>>,
           \A c \in Calls : \/ call'[c].op = call[c].op /\ call[c].pc # "committed"
                            \/ call'[c] = call[c]
    PROVE  LiveInv'
  BY DEF LiveInv, OneCallPerRun, NoCallOnLiveRun, StartsAreOpen, FreshStarts, Concerns, AllOpen

LEMMA GotoOps ==
    ASSUME TypeInv, NEW c \in Calls, NEW p, NEW d, Goto(c, p, d)
    PROVE  /\ \A x \in Calls : call'[x].op = call[x].op
           /\ \A x \in Calls \ {c} : call'[x] = call[x]
           /\ call'[c].pc = p
  <1>1. call \in [Calls -> CallSet]
    BY DEF TypeInv, TypeOK, CallSet
  <1> QED BY <1>1 DEF Goto

LEMMA InvokeLive ==
    ASSUME Inv, TypeInv, LiveInv, NEW c \in Calls, NEW op \in Operations, Invoke(c, op)
    PROVE  LiveInv'
  <1>1. call' \in [Calls -> CallSet] /\ call'[c].op = op /\ \A x \in Calls \ {c} : call'[x] = call[x]
    <2>1. call \in [Calls -> CallSet]
      BY DEF TypeInv, TypeOK, CallSet
    <2> QED BY <2>1, InvokeTyped DEF Invoke
  <1>2. server = "up" /\ UNCHANGED <<db, server>> /\ Sensible(op)
        /\ live' = IF op.kind = "end" THEN live \ {op.run} ELSE live
    BY DEF Invoke
  <1>3. \A x \in Calls \ {c} : \A r : Concerns(x, r)' <=> Concerns(x, r)
    BY <1>1 DEF Concerns
  <1>4. \A r : Concerns(c, r)' =>
            /\ op \in Updates /\ op.run = r
            /\ \/ op.kind = "start" /\ ~ Started(r)
               \/ op.kind = "end" /\ r \in live
    BY <1>1, <1>2 DEF Concerns, Sensible
  <1>5. \A x \in Calls \ {c} : \A r : Concerns(c, r)' => ~ Concerns(x, r)
    <2> SUFFICES ASSUME NEW x \in Calls \ {c}, NEW r, Concerns(c, r)', Concerns(x, r) PROVE FALSE
      OBVIOUS
    <2>1. Started(r)
      BY DEF Concerns, Started, Operations
    <2>2. r \notin live
      BY DEF LiveInv, NoCallOnLiveRun
    <2> QED BY <1>4, <2>1, <2>2
  <1>6. \A r \in live' : ~ Concerns(c, r)'
    <2> SUFFICES ASSUME NEW r \in live', Concerns(c, r)' PROVE FALSE
      OBVIOUS
    <2>1. r \in live
      BY <1>2
    <2>2. CASE op.kind = "start"
      BY <1>4, <2>1, <2>2 DEF Started
    <2>3. CASE op.kind = "end"
      BY <1>2, <1>4, <2>3
    <2> QED BY <1>4, <2>2, <2>3
  <1>7. live' \subseteq live
    BY <1>2
  <1>8. OneCallPerRun'
    BY <1>3, <1>5 DEF LiveInv, OneCallPerRun
  <1>9. NoCallOnLiveRun'
    BY <1>3, <1>6, <1>7 DEF LiveInv, NoCallOnLiveRun
  <1>10. StartsAreOpen'
    <2> SUFFICES ASSUME NEW x \in Calls, call'[x].op \in Updates, call'[x].op.kind = "start"
                 PROVE  AllOpen(call'[x].op.run, db')
      BY DEF StartsAreOpen
    <2>1. CASE x = c
      <3>1. ~ Started(op.run)
        BY <1>1, <1>2, <2>1 DEF Sensible
      <3>2. AllOpen(op.run, db)
        BY <3>1 DEF Started, HasRun, AllOpen
      <3> QED BY <1>1, <1>2, <2>1, <3>2
    <2>2. CASE x # c
      BY <1>1, <1>2, <2>2 DEF LiveInv, StartsAreOpen
    <2> QED BY <2>1, <2>2
  <1>11. FreshStarts'
    BY <1>1, <1>2 DEF LiveInv, FreshStarts, Sensible, Started, HasRun
  <1> QED BY <1>2, <1>7, <1>8, <1>9, <1>10, <1>11 DEF LiveInv

LEMMA CommitLive ==
    ASSUME Inv, TypeInv, LiveInv, NEW c \in Calls, Commit(c)
    PROVE  LiveInv'
  <1>1. /\ \A x \in Calls : call'[x].op = call[x].op
        /\ \A x \in Calls \ {c} : call'[x] = call[x]
        /\ call'[c].pc = "committed"
    BY GotoOps DEF Commit
  <1>2. UNCHANGED <<server, live>>
    BY DEF Commit
  <1>3. IF call[c].op \in Updates THEN db' \in Effects(call[c].op, db) ELSE db' = db
    BY DEF Commit, IsUpdate, Inv, Current
  <1>4. ASSUME NEW r, AllOpen(r, db), ~ Concerns(c, r) \/ call[c].op.kind = "start"
        PROVE  AllOpen(r, db')
    <2>1. CASE call[c].op \in Updates
      <3>1. call[c].op.kind = "end" => call[c].op.run # r
        BY <1>4, <2>1 DEF Concerns
      <3>2. call[c].op.kind = "start" => call[c].op.run \in Runs
        BY <2>1 DEF TypeInv, StartsARun
      <3> QED BY <1>3, <1>4, <2>1, <3>1, <3>2, OpenAfterEffect DEF TypeInv, TypeOK
    <2>2. CASE call[c].op \notin Updates
      BY <1>3, <1>4, <2>2
    <2> QED BY <2>1, <2>2
  <1>5. \A r \in live' : AllOpen(r, db')
    BY <1>2, <1>4 DEF LiveInv, NoCallOnLiveRun
  <1>6. StartsAreOpen'
    <2> SUFFICES ASSUME NEW x \in Calls, call[x].op \in Updates, call[x].op.kind = "start"
                 PROVE  AllOpen(call[x].op.run, db')
      BY <1>1 DEF StartsAreOpen
    <2>1. AllOpen(call[x].op.run, db)
      BY DEF LiveInv, StartsAreOpen
    <2>2. Concerns(x, call[x].op.run)
      BY DEF Concerns
    <2>3. ~ Concerns(c, call[x].op.run) \/ call[c].op.kind = "start"
      BY <2>2 DEF LiveInv, OneCallPerRun
    <2> QED BY <1>4, <2>1, <2>3
  <1>7. OneCallPerRun' /\ NoCallOnLiveRun'
    BY <1>1, <1>2 DEF LiveInv, OneCallPerRun, NoCallOnLiveRun, Concerns
  <1>8. FreshStarts'
    <2> SUFFICES ASSUME NEW x \in Calls, call[x].op \in Updates, call[x].op.kind = "start",
                        call'[x].pc # "committed"
                 PROVE  ~ HasRun(db', call[x].op.run)
      BY <1>1 DEF FreshStarts
    <2>1. x # c /\ ~ HasRun(db, call[x].op.run)
      BY <1>1 DEF LiveInv, FreshStarts
    <2>2. CASE call[c].op \in Updates
      <3>1. call[c].op.kind = "start" => call[c].op.run # call[x].op.run
        BY <2>1, <2>2 DEF LiveInv, OneCallPerRun, Concerns
      <3>2. call[c].op.kind = "start" => call[c].op.run \in Runs
        BY <2>2 DEF TypeInv, StartsARun
      <3> QED BY <1>3, <2>1, <2>2, <3>1, <3>2, OpenAfterEffect DEF TypeInv, TypeOK
    <2>3. CASE call[c].op \notin Updates
      BY <1>3, <2>1, <2>3
    <2> QED BY <2>2, <2>3
  <1> QED BY <1>2, <1>5, <1>6, <1>7, <1>8 DEF LiveInv

(* An answered call is out of the way. *)
LEMMA AnsweredLive ==
    ASSUME Inv, TypeInv, LiveInv, NEW c \in Calls, NEW result \in Results,
           call' = [call EXCEPT ![c] = IdleCall(result)], UNCHANGED <<db, server>>
    PROVE  /\ OneCallPerRun' /\ StartsAreOpen' /\ FreshStarts'
           /\ \A r : ~ Concerns(c, r)'
           /\ \A x \in Calls : \A r : Concerns(x, r)' => Concerns(x, r)
  <1>1. call \in [Calls -> CallSet]
    BY DEF TypeInv, TypeOK, CallSet
  <1>2. call'[c].op \notin Updates /\ \A x \in Calls \ {c} : call'[x] = call[x]
    BY <1>1 DEF IdleCall, Operations
  <1>3. \A r : ~ Concerns(c, r)'
    BY <1>2 DEF Concerns
  <1>4. \A x \in Calls : \A r : Concerns(x, r)' => Concerns(x, r)
    BY <1>2 DEF Concerns
  <1>5. OneCallPerRun'
    BY <1>4 DEF LiveInv, OneCallPerRun
  <1>6. StartsAreOpen' /\ FreshStarts'
    BY <1>2 DEF LiveInv, StartsAreOpen, FreshStarts
  <1> QED BY <1>3, <1>4, <1>5, <1>6

LEMMA ResolveLive ==
    ASSUME Inv, TypeInv, LiveInv, NEW c \in Calls, Resolve(c)
    PROVE  LiveInv'
  <1>1. /\ OneCallPerRun' /\ StartsAreOpen' /\ FreshStarts'
        /\ \A r : ~ Concerns(c, r)'
        /\ \A x \in Calls : \A r : Concerns(x, r)' => Concerns(x, r)
    BY AnsweredLive DEF Resolve, Results
  <1>2. /\ live' = IF call[c].op.kind = "start" THEN live \union {call[c].op.run} ELSE live
        /\ UNCHANGED <<db, server>> /\ call[c].pc = "committed"
    BY DEF Resolve
  <1>3. call[c].op.kind = "start" =>
            call[c].op \in Updates /\ Concerns(c, call[c].op.run) /\ AllOpen(call[c].op.run, db)
    <2>1. call[c].op \in Operations
      BY <1>2 DEF Inv, Consistent
    <2>2. call[c].op.kind = "start" => call[c].op \in Updates
      BY <2>1 DEF Operations, Reads
    <2> QED BY <2>2 DEF Concerns, LiveInv, StartsAreOpen
  <1>4. NoCallOnLiveRun'
    <2> SUFFICES ASSUME NEW x \in Calls, NEW r \in live', Concerns(x, r)' PROVE FALSE
      BY DEF NoCallOnLiveRun
    <2>1. Concerns(x, r) /\ x # c
      BY <1>1
    <2>2. r \notin live
      BY <2>1 DEF LiveInv, NoCallOnLiveRun
    <2>3. Concerns(c, r)
      BY <1>2, <1>3, <2>2
    <2> QED BY <2>1, <2>3 DEF LiveInv, OneCallPerRun
  <1>5. \A r \in live' : AllOpen(r, db')
    BY <1>2, <1>3 DEF LiveInv
  <1>6. server' = "up"
    BY <1>2 DEF Inv, QuietStart
  <1> QED BY <1>1, <1>4, <1>5, <1>6 DEF LiveInv

LEMMA BootLive ==
    ASSUME Inv, LiveInv, Initialize \/ Migrate
    PROVE  LiveInv'
  <1>1. server # "up" /\ UNCHANGED <<call, live>>
    BY DEF Initialize, Migrate, Migrating
  <1>2. live' = {} /\ \A c \in Calls : call'[c].op \notin Updates
    BY <1>1 DEF LiveInv, Inv, QuietStart, Consistent, Operations
  <1> QED BY <1>2 DEF LiveInv, OneCallPerRun, NoCallOnLiveRun, StartsAreOpen, FreshStarts,
              Concerns

LEMMA LiveStep == Inv /\ TypeInv /\ LiveInv /\ [Next]_vars => LiveInv'
  <1> SUFFICES ASSUME Inv, TypeInv, LiveInv, [Next]_vars PROVE LiveInv'
    OBVIOUS
  <1>1. CASE Stop
    <2>1. live' = {} /\ \A c \in Calls : call'[c].op \notin Updates
      BY <1>1 DEF Stop, IdleCall, Operations
    <2> QED BY <2>1 DEF LiveInv, OneCallPerRun, NoCallOnLiveRun, StartsAreOpen, FreshStarts,
              Concerns
  <1>2. CASE Initialize \/ Migrate
    BY <1>2, BootLive
  <1>3. ASSUME NEW c \in Calls, NEW op \in Operations, Invoke(c, op) PROVE LiveInv'
    BY <1>3, InvokeLive
  <1>4. ASSUME NEW c \in Calls, Begin(c) PROVE LiveInv'
    BY <1>4, GotoOps, LiveKept DEF Begin, Turn
  <1>5. ASSUME NEW c \in Calls, Lock(c) PROVE LiveInv'
    BY <1>5, GotoOps, LiveKept DEF Lock
  <1>6. ASSUME NEW c \in Calls, Load(c) PROVE LiveInv'
    BY <1>6, GotoOps, LiveKept DEF Load
  <1>7. ASSUME NEW c \in Calls, Commit(c) PROVE LiveInv'
    BY <1>7, CommitLive
  <1>8. ASSUME NEW c \in Calls, Resolve(c) PROVE LiveInv'
    BY <1>8, ResolveLive
  <1>9. ASSUME NEW c \in Calls, Reject(c) PROVE LiveInv'
    <2>1. UNCHANGED <<db, live, server>> /\ OneCallPerRun' /\ StartsAreOpen' /\ FreshStarts'
          /\ \A x \in Calls : \A r : Concerns(x, r)' => Concerns(x, r)
      BY <1>9, AnsweredLive DEF Reject, Results
    <2> QED BY <2>1 DEF LiveInv, NoCallOnLiveRun, AllOpen
  <1>10. CASE UNCHANGED vars
    BY <1>10, LiveKept DEF vars
  <1> QED BY <1>1, <1>2, <1>3, <1>4, <1>5, <1>6, <1>7, <1>8, <1>9, <1>10 DEF Next, Transact

(* No retry, restart or other dispatch ends a run that this process has      *)
(* started and not ended: recovery closes runs before the first call is      *)
(* taken, and no two pending updates are about one run.                      *)
THEOREM LiveRunsOpen == Spec => []LiveRunsStayOpen
  <1>1. LiveInv => LiveRunsStayOpen
    BY DEF LiveInv, AllOpen, LiveRunsStayOpen
  <1> QED BY <1>1, InitInv, NextStep, InitTyped, TypeStep, InitLive, LiveStep, PTL DEF Spec

-------------------------------------------------------------------------------
(* What the change from t to u may drop: rows of a workspace that is gone,   *)
(* any rows of a database that was empty, and of a full table those that     *)
(* started before all that it leaves of t.                                   *)
MayDrop(t, u, row) ==
    \/ row.ws \notin u.ws \/ t.ws = {}
    \/ /\ Cardinality(u.runs) = RunLimit
       /\ \A other \in u.runs :
            HasRun(t, other.run) => StartedAt[row.run] <= StartedAt[other.run]

DropsOldRuns(t, u) ==
    \A row \in t.runs : ~ HasRun(u, row.run) => MayDrop(t, u, row)

(* An update drops no others. *)
LEMMA EffectDrops ==
    ASSUME NEW op \in Updates, NEW t \in Tables, Cardinality(t.runs) <= RunLimit,
           op.kind = "start" => op.run \in Runs /\ ~ HasRun(t, op.run), NEW u \in Effects(op, t)
    PROVE  DropsOldRuns(t, u)
  <1>0. /\ op.kind \in Kinds /\ Record(t) /\ RunLimit \in Nat
        /\ t.runs \subseteq Rows /\ IsFiniteSet(t.runs) /\ Cardinality(t.runs) \in Nat
    BY TableFields, RunLimitAssumption DEF Updates
  <1> DEFINE m == Mutated(op, t)
  <1>1. /\ m \in Tables /\ u \in Prunings(m, Pushed(op))
        /\ op.kind # "start" => Cardinality(m.runs) <= Cardinality(t.runs)
    BY MutatedTyping DEF Effects
  <1> HIDE DEF m
  <1>2. /\ m.runs \subseteq Rows /\ IsFiniteSet(m.runs) /\ Cardinality(m.runs) \in Nat
        /\ u.ws = m.ws /\ u.runs \in Retentions(m.runs, Pushed(op))
    BY <1>1, TableFields, PruningRecord
  <1>3. CASE op.kind # "start"
    <2>1. u.runs = m.runs /\ u.ws = m.ws
      <3>1. Cardinality(m.runs) <= RunLimit
        BY <1>0, <1>1, <1>2, <1>3
      <3> QED BY <1>2, <3>1, RetentionFacts
    <2>2. CASE op.kind = "create"
      <3>1. m = [ws |-> t.ws \union {op.ws}, runs |-> t.runs]
        BY <1>0, <2>2, MutatedFields DEF m
      <3> QED BY <2>1, <3>1 DEF DropsOldRuns, HasRun
    <2>3. CASE op.kind = "end"
      <3> DEFINE rows == Ended(t.runs, {op.run})
      <3>1. m = [ws |-> t.ws, runs |-> rows]
        BY <1>0, <2>3, MutatedFields DEF m
      <3>2. \A row \in t.runs : \E new \in rows : new.run = row.run
        BY <1>0, EndedFacts
      <3> HIDE DEF rows
      <3> QED BY <2>1, <3>1, <3>2 DEF DropsOldRuns, HasRun
    <2>4. CASE op.kind = "delete"
      <3>1. m = [ws |-> t.ws \ {op.ws}, runs |-> {row \in t.runs : row.ws # op.ws}]
        BY <1>0, <2>4, MutatedFields DEF m
      <3>2. ASSUME NEW row \in t.runs, ~ HasRun(u, row.run)
            PROVE  row.ws \notin u.ws
        BY <2>1, <3>1, <3>2 DEF HasRun
      <3> QED BY <3>2 DEF DropsOldRuns, MayDrop
    <2> QED BY <1>0, <1>3, <2>2, <2>3, <2>4 DEF Kinds
  <1>4. CASE op.kind = "start"
    <2> DEFINE new == [run |-> op.run, ws |-> op.ws, open |-> TRUE]
    <2>1. m = [ws |-> t.ws, runs |-> t.runs \union {new}] /\ Pushed(op) = op.run
      BY <1>0, <1>4, MutatedFields DEF m, Pushed
    <2>2. new.run = op.run
      OBVIOUS
    <2> HIDE DEF new
    <2>3. m.runs = t.runs \union {new}
      BY <2>1
    <2>4. CASE Cardinality(m.runs) <= RunLimit
      <3>1. u.runs = m.runs
        BY <1>2, <2>4, RetentionFacts
      <3> QED BY <2>3, <3>1 DEF DropsOldRuns, HasRun
    <2>5. CASE ~ (Cardinality(m.runs) <= RunLimit)
      <3>1. /\ Cardinality(u.runs) = RunLimit /\ u.runs \subseteq m.runs
            /\ \A cut \in m.runs \ u.runs : \A row \in u.runs : MayPrecede(cut, row, op.run)
        BY <1>2, <2>1, <2>5, RetentionFacts
      <3>2. ASSUME NEW row \in t.runs, ~ HasRun(u, row.run),
                   NEW other \in u.runs, HasRun(t, other.run)
            PROVE  StartedAt[row.run] <= StartedAt[other.run]
        <4>1. row \in m.runs \ u.runs
          BY <2>3, <3>2 DEF HasRun
        <4>2. other.run # op.run
          BY <1>4, <3>2
        <4> QED BY <3>1, <4>1, <4>2 DEF MayPrecede
      <3> QED BY <3>1, <3>2 DEF DropsOldRuns, MayDrop
    <2> QED BY <2>4, <2>5
  <1> QED BY <1>3, <1>4

(* Neither does the startup. *)
LEMMA BootDrops ==
    ASSUME NEW t \in Tables, Cardinality(t.runs) <= RunLimit
    PROVE  /\ \A u \in Initialized(t) : DropsOldRuns(t, u)
           /\ \A stale : \A u \in Prunings(Recovered(t, stale), NoRun) : DropsOldRuns(t, u)
  <1>0. /\ Record(t) /\ RunLimit \in Nat
        /\ t.runs \subseteq Rows /\ IsFiniteSet(t.runs) /\ Cardinality(t.runs) \in Nat
    BY TableFields, RunLimitAssumption
  <1>1. ASSUME NEW u \in Initialized(t)
        PROVE  DropsOldRuns(t, u)
    <2>1. CASE t.ws = {}
      BY <2>1 DEF DropsOldRuns, MayDrop
    <2>2. CASE t.ws # {}
      <3>1. u.runs = t.runs
        BY <1>1, <2>2, PruningTyping DEF Initialized
      <3> QED BY <3>1 DEF DropsOldRuns, HasRun
    <2> QED BY <2>1, <2>2
  <1>2. ASSUME NEW stale, NEW u \in Prunings(Recovered(t, stale), NoRun)
        PROVE  DropsOldRuns(t, u)
    <2> DEFINE rows == Ended(t.runs, stale)
               w == Recovered(t, stale)
    <2>1. w = [ws |-> t.ws, runs |-> rows]
      BY <1>0, MutatedFields
    <2>2. w \in Tables /\ Cardinality(w.runs) <= Cardinality(t.runs)
      BY RecoveredTyping
    <2> HIDE DEF w
    <2>3. Cardinality(w.runs) <= RunLimit
      <3>1. Cardinality(w.runs) \in Nat
        BY <2>2, TableFields
      <3> QED BY <1>0, <2>2, <3>1
    <2>4. u.runs = w.runs
      BY <1>2, <2>2, <2>3, PruningTyping DEF w
    <2>5. \A row \in t.runs : \E new \in rows : new.run = row.run
      BY <1>0, EndedFacts
    <2> HIDE DEF rows
    <2> QED BY <2>1, <2>4, <2>5 DEF DropsOldRuns, HasRun
  <1> QED BY <1>1, <1>2

LEMMA DropStep ==
    ASSUME Inv, TypeInv, LiveInv, [Next]_vars
    PROVE  db' = db \/ DropsOldRuns(db, db')
  <1>0. db \in Tables /\ Cardinality(db.runs) <= RunLimit
    BY DEF TypeInv, TypeOK
  <1>1. CASE Initialize
    BY <1>0, <1>1, BootDrops DEF Initialize
  <1>2. CASE Migrate
    <2>1. PICK stale \in SUBSET (Runs \union {SeedRun}) :
              db' \in Prunings(Recovered(db, stale), NoRun)
      BY <1>2 DEF Migrate
    <2> QED BY <1>0, <2>1, BootDrops
  <1>3. ASSUME NEW c \in Calls, Commit(c) PROVE db' = db \/ DropsOldRuns(db, db')
    <2>1. CASE call[c].op \in Updates
      <3>1. db' \in Effects(call[c].op, db) /\ call[c].pc = "loaded"
        BY <1>3, <2>1 DEF Commit, IsUpdate, Inv, Current
      <3>2. call[c].op.kind = "start" => call[c].op.run \in Runs /\ ~ HasRun(db, call[c].op.run)
        BY <2>1, <3>1 DEF TypeInv, StartsARun, LiveInv, FreshStarts
      <3> QED BY <1>0, <2>1, <3>1, <3>2, EffectDrops
    <2>2. CASE call[c].op \notin Updates
      BY <1>3, <2>2 DEF Commit, IsUpdate
    <2> QED BY <2>1, <2>2
  <1>4. CASE Stop \/ UNCHANGED vars
    BY <1>4 DEF Stop, vars
  <1>5. ASSUME NEW c \in Calls, NEW op \in Operations, Invoke(c, op) PROVE db' = db
    BY <1>5 DEF Invoke
  <1>6. ASSUME NEW c \in Calls, Begin(c) \/ Lock(c) \/ Load(c) \/ Resolve(c) \/ Reject(c)
        PROVE  db' = db
    BY <1>6 DEF Begin, Lock, Load, Resolve, Reject
  <1> QED BY <1>1, <1>2, <1>3, <1>4, <1>5, <1>6 DEF Next, Transact

(* An open run leaves the table only with its workspace, from a database     *)
(* without workspaces at startup, or from a full table of which it was one   *)
(* of the first to start: whatever the stamps, the limit and the order in    *)
(* which the rows are stored, the only run that may stay although it started *)
(* earlier is the one whose row the same update has pushed.                  *)
THEOREM OldRunsDropped == Spec => OnlyOldRunsAreDropped
  <1>1. ASSUME Inv, TypeInv, LiveInv, [Next]_vars
        PROVE  \A row \in db.runs :
                  row.open /\ ~ HasRun(db', row.run) =>
                      \/ row.ws \notin db'.ws \/ db.ws = {}
                      \/ /\ Cardinality(db'.runs) = RunLimit
                         /\ \A other \in db'.runs :
                              HasRun(db, other.run) => StartedAt[row.run] <= StartedAt[other.run]
    <2>1. CASE db' = db
      BY <2>1 DEF HasRun
    <2>2. CASE DropsOldRuns(db, db')
      BY <2>2 DEF DropsOldRuns, MayDrop
    <2> QED BY <1>1, <2>1, <2>2, DropStep
  <1> QED BY <1>1, InitInv, NextStep, InitTyped, TypeStep, InitLive, LiveStep, PTL
          DEF Spec, OnlyOldRunsAreDropped
================================================================================
