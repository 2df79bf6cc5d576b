------------------------------- MODULE StateStore -------------------------------
(***************************************************************************)
(* The PostgreSQL state store of the agent server                          *)
(* (src/agentHub/src/server/store/postgres.ts): update() queues its         *)
(* transaction behind those of the earlier calls, read() runs at once, and  *)
(* both take one advisory lock before the first table is read.              *)
(***************************************************************************)
EXTENDS StateTables

CONSTANTS
    Calls,      \* calls of update() and read() that may be under way at once
    NoCall,     \* nobody holds the lock
    Nothing

ASSUME NothingAssumption == NoCall \notin Calls /\ Nothing \notin Operations \union Tables

VARIABLES
    server,   \* "up", or a stage of starting it
    db,       \* the committed tables
    lock,     \* the transaction that holds the advisory lock
    queue,    \* updateQueue: updates called and not answered, in call order
    call,     \* each call's progress
    live      \* runs that dispatches of this process have started and not ended

vars == <<server, db, lock, queue, call, live>>

Stages == {"down", "migrating", "up"}
PCs == {"idle", "queued", "connecting", "reading", "loaded", "committed"}
Results == {"none", "ok", "error"}
(* Awaits inside a transaction, from the lock to the answer of the commit. *)
Locked == {"reading", "loaded"}

IdleCall(result) ==
    [pc |-> "idle", op |-> Nothing, draft |-> Nothing, result |-> result]

Init ==
    /\ server = "up"
    /\ db = Seed
    /\ lock = NoCall
    /\ queue = << >>
    /\ call = [c \in Calls |-> IdleCall("none")]
    /\ live = {}

IsUpdate(c) == call[c].op \in Updates

-------------------------------------------------------------------------------
(* Calls the program makes: ids are fresh, a run ends after its start was   *)
(* answered, a workspace is deleted or used after it was seen.              *)
Started(r) ==
    \/ HasRun(db, r) \/ r \in live
    \/ \E c \in Calls : call[c].op # Nothing /\ call[c].op.run = r

Sensible(op) ==
    CASE op.kind = "read"   -> TRUE
      [] op.kind = "create" -> op.run = NoRun /\ op.ws \notin db.ws
      [] op.kind = "delete" -> op.run = NoRun /\ op.ws \in db.ws
      [] op.kind = "start"  -> op.run \in Runs /\ op.ws \in db.ws /\ ~ Started(op.run)
      [] op.kind = "end"    -> op.run \in live

(* read() goes for a connection at once; update() chains its transaction to  *)
(* the promise of the last one.                                              *)
Invoke(c, op) ==
    /\ server = "up" /\ call[c].pc = "idle"
    /\ Sensible(op)
    /\ call' = [call EXCEPT ![c] =
        [pc |-> IF op \in Updates THEN "queued" ELSE "connecting",
         op |-> op, draft |-> Nothing, result |-> "none"]]
    /\ queue' = IF op \in Updates THEN Append(queue, c) ELSE queue
    /\ live' = IF op.kind = "end" THEN live \ {op.run} ELSE live
    /\ UNCHANGED <<server, db, lock>>

(* The call goes on to its next await. *)
Goto(c, pc, draft) ==
    call' = [call EXCEPT ![c] =
        [pc |-> pc, op |-> call[c].op, draft |-> draft, result |-> call[c].result]]

(* MUTANT: an update starts its transaction without waiting for the others. *)
AnyTurn(c) == call[c].pc = "queued"

(* The promise before it in the queue has been settled. *)
Turn(c) == call[c].pc = "queued" /\ queue # << >> /\ Head(queue) = c

Begin(c) ==
    /\ Turn(c)
    /\ Goto(c, "connecting", call[c].draft)
    /\ UNCHANGED <<server, db, lock, queue, live>>

(* MUTANT: the transaction begins without the advisory lock. *)
LockIgnored == TRUE

LockFree == lock = NoCall

(* beginStateTransaction, and the first of the table reads. *)
Lock(c) ==
    /\ call[c].pc = "connecting"
    /\ LockFree
    /\ lock' = c
    /\ Goto(c, "reading", [ws |-> db.ws, runs |-> {}])
    /\ UNCHANGED <<server, db, queue, live>>

(* The last table is read. A read has its answer; an update runs its         *)
(* mutator on the draft, prunes it and writes it: a mutator that throws      *)
(* leaves only Reject.                                                       *)
Load(c) ==
    LET read == [ws |-> call[c].draft.ws, runs |-> db.runs] IN
    /\ call[c].pc = "reading"
    /\ ~ Throws(call[c].op, read)
    /\ \E draft \in IF IsUpdate(c) THEN Effects(call[c].op, read) ELSE Served(read) :
           Goto(c, "loaded", draft)
    /\ UNCHANGED <<server, db, lock, queue, live>>

(* PostgreSQL commits and frees the lock. *)
Commit(c) ==
    /\ call[c].pc = "loaded"
    /\ db' = IF IsUpdate(c) THEN call[c].draft ELSE db
    /\ lock' = NoCall
    /\ Goto(c, "committed", call[c].draft)
    /\ UNCHANGED <<server, queue, live>>

(* MUTANT: a rejected update does not let the queue go on. *)
AdvancesOnSuccess(c, result) ==
    IF IsUpdate(c) /\ result = "ok" THEN Tail(queue) ELSE queue

(* Resolved or rejected, the promise of an update lets the next one run. *)
Advanced(c, result) == IF IsUpdate(c) THEN Tail(queue) ELSE queue

(* The answer of the commit arrives and the call resolves. *)
Resolve(c) ==
    /\ call[c].pc = "committed"
    /\ call' = [call EXCEPT ![c] = IdleCall("ok")]
    /\ queue' = Advanced(c, "ok")
    /\ live' = IF call[c].op.kind = "start" THEN live \union {call[c].op.run} ELSE live
    /\ UNCHANGED <<server, db, lock>>

(* No connection, a lock or statement timeout, a mutator that throws, or a   *)
(* commit whose answer is lost: the call rejects after a rollback.           *)
Reject(c) ==
    /\ call[c].pc \notin {"idle", "queued"}
    /\ call' = [call EXCEPT ![c] = IdleCall("error")]
    /\ lock' = IF lock = c THEN NoCall ELSE lock
    /\ queue' = Advanced(c, "error")
    /\ UNCHANGED <<server, db, live>>

-------------------------------------------------------------------------------
(* The process stops: PostgreSQL rolls its open transactions back. *)
Stop ==
    /\ server' = "down"
    /\ lock' = NoCall
    /\ queue' = << >>
    /\ call' = [c \in Calls |-> IdleCall("none")]
    /\ live' = {}
    /\ UNCHANGED db

(* init(): seeds a database without workspaces, or prunes it. *)
Initialize ==
    /\ server = "down"
    /\ server' = "migrating"
    /\ db' \in Initialized(db)
    /\ UNCHANGED <<lock, queue, call, live>>

(* MUTANT: recoverStaleAgentRuns is called while requests are served. *)
MigratingAnytime == server # "down"

Migrating == server = "migrating"

(* The startup update, before any request: open runs old enough to be stale  *)
(* are ended.                                                                *)
Migrate ==
    /\ Migrating
    /\ server' = "up"
    /\ \E stale \in SUBSET (Runs \union {SeedRun}) :
           db' \in Prunings(Recovered(db, stale), NoRun)
    /\ UNCHANGED <<lock, queue, call, live>>

Transact(c) == Lock(c) \/ Load(c) \/ Commit(c) \/ Resolve(c) \/ Reject(c)

Next ==
    \/ Stop \/ Initialize \/ Migrate
    \/ \E c \in Calls :
        \/ \E op \in Operations : Invoke(c, op)
        \/ Begin(c)
        \/ Transact(c)

Spec == Init /\ [][Next]_vars

(* Connecting, the lock and each statement have timeouts, and a settled      *)
(* promise runs the next one; nothing else is assumed to go on.              *)
FairSpec ==
    Spec /\ \A c \in Calls : WF_vars(Begin(c)) /\ WF_vars(Transact(c))

-------------------------------------------------------------------------------
(* Every variable has its type, and the table of runs respects its limit. *)
TypeOK ==
    /\ server \in Stages
    /\ db \in Tables /\ Cardinality(db.runs) <= RunLimit
    /\ lock \in Calls \union {NoCall}
    /\ queue \in Seq(Calls)
    /\ call \in [Calls -> [pc : PCs, op : Operations \union {Nothing},
                           draft : Tables \union {Nothing}, result : Results]]
    /\ live \subseteq Runs

(* What the callers see of a call. *)
Seen(c) ==
    LET k == call[c] IN
    [phase  |-> CASE k.pc = "idle" -> "idle"
                  [] k.pc = "committed" -> "applied"
                  [] k.pc = "loaded" /\ k.op \in Reads -> "applied"
                  [] OTHER -> "waiting",
     op     |-> k.op,
     shown  |-> IF k.op \in Reads /\ k.pc \in {"loaded", "committed"} THEN k.draft ELSE Nothing,
     result |-> k.result]

Register ==
    INSTANCE StateRegister WITH tables <- db, calls <- [c \in Calls |-> Seen(c)],
                                order <- queue

(* The store is an atomic register: the queue and the lock make updates take *)
(* effect one after the other in the order of their calls, on everything     *)
(* earlier ones left, and a read never mixes the tables of two updates,      *)
(* whatever times out, throws, or loses the answer of its commit.            *)
RegisterSpec == Register!Spec

(* An open run leaves the table only with its workspace, or when RunLimit    *)
(* rows are stored and it started no later than any of them, but for the one *)
(* the same update has pushed: a dispatch that was stamped early and stores  *)
(* its row late takes the place of a run that started after it.              *)
OnlyOldRunsAreDropped ==
    [][\A row \in db.runs :
          row.open /\ ~ HasRun(db', row.run) =>
              \/ row.ws \notin db'.ws \/ db.ws = {}
              \/ /\ Cardinality(db'.runs) = RunLimit
                 /\ \A other \in db'.runs :
                      HasRun(db, other.run) => StartedAt[row.run] <= StartedAt[other.run]]_vars

(* A run that a dispatch of this process has started and not ended is open   *)
(* as long as it is stored: no recovery, retry or other call ends it.        *)
LiveRunsStayOpen ==
    \A row \in db.runs : row.run \in live => row.open

(* Every call is answered, unless the process stops: a rejected update lets  *)
(* the queue go on.                                                          *)
CallsAreAnswered == \A c \in Calls : call[c].pc # "idle" ~> call[c].pc = "idle"

(* A read answers what is stored (the comment on read()). *)
ReadsShowDatabase ==
    [][\A c \in Calls :
          call[c].pc = "reading" /\ call'[c].pc = "loaded" /\ call[c].op \in Reads =>
              call'[c].draft = db]_vars

(* A run that a dispatch of this process has open is stored while its        *)
(* workspace is: the dispatch's next update looks it up.                     *)
LiveRunsAreStored ==
    [][\A row \in db.runs :
          row.run \in live \cap live' /\ row.ws \in db'.ws => HasRun(db', row.run)]_vars
================================================================================
