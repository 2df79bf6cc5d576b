------------------------- MODULE PreviewBuildsProofs -------------------------
(***************************************************************************)
(* Proofs about PreviewBuilds, for any workspaces, sources, calls and      *)
(* number of slots: the slot counter and the queue are exact, a running    *)
(* record has a build under way, no workspace stays locked, and the slots  *)
(* implement BuildSlots.                                                   *)
(***************************************************************************)
EXTENDS PreviewBuilds, FiniteSetTheorems, TLAPS

USE PreviewAssumption

(* The slots with the queue, and what ties the records to the calls.       *)
RecordsAgree ==
    /\ \A w \in Workspaces : record[w] # NoBuild =>
           call[record[w]].ws = w /\ call[record[w]].pc \notin Asking
    /\ \A r \in Requests : call[r].pc \in Live <=> call[r].status = "running"
    /\ \A r \in Requests : call[r].pc \in Asking => call[r].status = "none"

IInv ==
    /\ TypeOK
    /\ SlotsAccounted
    /\ NoLostWakeup
    /\ RecordsAgree
    /\ NoWorkspaceLockedOut

LEMMA Repointed ==
    ASSUME NEW c \in Calls, NEW p \in PCs
    PROVE  LET d == [c EXCEPT !.pc = p] IN
           d \in Calls /\ d.pc = p /\ d.status = c.status /\ d.ws = c.ws
BY DEF Calls

LEMMA IdleCallType == IdleCall \in Calls
BY DEF IdleCall, Calls, PCs, Statuses
------------------------------------------------------------------------------
(***************************************************************************)
(* What a step does to the memory of the process, apart from the files.    *)
(***************************************************************************)
Still == UNCHANGED <<record, running, call, slots>>

(* A call asks, or drops out before it registers a build. *)
Asks(r) ==
    /\ call[r].pc \in {"idle", "inspect"}
    /\ \A v \in Workspaces : record[v] # r
    /\ \E c \in Calls : /\ c.pc \in Asking \union {"idle"}
                        /\ c.status = "none"
                        /\ call' = [call EXCEPT ![r] = c]
    /\ UNCHANGED <<record, running, slots>>

(* A build goes on while it keeps its slot. *)
Goes(r) ==
    /\ call[r].pc \in Building
    /\ \E c \in Calls : /\ c.pc \in Building
                        /\ c.status = call[r].status
                        /\ c.ws = call[r].ws
                        /\ call' = [call EXCEPT ![r] = c]
    /\ UNCHANGED <<record, running, slots>>

Ends(r) ==
    /\ call[r].pc \in Building
    /\ \E status \in {"success", "failed"} : End(r, status)
    /\ UNCHANGED record

LEMMA StepKinds ==
    ASSUME IInv, [Next]_vars
    PROVE  \/ Still \/ Restart
           \/ \E r \in Requests : Asks(r) \/ Register(r) \/ Goes(r) \/ Ends(r)
<1> USE DEF IInv, TypeOK
<1>1. CASE UNCHANGED vars
  BY <1>1 DEF vars, Still
<1>2. CASE Use
  BY <1>2 DEF Use, Poll, Serve, Edit, Still, slots
<1>3. CASE Clean
  BY <1>3 DEF Clean, CleanVisit, CleanChoose, Age, CleanRemove, Still, slots
<1>4. CASE Restart
  BY <1>4
<1>5. ASSUME NEW r \in Requests, Ask(r) PROVE Asks(r) \/ Register(r)
  <2>1. ASSUME NEW w \in Workspaces, NEW force \in BOOLEAN, Request(r, w, force)
        PROVE  Asks(r)
    <3> DEFINE c == [ws |-> w, key |-> source[w], force |-> force, pc |-> "inspect",
                     status |-> "none", from |-> Nothing]
    <3>1. c \in Calls
      BY DEF Calls, PCs, Statuses, Asking
    <3>2. c.pc \in Asking /\ c.status = "none" /\ call' = [call EXCEPT ![r] = c]
      BY <2>1 DEF Request, Asking
    <3> QED
      BY <2>1, <3>1, <3>2 DEF Request, Asks, slots
  <2>2. ASSUME Inspect(r) PROVE Asks(r)
    <3>1. \A v \in Workspaces : record[v] # r
      BY <2>2 DEF Inspect, RecordsAgree, Asking
    <3>2. [call[r] EXCEPT !.pc = "prepare"] \in Calls
          /\ [call[r] EXCEPT !.pc = "prepare"].status = call[r].status
          /\ [call[r] EXCEPT !.pc = "prepare"].pc = "prepare"
      BY Repointed DEF PCs, Asking
    <3>3. call[r].status = "none"
      BY <2>2 DEF Inspect, RecordsAgree, Asking
    <3>4. [call[r] EXCEPT !.pc = "prepare"].status = "none"
          /\ [call[r] EXCEPT !.pc = "prepare"].pc = "prepare"
      BY <3>2, <3>3
    <3>5. IdleCall.pc = "idle" /\ IdleCall.status = "none"
      BY DEF IdleCall
    <3>6. CASE call' = [call EXCEPT ![r] = IdleCall]
      BY <2>2, <3>1, <3>5, <3>6, IdleCallType DEF Inspect, Asks, slots
    <3>7. CASE call' = [call EXCEPT ![r] = [call[r] EXCEPT !.pc = "prepare"]]
      BY <2>2, <3>1, <3>2, <3>4, <3>7 DEF Inspect, Asks, slots, Asking
    <3> QED
      BY <2>2, <3>6, <3>7 DEF Inspect
  <2> QED
    BY <1>5, <2>1, <2>2 DEF Ask
<1>6. ASSUME NEW r \in Requests, Build(r) PROVE Goes(r) \/ Ends(r)
  <2>1. ASSUME NEW from \in Building, NEW to \in Building, Step(r, from, to),
               UNCHANGED <<record, running, slots>>
        PROVE  Goes(r)
    <3> DEFINE c == [call[r] EXCEPT !.pc = to]
    <3>1. c \in Calls /\ c.pc = to /\ c.status = call[r].status /\ c.ws = call[r].ws
      BY Repointed DEF PCs, Live
    <3>2. call' = [call EXCEPT ![r] = c]
      BY <2>1 DEF Step
    <3> HIDE DEF c
    <3> QED
      BY <2>1, <3>1, <3>2 DEF Goes, Step
  <2>2. ASSUME Emit(r) PROVE Goes(r)
    <3> DEFINE c == [call[r] EXCEPT !.pc = "emit", !.from = sandbox[call[r].ws]]
    <3>1. call[r] \in Calls /\ sandbox[call[r].ws] \in Sources \union {Nothing}
      BY DEF Calls
    <3>2. c \in Calls
      BY <3>1 DEF Calls, PCs, Live, Building
    <3>3. c.pc = "emit" /\ c.status = call[r].status /\ c.ws = call[r].ws
      BY <3>1 DEF Calls
    <3>4. call' = [call EXCEPT ![r] = c]
      BY <2>2 DEF Emit
    <3> QED
      BY <2>2, <3>2, <3>3, <3>4 DEF Emit, Goes, slots, Building
  <2>3. ASSUME Succeed(r) \/ Fail(r) PROVE Ends(r)
    BY <2>3 DEF Succeed, Fail, Ends, Building
  <2> QED
    BY <1>6, <2>1, <2>2, <2>3
       DEF Build, EmptySandbox, CopySource, Install, ClearOutput, Compiled, Building, slots
<1> QED
  BY <1>1, <1>2, <1>3, <1>4, <1>5, <1>6 DEF Next
------------------------------------------------------------------------------
(***************************************************************************)
(* The queue of waiters.                                                   *)
(***************************************************************************)
Queued(r) == \E i \in DOMAIN waiters : waiters[i] = r

LEMMA QueueTail ==
    ASSUME TypeOK, waiters # <<>>,
           \A i, j \in DOMAIN waiters : waiters[i] = waiters[j] => i = j
    PROVE  /\ Head(waiters) \in Requests
           /\ Tail(waiters) \in Seq(Requests)
           /\ \A i, j \in DOMAIN Tail(waiters) :
                  Tail(waiters)[i] = Tail(waiters)[j] => i = j
           /\ \A r \in Requests :
                  (\E i \in DOMAIN Tail(waiters) : Tail(waiters)[i] = r)
                      <=> Queued(r) /\ r # Head(waiters)
<1> DEFINE t == Tail(waiters)
<1>1. waiters \in Seq(Requests) /\ Len(waiters) \in Nat /\ Len(waiters) > 0
  BY DEF TypeOK
<1>2. /\ Head(waiters) = waiters[1] /\ 1 \in DOMAIN waiters
      /\ Head(waiters) \in Requests
      /\ t \in Seq(Requests) /\ Len(t) = Len(waiters) - 1
      /\ \A i \in 1..Len(t) : t[i] = waiters[i + 1]
      /\ DOMAIN waiters = 1..Len(waiters) /\ DOMAIN t = 1..Len(t)
  BY <1>1
<1> HIDE DEF t
<1>3. \A i, j \in DOMAIN t : t[i] = t[j] => i = j
  <2> TAKE i, j \in DOMAIN t
  <2>1. i \in Nat /\ j \in Nat /\ i + 1 \in DOMAIN waiters /\ j + 1 \in DOMAIN waiters
    BY <1>1, <1>2
  <2>2. t[i] = waiters[i + 1] /\ t[j] = waiters[j + 1]
    BY <1>2
  <2> HAVE t[i] = t[j]
  <2>3. i + 1 = j + 1
    BY <2>1, <2>2
  <2> QED
    BY <2>1, <2>3
<1>4. ASSUME NEW r \in Requests
      PROVE  (\E i \in DOMAIN t : t[i] = r) <=> Queued(r) /\ r # Head(waiters)
  <2>1. ASSUME NEW i \in DOMAIN t, t[i] = r PROVE Queued(r) /\ r # Head(waiters)
    <3>1. i \in Nat /\ i + 1 \in DOMAIN waiters /\ waiters[i + 1] = r /\ i + 1 # 1
      BY <1>1, <1>2, <2>1
    <3> QED
      BY <1>2, <3>1 DEF Queued
  <2>2. ASSUME Queued(r), r # Head(waiters) PROVE \E i \in DOMAIN t : t[i] = r
    <3>1. PICK j \in DOMAIN waiters : waiters[j] = r
      BY <2>2 DEF Queued
    <3>2. j # 1 /\ j \in Nat
      BY <1>1, <1>2, <2>2, <3>1
    <3>3. j - 1 \in DOMAIN t /\ t[j - 1] = waiters[(j - 1) + 1] /\ (j - 1) + 1 = j
      BY <1>1, <1>2, <3>1, <3>2
    <3> QED
      BY <3>1, <3>3
  <2> QED
    BY <2>1, <2>2
<1> QED
  BY <1>2, <1>3, <1>4 DEF t

LEMMA QueueAppend ==
    ASSUME TypeOK, NEW q \in Requests, ~ Queued(q),
           \A i, j \in DOMAIN waiters : waiters[i] = waiters[j] => i = j
    PROVE  LET a == Append(waiters, q) IN
           /\ a \in Seq(Requests)
           /\ \A i, j \in DOMAIN a : a[i] = a[j] => i = j
           /\ \A r \in Requests :
                  (\E i \in DOMAIN a : a[i] = r) <=> Queued(r) \/ r = q
<1> DEFINE a == Append(waiters, q)
<1>1. waiters \in Seq(Requests) /\ Len(waiters) \in Nat
  BY DEF TypeOK
<1>2. /\ a \in Seq(Requests) /\ Len(a) = Len(waiters) + 1
      /\ \A i \in 1..Len(waiters) : a[i] = waiters[i]
      /\ a[Len(waiters) + 1] = q
      /\ DOMAIN waiters = 1..Len(waiters) /\ DOMAIN a = 1..(Len(waiters) + 1)
  BY <1>1
<1> HIDE DEF a
<1>3. \A i, j \in DOMAIN a : a[i] = a[j] => i = j
  <2> TAKE i, j \in DOMAIN a
  <2>1. \A k \in DOMAIN a : k \in DOMAIN waiters \/ k = Len(waiters) + 1
    BY <1>1, <1>2
  <2>2. \A k \in DOMAIN waiters : a[k] = waiters[k] /\ a[k] # q
    BY <1>2 DEF Queued
  <2> QED
    BY <1>2, <2>1, <2>2
<1>4. ASSUME NEW r \in Requests
      PROVE  (\E i \in DOMAIN a : a[i] = r) <=> Queued(r) \/ r = q
  <2>1. \A k \in DOMAIN a : k \in DOMAIN waiters \/ k = Len(waiters) + 1
    BY <1>1, <1>2
  <2>2. \A k \in DOMAIN waiters : k \in DOMAIN a /\ a[k] = waiters[k]
    BY <1>1, <1>2
  <2>3. Len(waiters) + 1 \in DOMAIN a
    BY <1>1, <1>2
  <2> QED
    BY <1>2, <2>1, <2>2, <2>3 DEF Queued
<1> QED
  BY <1>2, <1>3, <1>4 DEF a
------------------------------------------------------------------------------
(***************************************************************************)
(* How the holders change with one call.                                   *)
(***************************************************************************)
LEMMA HoldersFinite == IsFiniteSet(Holders) /\ Cardinality(Holders) \in Nat
<1>1. Holders \subseteq Requests /\ IsFiniteSet(Requests)
  BY PreviewAssumption DEF Holders
<1> QED
  BY <1>1, FS_Subset, FS_CardinalityType

LEMMA SameHolders ==
    ASSUME IInv, NEW r \in Requests, Asks(r) \/ Goes(r) PROVE Holders' = Holders
<1>1. call \in [Requests -> Calls]
  BY DEF IInv, TypeOK
<1>2. PICK c \in Calls : /\ call' = [call EXCEPT ![r] = c]
                         /\ (c.pc \in Building <=> call[r].pc \in Building)
  <2>1. \A p \in {"idle"} \union Asking : p \notin Building
    BY DEF Asking, Building
  <2> QED
    BY <2>1 DEF Asks, Goes, Asking
<1> QED
  BY <1>1, <1>2 DEF Holders

(* When a build ends, its slot passes to the head of the queue, if any. *)
LEMMA HoldersAfterEnd ==
    ASSUME IInv, NEW r \in Requests, Ends(r)
    PROVE  /\ Woken \subseteq Requests /\ Woken \intersect Holders = {}
           /\ \A q \in Woken : call[q].pc = "queued"
           /\ r \in Holders /\ r \notin Woken
           /\ Holders' = (Holders \ {r}) \union Woken
           /\ Cardinality(Holders') = (Cardinality(Holders) - 1) + Cardinality(Woken)
           /\ IF waiters = <<>> THEN Woken = {} /\ Cardinality(Woken) = 0
              ELSE Woken = {Head(waiters)} /\ Cardinality(Woken) = 1
<1>1. call \in [Requests -> Calls] /\ waiters \in Seq(Requests)
  BY DEF IInv, TypeOK
<1>2. \A q \in Woken : q \in Requests /\ call[q].pc = "queued"
  <2>1. CASE waiters = <<>>
    BY <2>1 DEF Woken
  <2>2. CASE waiters # <<>>
    <3>1. Head(waiters) \in Requests /\ 1 \in DOMAIN waiters /\ waiters[1] = Head(waiters)
      BY <1>1, <2>2
    <3> QED
      BY <2>2, <3>1 DEF Woken, IInv, NoLostWakeup
  <2> QED
    BY <2>1, <2>2
<1>3. r \in Holders /\ r \notin Woken /\ Woken \intersect Holders = {}
  BY <1>2 DEF Ends, Holders, Building
<1>4. PICK status \in {"success", "failed"} : End(r, status)
  BY DEF Ends
<1>5. Holders' = (Holders \ {r}) \union Woken
  <2>1. \A q \in Requests : call'[q].pc =
            IF q = r THEN "idle" ELSE IF q \in Woken THEN "sync" ELSE call[q].pc
    BY <1>1, <1>4 DEF End, Ended, Calls
  <2> QED
    BY <1>2, <1>3, <2>1 DEF Holders, Building
<1>6. IF waiters = <<>> THEN Woken = {} /\ Cardinality(Woken) = 0
      ELSE Woken = {Head(waiters)} /\ Cardinality(Woken) = 1
  BY FS_EmptySet, FS_Singleton DEF Woken
<1>7. Cardinality(Holders \ {r}) = Cardinality(Holders) - 1 /\ IsFiniteSet(Holders \ {r})
  BY <1>3, HoldersFinite, FS_RemoveElement
<1>8. Cardinality(Holders') = Cardinality(Holders \ {r}) + Cardinality(Woken)
  <2>1. CASE waiters = <<>>
    <3>1. Holders' = Holders \ {r}
      BY <1>5, <1>6, <2>1
    <3> QED
      BY <1>6, <1>7, <2>1, <3>1, HoldersFinite
  <2>2. CASE waiters # <<>>
    <3>1. Head(waiters) \notin Holders \ {r} /\ Holders' = (Holders \ {r}) \union {Head(waiters)}
      BY <1>3, <1>5, <1>6, <2>2
    <3> QED
      BY <1>6, <1>7, <2>2, <3>1, FS_AddElement
  <2> QED
    BY <2>1, <2>2
<1> QED
  BY <1>2, <1>3, <1>5, <1>6, <1>7, <1>8
------------------------------------------------------------------------------
(***************************************************************************)
(* Each part of the invariant.                                             *)
(***************************************************************************)
LEMMA InitHolds == Init => IInv
<1> SUFFICES ASSUME Init PROVE IInv
  OBVIOUS
<1>1. call \in [Requests -> Calls] /\ \A r \in Requests : call[r] = IdleCall
  BY IdleCallType DEF Init
<1>2. \A r \in Requests : call[r].pc = "idle" /\ call[r].status = "none"
  BY <1>1 DEF IdleCall
<1>3. Absent \in Outputs
  BY DEF Absent, Outputs, Files
<1>4. TypeOK
  BY <1>1, <1>3, PreviewAssumption DEF Init, TypeOK, Resting
<1>5. Holders = {} /\ Cardinality(Holders) = 0
  BY <1>2, FS_EmptySet DEF Holders, Building
<1>6. SlotsAccounted
  BY <1>5, PreviewAssumption DEF Init, SlotsAccounted
<1>7. NoLostWakeup
  BY <1>2 DEF Init, NoLostWakeup
<1>8. RecordsAgree
  BY <1>2 DEF Init, RecordsAgree, Asking, Live, Building
<1>9. NoWorkspaceLockedOut
  BY DEF Init, NoWorkspaceLockedOut
<1> QED
  BY <1>4, <1>6, <1>7, <1>8, <1>9 DEF IInv

(* The calls, the records and the queue stay well typed. *)
MemoryOK ==
    /\ record \in [Workspaces -> Requests \union {NoBuild}]
    /\ running \subseteq Workspaces
    /\ call \in [Requests -> Calls]
    /\ waiters \in Seq(Requests)

LEMMA MemoryTyped == ASSUME IInv, [Next]_vars PROVE MemoryOK'
<1> USE DEF MemoryOK
<1>0. MemoryOK
  BY DEF IInv, TypeOK
<1>1. CASE Still
  BY <1>0, <1>1 DEF Still, slots
<1>2. CASE Restart
  BY <1>0, <1>2, IdleCallType DEF Restart
<1>3. ASSUME NEW r \in Requests, Asks(r) \/ Goes(r) PROVE MemoryOK'
  BY <1>0, <1>3 DEF Asks, Goes, slots
<1>4. ASSUME NEW r \in Requests, Register(r) PROVE MemoryOK'
  <2>1. call[r] \in Calls /\ call[r].ws \in Workspaces
    BY <1>0 DEF Calls
  <2>2. \A p \in PCs : [call[r] EXCEPT !.status = "running", !.pc = p] \in Calls
    BY <2>1 DEF Calls, Statuses
  <2>3. call' \in [Requests -> Calls]
    <3>1. PICK p \in {"sync", "queued"} :
             call' = [call EXCEPT ![r] = [call[r] EXCEPT !.status = "running", !.pc = p]]
      BY <1>0, <1>4 DEF Register
    <3>2. p \in PCs
      BY DEF PCs, Live, Building
    <3> QED
      BY <1>0, <2>2, <3>1, <3>2
  <2> QED
    BY <1>0, <1>4, <2>1, <2>3 DEF Register
<1>5. ASSUME NEW r \in Requests, Ends(r) PROVE MemoryOK'
  <2>1. PICK status \in {"success", "failed"} : End(r, status)
    BY <1>5 DEF Ends
  <2>2. Ended(call[r], status) \in Calls
    BY <1>0 DEF Ended, Calls, PCs, Statuses
  <2>3. \A q \in Requests : [call[q] EXCEPT !.pc = "sync"] \in Calls
    BY <1>0, Repointed DEF PCs, Live, Building
  <2>4. call' \in [Requests -> Calls]
    BY <1>0, <2>1, <2>2, <2>3 DEF End
  <2>5. waiters' \in Seq(Requests)
    BY <1>0, <2>1, QueueTail DEF End, Woken, IInv, NoLostWakeup
  <2> QED
    BY <1>0, <1>5, <2>1, <2>4, <2>5 DEF Ends, End, Unregistered
<1> QED
  BY <1>1, <1>2, <1>3, <1>4, <1>5, StepKinds

(* The files and the cleanup pass stay well typed. *)
FilesOK ==
    /\ source \in [Workspaces -> Sources]
    /\ sandbox \in [Workspaces -> Sources \union {Nothing}]
    /\ output \in [Workspaces -> [Sources -> Outputs]]
    /\ stale \subseteq Directories
    /\ cleaner \in [visit : SUBSET Directories, chosen : SUBSET Directories]

LEMMA FilesTyped == ASSUME IInv, [Next]_vars PROVE FilesOK'
<1> USE DEF FilesOK
<1>0. /\ FilesOK
      /\ \A r \in Requests : call[r].ws \in Workspaces /\ call[r].key \in Sources
                               /\ call[r].from \in Sources \union {Nothing}
  BY DEF IInv, TypeOK, Calls
<1>1. \A f \in Files, s \in Sources \union {Nothing} : [files |-> f, from |-> s] \in Outputs
  BY DEF Outputs
<1>2. Absent \in Outputs /\ Empty \in Outputs
  BY DEF Absent, Empty, Outputs, Files
<1>3. CASE UNCHANGED vars
  BY <1>0, <1>3 DEF vars, dirs
<1>4. CASE Use
  BY <1>0, <1>4 DEF Use, Poll, Serve, Edit
<1>5. CASE Clean
  <2>1. ASSUME NEW w \in Workspaces, CleanVisit(w) PROVE FilesOK'
    BY <1>0, <2>1 DEF CleanVisit, dirs, Directories
  <2>2. ASSUME NEW d \in Directories, CleanChoose(d) \/ Age(d) PROVE FilesOK'
    BY <1>0, <2>2 DEF CleanChoose, Age, dirs
  <2>3. ASSUME NEW w \in Workspaces, NEW k \in Sources \union {SandboxDir}, CleanRemove(w, k)
        PROVE  FilesOK'
    <3>1. w \in Workspaces /\ [cleaner EXCEPT !.chosen = {}] \in
             [visit : SUBSET Directories, chosen : SUBSET Directories]
      BY <1>0
    <3>2. CASE k = SandboxDir
      BY <1>0, <2>3, <3>1, <3>2 DEF CleanRemove
    <3>3. CASE k # SandboxDir
      <4>1. k \in Sources
        BY <3>3
      <4>2. [output EXCEPT ![w][k] = Absent] \in [Workspaces -> [Sources -> Outputs]]
        BY <1>0, <1>2, <4>1
      <4>3. /\ output' = [output EXCEPT ![w][k] = Absent]
            /\ cleaner' = [cleaner EXCEPT !.chosen = {}]
            /\ UNCHANGED <<source, sandbox, stale>>
        BY <2>3, <3>3 DEF CleanRemove
      <4> HIDE DEF FilesOK
      <4> QED
        BY <1>0, <3>1, <4>2, <4>3 DEF FilesOK
    <3> QED
      BY <3>2, <3>3
  <2> QED
    BY <1>5, <2>1, <2>2, <2>3 DEF Clean
<1>6. CASE Restart
  BY <1>0, <1>6 DEF Restart, dirs, Resting
<1>7. ASSUME NEW r \in Requests, Ask(r) PROVE FilesOK'
  BY <1>0, <1>7 DEF Ask, Request, Inspect, Register, dirs
<1>8. ASSUME NEW r \in Requests, Build(r) PROVE FilesOK'
  <2>1. CASE EmptySandbox(r) \/ CopySource(r)
    BY <1>0, <2>1 DEF EmptySandbox, CopySource
  <2>2. CASE Install(r) \/ Fail(r) \/ Succeed(r)
    BY <1>0, <2>2 DEF Install, Fail, Succeed, dirs
  <2>3. CASE ClearOutput(r)
    BY <1>0, <1>2, <2>3 DEF ClearOutput
  <2>4. CASE Emit(r)
    BY <1>0, <1>1, <2>4 DEF Emit, Files
  <2>5. CASE Compiled(r)
    BY <1>0, <1>1, <2>5 DEF Compiled, Files
  <2> QED
    BY <1>8, <2>1, <2>2, <2>3, <2>4, <2>5 DEF Build
<1> QED
  BY <1>3, <1>4, <1>5, <1>6, <1>7, <1>8 DEF Next
------------------------------------------------------------------------------
LEMMA SlotsStep ==
    ASSUME IInv, [Next]_vars
    PROVE  active' \in 0..MaxSlots /\ SlotsAccounted' /\ NoLostWakeup'
<1>0. /\ call \in [Requests -> Calls] /\ waiters \in Seq(Requests) /\ active \in 0..MaxSlots
      /\ MaxSlots \in Nat \ {0} /\ active = Cardinality(Holders)
      /\ SlotsAccounted /\ NoLostWakeup /\ TypeOK
  BY PreviewAssumption DEF IInv, TypeOK, SlotsAccounted
<1>1. CASE Still
  BY <1>0, <1>1 DEF Still, slots, SlotsAccounted, NoLostWakeup, Holders
<1>2. CASE Restart
  <2>1. \A r \in Requests : call'[r].pc = "idle"
    BY <1>2 DEF Restart, IdleCall
  <2>2. Holders' = {} /\ Cardinality(Holders') = 0
    BY <2>1, FS_EmptySet DEF Holders, Building
  <2> QED
    BY <1>0, <1>2, <2>1, <2>2 DEF Restart, SlotsAccounted, NoLostWakeup
<1>3. ASSUME NEW r \in Requests, Asks(r) \/ Goes(r)
      PROVE  active' \in 0..MaxSlots /\ SlotsAccounted' /\ NoLostWakeup'
  <2>1. Holders' = Holders /\ active' = active /\ waiters' = waiters
    BY <1>3, SameHolders DEF Asks, Goes, slots
  <2>2. \A q \in Requests : call'[q].pc = "queued" <=> call[q].pc = "queued"
    BY <1>0, <1>3 DEF Asks, Goes, Asking, Building
  <2> QED
    BY <1>0, <2>1, <2>2 DEF SlotsAccounted, NoLostWakeup
<1>4. ASSUME NEW r \in Requests, Register(r)
      PROVE  active' \in 0..MaxSlots /\ SlotsAccounted' /\ NoLostWakeup'
  <2>1. call[r].pc = "prepare" /\ r \notin Holders /\ ~ Queued(r)
    BY <1>0, <1>4 DEF Register, Holders, Building, NoLostWakeup, Queued
  <2>2. CASE SlotFree
    <3>1. /\ active' = active + 1 /\ waiters' = waiters /\ active < MaxSlots
          /\ call' = [call EXCEPT ![r].status = "running", ![r].pc = "sync"]
      BY <1>4, <2>2 DEF Register, SlotFree
    <3>2. \A q \in Requests : call'[q].pc = IF q = r THEN "sync" ELSE call[q].pc
      BY <1>0, <3>1 DEF Calls
    <3>3. Holders' = Holders \union {r}
      BY <3>2 DEF Holders, Building
    <3>4. Cardinality(Holders') = Cardinality(Holders) + 1
      BY <2>1, <3>3, HoldersFinite, FS_AddElement
    <3>5. waiters = <<>>
      BY <1>0, <3>1 DEF NoLostWakeup
    <3>6. NoLostWakeup'
      BY <1>0, <2>1, <3>1, <3>2, <3>5 DEF NoLostWakeup
    <3> QED
      BY <1>0, <3>1, <3>4, <3>6 DEF SlotsAccounted
  <2>3. CASE ~ SlotFree
    <3>1. /\ active' = active /\ waiters' = Append(waiters, r) /\ active = MaxSlots
          /\ call' = [call EXCEPT ![r].status = "running", ![r].pc = "queued"]
      BY <1>0, <1>4, <2>3 DEF Register, SlotFree
    <3>2. \A q \in Requests : call'[q].pc = IF q = r THEN "queued" ELSE call[q].pc
      BY <1>0, <3>1 DEF Calls
    <3>3. Holders' = Holders
      BY <2>1, <3>2 DEF Holders, Building
    <3>4. /\ \A i, j \in DOMAIN waiters' : waiters'[i] = waiters'[j] => i = j
          /\ \A q \in Requests :
                (\E i \in DOMAIN waiters' : waiters'[i] = q) <=> Queued(q) \/ q = r
      BY <1>0, <2>1, <3>1, QueueAppend DEF NoLostWakeup
    <3>5. NoLostWakeup'
      BY <1>0, <3>1, <3>2, <3>4 DEF NoLostWakeup, Queued
    <3> QED
      BY <1>0, <3>1, <3>3, <3>5 DEF SlotsAccounted
  <2> QED
    BY <2>2, <2>3
<1>5. ASSUME NEW r \in Requests, Ends(r)
      PROVE  active' \in 0..MaxSlots /\ SlotsAccounted' /\ NoLostWakeup'
  <2>1. PICK status \in {"success", "failed"} : End(r, status)
    BY <1>5 DEF Ends
  <2>2. \A q \in Requests : call'[q].pc =
            IF q = r THEN "idle" ELSE IF q \in Woken THEN "sync" ELSE call[q].pc
    BY <1>0, <2>1 DEF End, Ended, Calls
  <2>3. /\ active' = (active - 1) + Cardinality(Woken)
        /\ waiters' = IF Woken = {} THEN waiters ELSE Tail(waiters)
    BY <2>1 DEF End
  <2>4. Cardinality(Holders') = active' /\ r \in Holders /\ active >= 1
    <3>1. Holders # {} /\ r \in Holders
      BY <1>5, HoldersAfterEnd
    <3>2. active # 0
      BY <1>0, <3>1, HoldersFinite, FS_EmptySet
    <3> QED
      BY <1>0, <1>5, <2>3, <3>1, <3>2, HoldersAfterEnd
  <2>5. CASE waiters = <<>>
    <3>1. Woken = {} /\ Cardinality(Woken) = 0 /\ waiters' = waiters
      BY <1>5, <2>3, <2>5, HoldersAfterEnd
    <3>2. NoLostWakeup'
      BY <1>0, <2>2, <2>5, <3>1 DEF NoLostWakeup
    <3> QED
      BY <1>0, <2>3, <2>4, <3>1, <3>2 DEF SlotsAccounted
  <2>6. CASE waiters # <<>>
    <3>1. Woken = {Head(waiters)} /\ Cardinality(Woken) = 1 /\ waiters' = Tail(waiters)
      BY <1>5, <2>3, <2>6, HoldersAfterEnd
    <3>2. active = MaxSlots /\ active' = active
      BY <1>0, <2>3, <2>6, <3>1 DEF NoLostWakeup
    <3>3. /\ \A i, j \in DOMAIN waiters' : waiters'[i] = waiters'[j] => i = j
          /\ \A q \in Requests :
                (\E i \in DOMAIN waiters' : waiters'[i] = q)
                    <=> Queued(q) /\ q # Head(waiters)
      BY <1>0, <2>6, <3>1, QueueTail DEF NoLostWakeup
    <3>4. ~ Queued(r)
      BY <1>0, <1>5 DEF Ends, NoLostWakeup, Queued, Building
    <3>5. NoLostWakeup'
      BY <1>0, <2>2, <3>1, <3>2, <3>3, <3>4 DEF NoLostWakeup, Queued
    <3> QED
      BY <1>0, <2>4, <3>2, <3>5 DEF SlotsAccounted
  <2> QED
    BY <2>5, <2>6
<1> QED
  BY <1>1, <1>2, <1>3, <1>4, <1>5, StepKinds

LEMMA RecordsStep ==
    ASSUME IInv, [Next]_vars PROVE RecordsAgree' /\ NoWorkspaceLockedOut'
<1>0. /\ call \in [Requests -> Calls] /\ running \subseteq Workspaces
      /\ record \in [Workspaces -> Requests \union {NoBuild}] /\ NoBuild \notin Requests
      /\ RecordsAgree /\ NoWorkspaceLockedOut
  BY PreviewAssumption DEF IInv, TypeOK
<1>1. CASE Still
  BY <1>0, <1>1 DEF Still, RecordsAgree, NoWorkspaceLockedOut
<1>2. CASE Restart
  <2>1. \A r \in Requests : call'[r].pc = "idle" /\ call'[r].status = "none"
    BY <1>2 DEF Restart, IdleCall
  <2> QED
    BY <1>2, <2>1 DEF Restart, RecordsAgree, NoWorkspaceLockedOut, Asking, Live, Building
<1>3. ASSUME NEW r \in Requests, Asks(r) PROVE RecordsAgree' /\ NoWorkspaceLockedOut'
  <2>1. PICK c \in Calls : /\ c.pc \in Asking \union {"idle"} /\ c.status = "none"
                           /\ call' = [call EXCEPT ![r] = c]
    BY <1>3 DEF Asks
  <2>2. \A q \in Requests : call'[q] = IF q = r THEN c ELSE call[q]
    BY <1>0, <2>1
  <2>3. c.pc \notin Live /\ call[r].pc \notin Live
    BY <1>3, <2>1 DEF Asks, Asking, Live, Building
  <2>4. UNCHANGED <<record, running>> /\ \A v \in Workspaces : record[v] # r
    BY <1>3 DEF Asks
  <2>5. RecordsAgree'
    BY <1>0, <2>1, <2>2, <2>3, <2>4 DEF RecordsAgree
  <2>6. NoWorkspaceLockedOut'
    BY <1>0, <2>2, <2>3, <2>4 DEF NoWorkspaceLockedOut
  <2> QED
    BY <2>5, <2>6
<1>4. ASSUME NEW r \in Requests, Goes(r) PROVE RecordsAgree' /\ NoWorkspaceLockedOut'
  <2>1. PICK c \in Calls : /\ c.pc \in Building /\ c.status = call[r].status
                           /\ c.ws = call[r].ws /\ call' = [call EXCEPT ![r] = c]
    BY <1>4 DEF Goes
  <2>2. \A q \in Requests : call'[q] = IF q = r THEN c ELSE call[q]
    BY <1>0, <2>1
  <2>3. c.pc \in Live /\ c.pc \notin Asking /\ call[r].pc \in Live
    BY <1>4, <2>1 DEF Goes, Asking, Live, Building
  <2>4. UNCHANGED <<record, running>>
    BY <1>4 DEF Goes
  <2>5. RecordsAgree'
    BY <1>0, <2>1, <2>2, <2>3, <2>4 DEF RecordsAgree
  <2>6. NoWorkspaceLockedOut'
    BY <1>0, <2>1, <2>2, <2>3, <2>4 DEF NoWorkspaceLockedOut
  <2> QED
    BY <2>5, <2>6
<1>5. ASSUME NEW r \in Requests, Register(r) PROVE RecordsAgree' /\ NoWorkspaceLockedOut'
  <2>1. \A q \in Requests :
            /\ call'[q].ws = call[q].ws
            /\ q # r => call'[q] = call[q]
            /\ q = r => call'[q].pc \in Live \ Asking /\ call'[q].status = "running"
    <3>1. PICK p \in {"sync", "queued"} :
             call' = [call EXCEPT ![r].status = "running", ![r].pc = p]
      BY <1>5 DEF Register
    <3>2. p \in Live \ Asking
      BY DEF Live, Building, Asking
    <3> QED
      BY <1>0, <3>1, <3>2 DEF Calls
  <2>2. /\ record' = [record EXCEPT ![call[r].ws] = r]
        /\ running' = running \union {call[r].ws}
        /\ call[r].ws \in Workspaces
    BY <1>0, <1>5 DEF Register, Calls
  <2>3. RecordsAgree'
    BY <1>0, <2>1, <2>2 DEF RecordsAgree
  <2>4. NoWorkspaceLockedOut'
    BY <1>0, <2>1, <2>2 DEF NoWorkspaceLockedOut
  <2> QED
    BY <2>3, <2>4
<1>6. ASSUME NEW r \in Requests, Ends(r) PROVE RecordsAgree' /\ NoWorkspaceLockedOut'
  <2>1. PICK status \in {"success", "failed"} : End(r, status)
    BY <1>6 DEF Ends
  <2>2. Woken \subseteq Requests /\ r \notin Woken /\ \A q \in Woken : call[q].pc = "queued"
    BY <1>6, HoldersAfterEnd
  <2>3. \A q \in Requests :
            /\ call'[q].ws = call[q].ws
            /\ q = r => call'[q].pc = "idle" /\ call'[q].status = status
            /\ q # r => call'[q].status = call[q].status
            /\ q \in Woken => call'[q].pc = "sync"
            /\ q # r /\ q \notin Woken => call'[q].pc = call[q].pc
    BY <1>0, <2>1, <2>2 DEF End, Ended, Calls
  <2>4. \A q \in Requests : q # r =>
            /\ call'[q].pc \in Live <=> call[q].pc \in Live
            /\ call'[q].pc \in Asking <=> call[q].pc \in Asking
    BY <2>2, <2>3 DEF Live, Building, Asking
  <2>5. record' = record /\ running' = running \ {call[r].ws}
    BY <1>6, <2>1 DEF Ends, End, Unregistered
  <2>6. RecordsAgree'
    <3>1. call'[r].pc \notin Live /\ call'[r].pc \notin Asking /\ call'[r].status # "running"
      BY <2>3 DEF Live, Building, Asking
    <3> QED
      BY <1>0, <2>3, <2>4, <2>5, <3>1 DEF RecordsAgree
  <2>7. NoWorkspaceLockedOut'
    BY <1>0, <2>3, <2>4, <2>5 DEF NoWorkspaceLockedOut
  <2> QED
    BY <2>6, <2>7
<1> QED
  BY <1>1, <1>2, <1>3, <1>4, <1>5, <1>6, StepKinds

LEMMA Inductive == IInv /\ [Next]_vars => IInv'
<1> SUFFICES ASSUME IInv, [Next]_vars PROVE IInv'
  OBVIOUS
<1>1. TypeOK'
  BY MemoryTyped, FilesTyped, SlotsStep DEF TypeOK, MemoryOK, FilesOK
<1> QED
  BY <1>1, SlotsStep, RecordsStep DEF IInv

LEMMA Invariance == Spec => []IInv
BY InitHolds, Inductive, PTL DEF Spec
------------------------------------------------------------------------------
(* The state of the preview service is well typed; in particular the slot   *)
(* counter stays between 0 and MAX_CONCURRENT_BUILDS.                       *)
THEOREM TypeCorrect == Spec => []TypeOK
<1>1. IInv => TypeOK
  BY DEF IInv
<1> QED
  BY <1>1, Invariance, PTL

(* The slot counter is the number of builds that hold a slot (the pairing   *)
(* of acquireBuildSlot and releaseBuildSlot on every path of runPreviewBuild). *)
THEOREM SlotLimit == Spec => []SlotsAccounted
<1>1. IInv => SlotsAccounted
  BY DEF IInv
<1> QED
  BY <1>1, Invariance, PTL

(* Builds queue only while every slot is taken, each once (releaseBuildSlot *)
(* wakes exactly the head of buildWaiters).                                 *)
THEOREM WakeupsAreNotLost == Spec => []NoLostWakeup
<1>1. IInv => NoLostWakeup
  BY DEF IInv
<1> QED
  BY <1>1, Invariance, PTL

(* A record that says "running" has its build under way (startPreviewBuild, *)
(* readBuildState).                                                         *)
THEOREM RunningTruth == Spec => []RunningIsUnderWay
<1>1. IInv => RunningIsUnderWay
  BY DEF IInv, TypeOK, RecordsAgree, RunningIsUnderWay, RecordOf
<1> QED
  BY <1>1, Invariance, PTL

(* An entry of runningBuilds never outlives the builds of its workspace     *)
(* (the finally of startPreviewBuild).                                      *)
THEOREM NoLockout == Spec => []NoWorkspaceLockedOut
<1>1. IInv => NoWorkspaceLockedOut
  BY DEF IInv
<1> QED
  BY <1>1, Invariance, PTL

LEMMA SameCount == SlotQueue!Cardinality(Holders) = Cardinality(Holders)
BY DEF SlotQueue!Cardinality, Cardinality

LEMMA StepsImplementSlots ==
    ASSUME IInv, [Next]_vars PROVE [SlotQueue!Next]_<<Holders, waiters>>
<1>0. /\ call \in [Requests -> Calls] /\ waiters \in Seq(Requests) /\ TypeOK
      /\ active = Cardinality(Holders) /\ NoLostWakeup
  BY DEF IInv, TypeOK, SlotsAccounted
<1>1. CASE Still
  BY <1>1 DEF Still, slots, Holders
<1>2. CASE Restart
  <2>1. Holders' = {}
    BY <1>2 DEF Restart, IdleCall, Holders, Building
  <2> QED
    BY <1>2, <2>1 DEF Restart, SlotQueue!Next, SlotQueue!Reset
<1>3. ASSUME NEW r \in Requests, Asks(r) \/ Goes(r) PROVE UNCHANGED <<Holders, waiters>>
  BY <1>3, SameHolders DEF Asks, Goes, slots
<1>4. ASSUME NEW r \in Requests, Register(r) PROVE SlotQueue!Enter(r)
  <2>1. call[r].pc = "prepare" /\ r \notin Holders /\ ~ SlotQueue!Waiting(r)
    BY <1>0, <1>4 DEF Register, Holders, Building, NoLostWakeup, SlotQueue!Waiting
  <2>2. CASE SlotFree
    <3>1. \A q \in Requests : call'[q].pc = IF q = r THEN "sync" ELSE call[q].pc
      BY <1>0, <1>4, <2>2 DEF Register, Calls
    <3>2. Holders' = Holders \union {r}
      BY <3>1 DEF Holders, Building
    <3> QED
      BY <1>0, <1>4, <2>1, <2>2, <3>2, SameCount DEF Register, SlotFree, SlotQueue!Enter
  <2>3. CASE ~ SlotFree
    <3>1. \A q \in Requests : call'[q].pc = IF q = r THEN "queued" ELSE call[q].pc
      BY <1>0, <1>4, <2>3 DEF Register, Calls
    <3>2. Holders' = Holders
      BY <2>1, <3>1 DEF Holders, Building
    <3> QED
      BY <1>0, <1>4, <2>1, <2>3, <3>2, SameCount DEF Register, SlotFree, SlotQueue!Enter
  <2> QED
    BY <2>2, <2>3
<1>5. ASSUME NEW r \in Requests, Ends(r) PROVE SlotQueue!Leave(r)
  <2>1. waiters' = IF Woken = {} THEN waiters ELSE Tail(waiters)
    BY <1>5 DEF Ends, End
  <2>2. /\ r \in Holders /\ Holders' = (Holders \ {r}) \union Woken
        /\ IF waiters = <<>> THEN Woken = {} ELSE Woken = {Head(waiters)}
    BY <1>5, HoldersAfterEnd
  <2> QED
    BY <2>1, <2>2 DEF SlotQueue!Leave
<1> QED
  BY <1>1, <1>2, <1>3, <1>4, <1>5, StepKinds DEF SlotQueue!Next

(* The build slots of the preview service implement a bounded first-in      *)
(* first-out admission (BuildSlots).                                        *)
THEOREM ImplementsSlots == Spec => SlotSpec
<1>1. Init => SlotQueue!Init
  BY DEF Init, IdleCall, SlotQueue!Init, Holders, Building
<1> QED
  BY <1>1, StepsImplementSlots, Invariance, PTL DEF Spec, SlotSpec, SlotQueue!Spec
==============================================================================
