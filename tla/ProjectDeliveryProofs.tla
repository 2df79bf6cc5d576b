----------------------- MODULE ProjectDeliveryProofs -----------------------
(***************************************************************************)
(* Proofs about ProjectDelivery for any requests, versions and edits, and  *)
(* for both metadata stores.                                               *)
(*                                                                         *)
(* SavesAreExclusive rests on three facts at once: a save beyond git tag    *)
(* is alone with its id, no document lists that id, and documents agree on  *)
(* the commits of the versions they share.  Documents include the copies    *)
(* requests are editing, since any of them may be written back.             *)
(*                                                                         *)
(* Overlapping updates do lose entries of the document.  The last two       *)
(* sections say what they cannot take away, for any overlap: the sources of *)
(* a saved version, and a version every copy under way already lists.       *)
(***************************************************************************)
EXTENDS ProjectDelivery, TLAPS

(* What the fields of a request say at each of its steps, when there are n  *)
(* commits and d tells whether the project was deleted.                     *)
Shape(o, n, d) ==
    /\ o.sha \in 0..n
    /\ o.change \in {"save", "built", "failed", "published"} => o.version \in Versions
    /\ o.pc \in {"check", "commit", "tag", "sha", "zip"} => o.change = "save"
    /\ o.pc \in {"compile", "clean", "copy"} => o.change = "built"
    /\ o.pc \in {"sweep", "publish"} => o.change = "published"
    /\ o.pc = "reset" => o.change = "current"
    /\ o.change = "current" => o.target \in Versions
    /\ o.target # NoVersion => o.base \in 1..n
    /\ o.change = "save" /\ o.pc \in {"zip", "read", "write", "writing"} => o.sha \in 1..n
    /\ o.pc = "purge" => d
    /\ \A v \in Versions : o.copy.versions[v].sha <= n

(* The inductive strengthening of TypeOK. *)
Typed ==
    /\ edits \in Nat /\ tree \in Nat
    /\ commits \in Seq(Nat) /\ head \in 1..Len(commits)
    /\ tags \in [Versions -> 0..Len(commits)]
    /\ workspace \in BOOLEAN
    /\ zips \in [Versions -> Nat \union {NoZip}]
    /\ artifact \in [Versions -> SUBSET Files]
    /\ site \in [Files -> MaybeVersion]
    /\ stored \in Records \union {Missing, Torn}
    /\ Readable => \A v \in Versions : stored.versions[v].sha <= Len(commits)
    /\ op \in [Requests -> Ops]
    /\ \A r \in Requests : Shape(op[r], Len(commits), deleted)
    /\ saved \subseteq Versions /\ deleted \in BOOLEAN

(* Everything of Typed but the document and the requests. *)
Surroundings ==
    /\ edits \in Nat /\ tree \in Nat
    /\ commits \in Seq(Nat) /\ head \in 1..Len(commits)
    /\ tags \in [Versions -> 0..Len(commits)]
    /\ workspace \in BOOLEAN
    /\ zips \in [Versions -> Nat \union {NoZip}]
    /\ artifact \in [Versions -> SUBSET Files]
    /\ site \in [Files -> MaybeVersion]
    /\ saved \subseteq Versions /\ deleted \in BOOLEAN
------------------------------------------------------------------------------
(* The strengthening implies the type invariant. *)
LEMMA TypedImpliesTypeOK == Typed => TypeOK
  <1> SUFFICES ASSUME Typed PROVE TypeOK
    OBVIOUS
  <1>1. ASSUME NEW d \in Documents, NEW v \in Versions
        PROVE  d.versions[v].sha <= Len(commits)
    BY <1>1 DEF Typed, Documents, Shape
  <1> QED
    BY <1>1 DEF Typed, TypeOK

(* An idle request, and a request whose shape only depends on smaller n. *)
LEMMA IdleShape ==
  ASSUME NEW n \in Nat, NEW d PROVE IdleOp \in Ops /\ Shape(IdleOp, n, d)
  <1>1. NewRecord \in Records
    BY DEF NewRecord, Records, MaybeVersion, Entries, Unlisted, Builds
  <1>2. \A v \in Versions : NewRecord.versions[v].sha = 0
    BY DEF NewRecord, Unlisted
  <1>3. IdleOp \in Ops
    BY <1>1 DEF IdleOp, Ops, PCs, Changes, MaybeVersion
  <1> QED
    BY <1>2, <1>3 DEF IdleOp, Shape

LEMMA ShapeGrows ==
  ASSUME NEW o \in Ops, NEW n \in Nat, NEW m \in Nat, n <= m, NEW d, NEW e, d => e,
         Shape(o, n, d)
  PROVE  Shape(o, m, e)
  <1>1. \A v \in Versions : o.copy.versions[v].sha \in Nat
    BY DEF Ops, Records, Entries
  <1> QED
    BY <1>1 DEF Shape

(* The document a handler writes is a document, with commits that exist. *)
LEMMA UpdatedIsRecord ==
  ASSUME NEW o \in Ops, NEW n \in Nat, NEW d, Shape(o, n, d),
         o.pc \in {"read", "write", "writing"}
  PROVE  /\ Updated(o) \in Records
         /\ \A v \in Versions : Updated(o).versions[v].sha <= n
  <1> DEFINE c == o.copy
             e == [sha |-> o.sha, build |-> "none"]
  <1>1. c \in Records /\ o.sha \in Nat /\ o.sha <= n
    BY DEF Ops, Shape
  <1>2. \A v \in Versions : c.versions[v] \in Entries /\ c.versions[v].sha <= n
    BY <1>1 DEF Records, Shape
  <1>3. CASE o.change = "save"
    <2>1. o.version \in Versions /\ o.version \in MaybeVersion
      BY <1>3 DEF Shape, MaybeVersion
    <2>2. e \in Entries
      BY <1>1 DEF Entries, Builds
    <2> DEFINE w == [c.versions EXCEPT ![o.version] = e]
    <2>3. Updated(o) = [c EXCEPT !.current = o.version, !.versions = w]
      BY <1>3 DEF Updated, WithVersion
    <2>4. w \in [Versions -> Entries]
      BY <1>1, <2>1, <2>2 DEF Records
    <2>5. \A v \in Versions : w[v].sha <= n
      BY <1>1, <1>2, <2>1 DEF Records
    <2> HIDE DEF w, e
    <2> QED
      BY <1>1, <2>1, <2>3, <2>4, <2>5 DEF Records
  <1>4. CASE o.change = "current"
    <2>1. Updated(o) = [c EXCEPT !.current = o.target]
      BY <1>4 DEF Updated
    <2> QED
      BY <1>1, <1>2, <2>1 DEF Records, Ops
  <1>5. CASE o.change \in {"built", "failed"}
    <2>1. PICK b \in Builds : Updated(o) = [c EXCEPT !.versions[o.version].build = b]
      BY <1>5 DEF Updated, Builds
    <2>2. o.version \in Versions
      BY <1>5 DEF Shape
    <2>3. [c.versions[o.version] EXCEPT !.build = b] \in Entries
      BY <1>2, <2>2 DEF Entries
    <2>4. [c.versions[o.version] EXCEPT !.build = b].sha = c.versions[o.version].sha
      BY <1>2, <2>2 DEF Entries
    <2> QED
      BY <1>1, <1>2, <2>1, <2>2, <2>3, <2>4 DEF Records
  <1>6. CASE o.change = "published"
    <2>1. Updated(o) = [c EXCEPT !.published = o.version]
      BY <1>6 DEF Updated
    <2> QED
      BY <1>1, <1>2, <2>1 DEF Records, Ops
  <1>7. CASE o.change \notin {"save", "current", "built", "failed", "published"}
    <2>1. Updated(o) = [c EXCEPT !.pinned = ~ c.pinned]
      BY <1>7 DEF Updated
    <2> QED
      BY <1>1, <1>2, <2>1 DEF Records
  <1> QED
    BY <1>3, <1>4, <1>5, <1>6, <1>7
------------------------------------------------------------------------------
(***************************************************************************)
(* Type correctness: what each kind of step leaves as it was, or types.    *)
(***************************************************************************)
USE DeliveryAssumption

LEMMA InitTyped == Init => Typed
  <1> SUFFICES ASSUME Init PROVE Typed
    OBVIOUS
  <1>1. Len(commits) = 1 /\ commits \in Seq(Nat)
    BY DEF Init
  <1>2. stored \in Records /\ \A v \in Versions : stored.versions[v].sha = 0
    BY DEF Init, NewRecord, Records, MaybeVersion, Entries, Unlisted, Builds
  <1>3. IdleOp \in Ops /\ Shape(IdleOp, 1, FALSE)
    BY IdleShape
  <1>4. op \in [Requests -> Ops] /\ \A r \in Requests : Shape(op[r], Len(commits), deleted)
    BY <1>1, <1>3 DEF Init
  <1>5. tags \in [Versions -> 0..Len(commits)] /\ head \in 1..Len(commits)
    BY <1>1 DEF Init
  <1>6. /\ zips \in [Versions -> Nat \union {NoZip}]
        /\ artifact \in [Versions -> SUBSET Files]
        /\ site \in [Files -> MaybeVersion]
    BY DEF Init, MaybeVersion
  <1>7. Readable => \A v \in Versions : stored.versions[v].sha <= Len(commits)
    BY <1>1, <1>2
  <1> QED
    BY <1>1, <1>2, <1>4, <1>5, <1>6, <1>7 DEF Init, Typed

(* One request advances, and everything else that types need is kept. *)
LEMMA OneRequest ==
  ASSUME Typed, NEW r \in Requests, NEW o \in Ops,
         op' = [op EXCEPT ![r] = o],
         Len(commits') \in Nat, Len(commits) <= Len(commits'),
         deleted => deleted', Shape(o, Len(commits'), deleted')
  PROVE  /\ op' \in [Requests -> Ops]
         /\ \A q \in Requests : Shape(op'[q], Len(commits'), deleted')
  <1>1. Len(commits) \in Nat
    BY DEF Typed
  <1>2. ASSUME NEW q \in Requests PROVE Shape(op'[q], Len(commits'), deleted')
    <2>1. CASE q = r
      BY <2>1 DEF Typed
    <2>2. CASE q # r
      <3>1. op'[q] = op[q] /\ op[q] \in Ops /\ Shape(op[q], Len(commits), deleted)
        BY <2>2 DEF Typed
      <3> QED
        BY <1>1, <3>1, ShapeGrows
    <2> QED
      BY <2>1, <2>2
  <1> QED
    BY <1>2 DEF Typed

LEMMA FreshShape ==
  ASSUME NEW n \in Nat, NEW d, NEW pc \in PCs, NEW change \in Changes, NEW v \in MaybeVersion,
         change \in {"save", "built", "failed", "published"} => v \in Versions,
         change # "current",
         \/ pc = "check" /\ change = "save"
         \/ pc = "compile" /\ change = "built"
         \/ pc = "sweep" /\ change = "published"
         \/ pc \in {"read", "drop"} /\ change # "save"
  PROVE  Fresh(pc, change, v) \in Ops /\ Shape(Fresh(pc, change, v), n, d)
  <1>1. IdleOp \in Ops /\ Shape(IdleOp, n, d)
    BY IdleShape
  <1>2. Fresh(pc, change, v) \in Ops
    BY <1>1 DEF Fresh, Ops
  <1>3. /\ Fresh(pc, change, v).pc = pc /\ Fresh(pc, change, v).change = change
        /\ Fresh(pc, change, v).version = v /\ Fresh(pc, change, v).sha = 0
        /\ Fresh(pc, change, v).target = NoVersion
        /\ Fresh(pc, change, v).copy = IdleOp.copy
    BY DEF Fresh, IdleOp
  <1> QED
    BY <1>1, <1>2, <1>3 DEF Shape

(* A restore that has just arrived. *)
LEMMA RestoreShape ==
  ASSUME NEW n \in Nat, NEW d, NEW s \in MaybeVersion, NEW t \in Versions, NEW b \in 1..n
  PROVE  LET o == [IF s = NoVersion THEN Fresh("reset", "current", s)
                                    ELSE Fresh("check", "save", s)
                   EXCEPT !.target = t, !.base = b]
         IN  o \in Ops /\ Shape(o, n, d)
  <1> DEFINE f == IF s = NoVersion THEN Fresh("reset", "current", s) ELSE Fresh("check", "save", s)
             o == [f EXCEPT !.target = t, !.base = b]
  <1>1. IdleOp \in Ops /\ Shape(IdleOp, n, d)
    BY IdleShape
  <1>2. f \in Ops
    BY <1>1 DEF Fresh, Ops, PCs, Changes
  <1>3. /\ f.sha = 0 /\ f.version = s /\ f.copy = IdleOp.copy
        /\ \/ s = NoVersion /\ f.pc = "reset" /\ f.change = "current"
           \/ s \in Versions /\ f.pc = "check" /\ f.change = "save"
    BY DEF Fresh, IdleOp, MaybeVersion
  <1> HIDE DEF f
  <1>4. o \in Ops
    <2>1. t \in MaybeVersion /\ b \in Nat
      BY DEF MaybeVersion
    <2> QED
      BY <1>2, <2>1 DEF Ops
  <1>5. /\ o.sha = 0 /\ o.version = s /\ o.copy = IdleOp.copy /\ o.target = t /\ o.base = b
        /\ o.pc = f.pc /\ o.change = f.change
    BY <1>2, <1>3 DEF Ops
  <1> HIDE DEF o
  <1>6. o \in Ops /\ Shape(o, n, d)
    BY <1>1, <1>3, <1>4, <1>5 DEF Shape
  <1> QED
    BY <1>6 DEF o, f

(* A request arrives. *)
LEMMA RequestTyped ==
  ASSUME Typed, NEW r \in Requests, Request(r)
  PROVE  Typed'
  <1>1. UNCHANGED <<repo, edits, workspace, storage, stored, saved, deleted>>
    BY DEF Request, PinBegin, DeleteBegin, SaveBegin, BuildBegin, DeployBegin, RestoreBegin, Begin
  <1>2. Len(commits) \in Nat
    BY DEF Typed
  <1>3. NoVersion \in MaybeVersion /\ Versions \subseteq MaybeVersion
    BY DEF MaybeVersion
  <1> DEFINE Arrives == \E o \in Ops : op' = [op EXCEPT ![r] = o] /\ Shape(o, Len(commits), deleted)
  <1> HIDE DEF Arrives
  <1>4. Arrives
    <2>1. CASE PinBegin(r)
      <3>1. op' = [op EXCEPT ![r] = Fresh("read", "pinned", NoVersion)]
        BY <2>1 DEF PinBegin, Begin
      <3>2. Fresh("read", "pinned", NoVersion) \in Ops /\ Shape(Fresh("read", "pinned", NoVersion), Len(commits), deleted)
        BY <1>2, <1>3, FreshShape DEF PCs, Changes
      <3> QED
        BY <3>1, <3>2 DEF Arrives
    <2>2. CASE DeleteBegin(r)
      <3>1. op' = [op EXCEPT ![r] = Fresh("drop", "none", NoVersion)]
        BY <2>2 DEF DeleteBegin, Begin
      <3>2. Fresh("drop", "none", NoVersion) \in Ops /\ Shape(Fresh("drop", "none", NoVersion), Len(commits), deleted)
        BY <1>2, <1>3, FreshShape DEF PCs, Changes
      <3> QED
        BY <3>1, <3>2 DEF Arrives
    <2>3. ASSUME NEW v \in Versions, SaveBegin(r, v)
          PROVE  Arrives
      <3>1. op' = [op EXCEPT ![r] = Fresh("check", "save", v)]
        BY <2>3 DEF SaveBegin, Begin
      <3>2. Fresh("check", "save", v) \in Ops /\ Shape(Fresh("check", "save", v), Len(commits), deleted)
        BY <1>2, <1>3, FreshShape DEF PCs, Changes
      <3> QED
        BY <3>1, <3>2 DEF Arrives
    <2>4. ASSUME NEW v \in Versions, BuildBegin(r, v)
          PROVE  Arrives
      <3>1. op' = [op EXCEPT ![r] = Fresh("compile", "built", v)]
        BY <2>4 DEF BuildBegin, Begin
      <3>2. Fresh("compile", "built", v) \in Ops /\ Shape(Fresh("compile", "built", v), Len(commits), deleted)
        BY <1>2, <1>3, FreshShape DEF PCs, Changes
      <3> QED
        BY <3>1, <3>2 DEF Arrives
    <2>5. ASSUME NEW v \in Versions, DeployBegin(r, v)
          PROVE  Arrives
      <3>1. op' = [op EXCEPT ![r] = Fresh("sweep", "published", v)]
        BY <2>5 DEF DeployBegin, Begin
      <3>2. Fresh("sweep", "published", v) \in Ops /\ Shape(Fresh("sweep", "published", v), Len(commits), deleted)
        BY <1>2, <1>3, FreshShape DEF PCs, Changes
      <3> QED
        BY <3>1, <3>2 DEF Arrives
    <2>6. ASSUME NEW v \in Versions, NEW s \in MaybeVersion, RestoreBegin(r, v, s)
          PROVE  Arrives
      <3>1. stored.versions[v].sha \in 1..Len(commits)
        BY <2>6 DEF Typed, RestoreBegin, Readable, Listed, Records, Entries
      <3> QED
        BY <1>2, <2>6, <3>1, RestoreShape DEF RestoreBegin, Begin, Arrives
    <2> QED
      BY <2>1, <2>2, <2>3, <2>4, <2>5, <2>6 DEF Request
  <1>5. Len(commits') = Len(commits) /\ deleted' = deleted
    BY <1>1 DEF repo
  <1>6. op' \in [Requests -> Ops] /\ \A q \in Requests : Shape(op'[q], Len(commits'), deleted')
    <2>2. PICK o \in Ops : op' = [op EXCEPT ![r] = o] /\ Shape(o, Len(commits), deleted)
      BY <1>4 DEF Arrives
    <2>1. Len(commits') \in Nat /\ Len(commits) <= Len(commits') /\ (deleted => deleted')
          /\ Shape(o, Len(commits'), deleted')
      BY <1>2, <2>2, <1>5
    <2> QED
      BY <2>2, <2>1, OneRequest
  <1> QED
    BY <1>1, <1>6 DEF Typed, repo, storage, Readable

(* A request that moves on within its handler. *)
Follows(x, o, n, d) ==
    /\ x \in Ops
    /\ x.version = o.version /\ x.target = o.target /\ x.base = o.base
    /\ x.change = o.change /\ x.copy = o.copy /\ x.sha \in 0..n
    /\ x.pc \in {"check", "commit", "tag", "sha", "zip"} => o.change = "save"
    /\ x.pc \in {"compile", "clean", "copy"} => o.change = "built"
    /\ x.pc \in {"sweep", "publish"} => o.change = "published"
    /\ x.pc = "reset" => o.change = "current"
    /\ o.change = "save" /\ x.pc \in {"zip", "read", "write", "writing"} => x.sha \in 1..n
    /\ x.pc = "purge" => d

LEMMA FollowingShape ==
  ASSUME NEW o, NEW x, NEW n \in Nat, NEW d, Shape(o, n, d), Follows(x, o, n, d)
  PROVE  x \in Ops /\ Shape(x, n, d)
BY DEF Shape, Follows

LEMMA GotoFollows ==
  ASSUME NEW o \in Ops, NEW n \in Nat, NEW d, Shape(o, n, d), NEW pc \in PCs,
         pc \in {"check", "commit", "tag", "sha", "zip"} => o.change = "save",
         pc \in {"compile", "clean", "copy"} => o.change = "built",
         pc \in {"sweep", "publish"} => o.change = "published",
         pc = "reset" => o.change = "current",
         o.change = "save" /\ pc \in {"zip", "read", "write", "writing"} => o.sha \in 1..n,
         pc = "purge" => d
  PROVE  Follows([o EXCEPT !.pc = pc], o, n, d)
  <1>1. [o EXCEPT !.pc = pc] \in Ops
    BY DEF Ops
  <1>2. o.sha \in 0..n
    BY DEF Shape
  <1> QED
    BY <1>1, <1>2 DEF Follows, Ops

(* Steps of createVersion and restoreVersion in the repository. *)
LEMMA VersioningTyped ==
  ASSUME Typed, NEW r \in Requests, Versioning(r)
  PROVE  Typed'
  <1> DEFINE o == op[r]
             n == Len(commits)
             Moves(m, d) == \E x \in Ops : op' = [op EXCEPT ![r] = x] /\ Shape(x, m, d)
  <1>1. o \in Ops /\ Shape(o, n, deleted) /\ n \in Nat /\ op \in [Requests -> Ops]
    BY DEF Typed
  <1>2. IdleOp \in Ops /\ Shape(IdleOp, n, deleted)
    BY <1>1, IdleShape
  <1>3. ASSUME NEW pc \in PCs, Goto(r, pc), Follows([o EXCEPT !.pc = pc], o, n, deleted)
        PROVE  Moves(n, deleted)
    <2>1. op' = [op EXCEPT ![r] = [o EXCEPT !.pc = pc]]
      BY <1>3 DEF Goto
    <2> QED
      BY <1>1, <1>3, <2>1, FollowingShape
  <1>4. ASSUME Finish(r) PROVE Moves(n, deleted)
    BY <1>2, <1>4 DEF Finish
  <1> HIDE DEF Moves
  <1>5. ASSUME Moves(n, deleted), UNCHANGED <<commits, stored, deleted>>, Surroundings'
        PROVE  Typed'
    <2>1. PICK x \in Ops : op' = [op EXCEPT ![r] = x] /\ Shape(x, n, deleted)
      BY <1>5 DEF Moves
    <2>2. Len(commits') = n /\ deleted' = deleted
      BY <1>5
    <2>3. /\ op' \in [Requests -> Ops]
          /\ \A q \in Requests : Shape(op'[q], Len(commits'), deleted')
      <3>1. Shape(x, Len(commits'), deleted') /\ (deleted => deleted')
        BY <2>1, <2>2
      <3>2. Len(commits') \in Nat /\ Len(commits) <= Len(commits')
        BY <1>1, <2>2
      <3> QED
        BY <2>1, <3>1, <3>2, OneRequest
    <2> QED
      BY <1>5, <2>3 DEF Typed, Surroundings, Readable
  <1>6. CASE CheckTag(r)
    <2>1. Surroundings'
      BY <1>6 DEF CheckTag, Typed, Surroundings, repo, storage
    <2>2. Moves(n, deleted)
      BY <1>1, <1>3, <1>4, <1>6, GotoFollows DEF CheckTag, At, Shape, PCs
    <2> QED
      BY <1>5, <1>6, <2>1, <2>2 DEF CheckTag, repo
  <1>7. CASE Commit(r)
    <2>1. /\ commits' \in Seq(Nat) /\ head' \in 1..Len(commits')
          /\ n <= Len(commits') /\ Len(commits') \in Nat
      <3>1. CASE commits[head] = tree
        BY <1>7, <3>1 DEF Commit, CommitChanges, Typed
      <3>2. CASE commits[head] # tree
        <4>1. commits' = Append(commits, tree) /\ head' = Len(commits) + 1
          BY <1>7, <3>2 DEF Commit, CommitChanges
        <4>2. commits' \in Seq(Nat) /\ Len(commits') = Len(commits) + 1
          BY <4>1 DEF Typed
        <4> QED
          BY <1>1, <4>1, <4>2
      <3> QED
        BY <3>1, <3>2
    <2>2. Surroundings'
      BY <1>1, <1>7, <2>1 DEF Commit, Typed, Surroundings, storage
    <2>3. Moves(n, deleted)
      BY <1>1, <1>3, <1>7, GotoFollows DEF Commit, At, Shape, PCs
    <2>4. PICK x \in Ops : op' = [op EXCEPT ![r] = x] /\ Shape(x, n, deleted)
      BY <2>3 DEF Moves
    <2>5. Shape(x, Len(commits'), deleted') /\ deleted' = deleted
      BY <1>1, <1>7, <2>1, <2>4, ShapeGrows DEF Commit
    <2>6. /\ op' \in [Requests -> Ops]
          /\ \A q \in Requests : Shape(op'[q], Len(commits'), deleted')
      BY <2>1, <2>4, <2>5, OneRequest
    <2>7. Readable' => \A v \in Versions : stored'.versions[v].sha <= Len(commits')
      BY <1>1, <1>7, <2>1 DEF Commit, Typed, Readable, Records, Entries
    <2> QED
      BY <1>7, <2>2, <2>6, <2>7 DEF Commit, Typed, Surroundings
  <1>8. CASE Tag(r)
    <2>0. tags' \in [Versions -> 0..Len(commits)]
      BY <1>1, <1>8 DEF Tag, Typed
    <2>1. Surroundings'
      BY <1>8, <2>0 DEF Tag, Typed, Surroundings, storage
    <2>2. Moves(n, deleted)
      <3>1. CASE tags[o.version] = 0
        <4>1. Goto(r, "sha") /\ o.pc = "tag"
          BY <1>8, <3>1 DEF Tag, At
        <4>2. o.change = "save"
          BY <1>1, <4>1 DEF Shape
        <4>3. Follows([o EXCEPT !.pc = "sha"], o, n, deleted)
          BY <1>1, <4>1, <4>2, GotoFollows DEF PCs
        <4> QED
          BY <1>3, <4>1, <4>3 DEF PCs
      <3>2. CASE tags[o.version] # 0
        BY <1>4, <1>8, <3>2 DEF Tag
      <3> QED
        BY <3>1, <3>2
    <2> QED
      BY <1>5, <1>8, <2>1, <2>2 DEF Tag
  <1>9. CASE HeadSha(r)
    <2>1. Surroundings'
      BY <1>9 DEF HeadSha, Typed, Surroundings, repo, storage
    <2> DEFINE x == [o EXCEPT !.sha = head, !.pc = "zip"]
    <2>2. head \in 1..n /\ head \in Nat
      BY <1>1 DEF Typed
    <2>3. x \in Ops
      BY <1>1, <2>2 DEF Ops, PCs
    <2>4. op' = [op EXCEPT ![r] = x] /\ o.pc = "sha" /\ o.change = "save"
      BY <1>1, <1>9 DEF HeadSha, At, Shape
    <2>5. Follows(x, o, n, deleted)
      BY <1>1, <2>2, <2>3, <2>4 DEF Follows, Ops
    <2> HIDE DEF x
    <2>6. x \in Ops /\ Shape(x, n, deleted)
      BY <1>1, <2>5, FollowingShape
    <2>7. Moves(n, deleted)
      BY <2>4, <2>6 DEF Moves
    <2> QED
      BY <1>5, <1>9, <2>1, <2>7 DEF HeadSha, repo
  <1>10. CASE Zip(r)
    <2>1. Surroundings'
      BY <1>10 DEF Zip, Typed, Surroundings, repo
    <2>2. Moves(n, deleted)
      BY <1>1, <1>3, <1>10, GotoFollows DEF Zip, At, Shape, PCs
    <2> QED
      BY <1>5, <1>10, <2>1, <2>2 DEF Zip, repo
  <1>11. CASE Reset(r)
    <2>1. o.base \in 1..n /\ o.change = "current"
      BY <1>1, <1>11 DEF Reset, At, Shape
    <2>2. Surroundings'
      BY <1>1, <1>11, <2>1 DEF Reset, Typed, Surroundings, storage
    <2>3. Moves(n, deleted)
      BY <1>1, <1>3, <1>11, <2>1, GotoFollows DEF Reset, PCs
    <2> QED
      BY <1>5, <1>11, <2>2, <2>3 DEF Reset
  <1> QED
    BY <1>6, <1>7, <1>8, <1>9, <1>10, <1>11 DEF Versioning

(* Any step that only moves request r on and leaves the commits alone.  The *)
(* document is what it was, none, torn, or a document of known commits.     *)
LEMMA MovesTyped ==
  ASSUME Typed, NEW r \in Requests, NEW x \in Ops,
         op' = [op EXCEPT ![r] = x],
         commits' = commits, deleted => deleted', Shape(x, Len(commits), deleted'),
         Surroundings',
         \/ stored' \in {stored, Missing, Torn}
         \/ stored' \in Records /\ \A v \in Versions : stored'.versions[v].sha <= Len(commits)
  PROVE  Typed'
  <1>1. Len(commits) \in Nat /\ Len(commits') = Len(commits)
    BY DEF Typed
  <1>2. Shape(x, Len(commits'), deleted')
    BY <1>1
  <1>3. Len(commits') \in Nat /\ Len(commits) <= Len(commits')
    BY <1>1
  <1>4. /\ op' \in [Requests -> Ops]
        /\ \A q \in Requests : Shape(op'[q], Len(commits'), deleted')
    BY <1>2, <1>3, OneRequest
  <1>5. /\ stored' \in Records \union {Missing, Torn}
        /\ Readable' => \A v \in Versions : stored'.versions[v].sha <= Len(commits')
    BY <1>1 DEF Typed, Readable
  <1> QED
    BY <1>4, <1>5 DEF Typed, Surroundings

(* A request that ends, or a restore that goes on to reset the repository. *)
LEMMA AnswerShape ==
  ASSUME Typed, NEW r \in Requests, Answer(r), op[r].pc \in {"write", "writing"}
  PROVE  /\ saved' \subseteq Versions
         /\ \E x \in Ops : op' = [op EXCEPT ![r] = x] /\ Shape(x, Len(commits), deleted)
  <1> DEFINE o == op[r]
             n == Len(commits)
  <1>1. o \in Ops /\ Shape(o, n, deleted) /\ n \in Nat
    BY DEF Typed
  <1>2. saved' \subseteq Versions
    BY <1>1 DEF Answer, Typed, Shape
  <1>3. CASE o.change = "save" /\ o.target # NoVersion
    <2> DEFINE x == [o EXCEPT !.pc = "reset", !.change = "current"]
    <2>1. x \in Ops
      BY <1>1 DEF Ops, PCs, Changes
    <2>2. op' = [op EXCEPT ![r] = x]
      BY <1>3 DEF Answer, Typed
    <2>3. o.target \in Versions
      BY <1>1, <1>3 DEF Ops, MaybeVersion
    <2>4. Shape(x, n, deleted)
      BY <1>1, <2>1, <2>3 DEF Shape, Ops
    <2> HIDE DEF x
    <2> QED
      BY <1>2, <2>1, <2>2, <2>4
  <1>4. CASE ~ (o.change = "save" /\ o.target # NoVersion)
    <2>1. IdleOp \in Ops /\ Shape(IdleOp, n, deleted)
      BY <1>1, IdleShape
    <2>2. op' = [op EXCEPT ![r] = IdleOp]
      BY <1>4 DEF Answer, Finish
    <2> QED
      BY <1>2, <2>1, <2>2
  <1> QED
    BY <1>3, <1>4

(* Steps of updateProject. *)
LEMMA RecordingTyped ==
  ASSUME Typed, NEW r \in Requests, Recording(r)
  PROVE  Typed'
  <1> DEFINE o == op[r]
             n == Len(commits)
  <1>1. o \in Ops /\ Shape(o, n, deleted) /\ n \in Nat /\ op \in [Requests -> Ops]
    BY DEF Typed
  <1>2. IdleOp \in Ops /\ Shape(IdleOp, n, deleted)
    BY <1>1, IdleShape
  <1>3. CASE Read(r)
    <2>1. Surroundings' /\ commits' = commits /\ deleted' = deleted /\ stored' = stored
      BY <1>3 DEF Read, Typed, Surroundings, repo, storage
    <2>2. CASE Readable /\ op' = [op EXCEPT ![r].copy = stored, ![r].pc = "write"]
      <3> DEFINE x == [o EXCEPT !.copy = stored, !.pc = "write"]
      <3>1. stored \in Records /\ \A v \in Versions : stored.versions[v].sha <= n
        BY <2>2 DEF Typed, Readable
      <3>2. x \in Ops
        BY <1>1, <3>1 DEF Ops, PCs
      <3>3. op' = [op EXCEPT ![r] = x]
        BY <1>1, <2>2
      <3>4. o.pc = "read"
        BY <1>3 DEF Read, At
      <3>5. /\ x.pc = "write" /\ x.copy = stored /\ x.sha = o.sha /\ x.change = o.change
            /\ x.version = o.version /\ x.target = o.target /\ x.base = o.base
        BY <1>1 DEF Ops
      <3> HIDE DEF x
      <3>6. Shape(x, n, deleted)
        BY <1>1, <3>1, <3>4, <3>5 DEF Shape
      <3> QED
        BY <2>1, <3>2, <3>3, <3>6, MovesTyped
    <2>3. CASE Finish(r)
      BY <1>2, <2>1, <2>3, MovesTyped DEF Finish
    <2> QED
      BY <1>3, <2>2, <2>3 DEF Read
  <1>4. o.pc \in {"write", "writing"} =>
           Updated(o) \in Records /\ \A v \in Versions : Updated(o).versions[v].sha <= n
    BY <1>1, UpdatedIsRecord
  <1>5. CASE Write(r)
    <2>1. o.pc = "write"
      BY <1>5 DEF Write, At
    <2>2. CASE LocalFile
      <3>1. Surroundings' /\ commits' = commits /\ deleted' = deleted /\ stored' = Torn
        BY <1>5, <2>2 DEF Write, Typed, Surroundings, repo, storage
      <3> DEFINE x == [o EXCEPT !.pc = "writing"]
      <3>2. op' = [op EXCEPT ![r] = x]
        BY <1>5, <2>2 DEF Write, Goto
      <3>3. o.change = "save" => o.sha \in 1..n
        BY <1>1, <2>1 DEF Shape
      <3>4. Follows(x, o, n, deleted)
        BY <1>1, <3>3, GotoFollows DEF PCs
      <3> HIDE DEF x
      <3>5. x \in Ops /\ Shape(x, n, deleted)
        BY <1>1, <3>4, FollowingShape
      <3> QED
        BY <3>1, <3>2, <3>5, MovesTyped
    <2>3. CASE ~ LocalFile
      <3>1. commits' = commits /\ deleted' = deleted /\ stored' = Updated(o) /\ Answer(r)
        BY <1>5, <2>3 DEF Write, repo
      <3>2. PICK x \in Ops : op' = [op EXCEPT ![r] = x] /\ Shape(x, n, deleted)
        BY <2>1, <3>1, AnswerShape
      <3>3. saved' \subseteq Versions
        BY <2>1, <3>1, AnswerShape
      <3>4. Surroundings'
        BY <1>5, <3>3 DEF Write, Typed, Surroundings, repo, storage
      <3> QED
        BY <1>4, <2>1, <3>1, <3>2, <3>4, MovesTyped
    <2> QED
      BY <2>2, <2>3
  <1>6. CASE Written(r)
    <2>1. o.pc = "writing"
      BY <1>6 DEF Written, At
    <2>2. commits' = commits /\ deleted' = deleted /\ stored' \in {Missing, Updated(o)} /\ Answer(r)
      BY <1>6 DEF Written, repo
    <2>3. PICK x \in Ops : op' = [op EXCEPT ![r] = x] /\ Shape(x, n, deleted)
      BY <2>1, <2>2, AnswerShape
    <2>4. saved' \subseteq Versions
      BY <2>1, <2>2, AnswerShape
    <2>5. Surroundings'
      BY <1>6, <2>4 DEF Written, Typed, Surroundings, repo, storage
    <2> QED
      BY <1>4, <2>1, <2>2, <2>3, <2>5, MovesTyped
  <1> QED
    BY <1>3, <1>5, <1>6 DEF Recording

(* Steps of buildVersion and deployVersion on files. *)
LEMMA ProducingTyped ==
  ASSUME Typed, NEW r \in Requests, Producing(r)
  PROVE  Typed'
  <1> DEFINE o == op[r]
             n == Len(commits)
  <1>1. o \in Ops /\ Shape(o, n, deleted) /\ n \in Nat /\ op \in [Requests -> Ops]
    BY DEF Typed
  <1>2. commits' = commits /\ deleted' = deleted /\ stored' = stored
    BY DEF Producing, Compile, CleanArtifact, CopyArtifact, SweepSite, CopySite, repo
  <1>3. o.version \in Versions /\ o.change \in {"built", "published"}
        /\ (o.pc \in {"compile", "clean", "copy"} <=> o.change = "built")
        /\ (o.pc \in {"sweep", "publish"} <=> o.change = "published")
    BY <1>1 DEF Producing, Compile, CleanArtifact, CopyArtifact, SweepSite, CopySite, At, Shape
  <1>4. Surroundings'
    <2>1. CASE Compile(r)
      BY <2>1 DEF Compile, Typed, Surroundings, repo, storage
    <2>2. CASE CleanArtifact(r)
      BY <1>3, <2>2 DEF CleanArtifact, Typed, Surroundings, repo
    <2>3. CASE SweepSite(r)
      BY <2>3 DEF SweepSite, Typed, Surroundings, repo, MaybeVersion
    <2>4. ASSUME NEW f \in Files, CopyArtifact(r, f) PROVE Surroundings'
      BY <1>3, <2>4 DEF CopyArtifact, Typed, Surroundings, repo
    <2>5. ASSUME NEW f \in Files, CopySite(r, f) PROVE Surroundings'
      BY <1>3, <2>5 DEF CopySite, Typed, Surroundings, repo, MaybeVersion
    <2> QED
      BY <2>1, <2>2, <2>3, <2>4, <2>5 DEF Producing
  <1>5. PICK pc \in {"clean", "copy", "publish", "read"}, todo \in SUBSET Files :
          /\ op' = [op EXCEPT ![r] = [o EXCEPT !.pc = pc, !.todo = todo]]
          /\ pc \in {"clean", "copy"} => o.change = "built"
          /\ pc = "publish" => o.change = "published"
    <2>1. CASE Compile(r)
      <3>1. op' = [op EXCEPT ![r] = [o EXCEPT !.pc = "clean", !.todo = o.todo]]
        BY <1>1, <2>1 DEF Compile, Goto, Ops
      <3>2. o.todo \in SUBSET Files /\ o.change = "built"
        BY <1>1, <2>1 DEF Compile, At, Shape, Ops
      <3> QED
        BY <3>1, <3>2
    <2>2. CASE CleanArtifact(r)
      BY <1>1, <1>3, <2>2 DEF CleanArtifact, At
    <2>3. CASE SweepSite(r)
      BY <1>1, <1>3, <2>3 DEF SweepSite, At
    <2>4. CASE \E f \in Files : CopyArtifact(r, f)
      <3>1. PICK f \in Files : CopyArtifact(r, f)
        BY <2>4
      <3> DEFINE pc == IF o.todo = {f} THEN "read" ELSE o.pc
      <3>2. op' = [op EXCEPT ![r] = [o EXCEPT !.pc = pc, !.todo = o.todo \ {f}]]
        BY <1>1, <3>1 DEF CopyArtifact, Copied, Ops
      <3>3. pc \in {"copy", "read"} /\ o.change = "built" /\ o.todo \ {f} \in SUBSET Files
        BY <1>1, <1>3, <3>1 DEF CopyArtifact, At, Ops
      <3> QED
        BY <3>2, <3>3
    <2>5. CASE \E f \in Files : CopySite(r, f)
      <3>1. PICK f \in Files : CopySite(r, f)
        BY <2>5
      <3> DEFINE pc == IF o.todo = {f} THEN "read" ELSE o.pc
      <3>2. op' = [op EXCEPT ![r] = [o EXCEPT !.pc = pc, !.todo = o.todo \ {f}]]
        BY <1>1, <3>1 DEF CopySite, Copied, Ops
      <3>3. pc \in {"publish", "read"} /\ o.change = "published" /\ o.todo \ {f} \in SUBSET Files
        BY <1>1, <1>3, <3>1 DEF CopySite, At, Ops
      <3> QED
        BY <3>2, <3>3
    <2> QED
      BY <2>1, <2>2, <2>3, <2>4, <2>5 DEF Producing
  <1> DEFINE x == [o EXCEPT !.pc = pc, !.todo = todo]
  <1>6. x \in Ops
    BY <1>1 DEF Ops, PCs
  <1>7. /\ x.pc = pc /\ x.version = o.version /\ x.target = o.target /\ x.base = o.base
        /\ x.change = o.change /\ x.copy = o.copy /\ x.sha = o.sha
    BY <1>1 DEF Ops
  <1>8. o.sha \in 0..n
    BY <1>1 DEF Shape
  <1> HIDE DEF x
  <1>9. Follows(x, o, n, deleted)
    BY <1>3, <1>5, <1>6, <1>7, <1>8 DEF Follows
  <1>10. Shape(x, n, deleted)
    BY <1>1, <1>9, FollowingShape
  <1>11. op' = [op EXCEPT ![r] = x]
    BY <1>5 DEF x
  <1> QED
    BY <1>2, <1>4, <1>6, <1>10, <1>11, MovesTyped

(* Deletion and failure. *)
LEMMA EndingTyped ==
  ASSUME Typed, NEW r \in Requests, Ending(r)
  PROVE  Typed'
  <1> DEFINE o == op[r]
             n == Len(commits)
  <1>1. o \in Ops /\ Shape(o, n, deleted) /\ n \in Nat /\ op \in [Requests -> Ops]
    BY DEF Typed
  <1>2. IdleOp \in Ops /\ Shape(IdleOp, n, deleted)
    BY <1>1, IdleShape
  <1>3. CASE Drop(r)
    <2>1. Surroundings' /\ commits' = commits /\ stored' = Missing /\ deleted'
      BY <1>3 DEF Drop, Typed, Surroundings, repo, storage
    <2> DEFINE x == [o EXCEPT !.pc = "purge"]
    <2>2. op' = [op EXCEPT ![r] = x]
      BY <1>3 DEF Drop, Goto
    <2>3. Shape(o, n, TRUE)
      BY <1>1 DEF Shape
    <2>4. Follows(x, o, n, TRUE)
      BY <1>1, <2>3, GotoFollows DEF PCs
    <2> HIDE DEF x
    <2>5. x \in Ops /\ Shape(x, n, TRUE)
      BY <1>1, <2>3, <2>4, FollowingShape
    <2>6. Shape(x, n, deleted')
      BY <2>1, <2>5 DEF Shape
    <2> QED
      BY <2>1, <2>2, <2>5, <2>6, MovesTyped
  <1>4. CASE Purge(r)
    <2>1. Surroundings'
      BY <1>4 DEF Purge, Typed, Surroundings, repo, MaybeVersion
    <2>2. commits' = commits /\ stored' = stored /\ deleted' = deleted
      BY <1>4 DEF Purge, repo
    <2> QED
      <3>1. op' = [op EXCEPT ![r] = IdleOp]
        BY <1>4 DEF Purge, Finish
      <3> QED
        BY <1>2, <2>1, <2>2, <3>1, MovesTyped
  <1>5. CASE Fail(r)
    <2>1. Surroundings' /\ commits' = commits /\ stored' = stored /\ deleted' = deleted
      BY <1>5 DEF Fail, Typed, Surroundings, repo, storage
    <2>2. CASE o.pc \in {"compile", "clean", "copy"}
      <3> DEFINE x == [o EXCEPT !.pc = "read", !.change = "failed", !.todo = {}]
      <3>1. op' = [op EXCEPT ![r] = x]
        BY <1>1, <1>5, <2>2 DEF Fail
      <3>2. x \in Ops
        BY <1>1 DEF Ops, PCs, Changes
      <3>3. /\ x.pc = "read" /\ x.change = "failed" /\ x.copy = o.copy /\ x.sha = o.sha
            /\ x.version = o.version /\ x.target = o.target /\ x.base = o.base
        BY <1>1 DEF Ops
      <3> HIDE DEF x
      <3>4. Shape(x, n, deleted)
        BY <1>1, <2>2, <3>3 DEF Shape
      <3> QED
        BY <2>1, <3>1, <3>2, <3>4, MovesTyped
    <2>3. CASE o.pc \notin {"compile", "clean", "copy"}
      <3>1. op' = [op EXCEPT ![r] = IdleOp]
        BY <1>5, <2>3 DEF Fail, Finish
      <3> QED
        BY <1>2, <2>1, <3>1, MovesTyped
    <2> QED
      BY <2>2, <2>3
  <1> QED
    BY <1>3, <1>4, <1>5 DEF Ending

(* Every step keeps the strengthening. *)
LEMMA TypedStep == Typed /\ [Next]_vars => Typed'
  <1> SUFFICES ASSUME Typed, [Next]_vars PROVE Typed'
    OBVIOUS
  <1>1. CASE Edit
    BY <1>1 DEF Edit, Typed, storage, Readable
  <1>2. CASE Restart
    <2>1. Len(commits) \in Nat
      BY DEF Typed
    <2>2. IdleOp \in Ops /\ Shape(IdleOp, Len(commits), deleted)
      BY <2>1, IdleShape
    <2> QED
      BY <1>2, <2>2 DEF Restart, Typed, repo, storage, Readable
  <1>3. CASE UNCHANGED vars
    BY <1>3 DEF vars, repo, storage, Typed, Readable
  <1> QED
    BY <1>1, <1>2, <1>3, RequestTyped, VersioningTyped, RecordingTyped, ProducingTyped,
       EndingTyped DEF Next

(* Every document, tag and request names versions and commits that exist,   *)
(* and the state has the shape declared for it.                             *)
THEOREM TypeCorrect == Spec => []TypeOK
  BY TypedStep, InitTyped, TypedImpliesTypeOK, PTL DEF Spec
------------------------------------------------------------------------------
(***************************************************************************)
(* Documents and saves.  Of the many copies of the document, none lists a  *)
(* version that is being saved, none lists a version without a tag, and    *)
(* any two agree on the commit of a version both list.                     *)
(***************************************************************************)
SavesExclusive ==
    \A r \in Requests : Sealed(r) =>
        /\ tags[op[r].version] # 0
        /\ \A q \in Requests : Sealed(q) /\ op[q].version = op[r].version => q = r
        /\ \A d \in Documents : ~ Listed(d, op[r].version)

DocumentsAgree ==
    /\ \A d \in Documents, v \in Versions : Listed(d, v) => tags[v] # 0
    /\ \A d, e \in Documents, v \in Versions :
          Listed(d, v) /\ Listed(e, v) => d.versions[v].sha = e.versions[v].sha

(* A step that adds no document, no tag, and no save beyond git tag. *)
Quiet ==
    /\ tags' = tags
    /\ Documents' \subseteq Documents \union {NewRecord}
    /\ \A q \in Requests : Sealed(q)' => Sealed(q) /\ op'[q].version = op[q].version

(* git tag creates a tag. *)
Seals(r) ==
    /\ op[r].version \in Versions
    /\ tags[op[r].version] = 0
    /\ \E sha \in Nat \ {0} : tags' = [tags EXCEPT ![op[r].version] = sha]
    /\ Documents' \subseteq Documents
    /\ op'[r].version = op[r].version /\ op'[r].pc = "sha"
    /\ \A q \in Requests \ {r} : op'[q] = op[q]

(* An updated copy becomes the document. *)
Records_(r) ==
    /\ tags' = tags
    /\ op[r].pc \in {"write", "writing"}
    /\ Documents' \subseteq Documents \union {NewRecord, Updated(op[r])}
    /\ ~ Sealed(r)'
    /\ \A q \in Requests \ {r} : op'[q] = op[q]

(* A request has arrived. *)
Arrived(r) ==
    \E x : /\ op' = [op EXCEPT ![r] = x] /\ x.copy = NewRecord
           /\ x.pc \in {"check", "compile", "sweep", "reset", "drop", "read"}
           /\ x.pc = "read" => x.change # "save"

(* Documents after request r moved on with copy c of the document. *)
LEMMA DocumentsAfter ==
  ASSUME Typed, NEW r \in Requests, NEW x, op' = [op EXCEPT ![r] = x],
         NEW D, x.copy \in D, Readable' => stored' \in D, Documents \subseteq D
  PROVE  Documents' \subseteq D
  <1>1. \A q \in Requests : op'[q].copy \in D
    BY DEF Documents, Typed
  <1> QED
    BY <1>1 DEF Documents

(* Request r goes on as x without sealing anything. *)
GoesOn(r, x) ==
    /\ op' = [op EXCEPT ![r] = x]
    /\ tags' = tags
    /\ Readable' => stored' \in Documents
    /\ x.copy \in Documents \union {NewRecord}
    /\ x.pc \in {"sha", "zip"} => Sealed(r) /\ x.version = op[r].version
    /\ x.change = "save" /\ x.pc \in {"read", "write", "writing"} =>
           Sealed(r) /\ x.version = op[r].version

LEMMA GoesOnQuiet ==
  ASSUME Typed, NEW r \in Requests, NEW x, GoesOn(r, x) PROVE Quiet
  <1>1. Documents' \subseteq Documents \union {NewRecord}
    BY DocumentsAfter DEF GoesOn
  <1>2. op'[r] = x /\ \A q \in Requests \ {r} : op'[q] = op[q]
    BY DEF Typed, GoesOn
  <1>3. ASSUME NEW q \in Requests, Sealed(q)'
        PROVE  Sealed(q) /\ op'[q].version = op[q].version
    BY <1>2, <1>3 DEF Sealed, GoesOn
  <1> QED
    BY <1>1, <1>3 DEF Quiet, GoesOn

(* Request r goes on at pc, with nothing else changed. *)
Advances(r, pc) ==
    /\ op' = [op EXCEPT ![r].pc = pc]
    /\ tags' = tags /\ stored' = stored
    /\ pc \in {"sha", "zip"} => Sealed(r)
    /\ pc \in {"read", "write", "writing"} /\ op[r].change = "save" => Sealed(r)

LEMMA AdvancesQuiet ==
  ASSUME Typed, NEW r \in Requests, NEW pc, Advances(r, pc) PROVE Quiet
  <1> DEFINE x == [op[r] EXCEPT !.pc = pc]
  <1>1. op[r] \in Ops /\ op[r].copy \in Documents
    BY DEF Typed, Documents
  <1>2. op' = [op EXCEPT ![r] = x]
    BY DEF Advances
  <1>3. x.pc = pc /\ x.change = op[r].change /\ x.version = op[r].version /\ x.copy = op[r].copy
    BY <1>1 DEF Ops
  <1>4. Readable' => stored' \in Documents
    BY DEF Advances, Readable, Documents
  <1> HIDE DEF x
  <1>5. GoesOn(r, x)
    BY <1>1, <1>2, <1>3, <1>4 DEF Advances, GoesOn
  <1> QED
    BY <1>5, GoesOnQuiet

(* A build or a publication goes on at pc, with the files todo left. *)
Proceeds(r, pc, todo) ==
    /\ op' = [op EXCEPT ![r] = [op[r] EXCEPT !.pc = pc, !.todo = todo]]
    /\ tags' = tags /\ stored' = stored
    /\ op[r].change # "save"
    /\ pc \in {"clean", "copy", "publish", "read"}

LEMMA ProceedsQuiet ==
  ASSUME Typed, NEW r \in Requests, NEW pc, NEW todo, Proceeds(r, pc, todo) PROVE Quiet
  <1> DEFINE x == [op[r] EXCEPT !.pc = pc, !.todo = todo]
  <1>1. op[r] \in Ops /\ op[r].copy \in Documents
    BY DEF Typed, Documents
  <1>2. op' = [op EXCEPT ![r] = x]
    BY DEF Proceeds
  <1>3. x.pc = pc /\ x.change = op[r].change /\ x.copy = op[r].copy
    BY <1>1 DEF Ops
  <1>4. Readable' => stored' \in Documents
    BY DEF Proceeds, Readable, Documents
  <1> HIDE DEF x
  <1>5. GoesOn(r, x)
    BY <1>1, <1>2, <1>3, <1>4 DEF Proceeds, GoesOn
  <1> QED
    BY <1>5, GoesOnQuiet

LEMMA StepKinds ==
  ASSUME Typed, [Next]_vars
  PROVE  Quiet \/ \E r \in Requests : Seals(r) \/ Records_(r)
  <1>1. CASE Edit \/ UNCHANGED vars
    <2>1. tags' = tags /\ op' = op /\ stored' = stored
      BY <1>1 DEF Edit, vars, repo
    <2> QED
      BY <2>1 DEF Quiet, Documents, Readable, Sealed
  <1>2. CASE Restart
    <2>1. tags' = tags /\ stored' = stored /\ \A q \in Requests : op'[q] = IdleOp
      BY <1>2 DEF Restart, repo
    <2>2. \A q \in Requests : ~ Sealed(q)' /\ op'[q].copy = NewRecord
      BY <2>1 DEF Sealed, IdleOp
    <2> QED
      BY <2>1, <2>2 DEF Quiet, Documents, Readable
  <1>4. ASSUME NEW r \in Requests, tags' = tags, stored' = stored, Finish(r) PROVE Quiet
    <2>1. op' = [op EXCEPT ![r] = IdleOp]
      BY <1>4 DEF Finish
    <2>2. Readable' => stored' \in Documents
      BY <1>4 DEF Readable, Documents
    <2>3. IdleOp.pc = "idle" /\ IdleOp.copy = NewRecord
      BY DEF IdleOp
    <2>4. GoesOn(r, IdleOp)
      BY <1>4, <2>1, <2>2, <2>3 DEF GoesOn
    <2> QED
      BY <2>4, GoesOnQuiet
  <1>5. Readable /\ stored' = stored => stored' \in Documents
    BY DEF Documents
  <1>6. ASSUME NEW r \in Requests, Request(r) PROVE Quiet
    <2>1. tags' = tags /\ stored' = stored
      <3>1. \A kind, x : Begin(r, kind, x) => tags' = tags /\ stored' = stored
        BY DEF Begin, repo
      <3> QED
        BY <1>6, <3>1, Zenon DEF Request, PinBegin, DeleteBegin, SaveBegin, BuildBegin, DeployBegin,
                  RestoreBegin
    <2>2. Arrived(r)
      <3>1. ASSUME NEW pc, NEW change, NEW v, op' = [op EXCEPT ![r] = Fresh(pc, change, v)],
                   pc \in {"check", "compile", "sweep", "reset", "drop", "read"},
                   pc = "read" => change # "save"
            PROVE  Arrived(r)
        <4>1. Fresh(pc, change, v).pc = pc /\ Fresh(pc, change, v).change = change
              /\ Fresh(pc, change, v).copy = NewRecord
          BY DEF Fresh, IdleOp
        <4> QED
          BY <3>1, <4>1 DEF Arrived
      <3>2. ASSUME NEW v \in Versions, NEW s \in MaybeVersion, RestoreBegin(r, v, s)
            PROVE  Arrived(r)
        <4> DEFINE f == IF s = NoVersion THEN Fresh("reset", "current", s) ELSE Fresh("check", "save", s)
                   x == [f EXCEPT !.target = v, !.base = stored.versions[v].sha]
        <4>1. op' = [op EXCEPT ![r] = x]
          BY <3>2 DEF RestoreBegin, Begin
        <4>2. x.pc \in {"reset", "check"} /\ x.copy = NewRecord
          BY DEF Fresh, IdleOp
        <4> QED
          BY <4>1, <4>2 DEF Arrived
      <3>3. CASE PinBegin(r)
        BY <3>1, <3>3 DEF PinBegin, Begin
      <3>4. CASE DeleteBegin(r)
        BY <3>1, <3>4 DEF DeleteBegin, Begin
      <3>5. ASSUME NEW v \in Versions, SaveBegin(r, v) \/ BuildBegin(r, v) \/ DeployBegin(r, v)
            PROVE  Arrived(r)
        BY <3>1, <3>5 DEF SaveBegin, BuildBegin, DeployBegin, Begin
      <3> QED
        BY <1>6, <3>2, <3>3, <3>4, <3>5 DEF Request
    <2>3. Readable' => stored' \in Documents
      BY <1>5, <2>1 DEF Readable
    <2>4. PICK x : GoesOn(r, x)
      BY <2>1, <2>2, <2>3 DEF Arrived, GoesOn
    <2> QED
      BY <2>4, GoesOnQuiet
  <1>7. \A r \in Requests : op[r] \in Ops /\ op[r].copy \in Documents /\ op[r].copy \in Records
    BY DEF Typed, Documents, Ops
  <1>9. ASSUME NEW r \in Requests, Versioning(r) PROVE Quiet \/ Seals(r)
    <2>1. CASE CheckTag(r)
      <3>1. tags' = tags /\ stored' = stored
        BY <2>1 DEF CheckTag, repo
      <3>2. CASE Goto(r, "commit")
        <4>1. Advances(r, "commit")
          BY <3>1, <3>2 DEF Goto, Advances
        <4> QED
          BY <4>1, AdvancesQuiet
      <3> QED
        BY <1>4, <2>1, <3>1, <3>2 DEF CheckTag
    <2>2. CASE Commit(r)
      <3>1. Advances(r, "tag")
        BY <2>2 DEF Commit, Goto, Advances
      <3> QED
        BY <3>1, AdvancesQuiet
    <2>3. CASE Tag(r)
      <3>1. CASE tags[op[r].version] = 0
        <4> DEFINE x == [op[r] EXCEPT !.pc = "sha"]
        <4>1. op' = [op EXCEPT ![r] = x] /\ tags' = [tags EXCEPT ![op[r].version] = head]
              /\ stored' = stored
          BY <2>3, <3>1 DEF Tag, Goto
        <4>2. x.version = op[r].version /\ x.copy = op[r].copy /\ x.pc = "sha"
          BY <1>7 DEF Ops
        <4> HIDE DEF x
        <4>3. Documents' \subseteq Documents
          <5>1. Readable' => stored' \in Documents
            BY <1>5, <4>1 DEF Readable
          <5> QED
            BY <1>7, <4>1, <4>2, <5>1, DocumentsAfter
        <4>4. op'[r] = x /\ \A q \in Requests \ {r} : op'[q] = op[q]
          BY <4>1 DEF Typed
        <4>5. op[r].version \in Versions /\ head \in Nat \ {0}
          BY <2>3 DEF Tag, At, Typed, Shape
        <4> QED
          BY <3>1, <4>1, <4>2, <4>3, <4>4, <4>5 DEF Seals
      <3>2. CASE tags[op[r].version] # 0
        BY <1>4, <2>3, <3>2 DEF Tag
      <3> QED
        BY <3>1, <3>2
    <2>4. CASE HeadSha(r)
      <3> DEFINE x == [op[r] EXCEPT !.sha = head, !.pc = "zip"]
      <3>1. op' = [op EXCEPT ![r] = x] /\ tags' = tags /\ stored' = stored
        BY <2>4 DEF HeadSha, repo, Typed
      <3>2. x.pc = "zip" /\ x.version = op[r].version /\ x.copy = op[r].copy
        BY <1>7 DEF Ops
      <3>3. Sealed(r) /\ (Readable' => stored' \in Documents)
        BY <1>5, <2>4, <3>1 DEF HeadSha, At, Sealed, Readable
      <3> HIDE DEF x
      <3>4. GoesOn(r, x)
        BY <1>7, <3>1, <3>2, <3>3 DEF GoesOn
      <3> QED
        BY <3>4, GoesOnQuiet
    <2>5. CASE Zip(r)
      <3>1. Advances(r, "read")
        BY <2>5 DEF Zip, Goto, At, Sealed, repo, Advances
      <3> QED
        BY <3>1, AdvancesQuiet
    <2>6. CASE Reset(r)
      <3>1. op[r].change = "current"
        BY <2>6 DEF Reset, At, Typed, Shape
      <3>2. Advances(r, "read")
        BY <2>6, <3>1 DEF Reset, Goto, Advances
      <3> QED
        BY <3>2, AdvancesQuiet
    <2> QED
      BY <1>9, <2>1, <2>2, <2>3, <2>4, <2>5, <2>6 DEF Versioning
  <1>10. ASSUME NEW r \in Requests, Producing(r) PROVE Quiet
    <2>1. /\ tags' = tags /\ stored' = stored
          /\ op[r].pc \in {"compile", "clean", "copy", "sweep", "publish"}
      BY <1>10 DEF Producing, Compile, CleanArtifact, CopyArtifact, SweepSite, CopySite, At, repo
    <2>2. op[r].change \in {"built", "published"}
      BY <2>1 DEF Typed, Shape
    <2>4. CASE Compile(r)
      <3>1. op' = [op EXCEPT ![r] = [op[r] EXCEPT !.pc = "clean"]]
        BY <2>4 DEF Compile, Goto
      <3>2. [op[r] EXCEPT !.pc = "clean"] = [op[r] EXCEPT !.pc = "clean", !.todo = op[r].todo]
        BY <1>7 DEF Ops
      <3>3. op' = [op EXCEPT ![r] = [op[r] EXCEPT !.pc = "clean", !.todo = op[r].todo]]
        BY <3>1, <3>2
      <3>4. Proceeds(r, "clean", op[r].todo)
        BY <2>1, <2>2, <3>3 DEF Proceeds
      <3> QED
        BY <3>4, ProceedsQuiet
    <2>5. CASE CleanArtifact(r)
      <3>1. Proceeds(r, "copy", Files)
        BY <2>1, <2>2, <2>5 DEF CleanArtifact, Typed, Proceeds
      <3> QED
        BY <3>1, ProceedsQuiet
    <2>6. CASE SweepSite(r)
      <3>1. Proceeds(r, "publish", Files)
        BY <2>1, <2>2, <2>6 DEF SweepSite, Typed, Proceeds
      <3> QED
        BY <3>1, ProceedsQuiet
    <2>7. ASSUME NEW f \in Files, CopyArtifact(r, f) \/ CopySite(r, f) PROVE Quiet
      <3> DEFINE pc == IF op[r].todo = {f} THEN "read" ELSE op[r].pc
      <3>1. Copied(r, f, "read") /\ op[r].pc \in {"copy", "publish"}
        BY <2>7 DEF CopyArtifact, CopySite, At
      <3>2. op' = [op EXCEPT ![r] = [op[r] EXCEPT !.pc = pc, !.todo = op[r].todo \ {f}]]
        BY <1>7, <3>1 DEF Copied, Ops, Typed
      <3>3. pc \in {"copy", "publish", "read"}
        BY <3>1
      <3> HIDE DEF pc
      <3>4. Proceeds(r, pc, op[r].todo \ {f})
        BY <2>1, <2>2, <3>2, <3>3 DEF Proceeds
      <3> QED
        BY <3>4, ProceedsQuiet
    <2> QED
      BY <1>10, <2>4, <2>5, <2>6, <2>7 DEF Producing
  <1>11. ASSUME NEW r \in Requests, Ending(r) PROVE Quiet
    <2>1. tags' = tags /\ stored' \in {stored, Missing}
      BY <1>11 DEF Ending, Drop, Purge, Fail, repo
    <2>2. Readable' => stored' \in Documents
      BY <1>5, <2>1 DEF Readable
    <2>3. IdleOp.pc = "idle" /\ IdleOp.copy = NewRecord
      BY DEF IdleOp
    <2>4. CASE Finish(r)
      <3>1. GoesOn(r, IdleOp)
        BY <2>1, <2>2, <2>3, <2>4 DEF Finish, GoesOn
      <3> QED
        BY <3>1, GoesOnQuiet
    <2>5. CASE Drop(r)
      <3> DEFINE x == [op[r] EXCEPT !.pc = "purge"]
      <3>1. op' = [op EXCEPT ![r] = x]
        BY <2>5 DEF Drop, Goto
      <3>2. x.pc = "purge" /\ x.copy = op[r].copy
        BY <1>7 DEF Ops
      <3> HIDE DEF x
      <3>3. GoesOn(r, x)
        BY <1>7, <2>1, <2>2, <3>1, <3>2 DEF GoesOn
      <3> QED
        BY <3>3, GoesOnQuiet
    <2>6. CASE Fail(r) /\ ~ Finish(r)
      <3> DEFINE x == [op[r] EXCEPT !.pc = "read", !.change = "failed", !.todo = {}]
      <3>1. op' = [op EXCEPT ![r] = x]
        BY <2>6 DEF Fail, Typed
      <3>2. x.pc = "read" /\ x.change = "failed" /\ x.copy = op[r].copy
        BY <1>7 DEF Ops
      <3> HIDE DEF x
      <3>3. GoesOn(r, x)
        BY <1>7, <2>1, <2>2, <3>1, <3>2 DEF GoesOn
      <3> QED
        BY <3>3, GoesOnQuiet
    <2> QED
      BY <1>11, <2>4, <2>5, <2>6 DEF Ending, Purge
  <1>12. ASSUME NEW r \in Requests, Answer(r), stored' \in {Missing, Updated(op[r])},
                tags' = tags, op[r].pc \in {"write", "writing"}
         PROVE  Quiet \/ Records_(r)
    <2>1. \E x : /\ op' = [op EXCEPT ![r] = x] /\ x.pc \in {"idle", "reset"}
                 /\ x.copy \in Documents \union {NewRecord}
      <3> DEFINE x == [op[r] EXCEPT !.pc = "reset", !.change = "current"]
      <3>1. x.pc = "reset" /\ x.copy = op[r].copy
        BY <1>7 DEF Ops
      <3>2. op' = [op EXCEPT ![r] = x] \/ op' = [op EXCEPT ![r] = IdleOp]
        BY <1>12 DEF Answer, Finish, Typed
      <3>3. IdleOp.pc = "idle" /\ IdleOp.copy = NewRecord
        BY DEF IdleOp
      <3> HIDE DEF x
      <3> QED
        BY <1>7, <3>1, <3>2, <3>3
    <2>2. PICK x : /\ op' = [op EXCEPT ![r] = x] /\ x.pc \in {"idle", "reset"}
                   /\ x.copy \in Documents \union {NewRecord}
      BY <2>1
    <2>3. op'[r] = x /\ \A q \in Requests \ {r} : op'[q] = op[q]
      BY <2>2 DEF Typed
    <2>4. ~ Sealed(r)'
      BY <2>2, <2>3 DEF Sealed
    <2>5. Readable' => stored' \in Documents \union {NewRecord, Updated(op[r])}
      BY <1>12 DEF Readable
    <2>6. Documents' \subseteq Documents \union {NewRecord, Updated(op[r])}
      BY <2>2, <2>5, DocumentsAfter
    <2> QED
      BY <1>12, <2>3, <2>4, <2>6 DEF Records_
  <1>13. ASSUME NEW r \in Requests, Recording(r) PROVE Quiet \/ Records_(r)
    <2>1. CASE Read(r)
      <3>1. tags' = tags /\ stored' = stored /\ op[r].pc = "read"
        BY <2>1 DEF Read, repo, At
      <3>2. CASE Readable /\ op' = [op EXCEPT ![r].copy = stored, ![r].pc = "write"]
        <4> DEFINE x == [op[r] EXCEPT !.copy = stored, !.pc = "write"]
        <4>1. op' = [op EXCEPT ![r] = x]
          BY <1>7, <3>2 DEF Typed
        <4>2. /\ x.pc = "write" /\ x.change = op[r].change /\ x.version = op[r].version
              /\ x.copy = stored
          BY <1>7 DEF Ops
        <4>3. op[r].change = "save" => Sealed(r)
          BY <3>1 DEF Sealed
        <4>4. stored \in Documents /\ stored' \in Documents
          BY <1>5, <3>1, <3>2
        <4> HIDE DEF x
        <4>5. GoesOn(r, x)
          BY <3>1, <4>1, <4>2, <4>3, <4>4 DEF GoesOn
        <4> QED
          BY <4>5, GoesOnQuiet
      <3>3. CASE Finish(r)
        BY <1>4, <3>1, <3>3
      <3> QED
        BY <2>1, <3>2, <3>3 DEF Read
    <2>2. CASE Write(r) /\ LocalFile
      <3> DEFINE x == [op[r] EXCEPT !.pc = "writing"]
      <3>1. tags' = tags /\ stored' = Torn /\ op[r].pc = "write" /\ op' = [op EXCEPT ![r] = x]
        BY <2>2 DEF Write, Goto, repo, At
      <3>2. /\ x.pc = "writing" /\ x.change = op[r].change /\ x.version = op[r].version
            /\ x.copy = op[r].copy
        BY <1>7 DEF Ops
      <3>3. op[r].change = "save" => Sealed(r)
        BY <3>1 DEF Sealed
      <3>4. ~ Readable'
        BY <3>1 DEF Readable
      <3> HIDE DEF x
      <3>5. GoesOn(r, x)
        BY <1>7, <3>1, <3>2, <3>3, <3>4 DEF GoesOn
      <3> QED
        BY <3>5, GoesOnQuiet
    <2>3. CASE Write(r) /\ ~ LocalFile
      BY <1>12, <2>3 DEF Write, repo, At
    <2>4. CASE Written(r)
      BY <1>12, <2>4 DEF Written, repo, At
    <2> QED
      BY <1>13, <2>1, <2>2, <2>3, <2>4 DEF Recording
  <1> QED
    BY <1>1, <1>2, <1>6, <1>9, <1>10, <1>11, <1>13 DEF Next

(* What an update changes in the list: the version saved, and nothing else. *)
LEMMA UpdatedList ==
  ASSUME NEW o \in Ops, o.change = "save" => o.version \in Versions, NEW v \in Versions
  PROVE  \/ Updated(o).versions[v].sha = o.copy.versions[v].sha
         \/ o.change = "save" /\ v = o.version
  <1> DEFINE c == o.copy
             e == [sha |-> o.sha, build |-> "none"]
  <1>1. c \in Records /\ c.versions \in [Versions -> Entries]
    BY DEF Ops, Records
  <1>2. CASE o.change = "save"
    <2>1. Updated(o) = [c EXCEPT !.current = o.version,
                                 !.versions = [c.versions EXCEPT ![o.version] = e]]
      BY <1>2 DEF Updated, WithVersion
    <2> QED
      BY <1>1, <1>2, <2>1 DEF Records
  <1>3. CASE o.change \in {"built", "failed"}
    <2>1. PICK b \in Builds : Updated(o) = [c EXCEPT !.versions[o.version].build = b]
      BY <1>3 DEF Updated, Builds
    <2>2. Updated(o).versions = [c.versions EXCEPT ![o.version].build = b]
      BY <1>1, <2>1 DEF Records
    <2> QED
      BY <1>1, <2>2 DEF Entries
  <1>4. CASE o.change \notin {"save", "built", "failed"}
    <2>1. Updated(o).versions = c.versions
      BY <1>1, <1>4 DEF Updated, Records
    <2> QED
      BY <2>1
  <1> QED
    BY <1>2, <1>3, <1>4
(* Where an entry of a document of the next state comes from. *)
LEMMA EntryOrigin ==
  ASSUME Typed, [Next]_vars, NEW d \in Documents', NEW v \in Versions, Listed(d, v)
  PROVE  \/ \E c \in Documents : Listed(c, v) /\ c.versions[v].sha = d.versions[v].sha
         \/ \E r \in Requests : /\ Sealed(r) /\ op[r].version = v
                               /\ d = Updated(op[r]) /\ Records_(r)
  <1>1. d # NewRecord
    BY DEF Listed, NewRecord, Unlisted
  <1>2. CASE d \in Documents
    BY <1>2
  <1>3. CASE d \notin Documents
    <2>1. PICK r \in Requests : Records_(r) /\ d = Updated(op[r])
      BY <1>1, <1>3, StepKinds DEF Quiet, Seals, Records_
    <2>2. op[r] \in Ops /\ Shape(op[r], Len(commits), deleted) /\ op[r].copy \in Documents
      BY DEF Typed, Documents
    <2>3. CASE d.versions[v].sha = op[r].copy.versions[v].sha
      BY <2>2, <2>3 DEF Listed
    <2>4. CASE op[r].change = "save" /\ v = op[r].version
      BY <2>1, <2>4 DEF Records_, Sealed
    <2> QED
      BY <2>1, <2>2, <2>3, <2>4, UpdatedList DEF Shape
  <1> QED
    BY <1>2, <1>3

(* The tags of a step's end: none is removed, and a sealing request makes one. *)
LEMMA TagsRemain ==
  ASSUME Typed, [Next]_vars, NEW v \in Versions, tags[v] # 0 PROVE tags'[v] # 0
  BY StepKinds DEF Quiet, Seals, Records_, Typed

LEMMA SavesStayExclusive ==
  ASSUME Typed, SavesExclusive, DocumentsAgree, [Next]_vars PROVE SavesExclusive'
  <1>1. \A r \in Requests : Sealed(r) => op[r].version \in Versions
    BY DEF Sealed, Typed, Shape
  <1>3. CASE Quiet
    <2>1. ASSUME NEW r \in Requests, Sealed(r)', NEW d \in Documents'
          PROVE  ~ Listed(d, op[r].version)
      <3>1. Sealed(r) /\ op[r].version \in Versions
        BY <1>1, <1>3, <2>1 DEF Quiet
      <3>2. CASE d = NewRecord
        BY <3>1, <3>2 DEF Listed, NewRecord, Unlisted
      <3> QED
        BY <1>3, <2>1, <3>1, <3>2 DEF Quiet, SavesExclusive
    <2>2. \A r \in Requests : Sealed(r)' => Sealed(r) /\ op'[r].version = op[r].version
      BY <1>3 DEF Quiet
    <2> QED
      BY <1>3, <2>1, <2>2 DEF Quiet, SavesExclusive
  <1>4. ASSUME NEW r \in Requests, Seals(r) PROVE SavesExclusive'
    <2>1. \A q \in Requests : Sealed(q)' /\ q # r =>
              Sealed(q) /\ op'[q].version = op[q].version /\ op[q].version # op[r].version
      BY <1>4 DEF Seals, Sealed, SavesExclusive
    <2>2. \A d \in Documents' : ~ Listed(d, op[r].version)
      BY <1>4 DEF Seals, DocumentsAgree
    <2>3. tags'[op[r].version] # 0 /\ op'[r].version = op[r].version
      BY <1>4 DEF Seals, Typed
    <2>4. \A q \in Requests : Sealed(q) => tags'[op[q].version] # 0
      BY <1>1, TagsRemain DEF SavesExclusive
    <2>5. \A q \in Requests : Sealed(q)' /\ q # r =>
              \A d \in Documents' : ~ Listed(d, op'[q].version)
      BY <1>4, <2>1 DEF Seals, SavesExclusive
    <2>6. \A q \in Requests : Sealed(q)' =>
              /\ tags'[op'[q].version] # 0
              /\ \A d \in Documents' : ~ Listed(d, op'[q].version)
      BY <2>1, <2>2, <2>3, <2>4, <2>5
    <2>7. \A q, p \in Requests : Sealed(q)' /\ Sealed(p)' /\ op'[p].version = op'[q].version
                                => p = q
      BY <2>1, <2>3 DEF SavesExclusive
    <2> QED
      BY <2>6, <2>7 DEF SavesExclusive
  <1>5. ASSUME NEW r \in Requests, Records_(r) PROVE SavesExclusive'
    <2>1. \A q \in Requests : Sealed(q)' =>
              q # r /\ Sealed(q) /\ op'[q].version = op[q].version
      BY <1>5 DEF Records_, Sealed
    <2>2. ASSUME NEW q \in Requests, Sealed(q)', NEW d \in Documents',
                 Listed(d, op[q].version)
          PROVE  FALSE
      <3>1. q # r /\ Sealed(q) /\ op[q].version \in Versions
        BY <1>1, <2>1, <2>2
      <3>2. \A c \in Documents : ~ Listed(c, op[q].version)
        BY <3>1 DEF SavesExclusive
      <3>3. PICK p \in Requests : Sealed(p) /\ op[p].version = op[q].version /\ Records_(p)
        BY <2>2, <3>1, <3>2, EntryOrigin
      <3>4. p = q
        BY <3>1, <3>3 DEF SavesExclusive
      <3> QED
        BY <2>2, <3>3, <3>4 DEF Records_
    <2>3. \A q \in Requests : Sealed(q)' => tags'[op'[q].version] # 0
      BY <1>5, <2>1 DEF SavesExclusive, Records_
    <2>4. \A q \in Requests : Sealed(q)' => \A d \in Documents' : ~ Listed(d, op'[q].version)
      BY <2>1, <2>2
    <2>5. \A q, p \in Requests : Sealed(q)' /\ Sealed(p)' /\ op'[p].version = op'[q].version
                                => p = q
      BY <2>1 DEF SavesExclusive
    <2> QED
      BY <2>3, <2>4, <2>5 DEF SavesExclusive
  <1> QED
    BY <1>3, <1>4, <1>5, StepKinds

LEMMA DocumentsStillAgree ==
  ASSUME Typed, SavesExclusive, DocumentsAgree, [Next]_vars PROVE DocumentsAgree'
  <1>1. ASSUME NEW d \in Documents', NEW v \in Versions, Listed(d, v) PROVE tags'[v] # 0
    BY <1>1, EntryOrigin, TagsRemain DEF SavesExclusive, DocumentsAgree
  <1>2. ASSUME NEW d \in Documents', NEW e \in Documents', NEW v \in Versions,
               Listed(d, v), Listed(e, v)
        PROVE  d.versions[v].sha = e.versions[v].sha
    <2>1. \/ \E c \in Documents : Listed(c, v) /\ c.versions[v].sha = d.versions[v].sha
          \/ \E r \in Requests : Sealed(r) /\ op[r].version = v /\ d = Updated(op[r])
      BY <1>2, EntryOrigin
    <2>2. \/ \E c \in Documents : Listed(c, v) /\ c.versions[v].sha = e.versions[v].sha
          \/ \E r \in Requests : Sealed(r) /\ op[r].version = v /\ e = Updated(op[r])
      BY <1>2, EntryOrigin
    <2> QED
      BY <2>1, <2>2 DEF SavesExclusive, DocumentsAgree
  <1> QED
    BY <1>1, <1>2 DEF DocumentsAgree
(* What is known of saves and documents holds in every reachable state. *)
LEMMA SavesInductive == Spec => [](Typed /\ SavesExclusive /\ DocumentsAgree)
  <1> DEFINE IInv == Typed /\ SavesExclusive /\ DocumentsAgree
  <1>1. Init => IInv
    <2> SUFFICES ASSUME Init PROVE SavesExclusive /\ DocumentsAgree
      BY InitTyped
    <2>1. \A r \in Requests : ~ Sealed(r)
      BY DEF Init, Sealed, IdleOp
    <2>2. Documents \subseteq {NewRecord}
      BY DEF Init, Documents, IdleOp
    <2>3. \A v \in Versions : ~ Listed(NewRecord, v)
      BY DEF Listed, NewRecord, Unlisted
    <2> QED
      BY <2>1, <2>2, <2>3 DEF SavesExclusive, DocumentsAgree
  <1>2. IInv /\ [Next]_vars => IInv'
    BY TypedStep, SavesStayExclusive, DocumentsStillAgree
  <1> QED
    BY <1>1, <1>2, PTL DEF Spec

(* At most one request saves an id, and no document lists an id being saved,*)
(* whatever ids clients choose and however many updates are lost.           *)
THEOREM SavesAreExclusive == Spec => []OneSavePerVersion
  <1>1. SavesExclusive => OneSavePerVersion
    BY DEF SavesExclusive, OneSavePerVersion
  <1> QED
    BY <1>1, SavesInductive, PTL

(* While a version stays listed its commit does not change, although every  *)
(* update replaces the whole document by a copy that may be old.            *)
THEOREM CommitsAreFixed == Spec => ListedCommitIsFixed
  <1> DEFINE Fixed == Readable /\ Readable' => \A v \in Versions :
                         Listed(stored, v) /\ Listed(stored', v) =>
                             stored'.versions[v].sha = stored.versions[v].sha
  <1>1. Typed /\ SavesExclusive /\ DocumentsAgree /\ [Next]_vars => Fixed
    <2> SUFFICES ASSUME Typed, SavesExclusive, DocumentsAgree, [Next]_vars,
                        Readable, Readable', NEW v \in Versions,
                        Listed(stored, v), Listed(stored', v)
                 PROVE  stored'.versions[v].sha = stored.versions[v].sha
      OBVIOUS
    <2>1. stored \in Documents /\ stored' \in Documents'
      BY DEF Documents
    <2>2. \A r \in Requests : Sealed(r) => op[r].version # v
      BY <2>1 DEF SavesExclusive
    <2>3. PICK c \in Documents : Listed(c, v) /\ c.versions[v].sha = stored'.versions[v].sha
      BY <2>1, <2>2, EntryOrigin
    <2> QED
      BY <2>1, <2>3 DEF DocumentsAgree
  <1>2. Typed /\ SavesExclusive /\ DocumentsAgree /\ [Next]_vars => [Fixed]_vars
    BY <1>1
  <1> QED
    BY <1>2, SavesInductive, PTL DEF Spec, ListedCommitIsFixed
------------------------------------------------------------------------------
(***************************************************************************)
(* Source zips.  A version is in a document only after its zip was made,   *)
(* and zips go only with the project.                                      *)
(***************************************************************************)
Zipped(r) == op[r].change = "save" /\ op[r].pc \in {"read", "write", "writing"}

ZipsExist ==
    ~ deleted =>
        /\ \A d \in Documents, v \in Versions : Listed(d, v) => zips[v] # NoZip
        /\ \A r \in Requests : Zipped(r) => zips[op[r].version] # NoZip

(* Only a save writes a zip, its own, and only a deletion removes any. *)
LEMMA ZipSteps ==
  ASSUME Typed, [Next]_vars
  PROVE  /\ deleted => deleted'
         /\ deleted' \/ zips' = zips \/ \E r \in Requests : Zip(r)
  <1>1. CASE Edit \/ Restart \/ UNCHANGED vars
    BY <1>1 DEF Edit, Restart, vars, storage
  <1>2. ASSUME NEW r \in Requests, Request(r) PROVE deleted' = deleted /\ zips' = zips
    <2>1. \A kind, x : Begin(r, kind, x) => deleted' = deleted /\ zips' = zips
      BY DEF Begin, storage
    <2> QED
      BY <1>2, <2>1, Zenon DEF Request, PinBegin, DeleteBegin, SaveBegin, BuildBegin,
                               DeployBegin, RestoreBegin
  <1>3. ASSUME NEW r \in Requests, Zip(r) PROVE deleted' = deleted
    BY <1>3 DEF Zip
  <1>4. ASSUME NEW r \in Requests, Versioning(r), ~ Zip(r)
        PROVE  deleted' = deleted /\ zips' = zips
    BY <1>4, Zenon DEF Versioning, CheckTag, Commit, Tag, HeadSha, Reset, storage
  <1>5. ASSUME NEW r \in Requests, Recording(r) PROVE deleted' = deleted /\ zips' = zips
    BY <1>5, Zenon DEF Recording, Read, Write, Written, storage
  <1>6. ASSUME NEW r \in Requests, Producing(r) PROVE deleted' = deleted /\ zips' = zips
    BY <1>6, Zenon DEF Producing, Compile, CleanArtifact, SweepSite, CopyArtifact, CopySite,
                       storage
  <1>7. ASSUME NEW r \in Requests, Drop(r) \/ Fail(r)
        PROVE  (deleted => deleted') /\ zips' = zips
    <2>1. Drop(r) => deleted' /\ zips' = zips
      BY DEF Drop, storage
    <2>2. Fail(r) => deleted' = deleted /\ zips' = zips
      BY DEF Fail, storage
    <2> QED
      BY <1>7, <2>1, <2>2
  <1>8. ASSUME NEW r \in Requests, Purge(r) PROVE deleted /\ deleted'
    BY <1>8 DEF Purge, At, Typed, Shape
  <1> QED
    BY <1>1, <1>2, <1>3, <1>4, <1>5, <1>6, <1>7, <1>8 DEF Next, Ending

LEMMA ZipsRemain ==
  ASSUME Typed, [Next]_vars
  PROVE  /\ deleted => deleted'
         /\ deleted' \/ \A v \in Versions : zips[v] # NoZip => zips'[v] # NoZip
  <1>1. ASSUME NEW r \in Requests, Zip(r), NEW v \in Versions, zips[v] # NoZip
        PROVE  zips'[v] # NoZip
    <2>1. zips' = [zips EXCEPT ![op[r].version] = tree]
      BY <1>1 DEF Zip
    <2>2. tree # NoZip
      BY DeliveryAssumption DEF DeliveryAssumption, Typed
    <2> QED
      BY <1>1, <2>1, <2>2 DEF Typed
  <1> QED
    BY <1>1, ZipSteps

(* A step of one request leaves every other request as it is. *)
LEMMA OnlyItMoves ==
  ASSUME Typed, NEW q \in Requests, NEW r \in Requests, q # r,
         Request(q) \/ Versioning(q) \/ Recording(q) \/ Producing(q) \/ Ending(q)
  PROVE  op'[r] = op[r]
  <1>1. ASSUME NEW pc, Goto(q, pc) PROVE op'[r] = op[r]
    BY <1>1 DEF Goto, Typed
  <1>2. Finish(q) => op'[r] = op[r]
    BY DEF Finish, Typed
  <1>3. Request(q) => op'[r] = op[r]
    <2>1. \A kind, x : Begin(q, kind, x) => op'[r] = op[r]
      BY DEF Begin, Typed
    <2> QED
      BY <2>1, Zenon DEF Request, PinBegin, DeleteBegin, SaveBegin, BuildBegin, DeployBegin,
                         RestoreBegin
  <1>4. Versioning(q) => op'[r] = op[r]
    <2>1. HeadSha(q) => op'[r] = op[r]
      BY DEF HeadSha, Typed
    <2> QED
      BY <1>1, <1>2, <2>1, Zenon DEF Versioning, CheckTag, Commit, Tag, Zip, Reset
  <1>5. Answer(q) => op'[r] = op[r]
    BY <1>2 DEF Answer, Typed
  <1>6. Read(q) => op'[r] = op[r]
    BY <1>2 DEF Read, Typed
  <1>7. Recording(q) => op'[r] = op[r]
    BY <1>1, <1>5, <1>6, Zenon DEF Recording, Write, Written
  <1>8. ASSUME NEW f, NEW next, Copied(q, f, next) PROVE op'[r] = op[r]
    BY <1>8 DEF Copied, Typed
  <1>9. CleanArtifact(q) \/ SweepSite(q) => op'[r] = op[r]
    BY DEF CleanArtifact, SweepSite, Typed
  <1>10. Producing(q) => op'[r] = op[r]
    BY <1>1, <1>8, <1>9, Zenon DEF Producing, Compile, CopyArtifact, CopySite
  <1>11. Fail(q) => op'[r] = op[r]
    BY <1>2 DEF Fail, Typed
  <1>12. Ending(q) => op'[r] = op[r]
    BY <1>1, <1>2, <1>11, Zenon DEF Ending, Drop, Purge
  <1> QED
    BY <1>3, <1>4, <1>7, <1>10, <1>12

(* A save that has its tag goes on to the zip. *)
LEMMA TaggedIsZipped ==
  ASSUME Typed, [Next]_vars, NEW r \in Requests, op[r].pc \in {"sha", "zip"}
  PROVE  op'[r].pc \in {"sha", "zip", "idle"} \/ Zip(r)
  <1>1. CASE Edit \/ UNCHANGED vars
    BY <1>1 DEF Edit, vars
  <1>2. CASE Restart
    BY <1>2 DEF Restart, IdleOp
  <1>4. Finish(r) => op'[r].pc = "idle"
    BY DEF Finish, IdleOp, Typed
  <1>5. ~ Request(r)
    <2>1. \A kind, x : ~ Begin(r, kind, x)
      BY DEF Begin, At
    <2> QED
      BY <2>1, Zenon DEF Request, PinBegin, DeleteBegin, SaveBegin, BuildBegin, DeployBegin,
                         RestoreBegin
  <1>6. Versioning(r) => Zip(r) \/ op'[r].pc = "zip"
    <2>1. ASSUME HeadSha(r) PROVE op'[r].pc = "zip"
      BY <2>1 DEF HeadSha, Typed, Ops
    <2>2. ~ CheckTag(r) /\ ~ Commit(r) /\ ~ Tag(r) /\ ~ Reset(r)
      BY DEF CheckTag, Commit, Tag, Reset, At
    <2> QED
      BY <2>1, <2>2 DEF Versioning
  <1>7. ~ Recording(r) /\ ~ Producing(r)
    BY DEF Recording, Producing, Read, Write, Written, Compile, CleanArtifact, SweepSite,
           CopyArtifact, CopySite, At
  <1>8. Ending(r) => op'[r].pc = "idle"
    BY <1>4 DEF Ending, Drop, Purge, Fail, At
  <1>9. ASSUME NEW q \in Requests, q # r,
               Request(q) \/ Versioning(q) \/ Recording(q) \/ Producing(q) \/ Ending(q)
        PROVE  op'[r] = op[r]
    BY <1>9, OnlyItMoves
  <1> QED
    BY <1>1, <1>2, <1>5, <1>6, <1>7, <1>8, <1>9 DEF Next

LEMMA ZipsStay ==
  ASSUME Typed, SavesExclusive, ZipsExist, [Next]_vars PROVE ZipsExist'
  <1> SUFFICES ASSUME ~ deleted'
               PROVE  /\ \A d \in Documents', v \in Versions : Listed(d, v) => zips'[v] # NoZip
                      /\ \A r \in Requests : Zipped(r)' => zips'[op'[r].version] # NoZip
    BY DEF ZipsExist
  <1>1. ~ deleted /\ \A v \in Versions : zips[v] # NoZip => zips'[v] # NoZip
    BY ZipsRemain
  <1>2. \A r \in Requests : Sealed(r) => op[r].version \in Versions
    BY DEF Sealed, Typed, Shape
  <1>3. ASSUME NEW d \in Documents', NEW v \in Versions, Listed(d, v)
        PROVE  zips'[v] # NoZip
    <2>1. \A r \in Requests : Sealed(r) /\ Records_(r) => Zipped(r)
      BY DEF Sealed, Records_, Zipped
    <2> QED
      BY <1>1, <1>3, <2>1, EntryOrigin DEF ZipsExist
  <1>4. ASSUME NEW r \in Requests, Zipped(r)' PROVE zips'[op'[r].version] # NoZip
    <2>1. Sealed(r)' /\ op'[r].pc \in {"read", "write", "writing"}
      BY <1>4 DEF Zipped, Sealed
    <2>2. CASE Sealed(r) /\ op'[r].version = op[r].version
      <3>1. CASE Zipped(r)
        BY <1>1, <1>2, <2>2, <3>1 DEF ZipsExist
      <3>2. CASE ~ Zipped(r)
        <4>1. Zip(r)
          BY <2>1, <2>2, <3>2, TaggedIsZipped DEF Sealed, Zipped
        <4>2. zips'[op[r].version] = tree /\ tree # NoZip
          BY <1>2, <2>2, <4>1, DeliveryAssumption DEF Zip, Typed, DeliveryAssumption
        <4> QED
          BY <2>2, <4>2
      <3> QED
        BY <3>1, <3>2
    <2>3. CASE ~ (Sealed(r) /\ op'[r].version = op[r].version)
      <3>1. op'[r] # op[r]
        BY <2>1, <2>3 DEF Sealed
      <3> QED
        BY <2>1, <2>3, <3>1, StepKinds DEF Quiet, Seals, Records_
    <2> QED
      BY <2>2, <2>3
  <1> QED
    BY <1>3, <1>4

LEMMA InitZipsExist == Init => ZipsExist
  <1> SUFFICES ASSUME Init PROVE ZipsExist
    OBVIOUS
  <1>1. \A r \in Requests : ~ Zipped(r)
    BY DEF Init, Zipped, IdleOp
  <1>2. Documents \subseteq {NewRecord}
    BY DEF Init, Documents, IdleOp
  <1>3. \A v \in Versions : ~ Listed(NewRecord, v)
    BY DEF Listed, NewRecord, Unlisted
  <1> QED
    BY <1>1, <1>2, <1>3 DEF ZipsExist

(* A version listed by a project that was not deleted has its tag, its      *)
(* commit and its source zip, whatever failed, restarted or raced.          *)
THEOREM ListedHasSources == Spec => []ListedVersionHasSources
  <1>1. Init => ZipsExist
    BY InitZipsExist
  <1>2. Typed /\ SavesExclusive /\ DocumentsAgree /\ ZipsExist => ListedVersionHasSources
    <2> SUFFICES ASSUME Typed, DocumentsAgree, ZipsExist, ~ deleted, Readable,
                        NEW v \in Versions, Listed(stored, v)
                 PROVE  /\ tags[v] # 0
                        /\ stored.versions[v].sha \in 1..Len(commits)
                        /\ zips[v] # NoZip
      BY DEF ListedVersionHasSources
    <2>1. stored \in Documents
      BY DEF Documents
    <2>2. stored.versions[v].sha \in Nat /\ stored.versions[v].sha <= Len(commits)
      BY DEF Typed, Readable, Records, Entries
    <2> QED
      BY <2>1, <2>2 DEF DocumentsAgree, ZipsExist, Listed, Typed
  <1> QED
    BY <1>1, <1>2, ZipsStay, SavesInductive, PTL DEF Spec
------------------------------------------------------------------------------
(***************************************************************************)
(* The sources of saved versions.  Once a save is answered its id is       *)
(* tagged and zipped and no request is past git tag with it, so no request *)
(* will tag or zip it again.                                               *)
(***************************************************************************)
SavedInv ==
    \A v \in saved :
        /\ tags[v] # 0
        /\ ~ deleted => zips[v] # NoZip
        /\ \A r \in Requests : Sealed(r) => op[r].version # v

(* Only the answer of a save adds a saved version, and that save is over. *)
LEMMA SavedBy ==
  ASSUME Typed, [Next]_vars, NEW v, v \in saved', v \notin saved
  PROVE  \E r \in Requests : /\ Zipped(r) /\ op[r].version = v
                             /\ ~ Sealed(r)'
                             /\ \A q \in Requests \ {r} : op'[q] = op[q]
  <1>1. ASSUME NEW r \in Requests, Request(r) PROVE saved' = saved
    <2>1. \A kind, x : Begin(r, kind, x) => saved' = saved
      BY DEF Begin
    <2> QED
      BY <1>1, <2>1, Zenon DEF Request, PinBegin, DeleteBegin, SaveBegin, BuildBegin,
                               DeployBegin, RestoreBegin
  <1>2. ASSUME NEW r \in Requests, Versioning(r) PROVE saved' = saved
    BY <1>2, Zenon DEF Versioning, CheckTag, Commit, Tag, HeadSha, Zip, Reset
  <1>3. ASSUME NEW r \in Requests, Producing(r) PROVE saved' = saved
    BY <1>3, Zenon DEF Producing, Compile, CleanArtifact, SweepSite, CopyArtifact, CopySite
  <1>4. ASSUME NEW r \in Requests, Ending(r) PROVE saved' = saved
    BY <1>4, Zenon DEF Ending, Drop, Purge, Fail
  <1>5. Edit \/ Restart \/ UNCHANGED vars => saved' = saved
    BY DEF Edit, Restart, vars
  <1>6. PICK r \in Requests : Recording(r)
    BY <1>1, <1>2, <1>3, <1>4, <1>5 DEF Next
  <1>7. Answer(r) /\ op[r].pc \in {"write", "writing"}
    BY <1>6 DEF Recording, Read, Write, Written, At
  <1>8. op[r].change = "save" /\ v = op[r].version
    BY <1>7 DEF Answer
  <1>9. ~ Sealed(r)'
    <2>1. CASE Finish(r)
      BY <2>1 DEF Finish, IdleOp, Sealed, Typed
    <2>2. CASE ~ Finish(r)
      <3>1. op'[r].pc = "reset"
        BY <1>7, <2>2 DEF Answer, Typed, Ops
      <3> QED
        BY <3>1 DEF Sealed
    <2> QED
      BY <2>1, <2>2
  <1>10. \A q \in Requests \ {r} : op'[q] = op[q]
    BY <1>6, OnlyItMoves
  <1> QED
    BY <1>7, <1>8, <1>9, <1>10 DEF Zipped

LEMMA SavedStays ==
  ASSUME Typed, SavesExclusive, ZipsExist, SavedInv, [Next]_vars PROVE SavedInv'
  <1>1. saved \subseteq Versions
    BY DEF Typed
  <1>2. ASSUME NEW v \in saved
        PROVE  /\ tags'[v] # 0
               /\ ~ deleted' => zips'[v] # NoZip
               /\ \A r \in Requests : Sealed(r)' => op'[r].version # v
    <2>1. tags'[v] # 0 /\ (~ deleted' => zips'[v] # NoZip)
      BY <1>1, TagsRemain, ZipsRemain DEF SavedInv
    <2>2. ASSUME NEW r \in Requests, Sealed(r)' PROVE op'[r].version # v
      <3>1. CASE Sealed(r) /\ op'[r].version = op[r].version
        BY <3>1 DEF SavedInv
      <3>2. CASE ~ (Sealed(r) /\ op'[r].version = op[r].version)
        <4>1. op'[r] # op[r]
          BY <2>2, <3>2 DEF Sealed
        <4>2. Seals(r)
          BY <2>2, <3>2, <4>1, StepKinds DEF Quiet, Seals, Records_
        <4> QED
          BY <4>2 DEF Seals, SavedInv
      <3> QED
        BY <3>1, <3>2
    <2> QED
      BY <2>1, <2>2
  <1>3. ASSUME NEW v, v \in saved', v \notin saved
        PROVE  /\ tags'[v] # 0
               /\ ~ deleted' => zips'[v] # NoZip
               /\ \A r \in Requests : Sealed(r)' => op'[r].version # v
    <2>1. PICK r \in Requests : /\ Zipped(r) /\ op[r].version = v
                                /\ ~ Sealed(r)'
                                /\ \A q \in Requests \ {r} : op'[q] = op[q]
      BY <1>3, SavedBy
    <2>2. Sealed(r) /\ v \in Versions
      BY <2>1 DEF Zipped, Sealed, Typed, Shape
    <2>3. tags[v] # 0 /\ (~ deleted => zips[v] # NoZip)
      BY <2>1, <2>2 DEF SavesExclusive, ZipsExist
    <2>4. tags'[v] # 0 /\ (~ deleted' => zips'[v] # NoZip)
      BY <2>2, <2>3, TagsRemain, ZipsRemain
    <2>5. ASSUME NEW q \in Requests, Sealed(q)' PROVE op'[q].version # v
      <3>1. q # r /\ op'[q] = op[q]
        BY <2>1, <2>5
      <3>2. Sealed(q)
        BY <2>5, <3>1 DEF Sealed
      <3> QED
        BY <2>1, <2>2, <3>1, <3>2 DEF SavesExclusive
    <2> QED
      BY <2>4, <2>5
  <1> QED
    BY <1>2, <1>3 DEF SavedInv

(* No commit is ever changed. *)
LEMMA CommitsStay ==
  ASSUME Typed, [Next]_vars, NEW c \in 1..Len(commits) PROVE commits'[c] = commits[c]
  <1>1. CASE Edit \/ Restart \/ UNCHANGED vars
    BY <1>1 DEF Edit, Restart, vars, repo
  <1>2. ASSUME NEW r \in Requests, Request(r) PROVE commits' = commits
    <2>1. \A kind, x : Begin(r, kind, x) => commits' = commits
      BY DEF Begin, repo
    <2> QED
      BY <1>2, <2>1, Zenon DEF Request, PinBegin, DeleteBegin, SaveBegin, BuildBegin,
                               DeployBegin, RestoreBegin
  <1>3. ASSUME NEW r \in Requests, Commit(r) PROVE commits'[c] = commits[c]
    <2>1. commits' = commits \/ commits' = Append(commits, tree)
      BY <1>3 DEF Commit, CommitChanges
    <2> QED
      BY <2>1 DEF Typed
  <1>4. ASSUME NEW r \in Requests, Versioning(r), ~ Commit(r) PROVE commits' = commits
    BY <1>4, Zenon DEF Versioning, CheckTag, Tag, HeadSha, Zip, Reset, repo
  <1>5. ASSUME NEW r \in Requests, Recording(r) PROVE commits' = commits
    BY <1>5, Zenon DEF Recording, Read, Write, Written, repo
  <1>6. ASSUME NEW r \in Requests, Producing(r) PROVE commits' = commits
    BY <1>6, Zenon DEF Producing, Compile, CleanArtifact, SweepSite, CopyArtifact, CopySite, repo
  <1>7. ASSUME NEW r \in Requests, Ending(r) PROVE commits' = commits
    BY <1>7, Zenon DEF Ending, Drop, Purge, Fail, repo
  <1> QED
    BY <1>1, <1>2, <1>3, <1>4, <1>5, <1>6, <1>7 DEF Next

(* As long as the project is not deleted, a version whose save was answered *)
(* keeps its tag, the tagged commit and its source zip, although requests   *)
(* overlap at every await, reuse ids, fail and are cut short, and even when *)
(* an overlapping update takes the version off the list.                    *)
THEOREM SavedSourcesAreKept == Spec => SavedSourcesStay
  <1> DEFINE IInv == Typed /\ SavesExclusive /\ ZipsExist /\ SavedInv
             Kept(v) == /\ tags[v] # 0 /\ tags'[v] = tags[v]
                        /\ commits'[tags[v]] = commits[tags[v]]
                        /\ zips[v] # NoZip /\ zips'[v] = zips[v]
             Stays == ~ deleted' => \A v \in saved : Kept(v)
  <1>1. Init => ZipsExist /\ SavedInv
    BY InitZipsExist DEF Init, SavedInv
  <1>2. IInv /\ [Next]_vars => Stays
    <2> SUFFICES ASSUME IInv, [Next]_vars, ~ deleted', NEW v \in saved PROVE Kept(v)
      OBVIOUS
    <2>1. v \in Versions /\ tags[v] # 0 /\ zips[v] # NoZip
      BY ZipSteps DEF Typed, SavedInv
    <2>2. tags'[v] = tags[v]
      BY <2>1, StepKinds DEF Quiet, Seals, Records_, Typed
    <2>3. tags[v] \in 1..Len(commits)
      BY <2>1 DEF Typed
    <2>4. commits'[tags[v]] = commits[tags[v]]
      BY <2>3, CommitsStay
    <2>5. ASSUME NEW r \in Requests, Zip(r) PROVE zips'[v] = zips[v]
      <3>1. zips' = [zips EXCEPT ![op[r].version] = tree] /\ Sealed(r)
        BY <2>5 DEF Zip, At, Sealed
      <3>2. op[r].version # v
        BY <3>1 DEF SavedInv
      <3> QED
        BY <2>1, <3>1, <3>2 DEF Typed
    <2>6. zips'[v] = zips[v]
      BY <2>5, ZipSteps
    <2> QED
      BY <2>1, <2>2, <2>4, <2>6
  <1>3. IInv /\ [Next]_vars => [Stays]_vars
    BY <1>2
  <1>4. ZipsExist /\ SavedInv /\ Typed /\ SavesExclusive /\ [Next]_vars => (ZipsExist /\ SavedInv)'
    BY ZipsStay, SavedStays
  <1> QED
    BY <1>1, <1>3, <1>4, SavesInductive, PTL DEF Spec, SavedSourcesStay
------------------------------------------------------------------------------
(***************************************************************************)
(* Updates that overlap.  Nothing in the backend keeps a request from      *)
(* reading the document between another's read and write; LostVersion      *)
(* shows what is lost then.  What every copy under way lists is not lost.  *)
(***************************************************************************)
(* The request moves on, and neither the document nor a copy changes. *)
AsideAs(r, x) ==
    /\ op' = [op EXCEPT ![r] = x]
    /\ UNCHANGED <<stored, saved>>
    /\ x.pc \notin {"write", "writing"}
Aside(r) == \E x : AsideAs(r, x)

(* No request but those already there holds a copy, and theirs are the same. *)
LEMMA FewerCopies ==
  ASSUME NEW v \in Versions, Settled(v), stored' = stored,
         \A q \in Requests : Updating(q)' => Updating(q) /\ op'[q] = op[q]
  PROVE  Settled(v)'
BY DEF Settled, Readable, Updating

LEMMA AsideSettled ==
  ASSUME Typed, NEW v \in Versions, Settled(v), NEW r \in Requests, Aside(r)
  PROVE  Settled(v)'
  <1>1. PICK x : AsideAs(r, x)
    BY DEF Aside
  <1>2. op'[r] = x /\ \A q \in Requests \ {r} : op'[q] = op[q]
    BY <1>1 DEF Typed, AsideAs
  <1>3. \A q \in Requests : Updating(q)' => Updating(q) /\ op'[q] = op[q]
    BY <1>1, <1>2 DEF Updating, AsideAs
  <1> QED
    BY <1>1, <1>3, FewerCopies DEF AsideAs

LEMMA EndsAside ==
  ASSUME NEW r, Finish(r), UNCHANGED <<stored, saved>> PROVE Aside(r)
  <1>1. AsideAs(r, IdleOp)
    BY DEF Finish, IdleOp, AsideAs
  <1> QED
    BY <1>1 DEF Aside

LEMMA GotoAside ==
  ASSUME Typed, NEW r \in Requests, NEW pc, Goto(r, pc),
         pc \notin {"write", "writing"}, UNCHANGED <<stored, saved>>
  PROVE  Aside(r)
  <1> DEFINE x == [op[r] EXCEPT !.pc = pc]
  <1>1. x.pc = pc
    BY DEF Typed, Ops
  <1>2. op' = [op EXCEPT ![r] = x]
    BY DEF Goto
  <1> HIDE DEF x
  <1>3. AsideAs(r, x)
    BY <1>1, <1>2 DEF AsideAs
  <1> QED
    BY <1>3 DEF Aside

LEMMA RequestAside ==
  ASSUME Typed, NEW r \in Requests, Request(r) PROVE Aside(r)
  <1>1. \A kind, x : Begin(r, kind, x) /\ x.pc \notin {"write", "writing"} => Aside(r)
    BY DEF Begin, Aside, AsideAs
  <1>2. \A pc, change, v : Fresh(pc, change, v).pc = pc
    BY DEF Fresh, IdleOp
  <1>3. /\ "read" \notin {"write", "writing"} /\ "drop" \notin {"write", "writing"}
        /\ "check" \notin {"write", "writing"} /\ "compile" \notin {"write", "writing"}
        /\ "sweep" \notin {"write", "writing"} /\ "reset" \notin {"write", "writing"}
    OBVIOUS
  <1>4. PinBegin(r) \/ DeleteBegin(r) => Aside(r)
    BY <1>1, <1>2, <1>3, Zenon DEF PinBegin, DeleteBegin
  <1>5. ASSUME NEW v \in Versions, SaveBegin(r, v) \/ BuildBegin(r, v) \/ DeployBegin(r, v)
        PROVE  Aside(r)
    BY <1>1, <1>2, <1>3, <1>5, Zenon DEF SaveBegin, BuildBegin, DeployBegin
  <1>6. ASSUME NEW t \in Versions, NEW s \in MaybeVersion, RestoreBegin(r, t, s)
        PROVE  Aside(r)
    <2> DEFINE f == IF s = NoVersion THEN Fresh("reset", "current", s) ELSE Fresh("check", "save", s)
               x == [f EXCEPT !.target = t, !.base = stored.versions[t].sha]
    <2>1. Begin(r, "restore", x)
      BY <1>6 DEF RestoreBegin
    <2>2. x.pc \in {"reset", "check"}
      BY DEF Fresh, IdleOp
    <2> HIDE DEF x
    <2> QED
      BY <1>1, <2>1, <2>2
  <1> QED
    BY <1>4, <1>5, <1>6 DEF Request

LEMMA VersioningAside ==
  ASSUME Typed, NEW r \in Requests, Versioning(r) PROVE Aside(r)
  <1>1. CASE CheckTag(r)
    BY <1>1, EndsAside, GotoAside DEF CheckTag
  <1>2. CASE Commit(r)
    BY <1>2, GotoAside DEF Commit
  <1>3. CASE Tag(r)
    BY <1>3, EndsAside, GotoAside DEF Tag
  <1>4. CASE HeadSha(r)
    <2> DEFINE x == [op[r] EXCEPT !.sha = head, !.pc = "zip"]
    <2>1. op' = [op EXCEPT ![r] = x] /\ op[r] \in Ops /\ UNCHANGED <<stored, saved>>
      BY <1>4 DEF HeadSha, Typed
    <2>2. x.pc = "zip"
      BY <2>1 DEF Ops
    <2> HIDE DEF x
    <2>3. AsideAs(r, x)
      BY <2>1, <2>2 DEF AsideAs
    <2> QED
      BY <2>3 DEF Aside
  <1>5. CASE Zip(r)
    BY <1>5, GotoAside DEF Zip
  <1>6. CASE Reset(r)
    BY <1>6, GotoAside DEF Reset
  <1> QED
    BY <1>1, <1>2, <1>3, <1>4, <1>5, <1>6 DEF Versioning

Moved(o, pc, todo) == [o EXCEPT !.pc = pc, !.todo = todo]

LEMMA MovedAside ==
  ASSUME Typed, NEW r \in Requests, NEW pc, NEW todo,
         op' = [op EXCEPT ![r] = Moved(op[r], pc, todo)],
         pc \notin {"write", "writing"}, UNCHANGED <<stored, saved>>
  PROVE  Aside(r)
  <1>1. Moved(op[r], pc, todo).pc = pc
    BY DEF Typed, Ops, Moved
  <1>2. AsideAs(r, Moved(op[r], pc, todo))
    BY <1>1 DEF AsideAs
  <1> QED
    BY <1>2 DEF Aside

LEMMA ProducingAside ==
  ASSUME Typed, NEW r \in Requests, Producing(r) PROVE Aside(r)
  <1>0. op[r] \in Ops
    BY DEF Typed
  <1>1. CASE Compile(r)
    BY <1>1, GotoAside DEF Compile
  <1>3. CASE CleanArtifact(r)
    <2>1. UNCHANGED <<stored, saved>>
          /\ op' = [op EXCEPT ![r] = Moved(op[r], "copy", Files)]
      BY <1>3 DEF CleanArtifact, Moved, Typed
    <2>2. "copy" \notin {"write", "writing"}
      OBVIOUS
    <2> QED
      BY <2>1, <2>2, MovedAside, Zenon
  <1>4. CASE SweepSite(r)
    <2>1. UNCHANGED <<stored, saved>>
          /\ op' = [op EXCEPT ![r] = Moved(op[r], "publish", Files)]
      BY <1>4 DEF SweepSite, Moved, Typed
    <2>2. "publish" \notin {"write", "writing"}
      OBVIOUS
    <2> QED
      BY <2>1, <2>2, MovedAside, Zenon
  <1>5. ASSUME NEW f \in Files, CopyArtifact(r, f) \/ CopySite(r, f) PROVE Aside(r)
    <2>1. Copied(r, f, "read") /\ UNCHANGED <<stored, saved>>
          /\ op[r].pc \in {"copy", "publish"}
      BY <1>5 DEF CopyArtifact, CopySite, At
    <2> DEFINE pc == IF op[r].todo = {f} THEN "read" ELSE op[r].pc
    <2>2. op' = [op EXCEPT ![r] = [op[r] EXCEPT !.todo = op[r].todo \ {f}, !.pc = pc]]
      BY <1>0, <2>1 DEF Copied, Typed
    <2>3. [op[r] EXCEPT !.todo = op[r].todo \ {f}, !.pc = pc] = Moved(op[r], pc, op[r].todo \ {f})
      BY <1>0 DEF Ops, Moved
    <2>4. pc \notin {"write", "writing"}
      BY <2>1
    <2> HIDE DEF pc
    <2> QED
      BY MovedAside, <2>1, <2>2, <2>3, <2>4
  <1> QED
    BY <1>1, <1>3, <1>4, <1>5 DEF Producing

LEMMA FailAside ==
  ASSUME Typed, NEW r \in Requests, Fail(r) PROVE Aside(r)
  <1>1. UNCHANGED <<stored, saved>> /\ op[r] \in Ops
    BY DEF Fail, Typed
  <1>2. CASE Finish(r)
    BY <1>1, <1>2, EndsAside
  <1>3. CASE ~ Finish(r)
    <2> DEFINE x == [op[r] EXCEPT !.pc = "read", !.change = "failed", !.todo = {}]
    <2>1. op' = [op EXCEPT ![r] = x]
      BY <1>3 DEF Fail, Typed
    <2>2. x.pc = "read"
      BY <1>1 DEF Ops
    <2> HIDE DEF x
    <2>3. AsideAs(r, x)
      BY <1>1, <2>1, <2>2 DEF AsideAs
    <2> QED
      BY <2>3 DEF Aside
  <1> QED
    BY <1>2, <1>3

(* An update keeps what its copy lists, and a save adds its version. *)
LEMMA UpdatedKeeps ==
  ASSUME NEW o \in Ops, NEW n \in Nat, NEW d, Shape(o, n, d),
         o.pc \in {"read", "write", "writing"}, NEW v \in Versions,
         Listed(o.copy, v) \/ (o.change = "save" /\ v = o.version)
  PROVE  Listed(Updated(o), v)
  <1>1. o.change = "save" => o.version \in Versions
    BY DEF Shape
  <1>2. CASE o.change = "save" /\ v = o.version
    <2> DEFINE w == WithVersion(o)
    <2>1. Updated(o) = [o.copy EXCEPT !.current = o.version, !.versions = w]
      BY <1>2 DEF Updated
    <2>2. w[v].sha = o.sha /\ o.sha # 0
      BY <1>1, <1>2 DEF WithVersion, Shape, Ops, Records
    <2> HIDE DEF w
    <2>3. Updated(o).versions = w
      BY <2>1 DEF Ops, Records
    <2> QED
      BY <2>2, <2>3 DEF Listed
  <1>3. CASE ~ (o.change = "save" /\ v = o.version)
    BY <1>1, <1>3, UpdatedList DEF Listed
  <1> QED
    BY <1>2, <1>3

(* The document is replaced by what request r wrote, and r holds no copy    *)
(* any more.                                                                *)
LEMMA AnswersSettled ==
  ASSUME Typed, NEW v \in Versions, NEW r \in Requests, Updating(r), Answer(r),
         stored' = Updated(op[r]), stored' # Missing,
         Settled(v) \/ (v \in saved' \ saved /\ UpdatesDisjoint)
  PROVE  Settled(v)'
  <1>1. op[r] \in Ops /\ Shape(op[r], Len(commits), deleted) /\ Len(commits) \in Nat
    BY DEF Typed
  <1>2. Listed(Updated(op[r]), v)
    <2>1. CASE Settled(v)
      BY <2>1 DEF Settled
    <2>2. CASE v \in saved' \ saved
      <3>1. op[r].change = "save" /\ v = op[r].version
        BY <2>2 DEF Answer
      <3> QED
        BY <1>1, <3>1, UpdatedKeeps DEF Updating
    <2> QED
      BY <2>1, <2>2
  <1>3. ~ Updating(r)' /\ \A q \in Requests \ {r} : op'[q] = op[q]
    <2>1. CASE Finish(r)
      BY <2>1 DEF Finish, IdleOp, Updating, Typed
    <2>2. CASE ~ Finish(r)
      <3>1. op' = [op EXCEPT ![r].pc = "reset", ![r].change = "current"]
        BY <2>2 DEF Answer
      <3>2. op'[r].pc = "reset" /\ \A q \in Requests \ {r} : op'[q] = op[q]
        BY <1>1, <3>1 DEF Typed, Ops
      <3> QED
        BY <3>2 DEF Updating
    <2> QED
      BY <2>1, <2>2
  <1>4. ASSUME NEW q \in Requests, Updating(q)' PROVE Listed(Updated(op'[q]), v)
    <2>1. q # r /\ op'[q] = op[q] /\ Updating(q)
      BY <1>3, <1>4 DEF Updating
    <2>2. Settled(v)
      BY <2>1 DEF UpdatesDisjoint
    <2> QED
      BY <2>1, <2>2 DEF Settled
  <1> QED
    BY <1>2, <1>4 DEF Settled

LEMMA RecordingSettled ==
  ASSUME Typed, Typed', NEW v \in Versions, NEW r \in Requests, Recording(r),
         stored' # Missing,
         Settled(v) \/ (v \in saved' \ saved /\ UpdatesDisjoint)
  PROVE  Settled(v)'
  <1>0. op[r] \in Ops
    BY DEF Typed
  <1>1. CASE Read(r)
    <2>1. UNCHANGED <<stored, saved>> /\ Settled(v)
      BY <1>1 DEF Read
    <2>2. CASE Finish(r)
      BY <2>1, <2>2, EndsAside, AsideSettled
    <2>3. CASE ~ Finish(r)
      <3> DEFINE x == [op[r] EXCEPT !.copy = stored, !.pc = "write"]
      <3>1. Readable /\ op' = [op EXCEPT ![r] = x]
        BY <1>0, <1>1, <2>3 DEF Read, Typed
      <3>2. x.pc = "write" /\ x.copy = stored
        BY <1>0 DEF Ops
      <3> HIDE DEF x
      <3>3. op'[r] = x /\ \A q \in Requests \ {r} : op'[q] = op[q]
        BY <3>1 DEF Typed
      <3>4. /\ op'[r] \in Ops /\ Len(commits') \in Nat
            /\ Shape(op'[r], Len(commits'), deleted')
        BY DEF Typed
      <3>5. Listed(op'[r].copy, v)
        BY <2>1, <3>1, <3>2, <3>3 DEF Settled
      <3>6. Listed(Updated(op'[r]), v)
        BY <3>2, <3>3, <3>4, <3>5, UpdatedKeeps
      <3>7. ASSUME NEW q \in Requests, Updating(q)' PROVE Listed(Updated(op'[q]), v)
        BY <2>1, <3>3, <3>6, <3>7 DEF Settled, Updating
      <3> QED
        BY <2>1, <3>7 DEF Settled, Readable
    <2> QED
      BY <2>2, <2>3
  <1>2. CASE Write(r) /\ LocalFile
    <2> DEFINE x == [op[r] EXCEPT !.pc = "writing"]
    <2>1. /\ op[r].pc = "write" /\ stored' = Torn /\ saved' = saved
          /\ op' = [op EXCEPT ![r] = x]
      BY <1>2 DEF Write, Goto, At
    <2>2. Updated(x) = Updated(op[r])
      <3>1. /\ x.change = op[r].change /\ x.version = op[r].version /\ x.copy = op[r].copy
            /\ x.target = op[r].target /\ x.sha = op[r].sha
        BY <1>0 DEF Ops
      <3> HIDE DEF x
      <3>2. WithVersion(x) = WithVersion(op[r])
        BY <3>1 DEF WithVersion
      <3> QED
        BY <3>1, <3>2, Zenon DEF Updated
    <2> HIDE DEF x
    <2>3. op'[r] = x /\ \A q \in Requests \ {r} : op'[q] = op[q]
      BY <2>1 DEF Typed
    <2>4. Settled(v) /\ ~ Readable'
      BY <2>1 DEF Readable
    <2>5. ASSUME NEW q \in Requests, Updating(q)' PROVE Listed(Updated(op'[q]), v)
      <3>1. Updating(q)
        BY <2>1, <2>3, <2>5 DEF Updating
      <3>2. Updated(op'[q]) = Updated(op[q])
        BY <2>2, <2>3
      <3> QED
        BY <2>4, <3>1, <3>2 DEF Settled
    <2> QED
      BY <2>4, <2>5 DEF Settled
  <1>3. CASE Write(r) /\ ~ LocalFile
    <2>1. Updating(r) /\ stored' = Updated(op[r]) /\ Answer(r)
      BY <1>3 DEF Write, At, Updating
    <2> QED
      BY <2>1, AnswersSettled
  <1>4. CASE Written(r)
    <2>1. /\ Updating(r) /\ Answer(r)
          /\ stored' = IF stored = Missing THEN Missing ELSE Updated(op[r])
      BY <1>4 DEF Written, At, Updating
    <2> QED
      BY <2>1, AnswersSettled
  <1> QED
    BY <1>1, <1>2, <1>3, <1>4 DEF Recording

(* However updates overlap, a version is lost only to a copy of the         *)
(* document read before it was recorded.  A version whose save is answered  *)
(* while no other request holds a copy is settled, and what is settled      *)
(* stays in every later document until the project is deleted.              *)
THEOREM LaterUpdatesKeepWhatIsSettled == Spec => LaterUpdatesKeepVersions
  <1> DEFINE Keeps == stored' # Missing => \A v \in Versions :
                Settled(v) \/ (v \in saved' \ saved /\ UpdatesDisjoint) => Settled(v)'
  <1>1. Typed /\ [Next]_vars => Keeps
    <2> SUFFICES ASSUME Typed, [Next]_vars, stored' # Missing, NEW v \in Versions,
                        Settled(v) \/ (v \in saved' \ saved /\ UpdatesDisjoint)
                 PROVE  Settled(v)'
      OBVIOUS
    <2>1. ASSUME stored' = stored, \A q \in Requests : Updating(q)' => Updating(q) /\ op'[q] = op[q],
                 saved' = saved
          PROVE  Settled(v)'
      BY <2>1, FewerCopies
    <2>2. CASE Edit \/ UNCHANGED vars
      <3>1. stored' = stored /\ op' = op /\ saved' = saved
        BY <2>2 DEF Edit, vars
      <3> QED
        BY <2>1, <3>1 DEF Updating
    <2>3. CASE Restart
      <3>1. stored' = stored /\ saved' = saved /\ \A q \in Requests : op'[q].pc = "idle"
        BY <2>3 DEF Restart, IdleOp
      <3> QED
        BY <2>1, <3>1 DEF Updating
    <2>4. ASSUME NEW r \in Requests, Aside(r) PROVE Settled(v)'
      <3>1. saved' = saved
        BY <2>4 DEF Aside, AsideAs
      <3> QED
        BY <2>4, <3>1, AsideSettled
    <2>5. ASSUME NEW r \in Requests, Request(r) \/ Versioning(r) \/ Producing(r)
          PROVE  Settled(v)'
      BY <2>4, <2>5, RequestAside, VersioningAside, ProducingAside
    <2>6. ASSUME NEW r \in Requests, Recording(r) PROVE Settled(v)'
      BY <2>6, TypedStep, RecordingSettled
    <2>7. ASSUME NEW r \in Requests, Ending(r) PROVE Settled(v)'
      <3>1. Purge(r) => Aside(r)
        BY EndsAside DEF Purge
      <3>2. ~ Drop(r)
        BY DEF Drop
      <3> QED
        BY <2>4, <2>7, <3>1, <3>2, FailAside DEF Ending
    <2> QED
      BY <2>2, <2>3, <2>5, <2>6, <2>7 DEF Next
  <1>2. Typed /\ [Next]_vars => [Keeps]_vars
    BY <1>1
  <1> QED
    BY <1>2, SavesInductive, PTL DEF Spec, LaterUpdatesKeepVersions
===============================================================================
