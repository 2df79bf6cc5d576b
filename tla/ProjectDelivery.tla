--------------------------- MODULE ProjectDelivery ---------------------------
(***************************************************************************)
(* Delivery of one project by the business backend: saving the workspace   *)
(* repository as a version, restoring, building and publishing one, and    *)
(* deleting the project, all recorded in one metadata document.            *)
(*                                                                         *)
(* Requests run concurrently and each action is the code between two       *)
(* awaits.  Every handler changes the metadata through updateProject,      *)
(* which reads the document, edits the copy and writes it back.  Agents    *)
(* edit the repository at any time, any step may fail, and the process may *)
(* stop at any time, leaving files and repository as they are.             *)
(***************************************************************************)
EXTENDS Naturals, Sequences, FiniteSets

CONSTANTS
    Requests,    \* BOUND: requests under way at once
    Versions,    \* BOUND: the version ids, given by clients or generated
    MaxEdits,    \* BOUND: how often the repository's files are edited
    Kinds,       \* BOUND: the operations requested
    LocalFile,   \* whether APP_METADATA_STORE is local, or else postgres
    Files,       \* the files of a build's output
    NoVersion, NoZip,
    Missing,     \* there is no metadata document
    Torn         \* the metadata file holds part of a document
------------------------------------------------------------------------------
ASSUME DeliveryAssumption ==
    /\ MaxEdits \in Nat
    /\ LocalFile \in BOOLEAN
    /\ NoVersion \notin Versions
    /\ NoZip \notin Nat
    /\ Files # {}

VARIABLES
    \* the workspace repository
    tree,       \* content of the working tree: the number of its last edit
    edits,      \* edits made so far
    commits,    \* content of each commit; a commit's sha is its index
    head,       \* sha of HEAD
    tags,       \* [Versions -> sha, 0 when there is no such tag]
    workspace,  \* whether the runtime still has the workspace
    \* the backend's storage
    zips,       \* [Versions -> content of the source zip, or NoZip]
    artifact,   \* [Versions -> files in the build artifact directory]
    site,       \* deploy/latest: [Files -> version it came from, or NoVersion]
    stored,     \* the metadata document, Missing or Torn
    \* requests, and what was answered
    op,         \* [Requests -> the request's progress]
    saved,      \* versions whose createVersion returned
    deleted     \* whether deleteProject removed the document

repo    == <<tree, commits, head, tags>>
storage == <<zips, artifact, site>>
vars    == <<repo, edits, workspace, storage, stored, op, saved, deleted>>

(* ProjectMetadata: the fields the handlers of this module change. *)
Builds   == {"none", "success", "failed"}
Entries  == [sha : Nat, build : Builds]
MaybeVersion == Versions \union {NoVersion}
Records  == [current : MaybeVersion, published : MaybeVersion, pinned : BOOLEAN,
             versions : [Versions -> Entries]]
Unlisted == [sha |-> 0, build |-> "none"]
NewRecord == [current |-> NoVersion, published |-> NoVersion, pinned |-> FALSE,
              versions |-> [v \in Versions |-> Unlisted]]
Listed(rec, v) == rec.versions[v].sha # 0
Readable == stored \notin {Missing, Torn}

(* Where a request is: the next await of its handler, and what its next     *)
(* updateProject will change.                                               *)
PCs     == {"idle", "check", "commit", "tag", "sha", "zip", "reset", "compile",
            "clean", "copy", "sweep", "publish", "read", "write", "writing",
            "drop", "purge"}
Changes == {"none", "save", "current", "built", "failed", "published", "pinned"}
Ops     == [pc : PCs, change : Changes, version : MaybeVersion, target : MaybeVersion,
            base : Nat, sha : Nat, copy : Records, todo : SUBSET Files]
IdleOp  == [pc |-> "idle", change |-> "none", version |-> NoVersion,
            target |-> NoVersion, base |-> 0, sha |-> 0, copy |-> NewRecord,
            todo |-> {}]
Fresh(pc, change, v) == [IdleOp EXCEPT !.pc = pc, !.change = change, !.version = v]

(* A project just created, on a workspace with its baseline commit. *)
Init ==
    /\ tree = 0 /\ edits = 0
    /\ commits = <<0>> /\ head = 1
    /\ tags = [v \in Versions |-> 0]
    /\ workspace = TRUE
    /\ zips = [v \in Versions |-> NoZip]
    /\ artifact = [v \in Versions |-> {}]
    /\ site = [f \in Files |-> NoVersion]
    /\ stored = NewRecord
    /\ op = [r \in Requests |-> IdleOp]
    /\ saved = {} /\ deleted = FALSE

At(r, pc)   == op[r].pc = pc
Goto(r, pc) == op' = [op EXCEPT ![r].pc = pc]
Finish(r)   == op' = [op EXCEPT ![r] = IdleOp]
------------------------------------------------------------------------------
(* An agent or a user changes files of the repository. *)
Edit ==
    /\ workspace
    /\ edits < MaxEdits
    /\ edits' = edits + 1
    /\ tree' = edits + 1
    /\ UNCHANGED <<commits, head, tags, workspace, storage, stored, op, saved, deleted>>

(* A request arrives and, for all but a pin, getProject finds the document. *)
Begin(r, kind, fields) ==
    /\ At(r, "idle")
    /\ kind \in Kinds
    /\ op' = [op EXCEPT ![r] = fields]
    /\ UNCHANGED <<repo, edits, workspace, storage, stored, saved, deleted>>

(* createVersion, with a new id when the client gives none. *)
SaveBegin(r, v) ==
    /\ Readable
    /\ Begin(r, "save", Fresh("check", "save", v))

(* restoreVersion of version t, after saving a snapshot s or without one. *)
RestoreBegin(r, t, s) ==
    /\ Readable
    /\ Listed(stored, t)
    /\ Begin(r, "restore",
             [IF s = NoVersion THEN Fresh("reset", "current", s) ELSE Fresh("check", "save", s)
              EXCEPT !.target = t, !.base = stored.versions[t].sha])

(* buildVersion and deployVersion, of a version given or the current one. *)
BuildBegin(r, v) ==
    /\ Readable
    /\ Listed(stored, v)
    /\ Begin(r, "build", Fresh("compile", "built", v))

DeployBegin(r, v) ==
    /\ Readable
    /\ Listed(stored, v) /\ stored.versions[v].build = "success"
    /\ Begin(r, "deploy", Fresh("sweep", "published", v))

(* updateProjectMetadata, and any other handler that only updates a field.  *)
PinBegin(r) == Begin(r, "pin", Fresh("read", "pinned", NoVersion))

DeleteBegin(r) ==
    /\ Readable
    /\ Begin(r, "delete", Fresh("drop", "none", NoVersion))
------------------------------------------------------------------------------
(* createVersion: ensureTagDoesNotExist. *)
CheckTag(r) ==
    /\ At(r, "check")
    /\ workspace
    /\ IF tags[op[r].version] = 0 THEN Goto(r, "commit") ELSE Finish(r)
    /\ UNCHANGED <<repo, edits, workspace, storage, stored, saved, deleted>>

(* MUTANT: HEAD is assumed to move with every save. *)
CommitAlways(from) ==
    IF commits[from] = tree THEN head' = Len(commits) + 1 /\ UNCHANGED commits
    ELSE commits' = Append(commits, tree) /\ head' = Len(commits) + 1

(* ensureCommittedVersion: everything in a changed tree is committed. *)
CommitChanges(from) ==
    IF commits[from] = tree THEN UNCHANGED <<commits, head>>
    ELSE commits' = Append(commits, tree) /\ head' = Len(commits) + 1

Commit(r) ==
    /\ At(r, "commit")
    /\ workspace
    /\ CommitChanges(head)
    /\ Goto(r, "tag")
    /\ UNCHANGED <<tree, tags, edits, workspace, storage, stored, saved, deleted>>

(* MUTANT: the tag is created with --force. *)
TagForced(r) ==
    /\ At(r, "tag")
    /\ workspace
    /\ tags' = [tags EXCEPT ![op[r].version] = head]
    /\ Goto(r, "sha")
    /\ UNCHANGED <<tree, commits, head, edits, workspace, storage, stored, saved, deleted>>

(* git tag, which refuses a tag that exists by now. *)
Tag(r) ==
    /\ At(r, "tag")
    /\ workspace
    /\ IF tags[op[r].version] = 0
       THEN tags' = [tags EXCEPT ![op[r].version] = head] /\ Goto(r, "sha")
       ELSE UNCHANGED tags /\ Finish(r)
    /\ UNCHANGED <<tree, commits, head, edits, workspace, storage, stored, saved, deleted>>

(* MUTANT: the zip is left for later. *)
HeadShaAndRecord(r) ==
    /\ At(r, "sha")
    /\ workspace
    /\ op' = [op EXCEPT ![r].sha = head, ![r].pc = "read"]
    /\ UNCHANGED <<repo, edits, workspace, storage, stored, saved, deleted>>

(* git rev-parse HEAD. *)
HeadSha(r) ==
    /\ At(r, "sha")
    /\ workspace
    /\ op' = [op EXCEPT ![r].sha = head, ![r].pc = "zip"]
    /\ UNCHANGED <<repo, edits, workspace, storage, stored, saved, deleted>>

(* zipDirectory packs the files of the working tree, not of the commit. *)
Zip(r) ==
    /\ At(r, "zip")
    /\ workspace
    /\ zips' = [zips EXCEPT ![op[r].version] = tree]
    /\ Goto(r, "read")
    /\ UNCHANGED <<repo, edits, workspace, artifact, site, stored, saved, deleted>>

(* restoreVersion: git reset --hard and git clean. *)
Reset(r) ==
    /\ At(r, "reset")
    /\ workspace
    /\ tree' = commits[op[r].base]
    /\ head' = op[r].base
    /\ Goto(r, "read")
    /\ UNCHANGED <<commits, tags, edits, workspace, storage, stored, saved, deleted>>
------------------------------------------------------------------------------
(* MUTANT: a saved version replaces the list. *)
OnlyVersion(o) ==
    [v \in Versions |-> IF v = o.version THEN [sha |-> o.sha, build |-> "none"] ELSE Unlisted]

(* createVersion's updater pushes the new version. *)
WithVersion(o) ==
    [o.copy.versions EXCEPT ![o.version] = [sha |-> o.sha, build |-> "none"]]

(* updateProject: what the updater does to the copy of the document. *)
Updated(o) ==
    LET v == o.version IN
    CASE o.change = "save"      -> [o.copy EXCEPT !.current = v, !.versions = WithVersion(o)]
      [] o.change = "current"   -> [o.copy EXCEPT !.current = o.target]
      [] o.change = "built"     -> [o.copy EXCEPT !.versions[v].build = "success"]
      [] o.change = "failed"    -> [o.copy EXCEPT !.versions[v].build = "failed"]
      [] o.change = "published" -> [o.copy EXCEPT !.published = v]
      [] OTHER                  -> [o.copy EXCEPT !.pinned = ~ @]

(* updateProject: getProject.  patchVersion gives up when the version is    *)
(* not listed any more.                                                     *)
Read(r) ==
    /\ At(r, "read")
    /\ IF Readable /\ (op[r].change \in {"built", "failed"} => Listed(stored, op[r].version))
       THEN op' = [op EXCEPT ![r].copy = stored, ![r].pc = "write"]
       ELSE Finish(r)
    /\ UNCHANGED <<repo, edits, workspace, storage, stored, saved, deleted>>

(* The handler goes on once its document is written: a restore that saved   *)
(* its snapshot resets the repository, every other request is answered.     *)
Answer(r) ==
    /\ saved' = IF op[r].change = "save" THEN saved \union {op[r].version} ELSE saved
    /\ IF op[r].change = "save" /\ op[r].target # NoVersion
       THEN op' = [op EXCEPT ![r].pc = "reset", ![r].change = "current"]
       ELSE Finish(r)

(* updateProject: saveProject.  PostgreSQL replaces the row in one step;    *)
(* writeJson first truncates the file.                                      *)
Write(r) ==
    /\ At(r, "write")
    /\ IF LocalFile
       THEN stored' = Torn /\ Goto(r, "writing") /\ UNCHANGED saved
       ELSE stored' = Updated(op[r]) /\ Answer(r)
    /\ UNCHANGED <<repo, edits, workspace, storage, deleted>>

(* The text of the document is in the file, unless the file was removed. *)
Written(r) ==
    /\ At(r, "writing")
    /\ stored' = IF stored = Missing THEN Missing ELSE Updated(op[r])
    /\ Answer(r)
    /\ UNCHANGED <<repo, edits, workspace, storage, deleted>>
------------------------------------------------------------------------------
(* buildVersion: the zip is unpacked and compiled in a directory of its own. *)
Compile(r) ==
    /\ At(r, "compile")
    /\ zips[op[r].version] # NoZip
    /\ Goto(r, "clean")
    /\ UNCHANGED <<repo, edits, workspace, storage, stored, saved, deleted>>

(* buildVersion: the artifact directory is emptied, then filled. *)
CleanArtifact(r) ==
    /\ At(r, "clean")
    /\ artifact' = [artifact EXCEPT ![op[r].version] = {}]
    /\ op' = [op EXCEPT ![r].pc = "copy", ![r].todo = Files]
    /\ UNCHANGED <<repo, edits, workspace, zips, site, stored, saved, deleted>>

(* One file is copied; the handler goes on after the last. *)
Copied(r, f, next) ==
    op' = [op EXCEPT ![r].todo = @ \ {f},
                     ![r].pc = IF op[r].todo = {f} THEN next ELSE @]

CopyArtifact(r, f) ==
    /\ At(r, "copy")
    /\ f \in op[r].todo
    /\ artifact' = [artifact EXCEPT ![op[r].version] = @ \union {f}]
    /\ Copied(r, f, "read")
    /\ UNCHANGED <<repo, edits, workspace, zips, site, stored, saved, deleted>>

(* deployVersion: deploy/latest is emptied, then filled from the artifact. *)
SweepSite(r) ==
    /\ At(r, "sweep")
    /\ site' = [f \in Files |-> NoVersion]
    /\ op' = [op EXCEPT ![r].pc = "publish", ![r].todo = Files]
    /\ UNCHANGED <<repo, edits, workspace, zips, artifact, stored, saved, deleted>>

CopySite(r, f) ==
    /\ At(r, "publish")
    /\ f \in op[r].todo
    /\ site' = IF f \in artifact[op[r].version]
               THEN [site EXCEPT ![f] = op[r].version] ELSE site
    /\ Copied(r, f, "read")
    /\ UNCHANGED <<repo, edits, workspace, zips, artifact, stored, saved, deleted>>
------------------------------------------------------------------------------
(* deleteProject removes the document first, *)
Drop(r) ==
    /\ At(r, "drop")
    /\ stored' = Missing
    /\ deleted' = TRUE
    /\ Goto(r, "purge")
    /\ UNCHANGED <<repo, edits, workspace, storage, saved>>

(* then the files and, unless another project uses it or the runtime's      *)
(* refusal is ignored, the workspace.                                       *)
Purge(r) ==
    /\ At(r, "purge")
    /\ zips' = [v \in Versions |-> NoZip]
    /\ artifact' = [v \in Versions |-> {}]
    /\ site' = [f \in Files |-> NoVersion]
    /\ workspace' \in {FALSE, workspace}
    /\ Finish(r)
    /\ UNCHANGED <<repo, edits, stored, saved, deleted>>

(* A step fails.  Up to the copy of its output a failed build is recorded   *)
(* as failed; the promise of its last update is returned, not awaited, so   *)
(* the handler's catch does not see that one fail.                          *)
Fail(r) ==
    /\ ~ At(r, "idle")
    /\ IF op[r].pc \in {"compile", "clean", "copy"}
       THEN op' = [op EXCEPT ![r].pc = "read", ![r].change = "failed", ![r].todo = {}]
       ELSE Finish(r)
    /\ UNCHANGED <<repo, edits, workspace, storage, stored, saved, deleted>>

(* The backend process stops and starts again. *)
Restart ==
    /\ \E r \in Requests : ~ At(r, "idle")
    /\ op' = [r \in Requests |-> IdleOp]
    /\ UNCHANGED <<repo, edits, workspace, storage, stored, saved, deleted>>
------------------------------------------------------------------------------
Request(r) ==
    \/ PinBegin(r) \/ DeleteBegin(r)
    \/ \E v \in Versions :
          \/ SaveBegin(r, v) \/ BuildBegin(r, v) \/ DeployBegin(r, v)
          \/ \E s \in MaybeVersion : RestoreBegin(r, v, s)

Versioning(r) ==
    CheckTag(r) \/ Commit(r) \/ Tag(r) \/ HeadSha(r) \/ Zip(r) \/ Reset(r)
Recording(r)  == Read(r) \/ Write(r) \/ Written(r)
Producing(r)  ==
    \/ Compile(r) \/ CleanArtifact(r) \/ SweepSite(r)
    \/ \E f \in Files : CopyArtifact(r, f) \/ CopySite(r, f)
Ending(r)     == Drop(r) \/ Purge(r) \/ Fail(r)

Next ==
    \/ Edit \/ Restart
    \/ \E r \in Requests :
          Request(r) \/ Versioning(r) \/ Recording(r) \/ Producing(r) \/ Ending(r)

Spec == Init /\ [][Next]_vars
------------------------------------------------------------------------------
(* The documents that exist: the stored one and the copies being edited. *)
Documents == {op[r].copy : r \in Requests} \union (IF Readable THEN {stored} ELSE {})

(* A save that has created its tag, and is not recorded yet. *)
Sealed(r) ==
    \/ op[r].pc \in {"sha", "zip"}
    \/ op[r].change = "save" /\ op[r].pc \in {"read", "write", "writing"}

(* A request that holds a copy of the document, to be written back. *)
Updating(r) == op[r].pc \in {"write", "writing"}

AllIdle == \A r \in Requests : At(r, "idle")

(* The state has the shape declared for it, and HEAD, the tags and the      *)
(* versions of every document name commits that exist.                      *)
TypeOK ==
    /\ edits \in Nat /\ tree \in Nat
    /\ commits \in Seq(Nat) /\ head \in 1..Len(commits)
    /\ tags \in [Versions -> 0..Len(commits)]
    /\ workspace \in BOOLEAN
    /\ zips \in [Versions -> Nat \union {NoZip}]
    /\ artifact \in [Versions -> SUBSET Files]
    /\ site \in [Files -> MaybeVersion]
    /\ stored \in Records \union {Missing, Torn}
    /\ op \in [Requests -> Ops]
    /\ saved \subseteq Versions /\ deleted \in BOOLEAN
    /\ \A d \in Documents : \A v \in Versions : d.versions[v].sha <= Len(commits)

(* Of all requests that save under one id, at most one gets past git tag    *)
(* before the id is in the document, whatever ids clients choose, however   *)
(* often they retry and however many documents are lost to other writers;   *)
(* an id in any document is never saved again.                              *)
OneSavePerVersion ==
    \A r \in Requests : Sealed(r) =>
        /\ \A q \in Requests : Sealed(q) /\ op[q].version = op[r].version => q = r
        /\ \A d \in Documents : ~ Listed(d, op[r].version)

(* A version in the document of a project that was not deleted can be       *)
(* compared, restored and built: its tag, commit and source zip exist.      *)
ListedVersionHasSources ==
    ~ deleted /\ Readable =>
        \A v \in Versions : Listed(stored, v) =>
            /\ tags[v] # 0
            /\ stored.versions[v].sha \in 1..Len(commits)
            /\ zips[v] # NoZip

(* While a version stays listed its commit never changes, although writers  *)
(* replace the whole document by copies of different ages.                  *)
ListedCommitIsFixed ==
    [][Readable /\ Readable' => \A v \in Versions :
          Listed(stored, v) /\ Listed(stored', v) =>
              stored'.versions[v].sha = stored.versions[v].sha]_vars

(* As long as the project is not deleted, a version whose save was answered *)
(* keeps its tag, the commit of that tag and its source zip, whatever else  *)
(* is saved, restored or retried under whatever id, and even when another   *)
(* writer's document no longer lists the version.                           *)
SavedSourcesStay ==
    [][~ deleted' => \A v \in saved :
          /\ tags[v] # 0 /\ tags'[v] = tags[v]
          /\ commits'[tags[v]] = commits[tags[v]]
          /\ zips[v] # NoZip /\ zips'[v] = zips[v]]_vars

(* At most one request holds a copy. *)
UpdatesDisjoint == \A q, r \in Requests : Updating(q) /\ Updating(r) => q = r

(* Every document still to be read or written lists v. *)
Settled(v) ==
    /\ stored # Missing
    /\ Readable => Listed(stored, v)
    /\ \A r \in Requests : Updating(r) => Listed(Updated(op[r]), v)

(* Overlapping updates lose a version only to a copy read before it was     *)
(* recorded: a version answered while no other request holds a copy is      *)
(* settled, and what is settled stays so until the project is deleted,      *)
(* however many later updates overlap, fail or are cut short by a restart.  *)
LaterUpdatesKeepVersions ==
    [][stored' # Missing => \A v \in Versions :
          Settled(v) \/ (v \in saved' \ saved /\ UpdatesDisjoint) => Settled(v)']_vars

(* Every version whose save was answered is in the document. *)
SavedIsListed == ~ deleted /\ Readable => \A v \in saved : Listed(stored, v)

(* Tag, commit and source zip of a version hold the same source. *)
VersionIsOneSnapshot ==
    ~ deleted /\ Readable =>
        \A v \in Versions : Listed(stored, v) =>
            /\ stored.versions[v].sha = tags[v]
            /\ commits[tags[v]] = zips[v]

(* A restore that took a snapshot first discards nothing that is not in a   *)
(* commit.                                                                  *)
RestoreKeepsEdits ==
    [][\A r \in Requests :
          At(r, "reset") /\ op'[r].pc = "read" /\ op[r].version # NoVersion =>
              \E c \in DOMAIN commits : commits[c] = tree]_vars

(* A version recorded as built has its whole output, when no build runs. *)
SuccessIsComplete ==
    AllIdle /\ ~ deleted /\ Readable =>
        \A v \in Versions :
            stored.versions[v].build = "success" => artifact[v] = Files

(* deploy/latest holds the version recorded as published, and only that,    *)
(* when no request is under way.                                            *)
SiteIsPublishedVersion ==
    AllIdle /\ ~ deleted /\ Readable /\ stored.published # NoVersion =>
        \A f \in Files : site[f] = stored.published

(* Every tag of a version belongs to the version list, or is being added.   *)
TagsAreListed ==
    AllIdle /\ ~ deleted /\ Readable =>
        \A v \in Versions : tags[v] # 0 => Listed(stored, v)

(* A deleted project stays deleted. *)
DeletedStaysDeleted == deleted => stored = Missing

(* listLocalProjects reads the files of all projects, and fails for every   *)
(* project when one cannot be parsed.                                       *)
ListingFails == LocalFile /\ stored = Torn

(* The projects can be listed whenever no request is under way. *)
ListingSurvives == AllIdle => ~ ListingFails

(* The document as the handlers promise it, when one request runs at a time. *)
Promised == INSTANCE ProjectRecord WITH record <- stored, Shas <- 1..MaxEdits + 1
RecordSpec == Promised!Spec
===============================================================================
