---------------------------- MODULE PreviewBuilds ----------------------------
(***************************************************************************)
(* The preview service of the business backend (preview-service.ts): the   *)
(* builds that concurrent startPreviewBuild calls start, the slots that    *)
(* limit them, the sandbox each workspace is built in, the output          *)
(* directories that serve as a cache of builds, and the periodic cleanup.  *)
(*                                                                         *)
(* Each action is the code between two awaits.  Agents edit a workspace's  *)
(* source at any time; the process may stop at any time and comes back     *)
(* with its memory empty and its directories as they were.                 *)
(*                                                                         *)
(* A cache key is the hash of the source, so the source itself is the key. *)
(* All sources of a workspace share a package manifest, hence one sandbox. *)
(***************************************************************************)
EXTENDS Naturals, Sequences, FiniteSets

CONSTANTS
    Workspaces,
    Sources,       \* BOUND: the states of a workspace's source files
    ViteSources,   \* those detectWorkspacePreview finds in need of a build
    Requests,      \* BOUND: startPreviewBuild calls under way at once
    MaxSlots,      \* MAX_CONCURRENT_BUILDS
    MayClean,      \* BOUND: whether directories age and are cleaned up
    NoBuild,       \* a workspace without a build record
    Nothing        \* the content of an empty sandbox
------------------------------------------------------------------------------
ASSUME PreviewAssumption ==
    /\ Workspaces # {} /\ Sources # {}
    /\ ViteSources \subseteq Sources
    /\ MaxSlots \in Nat \ {0}
    /\ MayClean \in BOOLEAN
    /\ IsFiniteSet(Requests)
    /\ NoBuild \notin Requests
    /\ Nothing \notin Sources

VARIABLES
    \* the workspace and preview directories
    source,    \* [Workspaces -> Sources]: the repository's source files
    sandbox,   \* [Workspaces -> Sources or Nothing]: files in the sandbox
    output,    \* [Workspaces -> [Sources -> the output directory of the key]]
    stale,     \* directories whose marker is older than the retention time
    \* memory of the backend process
    record,    \* buildRecords: [Workspaces -> latest build, or NoBuild]
    running,   \* runningBuilds: workspaces with an entry
    call,      \* [Requests -> a startPreviewBuild call and the build it starts]
    active,    \* activeBuildCount
    waiters,   \* buildWaiters
    cleaner    \* the cleanup pass: [ws, dirs still to visit, chosen]

dirs   == <<source, sandbox, output, stale>>
slots  == <<active, waiters>>
vars   == <<dirs, record, running, call, slots, cleaner>>

(* The runtime directories of a workspace: its sandbox and an output per key. *)
SandboxDir  == "sandbox"
DirsOf(w)   == {<<w, SandboxDir>>} \union ({w} \X Sources)
Directories == UNION {DirsOf(w) : w \in Workspaces}

(* What is in an output directory, and from which source it was built.  A   *)
(* partial one has an index.html, and misses or mixes other files.          *)
Files    == {"absent", "empty", "partial", "complete"}
Outputs  == [files : Files, from : Sources \union {Nothing}]
Absent   == [files |-> "absent", from |-> Nothing]
Empty    == [files |-> "empty", from |-> Nothing]
HasIndex(o) == o.files \in {"partial", "complete"}

(* The awaits of a call: in startPreviewBuild, in the queue for a slot, and  *)
(* in runPreviewBuild once it has one.                                      *)
Asking   == {"inspect", "prepare"}
Building == {"sync", "copy", "install", "clear", "compile", "emit", "check"}
Live     == Building \union {"queued"}
PCs      == {"idle"} \union Asking \union Live
Statuses == {"none", "running", "success", "failed"}
Calls    == [ws : Workspaces, key : Sources, force : BOOLEAN, pc : PCs,
             status : Statuses, from : Sources \union {Nothing}]

(* A call object that is not in use. *)
IdleCall == [ws |-> CHOOSE w \in Workspaces : TRUE, key |-> CHOOSE k \in Sources : TRUE,
             force |-> FALSE, pc |-> "idle", status |-> "none", from |-> Nothing]

(* Between two passes of the cleanup. *)
Resting == [visit |-> {}, chosen |-> {}]

Init ==
    /\ source \in [Workspaces -> Sources]
    /\ sandbox = [w \in Workspaces |-> Nothing]
    /\ output = [w \in Workspaces |-> [k \in Sources |-> Absent]]
    /\ stale = {}
    /\ record = [w \in Workspaces |-> NoBuild]
    /\ running = {}
    /\ call = [r \in Requests |-> IdleCall]
    /\ active = 0
    /\ waiters = <<>>
    /\ cleaner = Resting
------------------------------------------------------------------------------
(* readBuildState: the status shown for key k of a workspace.  The latest   *)
(* record answers for its own key, an index.html on disk for any other.     *)
RecordOf(w)     == call[record[w]]
AnsweredLive(w, k) == record[w] # NoBuild /\ RecordOf(w).key = k
BuildState(w, k) ==
    IF AnsweredLive(w, k) THEN RecordOf(w).status
    ELSE IF HasIndex(output[w][k]) THEN "success" ELSE "idle"

(* The output directory's marker is refreshed when it was read. *)
TouchedBy(w, k) ==
    IF ~ AnsweredLive(w, k) /\ HasIndex(output[w][k]) THEN {<<w, k>>} ELSE {}

(* getPreviewCapability, also behind openRuntimePreviewAsset. *)
Poll(w) ==
    /\ source[w] \in ViteSources
    /\ stale' = stale \ TouchedBy(w, source[w])
    /\ UNCHANGED <<source, sandbox, output, record, running, call, slots, cleaner>>

(* openBuiltPreviewAsset: a page of key k is served. *)
Serve(w, k) ==
    /\ HasIndex(output[w][k])
    /\ stale' = stale \ {<<w, k>>}
    /\ UNCHANGED <<source, sandbox, output, record, running, call, slots, cleaner>>

(* An agent or a user changes the source files. *)
Edit(w, s) ==
    /\ s # source[w]
    /\ source' = [source EXCEPT ![w] = s]
    /\ UNCHANGED <<sandbox, output, stale, record, running, call, slots, cleaner>>
------------------------------------------------------------------------------
(* startPreviewBuild has read the source and found a Vite project (any other *)
(* one is not built).  A call object no record refers to may be taken.      *)
Request(r, w, force) ==
    /\ call[r].pc = "idle"
    /\ \A v \in Workspaces : record[v] # r
    /\ source[w] \in ViteSources
    /\ call' = [call EXCEPT ![r] = [ws |-> w, key |-> source[w], force |-> force,
                                    pc |-> "inspect", status |-> "none",
                                    from |-> Nothing]]
    /\ UNCHANGED <<dirs, record, running, slots, cleaner>>

Reusable(r) ==
    ~ call[r].force /\ BuildState(call[r].ws, call[r].key) \in {"running", "success"}

(* The build state and the running build are looked at: is a build needed? *)
Inspect(r) ==
    LET w == call[r].ws IN
    /\ call[r].pc = "inspect"
    /\ call' = [call EXCEPT ![r] = IF Reusable(r) \/ w \in running THEN IdleCall
                                   ELSE [@ EXCEPT !.pc = "prepare"]]
    /\ stale' = stale \ TouchedBy(w, call[r].key)
    /\ UNCHANGED <<source, sandbox, output, record, running, slots, cleaner>>

\* MUTANT: the limit is compared with <=
SlotFreeOffByOne == active <= MaxSlots

SlotFree == active < MaxSlots

(* After the awaits that build the install and build commands, the record   *)
(* and the running build are registered and a slot is asked for.            *)
Register(r) ==
    LET w == call[r].ws IN
    /\ call[r].pc = "prepare"
    /\ record' = [record EXCEPT ![w] = r]
    /\ running' = running \union {w}
    /\ IF SlotFree
       THEN /\ active' = active + 1
            /\ call' = [call EXCEPT ![r].status = "running", ![r].pc = "sync"]
            /\ UNCHANGED waiters
       ELSE /\ waiters' = Append(waiters, r)
            /\ call' = [call EXCEPT ![r].status = "running", ![r].pc = "queued"]
            /\ UNCHANGED active
    /\ UNCHANGED <<dirs, cleaner>>
------------------------------------------------------------------------------
(* The steps of runPreviewBuild, in their order.  A step that fails, or a   *)
(* command that exceeds its time limit, leads to Fail.                      *)
Step(r, from, to) ==
    /\ call[r].pc = from
    /\ call' = [call EXCEPT ![r].pc = to]

(* syncSandboxSource empties the sandbox, ... *)
EmptySandbox(r) ==
    /\ Step(r, "sync", "copy")
    /\ sandbox' = [sandbox EXCEPT ![call[r].ws] = Nothing]
    /\ UNCHANGED <<source, output, stale, record, running, slots, cleaner>>

(* ... copies the source files of this moment into it, and is followed by   *)
(* the refresh of its marker.                                               *)
CopySource(r) ==
    LET w == call[r].ws IN
    /\ Step(r, "copy", "install")
    /\ sandbox' = [sandbox EXCEPT ![w] = source[w]]
    /\ stale' = stale \ {<<w, SandboxDir>>}
    /\ UNCHANGED <<source, output, record, running, slots, cleaner>>

(* ensureSandboxDependencies: throws when package.json is gone. *)
Install(r) ==
    /\ Step(r, "install", "clear")
    /\ sandbox[call[r].ws] # Nothing
    /\ UNCHANGED <<dirs, record, running, slots, cleaner>>

ClearOutput(r) ==
    LET w == call[r].ws
        k == call[r].key
    IN
    /\ Step(r, "clear", "compile")
    /\ output' = [output EXCEPT ![w][k] = Empty]
    /\ stale' = stale \ {<<w, k>>}
    /\ UNCHANGED <<source, sandbox, record, running, slots, cleaner>>

(* The Vite process has read the sandbox and writes its first files. *)
Emit(r) ==
    LET w == call[r].ws IN
    /\ call[r].pc = "compile"
    /\ sandbox[w] # Nothing
    /\ call' = [call EXCEPT ![r].pc = "emit", ![r].from = sandbox[w]]
    /\ output' = [output EXCEPT ![w][call[r].key] =
                    [files |-> "partial", from |-> sandbox[w]]]
    /\ UNCHANGED <<source, sandbox, stale, record, running, slots, cleaner>>

(* It writes the rest and exits with code 0.  The directory is complete     *)
(* unless another build or the cleanup emptied it meanwhile.                *)
Compiled(r) ==
    LET w     == call[r].ws
        k     == call[r].key
        whole == output[w][k] = [files |-> "partial", from |-> call[r].from]
    IN
    /\ Step(r, "emit", "check")
    /\ output' = [output EXCEPT ![w][k] =
                    [files |-> IF whole \/ @.files = "complete" THEN "complete" ELSE "partial",
                     from  |-> call[r].from]]
    /\ UNCHANGED <<source, sandbox, stale, record, running, slots, cleaner>>

\* MUTANT: the slot is given back, but nobody is woken
WokenNobody == {}

(* releaseBuildSlot wakes the oldest waiter, which counts itself active     *)
(* before anything else runs.                                               *)
Woken == IF waiters = <<>> THEN {} ELSE {Head(waiters)}

\* MUTANT: the record keeps its status
EndedSilently(c, status) == [c EXCEPT !.pc = "idle"]

Ended(c, status) == [c EXCEPT !.pc = "idle", !.status = status]

\* MUTANT: the entry stays when the build fails
UnregisteredOnSuccess(r) ==
    IF call[r].pc = "check" THEN running \ {call[r].ws} ELSE running

(* The workspace's entry in runningBuilds is deleted, whoever's it is. *)
Unregistered(r) == running \ {call[r].ws}

(* The build ends: its record gets its status and its slot goes on. *)
End(r, status) ==
    /\ call' = [q \in Requests |->
                  IF q = r THEN Ended(call[r], status)
                  ELSE IF q \in Woken THEN [call[q] EXCEPT !.pc = "sync"]
                  ELSE call[q]]
    /\ active' = (active - 1) + Cardinality(Woken)
    /\ waiters' = IF Woken = {} THEN waiters ELSE Tail(waiters)
    /\ running' = Unregistered(r)

(* The output has an index.html: the marker is written, the record succeeds. *)
Succeed(r) ==
    LET w == call[r].ws
        k == call[r].key
    IN
    /\ call[r].pc = "check"
    /\ HasIndex(output[w][k])
    /\ stale' = stale \ {<<w, k>>}
    /\ End(r, "success")
    /\ UNCHANGED <<source, sandbox, output, record, cleaner>>

Fail(r) ==
    /\ call[r].pc \in Building
    /\ End(r, "failed")
    /\ UNCHANGED <<dirs, record, cleaner>>
------------------------------------------------------------------------------
(* The retention time of a directory passes.  It is a day or more, and a    *)
(* build or a cleanup pass takes minutes.                                   *)
Age(d) ==
    /\ MayClean
    /\ cleaner = Resting
    /\ \A r \in Requests : call[r].pc \in Live => d \notin DirsOf(call[r].ws)
    /\ d \notin stale
    /\ stale' = stale \union {d}
    /\ UNCHANGED <<source, sandbox, output, record, running, call, slots, cleaner>>

(* cleanupWorkspaceScopedDirectory: a workspace is skipped if a build of it *)
(* runs now; ...                                                            *)
CleanVisit(w) ==
    /\ MayClean
    /\ cleaner = Resting
    /\ w \notin running
    /\ cleaner' = [cleaner EXCEPT !.visit = DirsOf(w)]
    /\ UNCHANGED <<dirs, record, running, call, slots>>

(* ... the marker of each of its directories is read, ... *)
CleanChoose(d) ==
    /\ cleaner.chosen = {}
    /\ d \in cleaner.visit
    /\ cleaner' = [visit |-> cleaner.visit \ {d}, chosen |-> {d} \intersect stale]
    /\ UNCHANGED <<dirs, record, running, call, slots>>

(* ... and the directory removed if it was stale. *)
CleanRemove(w, k) ==
    /\ <<w, k>> \in cleaner.chosen
    /\ IF k = SandboxDir
       THEN /\ sandbox' = [sandbox EXCEPT ![w] = Nothing]
            /\ UNCHANGED output
       ELSE /\ output' = [output EXCEPT ![w][k] = Absent]
            /\ UNCHANGED sandbox
    /\ cleaner' = [cleaner EXCEPT !.chosen = {}]
    /\ UNCHANGED <<source, stale, record, running, call, slots>>

(* The backend stops and starts again. *)
Restart ==
    /\ record' = [w \in Workspaces |-> NoBuild]
    /\ running' = {}
    /\ call' = [r \in Requests |-> IdleCall]
    /\ active' = 0
    /\ waiters' = <<>>
    /\ cleaner' = Resting
    /\ UNCHANGED dirs
------------------------------------------------------------------------------
Build(r) ==
    \/ EmptySandbox(r) \/ CopySource(r) \/ Install(r) \/ ClearOutput(r)
    \/ Emit(r) \/ Compiled(r) \/ Succeed(r) \/ Fail(r)

Ask(r) ==
    \/ \E w \in Workspaces, force \in BOOLEAN : Request(r, w, force)
    \/ Inspect(r) \/ Register(r)

Clean ==
    \/ \E w \in Workspaces : CleanVisit(w)
    \/ \E d \in Directories : CleanChoose(d) \/ Age(d)
    \/ \E w \in Workspaces : \E k \in Sources \union {SandboxDir} : CleanRemove(w, k)

Use ==
    \E w \in Workspaces :
        \/ Poll(w)
        \/ \E s \in Sources : Serve(w, s) \/ Edit(w, s)

Next ==
    \/ \E r \in Requests : Ask(r) \/ Build(r)
    \/ Use \/ Clean \/ Restart

Spec == Init /\ [][Next]_vars

(* A build goes on: its commands are killed after five minutes, and         *)
(* everything else it awaits are file operations.                           *)
FairSpec == Spec /\ \A r \in Requests : WF_vars(Build(r))
------------------------------------------------------------------------------
TypeOK ==
    /\ source \in [Workspaces -> Sources]
    /\ sandbox \in [Workspaces -> Sources \union {Nothing}]
    /\ output \in [Workspaces -> [Sources -> Outputs]]
    /\ stale \subseteq Directories
    /\ record \in [Workspaces -> Requests \union {NoBuild}]
    /\ running \subseteq Workspaces
    /\ call \in [Requests -> Calls]
    /\ active \in 0..MaxSlots
    /\ waiters \in Seq(Requests)
    /\ cleaner \in [visit : SUBSET Directories, chosen : SUBSET Directories]

Holders == {r \in Requests : call[r].pc \in Building}

(* The slot counter counts the builds between acquireBuildSlot and          *)
(* releaseBuildSlot, never above MAX_CONCURRENT_BUILDS, on every exit path  *)
(* of runPreviewBuild and whoever wakes whom.                               *)
SlotsAccounted == active = Cardinality(Holders) /\ active <= MaxSlots

(* No lost wake-up: builds queue only while every slot is taken, and the    *)
(* queue holds each queued build once (acquireBuildSlot, releaseBuildSlot). *)
NoLostWakeup ==
    /\ waiters # <<>> => active = MaxSlots
    /\ \A i, j \in DOMAIN waiters : waiters[i] = waiters[j] => i = j
    /\ \A r \in Requests : call[r].pc = "queued" <=> \E i \in DOMAIN waiters : waiters[i] = r

(* A poll that answers "running" tells of a build that is under way, however *)
(* builds of one workspace overlap and replace each other's record; else    *)
(* the panel would poll for ever and no build could be started without      *)
(* force (readBuildState, startPreviewBuild).                               *)
RunningIsUnderWay ==
    \A w \in Workspaces :
        record[w] # NoBuild /\ RecordOf(w).status = "running" =>
            RecordOf(w).pc \in Live /\ RecordOf(w).ws = w

(* An entry of runningBuilds belongs to a workspace that is being built: a  *)
(* workspace is never locked out of builds and of the cleanup, though the   *)
(* first of two overlapping builds to end deletes the entry of the other.   *)
NoWorkspaceLockedOut ==
    \A w \in running : \E r \in Requests : call[r].ws = w /\ call[r].pc \in Live

(* The slots implement a bounded first-in first-out admission. *)
SlotQueue == INSTANCE BuildSlots WITH holders <- Holders, queue <- waiters
SlotSpec  == SlotQueue!Spec

(* A build that was registered ends, with or without a slot at first. *)
BuildsEnd == \A r \in Requests : call[r].pc \in Live ~> call[r].pc = "idle"
------------------------------------------------------------------------------
(* What comments and messages of the code say and the code does not keep.   *)

(* "Starts or reuses one cached preview build": a workspace has one build   *)
(* under way.                                                               *)
OneBuildPerWorkspace ==
    \A q, r \in Requests :
        call[q].pc \in Live /\ call[r].pc \in Live /\ call[q].ws = call[r].ws => q = r

(* "A reusable local preview output cache was found; the preview reads the  *)
(* result of the last successful build": what the disk answers for is whole. *)
CacheHitIsComplete ==
    \A w \in Workspaces : \A k \in Sources :
        ~ AnsweredLive(w, k) /\ BuildState(w, k) = "success" =>
            output[w][k].files = "complete"

(* "Build finished, the panel now shows the page compiled from the current  *)
(* source": what a success record of the current key shows was built from   *)
(* the current source.                                                      *)
SuccessShowsSource ==
    \A w \in Workspaces :
        AnsweredLive(w, source[w]) /\ BuildState(w, source[w]) = "success"
            /\ HasIndex(output[w][source[w]])
            => output[w][source[w]].from = source[w]

(* "Build finished, the panel now shows the page": a success record has a   *)
(* page to show.                                                            *)
SuccessHasPage ==
    \A w \in Workspaces : \A k \in Sources :
        AnsweredLive(w, k) /\ BuildState(w, k) = "success" => HasIndex(output[w][k])

(* "Removes stale runtime directories that no longer need to be retained":  *)
(* the cleanup removes no directory of a workspace that is being built.     *)
CleanupSparesBuilds ==
    [][\A w \in Workspaces :
          cleaner.chosen # {} /\ cleaner'.chosen = {}
          /\ cleaner.chosen \subseteq DirsOf(w) /\ w \in running
          => sandbox'[w] = sandbox[w] /\ output'[w] = output[w]]_vars
==============================================================================
