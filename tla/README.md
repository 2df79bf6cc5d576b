# byDance / AgentHub: a TLA+ model of the agent workflow

AgentHub lets a user talk to a group of software agents. A message becomes a
*turn*: a main brain decides who works on it, the chosen agents run as external
processes (Claude Code, Codex or a mock) in the repository of the workspace, and
one speaker answers. Sessions, handoffs, runs, change sets and messages are rows
of a shared state store. A business backend in front of it keeps a record of each
project, saves, builds and publishes versions of its repository and builds
previews. This directory models that core, checks it with TLC and proves its
central invariants with TLAPS.

Paths below are relative to the root of the repository; `server/` is
`agentHub/src/server/`, `backend/` is `agentHubBackend/src/`.

## 1. Inventory

| Component | State | Operations | Interacts with | Hard behaviour | What makes it correct |
|---|---|---|---|---|---|
| Turn routing (`server/orchestrator/planner.ts`, `routing.ts`, `turn-router.ts`, the guards of `workflow.ts`, `workflow/visible-speaker.ts`) | none: pure functions of the message, its route and the planner's answer | plan, stage guard, agent lock, review safety, execution safety, visible speaker | called by the turn workflow | the guards compose: one may undo another | a parallel batch never writes files; one speaker per turn; an engineer is reviewed |
| Turn workflow (`server/orchestrator/workflow.ts`, `repair.ts`, `delivery/status.ts`) | the local variables of each `handleUserMessage` | receive, route, dispatch in series or in parallel, repair once, finish | store, runtime, adapters, sessions | everything is interleaved at awaits; a throw in `Promise.all` leaves siblings running | ended turns are settled; every turn ends |
| Sessions and handoffs (`agent-session.ts`, `workflow/assistant-replies.ts`) | `agentSessions`, `taskHandoffs`, session messages | ensure session, create / start / complete handoff, lightweight reply | store | read and push are two store operations; two turns share a session | a handoff agrees with its run; rows resolve |
| State store and recovery (`server/store/*`) | the `AppState` document, an update queue | read, update, startup migrations, stale-run recovery, pruning | everything | crash between two updates; limits on each table | updates are atomic; recovery does not undo results |
| Workspace agents (`server/agents/workspace-agents.ts`) | agents and members | resolve, add, remove | routing, workflow | an agent removed mid-turn | a dispatch never runs an agent that is gone |
| Runtime workspace and routes (`server/runtime/workspace.ts`, `server/routes.ts`) | the repository directory | prepare, snapshot, delete, files, git, preview | workflow | the directory is shared by concurrent runs; deletion mid-run | change sets attribute writes to the right run |
| Adapters and processes (`server/adapters/*`, `server/runtime/process.ts`) | child processes | run with fallback, timeout, stream | workflow | SIGTERM only; orphans after a crash | a run always answers |
| Workflow events (`server/orchestrator/workflow/workflow-events.ts`) | per-turn buffers, `workflowEvents` | emit, retain, persist | workflow, clients | events emitted while the buffer is being stored | no event is lost or stored twice |
| Backend projects (`backend/projects/*`, `state-bridge.ts`) | one metadata file per project | create, update, delete, message stream | Runtime over HTTP | read-modify-write without a lock; a stream outlives the request | no lost update; the delivery gate follows the last run |
| Backend versions, builds, deployments (`backend/versions`, `builds`, `deployments`) | version records, copied trees | create, restore, patch, build, deploy | projects, storage | several files and one metadata write | files and metadata name the same version |
| Backend previews (`backend/preview-service.ts`) | build records, slots, cache directories | start, wait for slot, run, read state, clean up | storage, child processes | check-then-act around awaits, restart during a build | at most two builds, one per key; only complete output is served |
| Frontend, mobile app, CLI | client state | render the event stream | HTTP, SSE | merging streamed and stored messages | no duplicated message |
| `agentHub/ccOriginCode` | third-party sources | | | | not part of the system |

`PROJECT.json` lists every component with its status, and under `hazards` the
places where this code is hard to test, each with the properties that watch it,
the configuration that shows it, or the reason why nothing here covers it.

## 2. Modules

| Module | What it is |
|---|---|
| `TurnRouting.tla` | the routing decision and the guards, as pure operators |
| `TaskRuns.tla` | concurrent turns, their dispatches, the store's rows, the repository, deletion, crash and recovery; EXTENDS `TurnRouting` |
| `HandoffLifecycle.tla` | abstract: what a handoff and its run promise; implemented by `TaskRuns` |
| `StateTables.tla` | two tables of the state store and what an update does to them |
| `StateRegister.tla` | abstract: an atomic register with calls and answers; implemented by `StateStore` |
| `StateStore.tla` | the PostgreSQL store: update queue, advisory lock, transaction, startup, pruning |
| `WorkflowEvents.tla` | the buffers of the turns' events, their saves and the retention |
| `BuildSlots.tla` | abstract: bounded first-in first-out admission; implemented by `PreviewBuilds` |
| `PreviewBuilds.tla` | preview builds, slots, sandboxes, cached outputs and the cleanup |
| `ProjectRecord.tla` | abstract: how a project's record may change; implemented by `ProjectDelivery` when requests do not overlap |
| `ProjectDelivery.tla` | save, restore, build, deploy, pin and delete over one metadata document |
| `DeliveryGate.tla` | what the backend hears of a turn, what it records, and when the gate for saving opens; EXTENDS `TurnRouting` |
| `MC*.tla` | model values and symmetry for TLC |
| `TurnRoutingProofs`, `TaskRunsProofs`, `TurnInvariantProofs` | theorems about the Runtime's turns |
| `StateStoreProofs`, `WorkflowEventsProofs`, `PreviewBuildsProofs`, `ProjectDeliveryProofs`, `DeliveryGateProofs` | theorems about the other components |

How they fit together. `TaskRuns` and `WorkflowEvents` take `store.update` as one
atomic step; that is what `StateRegister` says, and `StateStore` implements it. An
update that takes effect and still rejects (the answer to its commit is lost) is
part of `StateRegister` and `WorkflowEvents`; in `TaskRuns` a failing operation has
no effect, and only a crash separates an effect from its continuation. `TaskRuns` and
`DeliveryGate` share the decisions of `TurnRouting`: the first follows the rows of
the dispatches, the second what the event stream tells the backend of their
results. Whether the gate opens is arbitrary in `ProjectDelivery`, where a save
may or may not ask for it.

### TurnRouting

A decision is `MainBrainTurn` without its texts: kind, list of dispatched agents,
serial or parallel, proposed speaker, finalization mode, lock. `ModelDecisions`
is everything a planner model can return that `MainBrainTurnSchema` and
`validateKnownAgents` accept; `RuleDecisions` is `decideRouting`, the fallback.
`StageGuard`, `LockToAgent`, `ReviewSafety` and `ExecutionSafety` are
`applyTaskStageGuard`, `lockRoutingDecisionToAgent`, `applyReviewSafety` and
`applyExecutionSafety`, composed by `Guarded` as `handleUserMessage` does. The
stage of the route and whether it allows execution are arbitrary: the patterns
and the router model that choose them are abstracted.

### TaskRuns

A turn is one `handleUserMessage`; its *i*-th dispatch is the slot `<<t, i>>`, and
the repair pass adds an engineer and a reviewer slot. A slot names the session,
handoff and run it creates (a row's id is a fresh UUID, so it identifies its
creator). Node.js runs one callback at a time, so **an action is the code between
two awaits together with the one store update or repository access it ends in**;
`MemoryStateStore.update` and the transaction of `PostgresStateStore` make that
update atomic (`StateStoreProofs!ImplementsRegister` for the latter), and a
throwing mutator leaves the state unchanged.

`pc[s]` is the await a dispatch is suspended at:

    idle -> (push_session ->) create_handoff -> begin -> push_run -> mark_running
         -> adapter -> persist -> complete -> returned          (or threw, dead)

| Action | Code |
|---|---|
| `ReceiveMessage`, `PlanTurn` | `handleUserMessage` up to the decision |
| `FindSession`, `MissSession`, `PushSession` | the read and the push of `ensureAgentSession` |
| `CreateHandoff`, `MarkHandoffRunning`, `CompleteHandoff` | the three updates of `agent-session.ts` |
| `LightweightReply` | `streamAndPersistAgentReply` |
| `BlockRun`, `BeginRun`, `PushRun`, `AgentReturns` | `runTaskBrief` |
| `AgentWrites` | the agent's process editing files, at any time during `adapter` |
| `PersistRunResult` | `persistRunResult` |
| `ThrowMissing`, `OperationFails` | `requiredById` throws; the store, git or the disk fails |
| `StartRepair`, `FinishTurn`, `SummaryThrows` | `runAutomaticRepairIfNeeded`, the closing branches |
| `DeleteWorkspace`, `RemoveDirectory` | `DELETE /api/workspaces/:workspaceId` |
| `Crash`, `Restart` | the process stops; `recoverStaleAgentRunsInState` at startup |

What is abstracted, and how:

* one workspace (rows carry its id and operations filter by it);
* the repository is the set of slots whose agent has written, a change set is the
  part of it that appeared between the two snapshots;
* the assessed result of a run is any member of `Outcomes`: `assessDelivery`
  combines the adapter's status, validation and the review verdict, all external;
* which of several active sessions is the latest is arbitrary, since timestamps are;
* the agent lookup and the session lookup of a dispatch, two reads in a row, are one;
* texts, artifacts, events, diagnostics and session messages are left out;
* a child process that outlives a crash of the Runtime is not modelled;
* how long the process was down is arbitrary, so any running run may be stale.

### HandoffLifecycle

Per handoff: create it pending, open its run, start it, end the run, then settle
the handoff with the run's result; interrupted runs fail with the handoffs that
wait for them; a deletion removes all rows. `TaskRuns` implements it under the
identity mapping of `handoff` and `run` (`LifecycleSpec`).

### StateTables, StateRegister, StateStore

`StateTables` holds workspaces and agent runs, and the updates the server makes: push
and end a run, add and delete a workspace, a mutator that throws, and the recovery at
startup. A run is stamped two awaits before its row is pushed, and every load sorts
the rows by that stamp, so the order of the stamps and the order of the pushes
differ when dispatches overlap. The rows are therefore a set, and `StartedAt` gives
each run an arbitrary stamp: `Retentions` is what `pruneState` may keep of the array
in which the rows loaded stand by their stamps (rows of one stamp in any order) and
the row this update pushed stands last. `StateRegister` is the promise to callers:
an update takes effect at one instant between call and answer, in the order of
the calls; a read answers one such state, or the seed while no workspace is
stored; a rejected update has had its whole effect or none; a stop forgets calls
and keeps what took effect.

| Action of `StateStore` | Code (`server/store/postgres.ts`, `index.ts`) |
|---|---|
| `Invoke` | `update` chains its transaction behind `updateQueue`; `read` starts at once |
| `Begin`, `Lock`, `Load`, `Commit` | `BEGIN`, `pg_advisory_xact_lock`, `loadState` and the mutator, `replaceState` and `COMMIT` |
| `Resolve`, `Reject` | the promise settles; a timeout, a lost connection or a throw rejects it, `COMMIT` included |
| `Initialize`, `Migrate`, `Stop` | schema and seed, the startup update with the stale-run recovery, the process stops |

Abstracted: the pool of four connections (a call that gets none may reject), the
column mappings, the legacy migrations; the id of a deleted row may return, with its
stamp, in the place of a new one; the in-memory store, whose update runs without an await, is not modelled.

### WorkflowEvents

Per turn: the buffer (`log`), the copy a save has taken (`batch`), how far that
save is, and the dispatches that can still emit. `Emit` is `emitWorkflowEvent`,
`Save`/`SaveApplies`/`SaveResolves`/`SaveRejects` are `persistWorkflowEvents` around
its awaited update, called once in the body of `handleUserMessage` (`Finish`) and
once in its `finally` (`Finally`); `Throw` leaves the dispatches of a parallel batch
running; `ZipRoute` is the route that stores events of its own; `Retained` is
`retainWorkflowEvents`, with its own limit for high-volume events. Events are
ordered by their creation, which is taken to be unique. Left out: the diagnostics
buffer, which runs through the same steps with a plain limit, and the removal of
events with their workspace.

### PreviewBuilds, BuildSlots

Each `startPreviewBuild` call walks

    idle -> inspect -> (register) sync | queued -> copy -> install -> clear -> compile -> idle

Memory is `record` (the build a workspace's state names), `running`
(`runningBuilds`), `active` and `waiters` (the slots); disk is the sandbox of a
workspace and one output directory per source, whose hash is the cache key.

| Action | Code (`backend/preview-service.ts`) |
|---|---|
| `Request`, `Inspect`, `Register` | `startPreviewBuild` up to its check, the check of state and `runningBuilds`, the registration and `acquireBuildSlot` |
| `EmptySandbox`, `CopySource`, `Install`, `ClearOutput`, `Emit` | `syncSandboxSource`, `ensureSandboxDependencies`, `runPreviewBuild` |
| `Succeed`, `Fail` | the two ends with `releaseBuildSlot`, which wakes the first waiter |
| `Poll`, `Serve` | `getPreviewCapability`, `openBuiltPreviewAsset`: both read the state and touch the directory |
| `Age`, `CleanVisit`, `CleanChoose`, `CleanRemove` | the periodic cleanup, an await at a time |
| `Edit`, `Restart` | agents edit the source; the process stops and forgets its memory |

Abstracted: the bytes two overlapping builds write into one directory are not
interleaved; a killed command writes nothing more; all sources of a workspace share
a package manifest, hence one sandbox; project detection, installation commands and
the rewriting of pages are pure. `BuildSlots` is the promise of the slots alone:
enter while fewer than `MaxSlots` hold one, else wait in order.

### ProjectDelivery, ProjectRecord

One project: the stored document, the repository (tree, commits, tags), source
zips, build artifacts and the published site. A request of `op` is at one await;
every handler ends in `updateProject`, whose read (`Read`) and write (`Write`,
`Written`) are two steps, with a torn file between them when metadata is a local
file and not a database row.

| Actions | Code |
|---|---|
| `SaveBegin`, `CheckTag`, `Commit`, `Tag`, `HeadSha`, `Zip` | `createVersion` |
| `RestoreBegin`, `Commit`, `Reset` | `restoreVersion`, with the snapshot it may take first |
| `BuildBegin`, `Compile`, `CleanArtifact`, `CopyArtifact` | `buildVersion` |
| `DeployBegin`, `SweepSite`, `CopySite` | `deployVersion` |
| `PinBegin`, `DeleteBegin`, `Drop`, `Purge` | `updateProjectMetadata`, `deleteProject` |
| `Edit`, `Fail`, `Restart` | agents edit; the step a request is at throws; the process stops |

Abstracted: `git add` and `git commit` are one step, as is writing the zip; the
removals of a deletion succeed (the removal in the Runtime may fail, which the code
ignores); a `patchVersion` that fails while recording a failed build leaves the record
as it was; automatic version ids are ids like any other. `ProjectRecord` says what a
handler may do to the document in one step.

### DeliveryGate

A message is streamed (`Begin`), the runs of its turn return (`Return`) with a status
and, by the agent, a validation outcome or a verdict, a repair may follow
(`Repair`), the turn finishes or throws, and the backend, having relayed the
stream to its end, records the last event of each kind (`Record`) unless the stream
broke (`Lose`). `Lowered` is `applyDeliveryGates`, `NeedsRepair` is
`planAutomaticRepair`, `RepairFails` the `repair_blocked` event, `Noted` is
`recordWorkflowEvents` and `GateOpens` is `assertAgentGate`. What a validation or a
reviewer's text says is any outcome. The turns follow each other: concurrent
updates of the record are `ProjectDelivery`'s subject.

## 3. Properties and runs

Passing runs (`CHECK_DEADLOCK FALSE` where everything may come to rest):

| Run | Instance | Checks |
|---|---|---|
| `one_turn` | one turn of any kind, members engineer, reviewer and product manager, two planned dispatches (three after `ReviewSafety`, five with the repair), results success / failed, one crash, one failing operation, deletion | `TypeOK`, `HandoffAgreesWithRun`, `FinishedTurnIsSettled`, `OwnWritesWithinTurn`, `OneSpeakerUnlessRepaired`, `LifecycleSpec` |
| `two_direct_turns` | two direct turns to engineer or reviewer, results success / partial, two crashes, one failing operation, deletion | `HandoffAgreesWithRun`, `FinishedTurnIsSettled`, `ReferencesResolve`, `LifecycleSpec` |
| `liveness` | one turn of any kind, members engineer and reviewer, one crash, deletion | `TurnsEnd`, `DispatchesEnd` |
| `state_store` | two concurrent calls of any kind, three runs (one started first, two at one later instant) with a limit of two rows, one workspace, any number of stops | `TypeOK`, `LiveRunsStayOpen`, `RegisterSpec`, `OnlyOldRunsAreDropped`, `CallsAreAnswered` |
| `workflow_events` | two turns with two dispatches each, four events, room for two of which one may be high-volume | `TypeOK`, `FinishedTurnsAreLogged`, `OnlyLateEventsAreLost`, `NoiseKeepsItsShare` |
| `preview_slots` | three calls for one slot, any number of restarts, no cleanup | `SlotsAccounted`, `NoLostWakeup`, `SlotSpec`, `BuildsEnd` |
| `preview_cache` | two calls, two sources, one slot, ageing directories and the cleanup | `TypeOK`, `RunningIsUnderWay`, `NoWorkspaceLockedOut` |
| `delivery_versions` | two concurrent requests that save, restore, pin or delete two versions, one edit, local metadata file | `TypeOK`, `OneSavePerVersion`, `ListedVersionHasSources`, `ListedCommitIsFixed`, `SavedSourcesStay`, `LaterUpdatesKeepVersions` |
| `delivery_sequential` | one request of any kind at a time, two versions, one edit | `SavedIsListed`, `RecordSpec` |
| `delivery_gate` | two messages in turn, routed every way to engineer and reviewer, two planned dispatches, one broken stream, one throw | `TypeOK`, `AdmittedWorkSucceeded`, `DeliveryOpensGate`, `StreamsAreRecorded` |

Turns:

* `HandoffAgreesWithRun`: a settled handoff states exactly how its run ended.
* `FinishedTurnIsSettled`: a turn that ended normally leaves no run open and no
  handoff running; only a dispatch its read-only route blocked leaves a pending one.
* `OwnWritesWithinTurn`: a change set never contains what a file-writing agent of
  another dispatch of the same turn wrote. A shell-only agent may write through
  its shell, and the guard does not look at that, so only `FileWriters` are promised.
* `OneSpeakerUnlessRepaired`: at most one speaker of a turn posts before a repair.
* `ReferencesResolve`: a handoff's session is stored and a change set's run has
  ended, although a deletion may fall between any two updates.
* `LifecycleSpec`: the refinement to `HandoffLifecycle`.
* `TurnsEnd`, `DispatchesEnd`: what starts, ends.

Store and events:

* `RegisterSpec`: the refinement to `StateRegister`, with lost answers and timeouts.
* `OnlyOldRunsAreDropped`: an open run disappears only with its workspace, or when the
  table is full and every row of it that was stored before started no earlier. Of two
  overlapping dispatches the one that stores its row last may be the one that is
  dropped, if it was stamped first. `LiveRunsStayOpen`: no recovery ends a run of
  this process.
* `CallsAreAnswered`: one rejected update does not stop the queue.
* `FinishedTurnsAreLogged`: a turn that ended by itself has all its events stored or
  displaced, even if one of its two saves was rejected, whether or not it took
  effect. `OnlyLateEventsAreLost`: a turn that threw loses at most what its
  siblings emitted afterwards. `NoiseKeepsItsShare`: streaming events displace a
  critical one only when they are within their own limit and the log is full.

Previews:

* `SlotsAccounted`, `NoLostWakeup`: the counter is the number of builds that hold a
  slot, and builds queue, once each, only while all are taken. `SlotSpec`: the
  refinement to `BuildSlots`. `BuildsEnd`: every registered build ends.
* `RunningIsUnderWay`: a state that answers "running" tells of a live build, else the
  panel would poll for ever. `NoWorkspaceLockedOut`: an entry of `runningBuilds`
  belongs to a workspace that is being built.

Delivery:

* `OneSavePerVersion`: of all requests that save one id, one gets past `git tag`
  before the id is recorded, however many documents are lost to other writers.
* `ListedVersionHasSources`, `ListedCommitIsFixed`: what is listed has tag, commit
  and zip, and never changes its commit.
* `SavedSourcesStay`: a saved version keeps its tag, its commit and its zip until the
  project is deleted, also when an overlapping update takes it off the list.
* `LaterUpdatesKeepVersions`: what overlapping updates can lose. A version is `Settled`
  when the document and whatever the requests under way will write list it; one whose
  save is answered while no other request holds a copy of the document is settled at
  once, and a settled one stays so until the project is deleted. So only an update
  that read the document before the save recorded its version can lose it.
* `SavedIsListed`, `RecordSpec`: for requests that follow each other, with failures and
  restarts between read and write. With two at once the first fails (`LostVersion`),
  which the two properties above bound; the second is a promise for one request.
* `AdmittedWorkSucceeded`: the gate, which sees no status, opens only if the last
  turn whose engineer worked, was recorded, ended by itself and was not locked to
  one agent left engineer and reviewer successful. A locked turn is not repaired, so
  nothing reports its failure.
* `DeliveryOpensGate`: after a validated and reviewed success the gate is open,
  whatever was recorded earlier, unless a repair was blocked.
* `StreamsAreRecorded`: a stream is recorded or has broken, also when the turn threw.

Why the bounds suffice. *Turns:* one turn with two planned dispatches already
reaches every guard, both execution modes, an added reviewer and a repair;
interference between turns needs two of them, and the direct kind goes through the
same dispatch actions. One failing operation reaches the half-done state after
every step; two crashes put a second recovery after the first. *Store:* two calls
overlap in every way one lock and one queue allow; three runs overflow a limit of
two, and their stamps have a tie and may run against the order of the pushes. *Events:* two dispatches are what a throw needs to leave one running, two turns
what displaces the other's events, and four events overflow the log. *Previews:* one
slot for three calls gives a holder and a queue of two; the cleanup interferes with
one build at a time. *Delivery:* lost updates, tags and ids need two writers, and the
requests differ only in what they do between read and write. *Gate:* what one turn
leaves behind meets one later turn. Every bound is a CONSTANT marked `BOUND` in its
module or listed in the configuration.

Fairness. `TaskRuns!FairSpec`: weak fairness of every dispatch and turn; the event loop
resumes each continuation whose promise is settled, and `runProcess` stops an agent
after `maxRunSeconds` with SIGTERM, so that it ends is an assumption.
`StateStore!FairSpec`: connections, locks and statements have timeouts, and a settled
promise runs the next of the queue. `PreviewBuilds!FairSpec`: `runWorkspaceCommand`
kills a command after its limit, and each end wakes a waiter. `DeliveryGate!FairSpec`:
runs end and awaited reads are answered. Crashes, restarts, deletions, edits, new
requests and failures are not fair.

### Where the code and its documents disagree

Two regular runs state what a document or a message says, and TLC finds a
behaviour of the code that does not keep it:

| Run | Claim | What happens |
|---|---|---|
| `handoff_lags` | the handoff follows its run's final status | a crash between `persistRunResult` and `completeTaskHandoff` leaves it running; recovery looks at running runs only |
| `preview_partial_cache` | a cache hit is the result of the last successful build | a restart in a build leaves an output directory with an `index.html` and without the rest; the next poll takes it for a success |

These configurations are kept beside the regular runs; TLC refutes each
(`tlc -config X.cfg M`, `M` the `MC` module of the component; for `ReadOfSeed`,
`DroppedRun` and `FailedTurnEvents` those of the store and the events):

| Configuration | Property | What happens |
|---|---|---|
| `RepairSpeakers` | `OneVisibleSpeaker` | the repair pass posts both outputs beside the synthesis |
| `SilentTurn` | `FinishedTurnHasSpeaker` | a locked agent whose dispatch the stage guard removed: no dispatch, no reply |
| `SharedRepository` | `ExclusiveWrites` | two turns run the engineer at once in one repository |
| `UnreviewedDelivery` | `DeliveryIsReviewed` | a reviewer planned before the engineer satisfies the guard |
| `DeletedWorkspace` | `DeletedWorkspaceIsEmpty` | a dispatch under way pushes rows after the deletion |
| `DuplicateSessions` | `OneSessionPerAgent` | two turns create a session each |
| `ReadOfSeed` | `ReadsShowDatabase` | with no workspace stored, `read` answers the seed, an update starts from nothing |
| `DroppedRun` | `LiveRunsAreStored` | enough later runs drop the row of one in progress; its next update throws |
| `FailedTurnEvents` | `FailedTurnsAreLogged` | siblings of a dispatch that threw emit after the last save |
| `PreviewOneBuild` | `OneBuildPerWorkspace` | two calls pass the check of `runningBuilds` before either registers |
| `PreviewStaleSource` | `SuccessShowsSource` | an edit between key and copy, undone later, leaves another source under the key |
| `PreviewLostPage` | `SuccessHasPage` | a live record says success after the cleanup removed its output |
| `PreviewCleanup` | `CleanupSparesBuilds` | a build starts between the cleanup's look and its removal |
| `LostVersion` | `SavedIsListed` | of two overlapping updates the last writer removes the other's version |
| `MixedVersion` | `VersionIsOneSnapshot` | tag, commit and zip are taken at three awaits, with edits and commits in between |
| `RestoreLosesEdits` | `RestoreKeepsEdits` | edits between the snapshot and `git reset --hard` are lost |
| `IncompleteBuild` | `SuccessIsComplete` | a second build of a version empties the first's directory, and the process stops |
| `MixedSite` | `SiteIsPublishedVersion` | `deploy/latest` is emptied, and the copy fails |
| `OrphanTag` | `TagsAreListed` | a save that fails after `git tag` blocks its id |
| `DeletedProject` | `DeletedStaysDeleted` | an update that read before the deletion writes the project back |
| `TornMetadata` | `ListingSurvives` | half a document makes every listing fail, since `readJson` is returned unawaited from a `try` |

With `GateFollowsLatestTurn` in place of the invariants of `DeliveryGate.cfg` TLC
shows the limit of `DeliveryOpensGate`: no event clears `repairBlockedReason`, so
after one blocked repair the gate stays shut.

## 4. Proofs

Every theorem holds for all values of the constants that the named assumptions of
its module allow; nothing else is assumed. In `TaskRuns`, `Agents`, `Members` and
`Turns` may be infinite: no theorem counts them.

| Theorem | Statement | Rests on |
|---|---|---|
| `TurnRoutingProofs!ParallelNeverWrites` | a decision that leaves the guards to be run in parallel dispatches no agent with `fileWrite` | typing of each guard |
| `TaskRunsProofs!TypeCorrect` | `Spec => []TypeOK` | `PlanTyping`: every routed plan is a plan |
| `TaskRunsProofs!RowsFollowDispatches` | `Spec => []RowsInv` | `TypeCorrect` |
| `TaskRunsProofs!HandoffTruth` | `Spec => []HandoffAgreesWithRun` | `RowsInv` |
| `TaskRunsProofs!ImplementsLifecycle` | `Spec => LifecycleSpec` | `RowsInv` |
| `TurnInvariantProofs!WritesStayWithinDispatch` | `Spec => []OwnWritesWithinTurn` | `IsolationInv`, `ParallelNeverWrites` |
| `TurnInvariantProofs!RowsNeverDangle` | `Spec => []ReferencesResolve` | `RowsInv` |
| `TurnInvariantProofs!FinishedTurnsAreSettled` | `Spec => []FinishedTurnIsSettled` | `SettlementInv`, `RowsInv` |
| `TurnInvariantProofs!OneSpeaker` | `Spec => []OneSpeakerUnlessRepaired` | `SpeakerInv`, `SettlementInv` |
| `StateStoreProofs!ImplementsRegister` | `Spec => RegisterSpec` | the inductive `Inv` |
| `StateStoreProofs!StoreTyped`, `OldRunsDropped` | `Spec => []TypeOK`, `Spec => OnlyOldRunsAreDropped` | `Inv`, `TypeInv`, `FreshStarts` of `LiveInv` |
| `StateStoreProofs!LiveRunsOpen` | `Spec => []LiveRunsStayOpen` | `LiveInv` |
| `WorkflowEventsProofs!FinishedTurns`, `LateEvents` | `Spec => []FinishedTurnsAreLogged`, `Spec => []OnlyLateEventsAreLost` | the inductive `Inv` |
| `WorkflowEventsProofs!EventsTyped`, `NoiseShare` | `Spec => []TypeOK`, `Spec => NoiseKeepsItsShare` | `LogInv`, the counting lemmas |
| `PreviewBuildsProofs!TypeCorrect`, `SlotLimit`, `WakeupsAreNotLost`, `RunningTruth`, `NoLockout` | `Spec => []P` for `TypeOK`, `SlotsAccounted`, `NoLostWakeup`, `RunningIsUnderWay`, `NoWorkspaceLockedOut` | the inductive `IInv` |
| `PreviewBuildsProofs!ImplementsSlots` | `Spec => SlotSpec` | `IInv` |
| `ProjectDeliveryProofs!TypeCorrect` | `Spec => []TypeOK` | the inductive typing with the request's shape |
| `ProjectDeliveryProofs!SavesAreExclusive`, `CommitsAreFixed` | `Spec => []OneSavePerVersion`, `Spec => ListedCommitIsFixed` | `SavesExclusive` and `DocumentsAgree` |
| `ProjectDeliveryProofs!ListedHasSources` | `Spec => []ListedVersionHasSources` | the above and `ZipsExist` |
| `ProjectDeliveryProofs!SavedSourcesAreKept` | `Spec => SavedSourcesStay` | the above, `SavedInv`, `CommitsStay` |
| `ProjectDeliveryProofs!LaterUpdatesKeepWhatIsSettled` | `Spec => LaterUpdatesKeepVersions` | typing, `UpdatedKeeps` |
| `DeliveryGateProofs!TypeCorrect`, `AdmittedWork`, `DeliveredTurns` | `Spec => []P` for `TypeOK`, `AdmittedWorkSucceeded`, `DeliveryOpensGate` | the inductive `GateInv` |

**`RowsInv`.** `HandoffAgreesWithRun` is not inductive: that `completeTaskHandoff`
writes the truth depends on what `persistRunResult` did two updates before, and
that the recovery of a stale run does not contradict a settled handoff depends on
nobody working on it any more. `RowsAt(s)` therefore says, for each await a
dispatch can be suspended at, what its handoff and run may hold: at `complete`,
for instance, either both rows are gone with their workspace, or the handoff is
running and the run holds the outcome that is about to be copied. The second
conjunct, `NoneInFlightWhenDown`, says that recovery runs when no dispatch does;
without it a recovered handoff could be completed afterwards.

**`IsolationInv`.** A diff is taken between two snapshots, so a foreign write gets
into a change set exactly when another writer was at work in between. The
invariant says that of two dispatches of a turn the later one starts only when the
earlier has returned, unless both belong to a parallel batch (`InOrder`); that the
repair pass waits for the whole batch (`BatchBeforeRepair`); that plans are fixed
before anything starts (`Untouched`) and have no file writer in a parallel batch
(`PlansAreSafe`, from the routing theorem); and that neither the stored change
sets, the diffs taken, nor what a running dispatch has seen since its snapshot
contain a rival's write (`OwnDiffs`). A turn that a throw rejected keeps its
siblings running only in a parallel batch, which `InOrder` covers too.

**`SettlementInv`.** A turn finishes when the dispatches it waits for have returned,
so nothing else of it may be under way: slots beyond the plan and the repair pass
never start, repair slots only in the repair phase, and a finished turn has no
slot that was thrown or is suspended. A dispatch returns through three doors only
(`LightweightReply`, `BlockRun`, `CompleteHandoff`), each of which leaves closed
rows or the blocked pending handoff.

**`SpeakerInv`.** The dispatches, the repair pass and the closing of a turn each
decide alone whether to post. The invariant says that a plan whose visible speaker
is an agent has that agent as its only dispatch (`SpeakerPlan`, a fact about
`resolveVisibleTurn`), and that every posted message had its reason: a dispatch
because its output is the reply, the main brain because the turn finished and its
visible speaker is the main brain, or it has not exactly one dispatch, or a repair
started. Before a repair no two of these reasons hold at once.

**`StateStoreProofs!Inv`.** The lock has at most one holder, which is the call that
reads or writes; the queue lists the updates under way without repetition and only
its head is past `queued`; and a loaded draft of an update is the mutator applied to
what is stored *now*, since nobody else commits while the lock is held. From the
last part the commit is one step of the register. Mutators stay opaque there: the
proof uses that they take tables to tables. The other three theorems open them.
`TypeInv` is `TypeOK` and what starts a run. For `OldRunsDropped` each mutator, the
pruning and the startup migration are followed: a row that is cut may precede every
row that is kept, so its stamp is no later than theirs, unless the kept row is the one
the update pushed; that this row was not stored before is `FreshStarts`. `LiveInv`
adds to `LiveRunsStayOpen` that no two calls name one run, that no call under way
ends or restarts a live run, that a run about to be started is not stored and one
waiting to be written is open (`FreshStarts`), and that nothing is live unless the
server is up, which is when the recovery does not run.

**Functions over data.** How many events `retainWorkflowEvents` keeps is a fact about
every size, proved by a least counterexample (`LeastNat`, from the well-foundedness
of the naturals): the smallest number of later events at which the claim fails
contradicts itself. `LatestCount` counts by it: of a finite set ordered by its
times, the last `n` are `n` events unless there are fewer.

**`WorkflowEventsProofs!Inv`.** An event is in its turn's buffer, stored, or displaced;
a save carries what it copied from the buffer; what is not yet stored of a turn's events is in the
buffer as long as one of its two saves is still to come (`Orderly`), and a turn that
threw misses only what was emitted after its buffer was copied (`Failed`). The
retention is opaque: what it drops is in `displaced`. `LogInv` opens it: events have
times of their own (`OwnTimes`) in the past, buffers and store are finite, and the
store is within its limit.

**`PreviewBuildsProofs!IInv`.** `active` counts the holders and the queue holds
exactly the queued calls; both are needed together, since a woken build takes over
the slot of the one that ends. `RecordsAgree` says that the call a workspace's record
names is its own and has the status of its place in the code.

**`ProjectDeliveryProofs`.** Documents are copied, aged and overwritten, so the
invariants quantify over *every* document: the stored one and those in flight. All
give a version the same commit (`DocumentsAgree`), none lists an id that is being
saved, and a tag exists for every listed or sealed id, which is what makes the second
`git tag` fail (`SavesExclusive`). These hold for any overlap of any requests.

`LostVersion` refutes that saved versions stay listed, because nothing in the code
keeps two updates of a document apart. The last two theorems say what holds all the
same, with no hypothesis on how requests overlap. `SavedInv`: an answered save is
tagged and zipped, and no request is past `git tag` with its id, so none will write
its tag or its zip again; commits are only appended. `LaterUpdatesKeepVersions` is
preserved step by step: an update writes what its copy lists and what it saves
(`UpdatedKeeps`), a copy is taken from a document that lists what is settled, and
every other step of a request leaves the document and the copies alone (`Aside`).

**`GateInv`.** The backend sees events, not statuses, so the invariant ties what it
heard of a turn (`HeardFindings`, `HeardRepair`) and what it recorded of earlier ones
(`RecordedStream`, `KnownFailure`) to how the runs ended, which needs their order:
runs return after those before them except in one batch (`RunsInOrder`), there are two
more than dispatched at most, and none of the repair while the batch runs
(`RunsByPhase`, `FinishedRuns`).

Only model-checked, and why: `TurnsEnd`, `DispatchesEnd`, `BuildsEnd`,
`CallsAreAnswered` and `StreamsAreRecorded` are liveness under fairness, out of the
prover's reach, as is anything about `ENABLED`. `SavedIsListed` and `RecordSpec` are
checked for one request at a time and have no theorem: they do not hold of requests
that overlap, and nothing in the code keeps requests apart. Every other safety
property and refinement the passing runs check has a theorem without hypotheses.
The claims that fail are refuted by TLC.

## 5. Not modelled

* `agentHub/ccOriginCode`: vendored sources of another program, kept for reference,
  and most of the repository's lines.
* Frontend, mobile app and command line client: they render what the backend streams.
* Context and prompt assembly, dynamic speaker selection, the router's patterns,
  file checks of the validators and the parsing of agent output: functions over
  texts, whose outcome the models take as arbitrary.
* Child processes: that a command which ignores SIGTERM goes on, and processes that
  outlive a crash, are the operating system's; the liveness runs assume they end.
* Adding and removing agents of a workspace during a turn: a dispatch looks its agent
  up, and the lookup fails only with the workspace here.
* Creation of projects, project and file listings, downloads and diffs.
* The fallback of `getProject` for an id without a metadata document that names a
  workspace (`runtime-<workspace>`, or the workspace itself): it makes a document of the
  Runtime's state, which the next update stores. The project of the model has a
  document until it is deleted, and an id of another form.

What would come next: the record of `DeliveryGate` composed with the concurrent
updates of `ProjectDelivery`; agents that come and go during a turn; the timeline of
the frontend, which merges streamed and stored messages.
