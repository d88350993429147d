# OpenCodexUI, specified in TLA+

OpenCodexUI is an Electron client for `codex app-server`. Its backend starts one
app-server process per *source*, sends it JSON-RPC requests over stdio, follows
the notifications it gets back, and keeps projects, workspaces (checkouts),
conversations (threads) and turns in a SQLite cache. This directory specifies
the parts of it in which order, failure and concurrency decide whether it is
right. Paths below are relative to the repository; `core` stands for
`packages/opencodex-core/src/backend`, `cache` for `packages/opencodex-cache/src/sqlite`.

## Inventory

| Part | State it keeps | Operations | What is hard |
| --- | --- | --- | --- |
| Workspace tables (`cache/projects`, `cache/threads`, migrations 29-34) | thread association and archive flag, execution reservations, transitions, turn contexts | one transaction per operation | constraints spread over checks, UNIQUE columns and triggers; rows outlive the process |
| Workspace execution (`core/workspaces/WorkspaceExecutionService.ts`) | gates of threads and users of workspaces, in memory | run, runMaintenance, createThread, runCatalogMutation, select, reconcile, reconcileWorkspace, observe | every await is a place where a timeout, a notification, another call or a crash comes in |
| Selection, transition, catalogue recovery (`core/workspaces`) | none of their own | apply a transition, recover an archive or a deletion | remote effects whose answer may be lost |
| Turn start, maintenance, catalogue (`core/threads`) | turn cache | the callers of the above | partial failure between remote effect and local write |
| Transport and client pool (`packages/codex-rpc`, `core/runtime`) | pending requests, process, clients by source | request, start, stop, restart, close | late events of an old process |
| Notifications (`core/runtime/StreamingNotificationBatcher.ts`, `RuntimeNotificationCoordinator.ts`, `core/support/NotificationService.ts`) | batches by stream, batches by message and phase, active turns | buffer, flush before, timers, close | order of batched and unbatched messages, two layers of batches |
| Project commands (`core/projects/ProjectCommandService.ts`) | runs by process handle | run, stop, output, exit, close | the same run ended twice |
| Creation journal and discovery (`core/workspaces/WorkspaceCreationService.ts`, `WorkspaceDiscoveryService.ts`, migration 35) | rows of pending checkouts, the busy set | create, reconcile, discover | git between two writes, an import that sees unfinished checkouts |
| Turns of a conversation (`core/threads/ThreadReadService.ts`, `ThreadTurnSyncService.ts`, `ThreadMaintenanceService.ts`, `ThreadTurnCache.ts`, `cache/threads`) | cached entry with a revision, rows and their cursor, chains of synchronizations | open, recover, read, load older, sync, record, roll back | pages read before the entry was replaced, and merged after it |
| File editing (UI `stores/files/FileDocument.ts`, `core/files`) | text, saved text, conflict | edit, save, reload | an answer for text that has changed since |
| Approvals, settings, updates, usage, logs, dictation, debugger, Docker, Git, search, UI | various | various | mostly data, files and processes outside |

A user action reaches a service of `core/threads`, which runs its work inside
`WorkspaceExecutionService`. That service takes a gate in memory, writes a row
through the cache, asks the source for the status of the thread, has the service
send the request that changes something, and joins the answer with the
notifications of the turn. What is in memory dies with the application; rows
stay, and a user asks for a recovery of the thread or of the workspace.

What makes these parts correct: a thread is in one execution or in one move and
never in both; whatever the source runs or may still do for this application is
guarded by a row that survives a crash; what a recovery releases or commits
rests on evidence younger than the effect it is about; and the guards in memory
are always given back. `PROJECT.json` lists the hazards behind this at their
lines.

## Modules

`WorkspaceIdentities` declares threads, workspaces, contracts and `Null`.

`WorkspaceOwnership` is the abstract specification of the tables: a conversation
is free, executes, or moves. An execution captures a workspace and nobody else
moves the conversation meanwhile; while it moves nothing executes or moves at either
end. A conversation that was forgotten is settled anew where somebody reports it,
also while it executes, because the index write asks nobody; only its own execution
then takes it back (`Return`).

`WorkspaceStore` has the tables as variables and one action per transaction of
`SqliteWorkspaceCacheRepository`, `SqliteWorkspaceTransitionRepository` and the
thread index. Constraints of the schema (UNIQUE, triggers, RESTRICT) are conjuncts
of the guards they protect. A transaction is enabled when it commits; `CanX` names
the condition on its own. `StoreNext` takes any transaction at any time with any
arguments, which is more than the services ever do: what holds for it holds
because of the repository and the schema.

`CodexSource` is the app-server as the backend sees it (external): requests
served in the order they were written, each with its effect and answer or with
an error; turns that complete when they like; turns started by goals or other
clients; deletion notices; the end of the process.

`WorkspaceExecution` composes the two. A *call* is one invocation of a service;
`pc` says where it is, and the other registers hold its locals. Each action is
the code between two awaits:

| Actions | Code |
| --- | --- |
| `StartRun` ... `FailRun` | `run`, `reserveAfterRollbackRecovery`, `requireIdle` |
| `CreateThread`, `IndexThread`, `ConfirmThread`, `Bind` | `createThread`, `createThreadAndReturnId`, `bind` |
| `Submit`, `Maintain`, `Acknowledge*`, `FinishTurn` | `startReservedTurn`, `ThreadMaintenanceService`, `runMaintenance` |
| `StartCatalog` ... `ReleaseCatalog` | `runCatalogMutation` and `ThreadCatalogService` |
| `StartSelect` ... `FailSwitch` | `select`, `WorkspaceSelectionService`, `WorkspaceThreadTransition` |
| `StartReconcile` ... `ReleaseIdle` | `reconcile`, `WorkspaceCatalogRecovery` |
| `StartReconcileWorkspace`, `TreatItems` | `reconcileWorkspace` |
| `ListThread`, `IndexListed`, `RemoveMissing` | `listThreads`, `syncSource`, `writeThreadIndex`, `handleMissingRollout` |
| `Deliver`, `Timeout`, `SourceExit`, `Crash` | `handleLine`, the request timer, the close handler, the end of the application |

*Thread lists.* What the source says of a thread (`listed`) may be indexed any time
later: `syncSource` asks for the pages, awaits the visibility of each path and writes then, so
an entry can be older than an archive, a deletion or a move. The write (`WriteIndex`) is
`writeThreadIndex`: a known thread keeps its association and takes the archive flag of the
list (line 89); a thread without a row is inserted under the workspace of the path that is
reported, whatever reservations name it. Lists are not bound by the event loop of the calls:
they may come in between any two steps. `misfiled` is a ghost: the threads whose last index
write did not say what the source had when it was made.

*Permissions.* `reported` is the contract the source reports for a loaded thread. A resume of a
loaded thread may keep its old place, its old contract, or both, and answers with what
it reports; `WorkspaceThreadTransition` compares that. Whether the source enforces what it
reports cannot be seen from here (`WorkspaceThreadTransition.ts:32-36`,
`docs/workspaces.md:150-154`) and nothing is claimed about it. That a place survives the
exit of the source is an assumption about the source, which the same lines do not promise:
after an exit the next turn or resume names its place again.

*The event loop.* Node runs one piece of code at a time. A repository method is
asynchronous only in form: better-sqlite3 is synchronous, so what follows an
answer, up to the next request, runs before the loop looks at another message
from the user, timer or end of a process. `Runnable`, `Queued` and `MayRun` say
this. Pieces of several calls whose answers came in one read of the pipe may
alternate. Where the code waits for files or processes outside (preparing
attachments or a destination, binding and dispatching a turn after that), other
calls do come in between. The model therefore has exactly the interleavings
the program has, and two races that look possible in the text are not in it:
an implicit creation against `reconcile`, and the undispatched rows of
`reconcileWorkspace` against their own call.

`ClientPool` is the way of a call to a process: the pool's one client of a
source, the client's transport, and the processes it has had. `transport` has
the fields of `CodexAppServerTransport`; `startPromise` is the process whose start
it is the promise of, or `Thrown`. A process keeps `asked`, the requests whose
answers may still be read, each with the waiter it was sent for; an answer
carries the id only. `initialize` is a request like others and its waiter is the
process. One action is one macrotask; `Continue` is what a call does when the
start it waited for settles, and `Quiet` lets it run before the next event.

| Actions | Code |
| --- | --- |
| `EnsureNew`, `EnsureExisting` | `ensureClient` |
| `Request`, `Continue` (`Spawn`, `SpawnThrows`, `JoinStart`, `Send`) | `request`, `start`, `startProcess` |
| `Deliver`, `Timeout` | `handleLine`, `initialize`, the request timer |
| `ErrorEvent`, `Exit`, `CloseEvent` | the listeners of the process, `handleClose`, `deleteClient` |
| `StopClient` | `stop` in `restartClient` and `dispose` |

`ProjectCommands` is `ProjectCommandService` on connections, which are what
`ClientPool` calls a client with its process: a start is one step here, requests
are served in any order and what the app-server sends is handled in order. A run
is one call of `runCommand`; `startingRuns`, `runsById`, `runsByHandle` and
`stoppingRuns` are the service's maps and sets, `status` and `exits` what the user
was told. Requests are given as a set of contexts, so that a configuration says
which launches conflict.

| Actions | Code |
| --- | --- |
| `Admit`, `Prepare`, `Launch`, `PrepareFails`, `LaunchFails`, `SpawnTimeout` | `runCommand` |
| `StopBegin`, `StopKill`, `StopFails`, `KillTimeout` | `stopRun` |
| `HandleSpawned` ... `HandleMissing` | the answers in these two, `handleProcessExited` |
| `Close`, `Restart` | the close handler with `handleClientClosed`, `restartClient` |

`StreamingNotifications` is the way of a streamed notification to the window,
through two layers of batches: those of `StreamingNotificationBatcher` (a stream
is a method, segment or output of an item, turn or process) and those of
`NotificationService` (the deltas of an assistant message in one phase). A
notification is its number of arrival, so that order and loss can be said
without contents; `pending` and `deltas` are the code's maps, `timers` and `deltaTimers` the
timers the entries hold (each known by the fragment that set it; `Flush` and `Emit` clear
them, a replacing snapshot keeps the old one), and `fragments`,
`shown`, `said`, `heard`, `ended`, `concluded` are the history the properties speak
about. `SameOwner` and `FlushedBefore` are the two predicates the batcher flushes by;
`Ends` says what a notification ends whatever the code does about it, and is what
the flushes are held against. One action is the synchronous handling of one
notification, timer or close.

| Actions | Code |
| --- | --- |
| `Fragment`, `BatchTimer`, `Dispose` | `handleNotification`, `enqueue`, `flush`, `flushAll` |
| `MessageDelta`, `MessageStarted`, `MessageCompleted`, `DeltaTimer` | the handlers of `NotificationService` |
| `TurnStarted`, `TurnCompleted`, `ItemCompleted`, `ThreadNotification`, `ProcessExited` | `flushBeforeNotification` and what follows it |
| `ClientClose` | `handleClientClose` |

`WorkspaceCreation` is the journal of checkouts (`workspace_creations`), the calls
of `create` and `reconcile`, the imports of `discover`, and what is really at the
destinations. `git` goes on when the application stops waiting or dies, may fail
with a half-filled directory, and may be overtaken by the user, who makes and
removes directories at any time. A step of a call is one of its awaits;
`Crash` keeps the tables and the machine and forgets `busy` and the calls.

| Actions | Code |
| --- | --- |
| `Begin`, `CheckDestination`, `Dispatch`, `ConfirmGit`, `Verify`, `Publish`, `CreateFails` | `create`, `requireDestination`, `GitWorktreeService.create`, `publish` |
| `RecoverPreparing`, `RecoverConfirmed`, `RecoverVerify`, `RecoverPublish`, `RecoverFails` | `reconcile` |
| `DiscoverRead`, `DiscoverRegister`, `DiscoverFails` | `discover`, `registerDiscoveredWorkspaces` |
| `GitStarts`, `GitEnds`, `UserChanges`, `Crash` | outside |

`ThreadTurns` is one thread of one source: its history there, the entry of
`ThreadTurnCache`, the rows and the synchronization state in SQLite, the chain of
synchronizations, one page read outside the chain, and a rollback. Turns are
numbered; a page, a cursor and a snapshot are sets of turns with a boundary, and
`Merge`, `MergeLatest`, `MergeOlder`, `Snapshot` are what the cache does with them. A
revision is not a number here: whatever was read before the entry was replaced
loses its mark `fresh`, which is what comparing revisions finds out. `gone` is the ghost
of what finished rollbacks removed, all of them, and `readBack` what the code itself brings
back: turns that the database or an older page put into the entry again before the
rollback finished (`Finished`).

| Actions | Code |
| --- | --- |
| `OpenCached`, `OpenShell`, `Recover`, `ReadCached`, `ReadStart` ... `ReadFails` | `openThread`, `recoverThread`, `readThreadReadonly` |
| `OlderFromCache`, `OlderStart` ... `OlderFails` | `loadOlderThreadMessages`, `loadOlderTurns` |
| `SyncAsk`, `SyncAnswered`, `SyncMerge`, `SyncFails`, `Timer` | `syncCachedNow`, `syncCompletedNow`, `syncLatest`, `runSerialized` |
| `StartTurn`, `ItemOfTurn`, `CompleteTurn`, `ForeignTurn` | `recordNotification`, turns of others |
| `RollbackAsk` ... `RollbackStored` | `editLastTurn`, `revertPaginatedThread` |
| `Crash` | the end of the application |

Rows that are written are written whole: a failing SQLite, which the code logs and
ignores, is left out.

## Runs

| Run | Instance | What it asks |
| --- | --- | --- |
| `tables` | 2 threads, 2 workspaces, 2 reservations, 1 turn, 1 contract | one reservation per thread, reserved threads stay, transitions are exclusive, contexts immutable, and the refinement of `WorkspaceOwnership` |
| `execution` | 1 thread, 3 calls of 11 kinds, thread lists, a crash | `TypeOK`, `RunningIsReserved`, `PendingIsGuarded`, `CatalogAgrees`, `ForgottenIsDeleted`, `UnknownCreationStays` |
| `selection` | 1 thread, 2 workspaces, the default and another contract, a foreign turn, 2 calls (turns, compactions, selections, both recoveries), a crash, an exit | `LocationAgrees`, `ContextIsTrue`, `SwitchIsRecorded`, `CommittedIsReported`, `GateReleased`, `CallsReturn` |
| `foreign_turn` | 1 call, 1 foreign turn | fails: see below |
| `client_pool` | 2 clients, 3 processes, 2 calls | `AnswersMatch`, `InitializedHasProcess`, `PooledIsNotStopping`, `CallsSettle` |
| `poisoned_client` | 1 client, 1 process, 2 calls | fails: see below |
| `project_commands` | 2 launches of 3 kinds, 1 stop, 2 connections | `NoConflictingRuns`, `StartedIsKnownOrEnded`, `NoStopMarkLeft`, `LaunchReleased`, `ExitEndsRun` |
| `stale_run` | 1 launch, 1 stop, 1 connection | fails: see below |
| `streaming` | 5 streams (2 segments of an item, the diff of its turn, one process handle at 2 sources), 1 message in 2 phases, 4 notifications | `OwnersInOrder`, `NothingLost`, `BoundariesFollow`, `MessageInOrder`, `MessageBeforeItsEnd`, `BatchesAreTimed`, `EverythingShown` |
| `workspace_creation` | 2 creations, 2 repositories, 2 destinations, any number of crashes and imports | `OneGitPerRepository`, `CheckoutIsKnown`, `NoUnfinishedWorkspace`, `ActiveIsJournaled` |
| `thread_turns` | both history modes, 2 turns, pages and cached rows of one turn, 2 queued synchronizations | `RevertedStaysGone`, `OpenShowsLatest`, `RollbackEnds` |
| `lost_history` | 3 to 4 turns, pages of 2, one cached row | fails: see below |

What they show. `execution`: no order of answers, notifications, timers, crashes and
recoveries leaves a turn running that no row guards, and the archive flag is wrong
only under a mutation or after an index write older than the source; `selection`: the
place a thread runs in is the one the tables name, what is on its way to the source is what the
transition recorded, and with a source that may never answer every gate is
given back, also by the calls that `reconcileWorkspace` nests. `streaming`: batching is
invisible but for time, and every batch has its own timer. `workspace_creation`:
two writes of the journal around git are enough for every crash between them.
`thread_turns`: the revision is enough against pages that come too late; `readBack` names the two
ways round it (see the disagreements).

Bounds. In the execution runs `MaxCrashes` and `MaxExits` bound the two failures,
and the number of calls bounds everything else. The source exits in `selection` only,
where its turns, its loaded contracts and its pending requests are what an exit
takes away; `execution` has no room for it (twice the states), and to a mutation of the
catalogue it is a lost answer, which the timers bring about as well. The theorems
about the same invariants hold with exits. Three calls are an operation,
one that competes with it or the one that comes after it, and a recovery, which
is the longest chain that any comment or test of the code describes; a second
workspace matters only where threads move. After a crash the calls that have
not begun belong to the next run of the application. Symmetry is used for calls
in `execution` and nowhere in a run with liveness. Four notifications
(`MaxReceived`) are two fragments of an owner, another that overtakes them, and a
boundary: every property relates at most three. Two creations are a creation and
its competitor; nothing else in that module is bounded. `MaxTurns` of two is a turn
that is rolled back and the one before or after it; with pages and cached rows of one turn
there is always something older. `MaxQueued` of two is a synchronization under
way and one that waits; `NoPage` keeps one page at a time outside the chain.
Where a theorem is proved, it holds without any of these bounds but those that
are constants of the module. Deadlock is not checked where every call is finite
or a bound is reached and the system then stops.

Fairness. `FairSpec` of `WorkspaceExecution` asks for weak fairness of the next step
of each call that has begun (the event loop runs what is due) and of its request
timer, and of nothing else: the source may never answer, and users need not begin
a call. `ClientPool` asks the same of its timers and of `Continue`. `ProjectCommands`
asks that what a launch awaits before its request succeeds or throws, that its timer
fires and that what the app-server has sent is handled; nothing is asked of
processes, of the app-server or of stops. `StreamingNotifications` asks that timers
fire. `ThreadTurns` asks that the first synchronization of a chain and the rollback end,
well or badly: their requests have a timer, so that failing is always possible; no
answer is asked for. `WorkspaceCreation` states no liveness and asks for no fairness.

### Disagreements with comments, tests and documentation

`docs/workspaces.md:164` says that unrelated turn notifications must never
release another operation's reservation. `observeTurn` takes the first
`turn/started` of the thread for the operation that has been dispatched. The
answer of a compaction has no turn id to contradict it. So if a goal or another
client starts a turn between the dispatch of a compaction and the moment the
source serves it, the row takes that turn's id, its completion ends the
reservation, and the compaction then runs without one (`foreign_turn`). The same
run with `turn` or `review` for `Kinds` fails as well, along another path: their own
answer carries an id and the mismatch is an error, but by then the foreign turn has
completed the row, and `fail` deletes a completed row as a safe failure. Rollbacks
and mutations of the catalogue take no turn and keep their rows.

`ensureClient` promises a "Started Codex app-server client". It registers the
client before it starts it, and `start` keeps the promise of a start that failed:
line 99 of the transport stores it after line 292 has cleared the field, and a
refused or expired `initialize` does not clear it at all. Every later call gets
that client and the old error, until the source is restarted or its process
dies (`poisoned_client`).

Runs of a closed connection are finalized, because a process handle "is scoped to
its app-server connection". `restartClient` stops the client, a stopping transport emits no close
event, and the runs stay running: they keep refusing launches until a user stops
them (`stale_run`).

Older messages come "from cache or Codex". A thread that was read from the
source keeps the source's cursor; opened again, it shows its latest ten rows, and
when there are more rows `getThread` puts a cache cursor in the place of the source's.
When scrolling up has used up the rows, `loadOlderTurns` says that everything is loaded,
the next delta stores that, and the older turns of the source cannot be reached
any more (`lost_history`; seven steps).

Met while modelling, without a run of their own:

- A run can end twice. `finishRun` (`ProjectCommandService.ts:444`) does not look whether
  it has: a close with the spawn in flight, or an exit with the kill in flight,
  emits two ends, and the second may turn an exit code into a failure.
- On a close the batcher is flushed but not the deltas `NotificationService` holds
  (`clientCloseHandler.ts:31`), while `docs/performance.md:9-12` asks that buffered content
  be emitted before the boundary of its source.
- A turn that `revertPaginatedThread` removed is back if the thread is opened from
  SQLite while that function waits for its synchronization
  (`ThreadMaintenanceService.ts:82-98`): the rows still have it. The same holds for an
  older page, which is merged without comparing revisions (`ThreadReadService.ts:293`),
  and for a crash or a failed request between the source's revert and the write.
  `RevertedStaysGone` is about every rollback that finishes, and names the first two as its
  exceptions (`readBack`); a rollback that a crash or a failure cuts short has not finished.
- A thread list that the source answered before an archive and that is written after it
  turns the flag back (`threadIndexWriter.ts:89`), and with no mutation under way nothing blocks
  the thread meanwhile; the next list repairs it. `CatalogAgrees` names it as its exception
  (`misfiled`), and the proof shows that there is no other.
- A list that is older than a deletion inserts the forgotten thread again, although the source
  has none; while a reservation still names it, its row may be in another workspace than the
  reservation's, until the execution binds again or ends.
- `thread.sync.started` is emitted before `ensureClient` (`ThreadTurnSyncService.ts:343`), and
  when that fails no `thread.sync.completed` follows; a test promises that
  completion is always emitted. In the same way a recovery that fails emits no
  `thread.recovery.completed`.
- `readThreadReadonly` replaces the entry of a thread that may be open
  (`ThreadReadService.ts:377`) and makes a new revision, so a synchronization under way
  is dropped and none is queued in its place. `OpenShowsLatest` excludes it.
- When more turns than a page were added elsewhere, the cached turns and the latest
  page leave a gap that no cursor covers.

## Proofs

`WorkspaceStoreProofs` proves, for every set of
threads, workspaces, reservations, turns and contracts, everything the `tables`
run checks. The only assumption is `NullAssumption`: `Null` is not one of the values
of a column.

- `StoreTyping`: the types are inductive by themselves; one lemma per transaction.
- `StoreExclusion`: `StoreInv`, one reservation per thread and exclusive transitions, is
  inductive together with the types. That transitions are exclusive needs the checks of
  `begin` and the triggers behind `Reserve`, `BindThread` and `ForgetThread`.
- `ThreadReservedOnce` and `TransitionsExclude` are its parts.
- `ReservedStays`: what each transaction may do to the row of a thread that has a
  reservation. It needs both parts: a thread with a transition has no
  reservation (else `CommitTransition` would move it), and it has one
  reservation only (else `BindThread` would move it away from the other). An
  index write leaves the row alone unless the thread was forgotten.
- `StoreRefinesOwnership`: every transaction maps to a step of
  `WorkspaceOwnership` or to a stutter. `modeOf` derives the mode of a thread from
  its rows and `captureOf` the captured workspace, so that for instance the deletion of a row that held the only
  reservation of a thread maps to `Rest` and `bindThread` to `Execute`, `Handover` or `Return`.
  The index write of a forgotten thread is a `Settle`, also while it executes.
- `ContextsStay`: evidence of a turn is never replaced.

`StoreNext` covers every step that `WorkspaceExecution` takes on the tables
except the release of several undispatched creations in one step. The lemmas of
these invariants about single transactions are cited again for the calls below,
and that one step is treated there.

`ClientPoolProofs` proves the four invariants of `client_pool` for any numbers of
clients, processes and calls, from `Names` (the kinds of names are disjoint).
`PoolInv` adds to them that a process belongs to the client that spawned it, that
ids ascend, and that only a created client is registered or stopping. Actions
fall in two groups: those that give out one id (`Numbered`, from which lemma
`NumberedIds` gets both properties of ids), and those that only take away
(`Shrinks`: answers, timers, errors, closes, stops).

`ProjectCommandsProofs` proves `CommandsTypeOK`, `NoConflictingRuns` and
`StartedIsKnownOrEnded`, and `NoStopMarkLeft` after them, for any
launches, contexts, stops and connections.
`CommandsInv` adds `AdmittedInOrder` (what is active was admitted, in order, and a
launch that will register its run is reserved: else the registration could add
a run nobody compared with) and `EndsAgree` (no end before the registration; after
it a run is tracked exactly until its end is told; a stop is about a registered
run, else its kill could end a launch). `Ends`, `Refuses` and `Rest` describe a step
by what ends, which launches fail and what else moves; lemma `EndsInv` is about
all steps of that form.

`NoStopMarkLeft` is proved in the same module, on top of `CommandsInv`. Every way a
run ends takes its mark back, so a mark without a tracked run can only have been set
after the end, by a stop that had to wait for a connection. `MarksInv` says why it
goes too: such a stop began when the source had lost the connection of the run
(`StopsAgree`); connections stay with their source and a new one is that of no run
(`ConnectionsAgree`); so its kill went elsewhere (`LateKill`), and only the connection
of the run ever answers "killed" (`PipesAgree`); any other answer, a timeout or a
close takes the mark back.

`StreamingNotificationsProofs` proves the six invariants of `streaming` for any
sources, streams and messages and any number of notifications. Beside the types
and `Numbered` (the numbers in use are at most `received`), the invariant has three
parts. For the batcher, `OneStreamWaits`: of one item, turn or process only one
stream holds anything back, which is what `flushOtherOwnerStreams` is for and what
makes the order of the others follow. For the messages, `PhasesFollow`: only the
batch of the current phase and the one begun before the phase was known hold
anything, and the latter is older, which is why timers of one delay emit in order
although nothing in the code compares them. For the timers (`BatchesAreTimed`), a batch that waits has the timer
its first fragment set, and a timer has its batch: an append and a snapshot keep the timer, a flush
takes both. `FragmentStep`, `FlushStep` and so on
describe the steps by what they do to each part; a lemma per shape says what it
preserves. That `SameOwner` is an equivalence is a lemma of its own, and needs that
a stream belongs either to a process or to a thread (`StreamsAssumption`).

`WorkspaceCreationProofs` proves the four invariants of `workspace_creation` for any
creations, repositories and destinations. None is inductive alone. What carries
them: a git command runs only for a row that is dispatched and not confirmed;
rows have distinct repositories and destinations; a call past its first step has
its row in the state its step says; and a call or a recovery is busy. One lemma
per action family shows that this survives, `Crash` among them, because nothing in it
is about memory alone.

`ThreadTurnsProofs` proves the types and `RevertedStaysGone` for any numbers of turns,
page sizes and queue bounds. Its invariant says where a removed turn could still
come from: the source's history no longer has it and its turns are below `last`;
no page that is still fresh has it, nor one read outside the chain; and while a
rollback is under way, what it has removed is in no fresh page, and after the
reset in no entry, unless it was refilled, and then the end of the rollback counts it as
read back.

The last part of the module proves `OpenShowsLatest` for the same constants, on top
of that invariant. The property looks at an empty chain only, so
its invariant says who pays until then: what an opening promised is in the entry, or a
synchronization that an opening queued owes it (`Owes`): it has not asked yet, or
nothing has outdated it since, and the page it was given has all that was promised.
Three facts carry it: whatever makes a new revision either queues another such
synchronization or takes the promise back; a page asked for later, while turns are
only added, has all that is left of the promise (`LatestPageShrinks`); and merges
only add.

`WorkspaceExecutionProofs` is about the calls, for any numbers of calls, threads,
workspaces and rows. It proves in three layers that each state of it is consistent.

- `ExecutionTyping`: the types need to know where a call may be. `Control` says, for
  each `pc`, which kinds of call get there and which of their locals are set (`CallOK`);
  `Pipe` says that a request waits for a call that is at the place that sent it, that a
  call has at most one, and that an answer has the form its method promises. A step
  touches one call (`OthersKeep`), so `StepMoved` reduces every action to one lemma about
  that call.
- `RowsHold` relates calls and rows: a call that has passed `reserve` has its own row, in
  the state its place says, until it releases it; a row that no call owns is either
  recovered or waits for it. `StepRows` says how a step moves the rows and that the
  row of another call is not touched.
- `OnlyDeletedIsForgotten` follows a deletion: the request is sent after its row was
  marked dispatched, the answer `ok` comes only if the source has forgotten the thread,
  and a forgotten thread never returns. So `ConfirmDeletion` is evidence.
- `ExecutionExclusion`: `StoreInv` holds of the tables however the calls interleave.
  Steps on one row are those of `WorkspaceStoreProofs`; the sweep of undispatched
  creations is proved here.

`WorkspaceExecutionAgreement` is about what the calls, the messages and the source know
of each other, for the same constants. It has five parts, each an inductive invariant
over those before. Three lemmas serve all of them: what a step of a call may do (`StepAt`,
`StepSource`, `StepRows`), what everything else leaves alone (`Rests`, and `Hushed` where
the source itself stays as it is), and what the source does for a request (`Outcome`).

- `RecoverableHolds`: what a recovery has read is still true when it uses it. While a
  call starts, no other is runnable (`Solo`, from the event loop); a recovery of a workspace
  treats the one transition there can be first (`WorkFirst`), and then no creation of
  its workspace goes on (`WorkClear`); a row it listed as undispatched is that of a call
  that is over (`WorkListed`); and a reservation it holds is one of its thread (`HeldRow`).
  `UnknownCreations` follows: the reservation of a dispatched creation is released by the
  confirmation of its own call, and by nothing else.
  `CallsImplementOwnership` too: a step of the calls on the tables is one transaction of
  `WorkspaceStore`, whose mapping to `WorkspaceOwnership` is proved there, or the sweep of
  a recovery. The sweep deletes rows by what they were when it listed them, and is a
  stutter only because such a row still has no thread (`TreatedRows`, by `WorkListed`).
- `PlacesHold` and `LocationsAgree`. A request moves a thread long after it was written,
  so `PlacedRequests` says that what it names (the workspace of a turn or a resume,
  the transition of a switch) is still so for the tables. That holds because of `Quiet`:
  a call that has looked at its thread is answered after everything that
  others had sent for that thread, so it changes the place of the thread when nothing else is on its
  way. Two cases need more. A new thread is its call's alone from the answer that names
  it (`Newborn`) until it is bound (`Settled`), although no gate is held and a list may have the
  thread: what lists say of it before is its own place (`Listings`, and `Existed` for what lists
  can be about); and a row may outlive its thread, or come back after it by an old list, only if
  the source deleted it (`RowKnown`, `ForgottenGone`). `Switched` says that a positive answer
  to a switch, in the pipe or received, names the place and the contract that the source reports
  of the thread; `CommittedWasReported` is its consequence.
- `WitnessesHold` and `ContextsTrue`. Contexts are written by acknowledgements and by
  notifications, which come in any order. `Traces` says that whatever is stored, heard
  or answered about a turn is about one that was started; `StartedOnce` that the source
  starts one turn for a call. A context that is written names the workspace of
  the reservation, and by `LocationAgrees` that is where the thread is loaded, because a thread with a reservation
  has no transition.
- `CatalogueHolds` and `CataloguesAgree`. `FilingDue` is the property, sharpened: a
  thread the source deleted is owed to a deletion, another archive flag to an archive or
  an unarchive, and either may also be owed to an index write older than the source (`misfiled`). It needs `FilingGuarded` (a mutation on its way has its dispatched row, whoever gave up on it) when the source acts,
  and `FilingSettled` when the row goes: the call
  that is about to release has made the tables say what the source says. The latter
  comes from `FilingAnswers` (what a positive answer, to the mutation or to the
  recovery's question, says of the source) and `EvidenceAsked` (the recovery asked for the
  half of the catalogue its row names), and stays because of `Quiet`.
  `HeldExecution` and `ReleasedGone` rule out that a recovery of executions, or of
  another deletion, releases it.

- `GuardHolds`, `RunningAreReserved` and `PendingAreGuarded`, under the hypothesis that no other
  client of the source starts turns (`ForeignTurns = {}`, as in the run `execution`; the run
  `foreign_turn` shows that it is needed). The two properties are one: `Covered` says
  that a request with an effect, the turn it became, or a message about that turn (all
  three: `UnderWay`) has the dispatched row of its call on its thread. A step that
  deletes a dispatched row does so on one of four kinds of evidence (`HeldFreed`), and for each an
  invariant says that nothing is under way: a completed row (`Over`); the thread was
  idle (`Vacant`: when that was answered nothing ran, and no message about a turn is
  behind the answer; `Quiet` again keeps others out); the mutation or its recovery
  is settled (`HeldMutation`, `ConfirmedAnswered`); the rollback's own answer. A
  notification may delete or complete a row too (`DeliverCompletes`): by `Covered` it is about
  the turn of that row's own call, and by `Last` nothing more is told of that turn.

Every safety property the passing runs check is stated by a theorem. Model-checked only:
liveness and everything that needs ENABLED, which is out of the prover's reach.

## Left out

- Several projects and sources: the checks that a thread and a workspace belong
  to the same project and source are constant here. `relocate` has no caller and
  removal of workspaces is not implemented.
- `getMetadata`, `requireSupported`, the retry of a status read by resuming a
  thread that is not loaded, and the leave to start a turn on `systemError`:
  further requests without effect on the tables, whose failure is `FailRun`.
- The list and the read of archive recovery are one request (`evidence`).
- In `WorkspaceExecution`, what a rollback does to the turn cache: that is in
  `ThreadTurns`.
- In `ClientPool`: notifications and requests of the app-server, a kill that
  throws, and several sources, which share nothing here.
- In `ProjectCommands`: the catalogue of commands, logs, output, and the end of
  the application.
- In `StreamingNotifications`: contents and their joining, invalid fragments, ignored
  threads, and the services behind the dispatch.
- In `WorkspaceCreation`: trust, path syntax, branches and heads, which decide whether
  a step fails (`Matches` is satisfied by any checkout at the destination, whoever made it, since
  `publish` compares head and branch and not the maker); removal and renaming of workspaces.
- In `ThreadTurns`: the early return of `syncCachedNow` for a thread that is not
  materialized (lines 345-353), which no state of the model reaches; contents of turns, other threads, a change of source, deletion of
  the thread, failures of SQLite, and threads without a source.
- Of thread lists: pages, search, the visibility of paths, titles, and the removal of empty
  shells (`deleteEmptyUnsyncedThreads`: rows without title, preview, turns or reservation, which
  `ForgottenIsDeleted` does not speak about).
- Approvals, settings, the update checks, file editing, the debugger, dictation,
  Docker, logs, usage, search and the user interface: see the notes of the components
  in `PROJECT.json`.
- Calls that wait for one start of a source and continue in one turn of the loop.
- An archive that the source refuses leaves an uncertain reservation, which only
  positive evidence clears, and `reconcileWorkspace` stops at it. The
  documentation wants it so ("Unknown remote results remain blocked"), and no
  liveness of recovery is claimed.

## What would come next

1. Empty shells of conversations and their removal; approvals with two sources.
2. `FileDocument`: an answer to a save for text that has changed since.
3. Proofs: which executions stay reserved when another client of the source starts turns
   (`RunningAreReserved` assumes that there is none).
