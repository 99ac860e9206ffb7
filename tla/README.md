# Verification of Buildbarn Portal

TLA+ specifications of the parts of Buildbarn Portal that carry its own logic:
how the events of a Bazel invocation get into the database exactly once, what
invocations share there, what the cleanup service removes while others use it,
and how logs and operations are served. The specifications are checked by TLC on
small instances; their safety properties are proved with TLAPS for every value of the
constants.

    tlasany EventRecorder.tla                                  parse
    tlc -config MCEventRecorder.cfg MCEventRecorder            check
    tlapm EventRecorder_proofs.tla                             prove

`PROJECT.json` names, for every definition, the lines of the source it models
(`map`), and for every property a mutant of the model that violates it.

## 1. The system

A build tool streams the Build Event Protocol (BEP) to the portal, or a user
uploads a BEP file. The portal writes the events to PostgreSQL, with several
replicas on the same database, and serves web pages, logs and a GraphQL API from
it. A cleanup service in each replica closes invocations, compacts their logs and
deletes what is old or unused.

| component | state | operations | interacts with |
|---|---|---|---|
| event stream server (`internal/api/grpc/bes/server.go`) | one handler and three goroutines per stream; a double-buffered `Batcher`, two channels | `PublishBuildToolEventStream`: receive, batch, save, acknowledge | build tool over gRPC; calls the recorder |
| BEP uploader (`internal/api/http/bepuploader`) | none | read the whole file, save it as one batch | calls the recorder |
| build event recorder (`internal/database/buildeventrecorder`) | per recorder: ids, the bitmap and version of the handled events; in the database: `bazel_invocations`, `event_metadata`, and the rows of every kind of event | `NewBuildEventRecorder` (find or create), `SaveBatch` (seven sub-batches, one transaction each), `StartLoggingConnectionMetadata` | other recorders and the cleanup service through row locks, unique indexes and the version |
| cleanup service (`internal/database/dbcleanupservice`) | a counter; a batcher | every tick: lock stale invocations, set `ended_at`, compact logs, remove snippets, old invocations, users, builds, target kind mappings, targets, test targets, files, file paths, digests | recorders, readers and cleanup services of other replicas, through the database only |
| log normalization (`internal/api/grpc/bes/utils.go`) | none | apply Bazel's "erase the line above" sequences | cleanup service, log handler |
| log handler (`internal/api/http/loghandler`) | one pipe and goroutine per request | serve a range of lines, from chunks or from snippets | cleanup service through the database |
| authorization (`dbauthservice`, `ent/authschema`) | cached list of the instance names in the database, shared by all requests | filter every query | GraphQL, log handler |
| build queue state proxy (`pkg/grpcweb/buildqueuestateproxy`) | none | list operations page by page, kill by name, filter other answers | the scheduler |
| database layer (`internal/database`) | nested transactions through savepoints | begin, commit, roll back | all of the above |
| other proxies, GraphQL API, frontend, static files, metadata extraction, metrics, `cmd/` | none that is shared | read, convert, forward, wire | |

### Behaviours that are hard

* **One invocation, several recorders.** A build tool whose connection breaks opens
  another stream and resends what has no ACK, while the server may still work for
  the first stream; a BEP file of the same invocation may be uploaded as well. The
  set of handled events is read once per attempt and written under an optimistic
  version; the bitmap in memory may be ahead of the database after a rollback.
* **One batch, seven transactions.** Each may fail after earlier ones committed. The
  answer to a COMMIT may be lost. What does not make progress is retried.
* **Row locks.** Each transaction has a shared lock on the invocation, and some then
  update that row: two of them deadlock. Transactions of several invocations insert
  the same targets and files. Cleanup skips rows that are locked.
* **Statements see a snapshot.** A statement that tests one table and then locks or
  deletes rows of another may act on what is no longer so. "INSERT ... ON CONFLICT
  DO NOTHING, else SELECT" may neither insert nor find a row.
* **Recycled memory.** The reader of a stream appends to arrays that the handler has
  given back, while the handler still works on others.
* **Two cleaners, one log.** Each step of the compaction is a statement of its own.
  Readers read in between, over a pipe between two goroutines.
* **A cache without a lock.** All requests read and refill one list of instance names.
* **Pages of a list that changes.** Operations come and go while they are fetched.
* **Nothing is scheduled twice.** An event that is appended without a signal, a page
  that no slice has, a batch that never ends: each would go unnoticed for long.

### What makes each component correct

* Recorder: every event applied exactly once, acknowledged only if recorded, rows
  that are joined are there, nothing added to a closed invocation, every call returns.
* Its shared rows: a stream gets no invocation of another user; an event that is handled
  has left its rows behind, a target with the kind that the invocation configured, a
  build that is linked, test results with all their files; transactions do not wait for
  each other in a circle, or one of them is tried again; nothing unused stays.
* Stream: no event lost, duplicated or overwritten on its way, ACKs in order, OK only
  if everything was acknowledged, no event stuck, no goroutine left behind.
* Compaction: chunks are the whole log, no text is ever in neither table, the end time
  is right, snippets go away.
* Log text and requests: what is kept is what a terminal shows; a range of lines is
  those lines, while the log is compacted and the list of names refilled.
* Cleanup: every page gets its turn, every batch ends, rows that are ready go away.
* Build queue: a page leaves out nothing that was there all the time.

## 2. Modules

| module | models | used by |
|---|---|---|
| `EventLog` | the abstract promise: a set of events that grows atomically, each applied once, ACKs only for what is recorded, nothing after the close | refined by `EventRecorder` |
| `EventRecorder` | `SaveBatch` with its transactions and retries, for any number of recorders of one invocation, the lock of the cleanup service, faults and reconnects | `MCEventRecorder`, `EventRecorder_proofs` |
| `BesStream` | one call of `PublishBuildToolEventStream`: client, reader, Batcher, handler, logger | `MCBesStream`, `BesStream_proofs` |
| `Invocations` | the rows of users, instance names, builds and invocations: several streams that find or create them, and the tasks that close and remove them | `MCInvocations`, `Invocations_proofs` |
| `Targets` | the targets that several invocations share: their recorders, one after the other event, and the tasks of the cleanup service that remove what is unused | `MCTargets`, `Targets_proofs` |
| `Files` | file paths, digests and files that test results and actions share, and the tasks that remove what is unused | `MCFiles`, `Files_proofs` |
| `LogCompaction` | the log of one invocation: recorder, cleaners of several replicas | itself, `LogCompaction_proofs` |
| `CleanupTask` | the slice of a tick and the batches of a task | itself, `CleanupTask_proofs` |
| `Selections` | the loops that take some elements of a sequence, in their order | `LogLines`, `BuildQueueStateProxy` |
| `LogLines` | normalization, chunks and ranges of lines as functions on a text | `ServeLog` |
| `DbAuthService` | the cached list of instance names, with its data races | `ServeLog` |
| `ServeLog` | requests for a range of lines: authorization, query, goroutine, pipe and copy, against compaction and removal; composes `LogLines` and `DbAuthService` | `MCServeLog`, `Serving_proofs` |
| `BuildQueueStateProxy` | `ListOperations` and `KillOperations` over a scheduler whose operations change | itself, `Serving_proofs` |
| `*_proofs` | the inductive invariant of the module and its theorems; `Serving_proofs` is about all that serves a request: `LogLines`, `DbAuthService`, `ServeLog` and `BuildQueueStateProxy` | |

The modules meet at these points. `BesStream` takes `SaveBatch` as one step that
returns; `EventRecorder` is the inside of this step and shows that it does return
(`SaveBatchReturns`). `Invocations` is what comes before the first `SaveBatch`, and has
of `SaveBatch` only the transaction that links the build; the row that it finds or
creates is the one whose columns `EventRecorder` has. `Targets` and `Files` look at
sub-batches of `EventRecorder` across invocations: what `Requires` stands for there,
that a target completed has been configured, is a row here that the cleanup may remove.
`LogCompaction` takes from `EventRecorder` that an event commits in a transaction under
the shared lock. Its text is a set of snippet numbers; `LogLines` is about the text, and
`ServeLog` lets a request read it while the statements of `LogCompaction` are executed.
`CleanupTask` is how the tasks of the other modules get to their rows.

### How state and actions correspond to the code

**`EventRecorder`.** The columns `bep_completed`, and `handled` and `version` of
`event_metadata`, are `bepCompleted`, `handled`, `version`. `rows[s]` counts how often
the effect of event `s` is in the database: the recorder's tables differ, but what
can go wrong with each is to be written twice or not at all. `Kind[s]` decides the
sub-batch, whether a unique index guards the rows, and whether the row of the
invocation is updated. `Load`, `LockCompletion`, `Write`, `Commit`, `CheckProgress`,
`Retry`, `GiveUp` are the stations of the loop in `save_batch.go`, each of them the
statements between two points at which another transaction can be noticed:
`loadHandledEvents`; `BeginTx` with `SELECT ... FOR SHARE`; the inserts with
`UpdateEventMetadata`; `COMMIT`. PostgreSQL is at READ COMMITTED: what is written
becomes visible in `Commit`; a row that another transaction has updated is waited for
(`WaitsForMetadata`, `WaitsForInvocation`); a cycle of waiting transactions is broken
(`DeadlockAbort`). `TransientFault`, `CommitAnswerLost` and `Disconnect` are the
failures: a call fails, the commit succeeds without an answer, the stream or the
server dies.

**`BesStream`.** The Go slices are modelled as slices: `mem` are the backing arrays,
a slice is an array and a length, `append` writes in place while the capacity lasts.
`signal` and `errChan` are the channels of capacity one. The mutex is held for one step.

**`Invocations`.** `users`, `names`, `builds`, `invs` are the committed rows of their
tables; a row of `invs` is a record of the columns that decide something. `creator` is
no column but history: for whom the row was inserted. The transaction of
`NewBuildEventRecorder` is one action per statement, and two for each "INSERT ... ON
CONFLICT DO NOTHING, else SELECT": `LookUpName` and `LookUpInvocation` take the
snapshot, `InsertName` and `InsertInvocation` wait for uncommitted rows of the same key
and then insert, return what the snapshot had, or refuse the stream. `pc` and `mine`
say what a recorder holds. The DELETEs of users and builds are two actions each, the
snapshot (`SelectInactiveUsers`, `SelectBuilds`) and the deletion with its foreign keys:
SET NULL for the user of an invocation, CASCADE for the invocations of a build.

**`Targets`.** A row of `targets` is a record with `id`, `label` (which stands for label
and aspect) and `kind`; the other tables are sets of references to it. What a transaction
has inserted is in `made` and `marked` until it commits. `CreateTarget` and
`CreateTestTarget` insert one row of their INSERT each, so that the order of the rows
matters; `Blocked` is the wait of a unique index. A foreign key locks the row that it
refers to (`LockedIds`), which `FOR UPDATE SKIP LOCKED` skips; what has been deleted makes
the insert fail. The two deleting statements that test other tables are two actions,
selection and deletion; that of the mappings is one, since the completion of an
invocation that it tests is final. `Batches` names the events that come together.

**`Files`.** A row is a triple of its kind, path and digest: it is never updated and so
is told by its key. `Begin`, `InsertDigests`, `InsertFiles`, `Associate` and `Commit` are
the statements of `saveFilesBatch` and `createTestResultsBulk`; `Begin` with `InsertRow`
is `SaveSingleFile` for one file of an action after the other. `InsertRow` inserts one
row of its statement. `updated` are the rows that ON CONFLICT DO UPDATE has locked,
`referred` those that a foreign key has; `Blocks` says who waits for whom.
`SelectUnused` and `DeleteUnused` are the snapshot and the deletion of the three DELETEs.
A row that DO UPDATE has found is a new version after `Commit`, so that a DELETE whose
snapshot has the old one leaves it alone (`selected \ updated[r]`).

**`LogCompaction`.** `exists`, `completed`, `endedAt` are the row of the invocation,
`snippets` and `chunks` its rows in `incomplete_build_logs` and `build_log_chunks`.
Each statement of a cleaner is an action; locking is two, because the statement tests
`event_metadata` in its snapshot and locks the row later. `page` stands for the slice
of the snippets' table that a tick visits; the page of the invocation itself is
visited in each tick. Times are ordinals: the n-th event comes at n.

**`CleanupTask`.** The rows that are ready for cleanup are on one page (`page`), and
`since` counts the ticks since it was visited. Of `dc.counter` the remainder by the
number of pages is kept, since nothing else of it is used. A row is sticky when its
operation counts it as processed and yet leaves it ready.

**`LogLines`, `DbAuthService`, `ServeLog`.** A log is a sequence of bytes of which only
the newline and the escape sequence are told from the rest. `GetInstanceNames` is one
action per access to the shared fields (`QueryNames`, `Reset`, `AppendName`,
`SetLastUpdated`, `Return`); an access while another request fills the list is a data race, and
any list that can come out of it is allowed. A request is `Authorize` (the names),
`Exists` (the query for the invocation), `ListChunks`, then `ReadSnippets`, or
`CopyChunk` and `EndCopy` in the handler beside `FetchChunk` and `CloseWriter` in the
goroutine, with `pipe` between them. `Compact`, `DeleteSnippets`, `RemoveInvocation` are
the statements of the cleanup service that change what is read.

**`BuildQueueStateProxy`.** `queue` are the operations of the scheduler, which is
external: it lists them by name, a page at a time, with their number. `FetchPage` is an
iteration of the loop in `ListOperations` (`listing` says where the call is), and the last
one filters and cuts the answer. The page begins where `sort.Search` says: a binary search
finds some index where the condition turns from false to true (`StartIndexes`), the right
one only if what was fetched is in order. The model takes any of them.
`CheckKill` and `KillOperation` are the two calls of `KillOperations`.

## 3. Runs

| run | question | instance | why it is enough |
|---|---|---|---|
| `recorder` | Is every event of a build applied once and joined right, whatever two recorders, the cleanup and one fault do? Does the recorder implement `EventLog`? | 2 recorders, 4 events: configuration, target configured and completed, build finished; 2 connects, 1 fault | two recorders are what it takes to conflict; four sub-batches are non-empty, and one row is joined. 2 million states. The theorems have no bounds |
| `retry` | Does each call of `SaveBatch` return? | 2 recorders that deadlock, a poison event and one that no sub-batch saves, 1 fault; fair | both ways of not making progress |
| `retry_timeout` | Does `SaveBatch` retry as long as it was told to? **Violated** | 1 recorder, 1 event, 1 fault | |
| `stream` | Is any event lost, stuck, or overwritten between the goroutines? | 5 messages, the last malformed, 4 arrays; fair | 4 arrays are the most ever in use at once; 5 messages make a slice grow twice and each array come back |
| `compaction` | Is any text lost, or in two chunks? Do the snippets of a closed invocation go away? | 2 cleaners, 4 snippets (one blank) on 2 pages, 2 snippets to a chunk, 2 faults or restarts; fair | two cleaners may be a page apart, so that one reads what the other has half deleted; a full chunk and one that is not. 300 thousand states |
| `already_normalized` | Does the loser of a race ignore its error? **Violated** | 2 cleaners, 1 snippet | |
| `serve_log` | Is the normalized text right, and each range of lines? Is a request answered right while the log is compacted and removed and the names are refilled? Does it end, with its goroutine? | every log of up to 7 bytes; chunks of 1 to 3 bytes. Two of the logs, in chunks of 1 or 2 bytes, are served to a reader beside one other request; fair | three lines with two erasures; lines within, across and at the ends of chunks; the other request is what it takes to race |
| `invocations` | Who joins whose invocation? Is what is saved whole, while users and builds are removed by stale snapshots? Who can deadlock? What stays for ever? | 3 streams opened 4 times in all, 2 of them of one invocation and 2 of one user and build; fair | two streams that create the same rows, of different users, and two that save into one invocation; one that comes back after the cleanup |
| `targets` | Do recorders that share targets deadlock, retry for ever, or record a target of the wrong kind? Is an event ever handled without its target, while others insert and the cleanup deletes? Does anything stay? | 2 invocations; 3 labels, two shared and one with a kind for each; fair | two targets in one batch are what it takes to deadlock; each target may be found, created or lost |
| `files` | Are test results saved with all their outputs? Does an action keep its files? Does saving end? | 2 batches of test results and an action, with 2 files in opposite orders; fair | transactions that deadlock, and rows that are found, missed and lost |
| `cleanup_task` | Does each page get its turn, and each row go away? | up to 6 pages and 4 ticks an hour, 4 rows in batches of 2 to 3, one sticky row; fair | slices that divide the table and that do not; a limit that grows and that is cut off. The theorem has no bounds |
| `operations` | Does a page of operations leave anything out? Is it answered? | 5 operations fetched by twos, of which the user may see 4 and kill 3; fair | three pages, the last one short or empty; filtered on each page |

`operations` is checked for deadlock. In the others TLC's kind of deadlock is no error:
streams end, builds end, requests end, and bounds are used up. Transactions that wait for
each other are the matter of `NoCircularWait`, `OnlySharersDeadlock`, `SaveGetsThrough` and
`SaveBatchReturns`.

### Bounds

`MaxConnects`, `MaxFaults`, `MaxResizes` bound how often the environment acts; `N` is
the number of events, messages or snippets; `MaxLen` the length of a log; `MaxPages`,
`MaxRuns`, `Rows` the size of a table and its backlog; `Batches` which targets share a
batch; `ServedLogs` and `ServedSizes` which of the logs are served; `MaxId` the
identifiers of targets, of which there are always some that nobody remembers, so that the
bound is never met; `NumOperations` the operations that ever come to the build queue. Nothing is bounded that the code counts: `version` is bounded by the
number of commits of finitely many events.

### Fairness

* `EventRecorder`: the goroutine of each recorder runs (weak fairness of `Step`), and a
  loop whose `select` finds its retry time over again and again does take that branch
  (strong fairness of `GiveUp`): Go chooses at random among ready channels. Nothing is
  assumed of the clock: since the retry time is never stored, it is always over.
* `BesStream`: reader, handler and logger run, `SaveBatch` returns, and the client
  takes its ACKs. Nothing is assumed about what the client sends.
* `Targets`, `Files`: each recorder goes on with its transaction, and in `Targets` each
  task of the cleanup runs again and again. Nothing is assumed of builds: they may end or
  stay open at any point.
* `Invocations`: the tasks of the cleanup service run, and an invocation that stays
  without events grows old. Nothing is assumed of streams; `OnlyTheEmptyStay` is about
  what stays when all of them are over.
* `LogCompaction`, `CleanupTask`: the loop of each cleanup service runs, tick after
  tick. Nothing is assumed about which of two cleaners is faster.
* `ServeLog`: the handler and the goroutine of each request run. `BuildQueueStateProxy`:
  the scheduler answers.

### Disagreements found

* `NewBuildEventRecorder` never stores `batchRetryTimeout`, so an attempt without
  progress may be given up at once (`retry_timeout`).
* The query after a failed insert of chunks asks for invocations that are *not* yet
  normalized, and so reports the harmless error and drops the harmful one
  (`already_normalized`).

Known from the models, each as a case that a property has to except (without the
exception TLC finds it violated) or that an instance has to leave out:

* An invocation may be locked just after an event has come, since the time of its last
  event is tested in the snapshot.
* A request that finds no chunk of its range reads snippets instead. When some of them have
  been deleted by then, it is served a log that is empty or short: because the log was
  compacted after it had looked for chunks (the next request finds them), because its
  range begins beyond the end of a log that is compacted already, or because the
  invocation was removed after it had been found (`CameTooLate` in `AnswersAreRight`).
* Two requests that fill the list of instance names at once, or one that reads it
  meanwhile, may see any part of it: a page or a log is then not found until the list
  expires (`raced` in `AnswersAreRight`). The comment at `dbauthservice.go:39` promises
  "the list of all instance names".
* When the client leaves, its handler returns without closing the pipe, and the goroutine
  may wait for ever in a write that nobody reads (`left` in `RequestsEnd`).
* `ListOperations` stops when it has as many operations as the scheduler has at that
  moment; when as many of those it has fetched are gone as are left, it leaves the rest
  out (`FetchedIsGone` in `PagesAreRight`), where the comment at `server.go:55` says
  "until there are no more".
* Two streams that create the same invocation, or the same instance name, at once: the
  later one may be refused, and is let in when it comes back.
* The DELETE of inactive users takes the user from an invocation that was created after
  its snapshot; from then on its owner is refused, and a stream without a user is let in
  (`JoinedIsOwn` would be violated if it said that a stream without a user only gets
  invocations created without one).
* The DELETE of builds takes an open invocation along that was linked after its snapshot,
  though not while a transaction saves into it (`SavedIsLinked` speaks of the invocations
  that are left).
* An invocation whose stream ends before its first batch has no row in `event_metadata`,
  and is never closed nor removed, nor is its user (`OnlyTheEmptyStay`).
* A target may be deleted just after a recorder has mapped its invocation to it, and takes
  the mapping along, so that its TargetCompleted event can never be saved
  (`SavedWithItsTarget` holds of the step that commits, and not of later states).
* The marker of a test may be removed as orphaned while a transaction that has found it
  in place is about to commit a summary of this test: the test then has no marker until
  it is run again.
* An output of a test is lost (CASCADE) when its file was found by DO NOTHING, and had been
  selected as unused by an older snapshot (`ActionsKeepTheirFiles` holds for actions only).
* `SaveSingleFile` locks paths, digests and files in the order of the events, a batch in
  the order of its statements: they may deadlock, and again when they are repeated
  (`DeadlocksGoOn` in `SaveGetsThrough`).
* A log that normalizes to nothing never gets a chunk, so that its snippets stay and each
  tick compacts it again (`SnippetsAreRemoved` with every snippet in `Blank`); 128 such
  invocations in one slice keep `Batch` from ever returning (`RowsAreCleaned` with
  `Sticky >= minBatchSize`).
* A table whose pages are no multiple of the runs per hour takes up to two hours for the
  one that is the goal of `nextSlice` (`EveryPageInTime` has the bound that holds).

Met while reading, and not a matter of any model: after the answer 404 the log handler goes
on to write the answer 500 (`log_handler.go:78`); `saveActionExecuted.go:99` sets the
start time of an action from its end time.

## 4. Proofs

Each proof module rests on the assumption of its model alone, which types the constants
(`RecorderAssumption`, `StreamAssumption`, ...); none bounds them. Every safety property
that a run checks is among the theorems.

| theorem | property |
|---|---|
| `EventRecorder_proofs!TypeCorrect` | `TypeOK` |
| `EventRecorder_proofs!EventsAreAppliedOnce` | `ExactlyOnce` |
| `EventRecorder_proofs!AcknowledgedIsRecorded` | `AckedIsRecorded` |
| `EventRecorder_proofs!JoinedRowsExist` | `JoinsAreComplete` |
| `EventRecorder_proofs!HandledGrows` | `HandledIsNeverForgotten` |
| `EventRecorder_proofs!LockedStaysAsItIs` | `NothingAfterCompletion` |
| `EventRecorder_proofs!Refinement` | `ImplementsLog`: `EventRecorder` implements `EventLog` |
| `BesStream_proofs!StreamTypeOK`, `OkMeansAllAlways`, `NothingIsLostEver` | `TypeOK`, `OkMeansAll`, `NothingIsLost` |
| `LogCompaction_proofs!CompactionTypeOK`, `CompactionIsComplete`, `CompactionLosesNothing`, `EndedAtIsRightAlways` | `TypeOK`, `ChunksAreTheWholeLog`, `LogIsKept`, `EndedAtIsRight` |
| `Targets_proofs!TargetsTypeOK`, `NoCircularWaitEver`, `KindIsRightAlways`, `SavedWithItsTargetAlways` | `TypeOK`, `NoCircularWait`, `KindIsRight`, `SavedWithItsTarget` |
| `Invocations_proofs!InvocationsTypeOK`, `JoinedIsOwnAlways`, `SavedIsLinkedAlways`, `OnlySharersDeadlockAlways` | `TypeOK`, `JoinedIsOwn`, `SavedIsLinked`, `OnlySharersDeadlock` |
| `Files_proofs!ActionsKeepTheirFilesAlways`, `SavedWithAllOutputsAlways`, `ReferencesStandAlways` | `ActionsKeepTheirFiles`, `SavedWithAllOutputs`, and that no row refers to one that is gone |
| `CleanupTask_proofs!EveryPageInTimeAlways` | `EveryPageInTime` |
| `Serving_proofs!ServeInvariant`, `NormalizedIsTheScreenAlways`, `RangesAreRightAlways`, `AnswersAreRightAlways` | the inductive invariant of `ServeLog`, `NormalizedIsTheScreen`, `RangesAreRight`, `AnswersAreRight` |
| `Serving_proofs!ProxyInvariant`, `PagesAreRightAlways` | the inductive invariant of `BuildQueueStateProxy`, `PagesAreRight` |

All are proved in the same way: `IInv`, the inductive invariant, holds at first
(`InitIInv`) and is kept by each step (`NextIInv`, with a lemma per action or group of
actions), and the property follows from it, or from it and one step. (`Serving_proofs`
calls them `Initially` and `EachStep`, and `ProxyInv`, `ProxyInitially` and `ProxyStep`.) None of the
properties is inductive by itself; what `IInv` adds is the reason why the code is right.

**`EventRecorder`.** `ExactlyOnce` speaks of the database, but what a
commit does to it follows from what the recorder has in memory, which may be out of
date. `IInv` has, for each recorder:

* *Memory.* Before a write the bitmap is a subset of `handled`, and equal to it if the
  versions are (`MemIsCurrent`); before a commit it is `handled` with exactly the events
  of the sub-batch added, none of which was handled (`MemIsNext`). This rests on
  `OneCommits`: the lock on the row of `event_metadata` lets one transaction at a time
  be between its update and its commit.
* *Progress.* All that the client sent for the batch is in the batch, handled, or never
  recorded (`RangeIsCovered`); the sub-batches passed are handled (`PassedIsSaved`); the
  bitmap has none of the events of later ones (`LaterIsNew`). Together: what is about
  to be acknowledged is recorded (`AckIsDue`), and what comes before the stream was
  (`StartIsRecorded`).
* *Locks.* While a transaction has its shared lock, the invocation is open (`TxIsOpen`).

There are four groups of actions: a recorder that goes idle, one that moves within the
loop, one that publishes a sub-batch, and the ACK; `OthersStayStill` and `GrowthKeepsInv`
carry the invariant of the recorders that take no part in a step. The refinement maps
`recorded` to `handled`, `applied` to `rows` and `closed` to `bepCompleted`: `Commit` and
`CommitAnswerLost` are `Record`, `Ack` is `Ack` or a stutter, `LockInvocation` is
`Close`, all else stutters.

**`BesStream`.** The batcher and the handler never have the same array (`MemInv`), so that
an append of the reader cannot overwrite what is being saved. What each of them holds is
a run of consecutive events that begins where the one before ends (`RunsInv`), and
together they are as many as were received (`CountInv`); runs that join and are complete
are the stream itself (`RunsJoin`). `EndsInv` says in which states reader, handler and
the last batch end.

**`LogCompaction`.** A log that is merged, read or deleted belongs to a locked invocation
(`MergedIsLocked`, `ReadIsLocked`, `GoneIsLocked`), and a transaction that may add to it to an
open one (`TxIsOpen`), so that text does not grow any more once a cleaner has read it.
`ReadIsDue`: what a cleaner has read is the whole text, or chunks are there already, which
make its insert fail. `EndIsFinal` and `FinishedHasEnd` do the same for `ended_at`. That
the chunks of a log are that log is arithmetic on ranks (`ChunksOfLog`).

**`Targets`.** An identifier stands for one row, committed or not or removed while someone
remembers it (`UniqueIds`); what a transaction has found or referred to has its own
kind (`FoundKind`, `ReferredKind`), and stays while it refers to it (`ReferredStay`). For
`NoCircularWait`: a row that is awaited comes later in the order of the statement than all that
its transaction has inserted (`InsertedIsBefore`), so that along a wait the awaited rows
ascend, and the last of them has nobody to wait for. `SavedWithItsTarget` needs a second
invariant, `BatchInv`: every label of a batch has a row or has yet to get one (`Covered`),
what was found for a TargetCompleted event stays mapped until the commit (`FoundMapped`),
because the cleanup cannot lock the invocation before (`OpenInTx`) and a row that nobody
has committed yet is known to its creator only (`MadeIsOwn`). That the target is the only
one is `OneKey`: the unique index on label and kind holds among all rows, committed or
not, since an insert waits for those that are not.

**`Invocations`.** An invocation that is being created has no committed row and no other
creator (`NewIsAlone`); one that a transaction shares is not removed (`SharedIsRow`); the
user of a row is its creator, or has been removed (`UserIsCreator`). `SavedIsLinked` is
inductive with `LoadedHasMeta`, that a recorder which has loaded its event metadata has a
row of them as long as its invocation is there. `OnlySharersDeadlock` is by the place of
those who wait (`WaitingIsForLater`): someone who opens a stream waits for someone further on, and the
furthest, who has made the invocation, waits for nobody; so a circle is within the
transactions that save, has one that is linking a build, and this one waits for another of its
invocation.

**`Files`.** What a transaction has locked stays (`LockedStay`), and is all that it is
going to refer to: an action has locked every file that is not in its way any more
(`SinglesInv`), test results have locked their outputs before they commit (`OutputsInv`).
No DELETE has selected what a saved action refers to (`KeptInv`), which is what the new row
version is good for.

**`CleanupTask`.** `Waited` bounds, by the page at which the last slice began, how long each page
may have waited: pages that it has passed less than those that it has not reached. The
step from one slice to the next is the arithmetic of remainders (`FromIs`, `BeforeIs`):
it begins `Count` pages later or starts over, and then the slice is stretched to the
pages that the end of the table has left out.

**`ServeLog`.** Two of its properties are about what functions of a text compute. These are
recursive functions and folds, and they are proved for a text of any length by induction on
numbers: a set that has 0, and with a number the next one, has all numbers up to n
(`Induct`, from the well-foundedness of `<`).

* `RangesAreRight`: the lines of a text, and the chunks of it, are cuts of the same sequence,
  so that flattening a selection of them gives back a part of the text. A chunk
  that holds a part of the range gives just its lines of the range (`Pieces`), and the loop of
  `subsliceLogBufferByLines` finds the same first and last byte.
* `NormalizedIsTheScreen`: after every byte, the screen corresponds to the lines kept so far
  (`Follows`): with m escape sequences read since the last newline, the cursor is m
  lines up, the rows above it are those lines, and the ones below are blank. It needs `UpsBeginLines`,
  that Bazel goes up from the beginning of a line only: the code drops whole lines.
* `AnswersAreRight`: what the client has, what is in the pipe and what the remaining chunks
  have of the range are together the lines that were asked for (`CopyIsRight`), as long as
  the chunks are those of the log (`ChunksAreOfLog`) and the log does not change once it is
  served (`LogIsWritten`); and while one request alone fills the list of instance names, what is not in
  the list it still has to append (`ListIsFilled`).

**`BuildQueueStateProxy`.** What was fetched is in order (`InOrderInv`), since each page
begins after the last name of the one before; so the binary search has one result, and a page
of the filtered operations is those after the given name, up to its size (`PageIs`). What stays
in the queue has been fetched, or comes after all that was (`StayedInv`). When the loop
ends because it has as many operations as the scheduler, and all it has are still there, it
has the same set. What was fetched and is gone does not come back (`GoneInv`), so that the
exception, once it holds, goes on to hold.

Model-checked only: liveness (`SaveBatchReturns`, `EventsAreNotStuck`, `GoroutinesEnd`,
`SnippetsAreRemoved`, `ConfiguredGetsThrough`, `TargetsGoAway`, `SaveGetsThrough`,
`OnlyTheEmptyStay`, `RequestsEnd`, `RowsAreCleaned`, `ListReturns`), which is beyond the
prover.

## 5. Not modelled

* Values: what the events say is copied to columns without any decision that another
  event or process could disturb. This leaves out the metrics, command lines, workspace
  status and options (`saveBuildMetrics.go` and others).
* `LogCompaction` has one invocation: the batch of `CompactLogs` visits invocations one
  after the other, and `CleanupTask` models the batch. Each task is visited once per tick.
* Savepoints (`savepoint_driver.go`): the nested transactions are begun by the generated
  client around an insert with its edges, so that each is one step of the models.
* Which names and operations a user is authorized for: a function of the name, applied to
  what `DbAuthService` and `BuildQueueStateProxy` return.
* The reading of a BEP file by the uploader, and the parsing of requests.
* The other proxies, GraphQL, frontend, metadata extraction, metrics: they convert and
  forward, or are generated. See `PROJECT.json` for each of them and the reason.
* The database itself: that PostgreSQL keeps what it commits, that `FOR UPDATE SKIP
  LOCKED` skips, that unique indexes are unique, that a row version which is not in the
  snapshot of a DELETE is tested again.

Most of the repository's lines are generated (`ent/gen`, `graphql/server_gen.go`, the
`*.pb.go` files) or TypeScript, and carry no state of their own; of the Go code that
does, the parts above are what the modules leave out.

## 6. What may come next

1. The tests that lose their marker as a property of `Targets`, once the statement that
   inserts markers locks those that it finds.
2. A bound for how often `Files` may deadlock, if `SaveSingleFile` is given the order of
   the batches: `NoCircularWait` would then hold for it, by the argument of `Targets`.
