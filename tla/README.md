# Formal models of gg-cli

`gg` is a command-line tool that gives coding agents a shared memory: decisions,
rejected approaches, tasks, bugs, messages and a graph of the code.  There is no
server.  Every `gg` command is a process of its own; agents run many of them at
once, they are killed at any point, and the vector store, the embedder or the
graph may be away for a while.  What holds the memory together is a set of files
under `.gg/` and the order in which commands write them.  This directory models
that core in TLA+, checks it with TLC and proves part of it with TLAPS.

## 1. Inventory

| component | state it keeps | operations | hard because | modelled in |
|---|---|---|---|---|
| **Brain JSONL** `internal/brain` | one append-only `.gg/brain/<kind>.jsonl` per kind; the last line of a uuid is its current payload | `Append`, `AppendCAS` (compare-and-swap on the payload's `version`, under flock), `ReadAll`, `FoldLatest` | readers do not take the flock; the payload is read and changed before it is taken | BrainStore |
| **Brain mutations** `internal/store/{mutations,decisions,bugs}.go` | none of its own | create: append, then upsert, then (on failure) an outbox entry.  mutate: read, apply, `AppendCAS`, mirror to the store | four separate steps on three stores, killed between any two | BrainStore |
| **Vector store** `internal/store/vectorstore_sqlite*.go` | `points(collection, id, vector, payload)` in SQLite (WAL) | `Upsert` (whole point), `SetPayload` by id or by filter (merge), `Delete`, scroll | one transaction each; nothing ties it to the JSONL; busy or missing at times | all but CodeIndex |
| **Outbox** `internal/outbox` | one file per create that the store missed | `Write`, `List`, `Delete`, `IncrementRetries` | files rewritten in place | BrainStore |
| **Reconcilers** `cmd/doctor_reconcile.go`, `cmd/session_start_reconcile.go` | `.gg/brain/.reconcile.lock` | drain the outbox; compare JSONL and store and repair | run beside the commands, on data they read earlier | BrainStore, Inbox |
| **Healing** `internal/store/heal.go`, `cmd/search_heal.go` | none | re-embed degraded points after a search | writes back whole points | BrainStore, TaskClaims |
| **Task claims** `internal/store/{task_claims,task_status_transition,tasks,tasks_misc}.go` | task points in the store: status, owner, lease, `task_version` | start, renew, release, unblock, done, block, ready-for-live, review, cancel | leases expire; the compare-and-swap is a `SetPayload` by filter and its success is guessed from a read-back | TaskClaims |
| **Task events** `internal/store/task_events.go`, `cmd/reconcile.go` | `.gg/brain/task-events.jsonl` | append after each transition; `gg reconcile [--apply]` folds the log and repairs the store | the event is a second write; the repair is unconditional and takes no lock | TaskClaims |
| **Task gates** `cmd/{task_status,task_ready_for_live,hydration_gate}.go`, `internal/{enforcement,projectstate}` | `<runtime>/state.json`: proof of a full read, audit of skipped gates | refuse `done`, `ready-for-live`, `blocked` before their conditions hold; skip and record with enforcement off | checked on one read, acted on after another; one file rewritten by all | TaskGates |
| **Messages** `internal/store/messages.go`, `cmd/inbox*.go` | message records with the set of their readers, the archived mark | send, list, ack, dismiss, archive | several write paths, only some with compare-and-swap, one with no line in the log | Inbox |
| **Rebuild** `internal/store/{reembed,reembed_source,embed_missing}.go` | none; the collections are dropped and filled again | `gg reembed`, the filling in of vectors | killed between drop and fill; merges two sources by their times | Inbox, BrainSnapshot |
| **Sequence allocators** `internal/store/{taskseq,bugseq,discseq}.go` | `.seq` files | allocate the next number under flock; bootstrap from the store, or from the log | truncate, then write; a bootstrap sees what its source has | SeqAlloc |
| **Export and import** `cmd/brain_{export,import}.go`, `internal/store/brain_{export,import}.go` | `.gg/brain` itself, `manifest.json`, `.gg/brain.partial` | replace the log's directory by a scroll of the store; load a directory into the store | replaces files that other commands append to; two exports share one scratch directory; checksums are compared before the files are read | BrainSnapshot |
| **Index and watch** `cmd/index*.go`, `internal/index` | `index-state.json`, `index.lock`, `index-watch.lock`, an outbox entry per run | full and incremental runs, watcher with debouncer and breaker, `gg index status` | the tree changes under a run; takeover of stale locks; runs cut short at any point | CodeIndex |
| **Code graph** `internal/graph` | `.gg/graph.db` | nodes per source file, edges, queries | written by runs only | CodeIndex (nodes per file) |
| **Discussions** `internal/store/discussions.go` | discussion points with their turns | open, append a turn, resolve, dismiss | nothing calls them: only tests do | – |
| **Session state, caches** `internal/{session,cache}` | last-known-good copies, session markers | read through, fall back | staleness, of advice only | – |
| **Config, registry** `internal/config` | settings; `registry.json` | read at start; read, change, rename under a lock | one lock, one file | – |
| **Embedding model** `internal/embedding`, `cmd/helpers.go` | `embedding-meta.json` beside `config.yaml` and `GG_EMBED_MODEL` | resolve a model at the start of a command, check it, stamp it; `gg reembed` moves the store to another | three places name the model, each command keeps what it resolved, a migration is many writes without a lock | EmbedSpace |
| **LSP client** `internal/lsp` | a child process, two pipes, a goroutine per call | spawn, handshake, open a file, ask, shut down | the server is another program; calls that time out leave their goroutine behind | LspClient |
| **MCP server, dashboard** `internal/mcp`, `cmd/serve*.go` | clients cached per project | the same functions as the commands | the dashboard keeps what it has resolved | EmbedSpace (their searches) |
| **Telemetry, hooks, templates** | rendering, I/O | – | no concurrency of their own that bears on the memory's correctness | – |

How they interact: commands call `internal/store`, which appends to the JSONL
through `internal/brain` and then writes the vector store; a failed upsert comes
back as `*OutboxQueued` and the command writes the outbox file.  `session-start`
runs in every shell an agent opens: it exports the store over the log, drains the
outbox, archives old broadcasts.  `gg doctor --reconcile` drains the outbox and
then repairs the store from the JSONL; a search may heal vectors on its way out.
Drain, doctor and heal exclude each other with the reconcile lock and exclude
nobody else; exports, imports and rebuilds take no lock at all.  Tasks do not use
the JSONL as their current state: a task's state is its point, and the event log
is its trail.  The number of a task or bug, from which its uuid is computed, comes
from the allocators.  The git hooks run `gg index --changed`; the watcher
runs the same code.

What makes each component correct, in one line each:

* brain: mutations of one record are serialised; none is lost; versions count up by one.
* mutations and vector store: what the store shows was committed; what is committed and missing from the store is on its way there.
* reconcilers: a clean report is a true report; a queued create gets there; they do not destroy what is healthy.
* tasks: at most one agent believes it holds a live claim; the event log explains the store.
* gates: who verified is not who did the work; what was skipped is on record; who does what is asked gets through.
* messages: what is marked read stays so; nobody misses a message because of a repair.
* rebuild: nothing that was there is missing afterwards, nothing goes back in time.
* allocators: a number is given out once.
* export and import: a snapshot is one state of the store and brings that state back.
* index: a status of "ready" is true; the watcher catches up.
* embedding: vectors that are compared come from one model; a rebuild brings that about again.
* LSP: the answer is the one to the question; nothing is left behind; the command ends.

The hazards behind these, each at the line where it bites and with the
properties that cover it, are listed in `PROJECT.json`.

## 2. Modules

```
VersionedRecord          what a record promises: one current payload, atomic edits
   ^ implements (ImplementsRegister)
BrainStore               JSONL + vector store + outbox + reconcile lock; writers, reconcilers
   ^ extends
BrainInvariant           the inductive invariants IInv, FreshInv
   ^ extends          ^ extends
MCBrainStore (TLC)       BrainStore_proofs (TLAPS)

TaskLifecycle            what a command promises: one atomic step on the task as it is
   ^ implements (ImplementsLifecycle)
TaskClaims               one task: store, event log, clock; commands and repairs
   ^ extends
ClaimInvariant           the inductive invariants ClaimInv and PairInv
   ^ extends          ^ extends
MCTaskClaims (TLC)       TaskClaims_proofs (TLAPS)

TaskGates                the gates of one task, its messages and state.json
   ^ MCTaskGates (TLC)   ^ TaskGates_proofs (TLAPS)
SeqAlloc                 one counter file, its lock, log and store
   ^ MCSeqAlloc (TLC)    ^ SeqAllocAndLsp_proofs (TLAPS)
BrainSnapshot            export and import beside creates, mutations, reconcile
   ^ MCBrainSnapshot     ^ BrainSnapshot_proofs (TLAPS)
Inbox                    messages: readers, archive, rebuild, doctor
   ^ MCInbox (TLC)       ^ Inbox_proofs (TLAPS)
CodeIndex                index runs, watcher, locks, status
   ^ extends
IndexInvariant           the inductive invariant IndexInv
   ^ extends          ^ extends
MCCodeIndex (TLC)        CodeIndex_proofs (TLAPS)

EmbedSpace               config, meta, vectors; commands, rebuilds, imports
   ^ MCEmbedSpace (TLC)  ^ EmbedSpace_proofs (TLAPS)
LspClient                one command and its language server
   ^ extends
LspInvariant             the inductive invariant LspInv
   ^ extends          ^ extends
MCLspClient (TLC)        SeqAllocAndLsp_proofs (TLAPS)
```

`BrainStore` follows a create, a mutation and each reconciler in full, for the
records every kind shares.  `Inbox` and `BrainSnapshot` put other commands beside
the same steps and keep of them what matters there.  A task's point is never
changed through `applyBrainMutation`, and what tasks share with the brain records
– the create line, the outbox, the doctor, healing – `TaskClaims` has in its own
terms.  `BrainStore`, `Inbox` and `TaskClaims` assume that no export runs
meanwhile: an export replaces the log, and `BrainSnapshot` is about what that does.
`EmbedSpace` looks at the same store from the side of its vectors: which model they are of,
whatever their payloads.

### BrainStore

| variable | code |
|---|---|
| `jsonl[r]` | the lines of uuid `r` in `.gg/brain/<kind>.jsonl`, oldest first |
| `point[r]` | the row of `points` with that id: present or not, payload, zero vector (`gg_vector_degraded`) or not |
| `outbox` | the uuids in `.gg/outbox/` |
| `lock` | the flock on `.gg/brain/.reconcile.lock` |
| `author[a]` | a process that runs a create or a mutation: where it is between two shared accesses, and the payload in its memory |
| `janitor[j]` | a process that runs the doctor, the drain of session-start, or a heal: its position, what it has read (`seen`, `present`) and what is left (`todo`) |
| `edits[a]` | a bound on the mutations of `a` |
| `orphaned`, `quiet` | auxiliary: which creates a known fault has struck; whether an author has moved since the pass began |

An action is what a process does between two points where another process can
run.  Create: `Create` (the append) – `UpsertCreated` or `UpsertFails` –
`QueueBrainOutbox`.  Mutation: `ReadAndApply` – `AppendCAS` or
`AppendConflict` – `MirrorMutation` or `MirrorFails`.  Doctor: `Begin` (lock and
outbox list) – for each entry `ReplayRead`, `ReplayUpsert`, `DeleteEntry` or
`ReplayFails` – `DrainDone` – `ReadFold` – `CollectionUUIDs` – `RepairRecord` or
`RepairFails` for each record – `DoctorReports`.  `AuthorCrash`, `JanitorCrash`
and `RetryTorn` are kills.

Abstractions, and why they are sound:

* A payload is the set of edits it contains and its version.  A mutation writes
  all fields of the payload it read, so what distinguishes two payloads is which
  mutations they include.  `SetPayload` merges; since every mutation
  payload rewrites the create's keys and `updated_at`, merging one over another
  replaces it.
* The file is kept per uuid: no reader relates positions of different uuids.
  One kind (one file, one collection) is modelled; kinds share only the lock.
* A uuid is created once (it is random, or derived from a fresh number: `SeqAlloc`).
* A pass without a store client behaves like one in which every store call fails.
* Readers do not take the flock: a read of the file is one step, and a torn tail
  that a reader may see is skipped by it like a line not yet written.
* A lock that is busy makes a janitor give up, which changes nothing; the lock and
  the first read under it are one step, because nothing another process does can
  depend on the moment in between.

Properties:

* `VersionChain`, `OneEditPerLine`: the history of each record is a chain in which each
  line has the next version and exactly one more edit – no lost update.
* `StoreReflectsLog`: JSONL first – no payload reaches the store uncommitted.
* `MissingIsTracked`: a committed create that the store lacks is being
  created, is in the outbox, or was hit by one of the faults that destroy the
  trail (a kill before the outbox write, a failed outbox write, a torn retry
  counter).
* `ReportIsTrue`: "All stores consistent." is true if no writer moved meanwhile.
* `HealKeepsPayload`: a heal that no writer disturbs changes the vector only.
* `QueuedIsReplayed`: liveness of the outbox by session-start alone.
* `ImplementsRegister`: refinement of `VersionedRecord`.

### TaskClaims

| variable | code |
|---|---|
| `task` | the task's row in `points`: status, owner, `claimed_at`, `lease_until`, `task_version`, the text of its status, the review, the degraded marker |
| `log` | `tasks.jsonl` and `task-events.jsonl`, as the `taskProjection` that `foldTaskEvents` makes of them |
| `queued` | whether `.gg/outbox/` holds the task's create |
| `proc[p]` | a process: its position, the command it runs, the task it has read and when, and for a reconcile the fold it has read and the repairs it has left |
| `now` | the clock that leases are compared with |
| `budget` | a bound on commands and kills together |
| `told[o]` | auxiliary: until when agent `o` was last told that it holds the task |

Every command has the shape of `StartTask`: `Begin` (`GetTask` and the reasons
to refuse) – `WriteMatches` or `WriteMisses` (`SetPayload` with a filter on id,
status, `task_version` and, for the claim commands, the owner) – `ReadBack` or
`ReadBackFails` (`GetTask` again) – `AppendTaskEvent`.  A cancel deletes by id
between the read and the event.  What differs between start, unblock, renew,
release, done, blocked, ready-for-live and review is in `Legal`, `Payload`,
`Confirmed` and `Fold`, one conjunct or case each.

`gg reconcile --apply` reads in three steps, events, creates and store
(`ReadEvents`, `ReadCreates`, `Scroll`), and then applies each drift in a step
of its own, two for a missing task (`ReplayMissing`, `ProjectReplayed`), a
cancelled one (`CancelProjected`, then `Delete` and `AppendTaskEvent`, since it
calls `CancelTask`) and a stale lease (`ReleaseStale`, then
`AppendTaskEvent`).  It takes no lock.  The replays of the doctor and of
session-start and the healing of a search (`DrainRead` … `HealUpsert`) exclude each other.

Abstractions, and why they are sound:

* One task: filters and point ids name one task, and the fold keeps tasks apart.
* Who reads the two logs needs the create line, which never changes (replays, the
  doctor), or the fold of all events from the left (reconcile), so the fold of what
  is there stands for the lines.
* Time is in ticks and a clock is shared: the processes run on one machine.
* The texts (summary, reason, plan) are one field, the one that goes with the
  status; two different texts are enough to tell a command's write from another's.
* A store call that fails, or an event that cannot be appended, ends a
  command where a kill would.
* Tasks from before `task_version` existed (version 0, whose filter has no version) are not modelled.

Properties:

* `ExclusiveClaim`: two agents are never both told that they hold the task.
* `ClaimIsStored`: what a holder was told is what the store has.
* `ImplementsLifecycle`: every behaviour is one of `TaskLifecycle`, where a command reads,
  decides and writes in one step, on the task and by the clock of that moment, and counts
  the version up (`VersionAdvances`, which the refinement implies).  The four steps, the
  filter, the logs and the processes are hidden; what a command reads and then does not
  write is a stutter, its read-back is the step `Tell`.
* `NeverOrphaned`: owner and lease come and go together, everywhere, whatever repairs run.
* `ReconcileSettles`: repeated reconciles bring store and log together for good.

The first three hold while no repair runs, and that is how they are checked and
proved: repairs write by id, and break them (section 5).

### TaskGates

`TaskClaims` asks who may write a task; `TaskGates` asks what `gg task done` and its
companions check before they write at all.

| variable | code |
|---|---|
| `task` | the fields the gates look at: status, `task_version`, review verdict, the role and the agent of the last hand-off |
| `unread[k][r]` | who has yet to read a message to role `r`, about this task or not |
| `file` | `<runtime>/state.json`: when the task was last read in full, how many audit entries there are |
| `run[p]` | a command: its position, the task and the file it has read, the version at its hand-off check |
| `now` | the clock the proof of reading expires by |
| `skips` | auxiliary: audit entries that were appended |

`done` passes `Begin` (the lifecycle gate on the caller's role) – `HooksPass` –
`CheckProof` – `CheckInbox` – `CheckHandoff` – `ReadTask` – `WriteTask`; the
others enter at `FirstGate`.  `BeginSkipping` is the same with enforcement off:
one audit entry per skipped gate (`LockState`, `SaveEntry`), then the transition.
`gg task get --full` writes the proof through the same file (`LockState`,
`SaveProof`).  Messages arrive (`Tell`), are read (`ReadInbox`) and become too old
(`AgeOut`).

Faithful to details one would not guess: any agent's full read counts for the
project; done → blocked is allowed; the inbox gate fails open (`InboxDown`); the
transition's broadcast is addressed to "all" and stands before no gate.

* `SeparatedClose`: who closes a task is neither the runtime nor the role that
  handed it off – unless it was written between the gate's read and the transition's.
* `AuditComplete`: side by side with other skips and reads, no audit entry is lost.
* `GatesOpen`: liveness – the refusals ask for a read, an inbox, a fresh proof, in
  an order an agent can only find by trying; trying comes to an end.

### Inbox

| variable | code |
|---|---|
| `log[m]` | the last line of message `m` in `messages.jsonl`: version, readers, archived, time |
| `point[m]` | its point, which may also carry the `read` mark of an anonymous reader |
| `collection` | the store has the collection of messages: a rebuild takes it away and creates it again |
| `lock` | the reconcile lock |
| `proc[p]` | a command: what it has fetched and has left, the lines it has read, the points a rebuild is to insert |
| `now` | the clock of `created_at` and `updated_at` |
| `told[m]` | auxiliary: the readers whose command has marked `m` |

Send: `Send` – `UpsertSent`.  Read: `Fetch`, then for each message `AlreadyRead` or
`AddReader` – `AppendCAS` or `AppendConflict` – `MirrorRead`; a reader without
an identity dismisses (`Dismiss`).  Archive: `ScrollStale` – `FoldOnce` –
`AppendArchived` for each, without the version guard – `MirrorArchived`.
Rebuild: `ScrollAll` – `MergeJSONL`, or `MergeUnreadable` if the JSONL cannot be read –
`Drop` (points and collection) – `Ensure` – `Insert` for each – `Rebuilt`, without a
lock.  Doctor, second phase: `Rescan` – `CollectionUUIDs`, or `UUIDsFail` (a scroll that fails
counts as an empty collection) – `ReplayMissing` or `SyncPayload` for each – `Rescanned`.
`SystemSync` is the part of `gg system sync` that creates a missing collection.  Without
one nothing can be scrolled: `gg inbox` fails, the doctor finds every message missing and
upserts it, into rows no scroll shows until there is a collection.  `StoreFails` and
`Crash` end any command.

Abstractions: readers want the last line only, so it stands for the file (the
archive may write a second line of the same version, and the last one counts); the
filters of `gg inbox` show any part of the unread list; a create that misses the
store waits for the doctor (its outbox entry is `BrainStore`'s matter).

* `MarkedStaysInLog`: a mark on a direct message, once confirmed, is in the log for good.
* `StoreBehindLog`: the store, or what a rebuild is about to insert, hides a direct
  message only from those the log hides it from.
* `RebuildKeepsMarks`: the merge of log and store by time loses no mark of the log.
* `InboxSettles`: with the doctor run again and again, and `gg system sync` where a rebuild
  was killed before it had created the collection again, the store comes to show every
  message and to hide what the log says is read.  The doctor alone does not do it (section 5).

The first three speak of direct messages: marks on broadcasts are lost to the
archive's unguarded append (section 5).

### SeqAlloc

`seq` is the counter file (0 for missing or empty), `lock` the flock on it, `log`
the create lines, `stored` the numbers of the points.  A create is `Lock` (and
the read) – `Bootstrap` from the store or `BootstrapOffline` from the log if there is no
counter – `Truncate` – `WriteSeq` (and unlock) – `AppendLine` – `UpsertPoint`.
Around it: repairs, cancels, an emptied store, a deleted counter, kills at any point.
The allocators of tasks, bugs and discussions are the same code three times; one is
modelled.

* `OneAllocator`, `CounterCovers`, `UniqueNumbers`: the lock excludes; the counter is
  ahead of every number in use; no two records share one.  All but the first
  hold until a bootstrap has missed a number in use (`blind`): the code asks the store
  whenever it is up, also if it is empty or behind the log.

### CodeIndex

| variable | code |
|---|---|
| `work`, `head` | the working tree, and the commit it was checked out from |
| `graph[f]` | what the nodes of file `f` in `graph.db` were made from: its content and its module |
| `state` | `index-state.json`: the commit and the fingerprint of the tree |
| `intent` | an index entry in `.gg/outbox/` |
| `lock` | `index.lock` and `index-watch.lock`: none, the one a process has created, or a killed one's – still empty, with a pid nobody has, with one that runs again, or (`index.lock`) with such a pid and past its 15 minutes |
| `proc[p]` | a run or a watcher: position, what was decided, files left, the tree that was scanned, the debouncer's change set, the breaker |
| `unsure` | auxiliary: one of the six exceptions has occurred |

Locks: `Look` or `Skip` at the watch lock, for a one-shot run then `LookIndex` or `SkipIndex` –
`RemoveStale` – `CreateLock` or `CreateLoses` – `StampLock` … `Release`.  `Held` is who is
heeded: `ReusePid` gives the pid in a left lock to another process, `FreePid` is that one's end,
and `Expire` the 15 minutes, which only `index.lock` has.  A git hook is `Hook`.  Decision: `PlanFull`, `PlanAdvance`, `PlanEmpty`,
`PlanChanged`, `NoModules`.  Run: `Invalidate` (incremental) – `WriteIntent` –
`SweepProjectLang` (full) – `Scan` – `Store` – `WriteState` – `CleanOutbox`.
Watcher: `TickQuiet`, `TickCoalesce`, `TickRun`, and the breaker in `Failed`.
User: `Edit`, `Checkout`.  `Fail`, `Cancel` and `Crash` cut a run short at any step; it goes on
after `IntentFails`, `SweepFails` and `StateFails`, which the code only warns about.

* `ReadyIsTrue`: when `gg index status` says ready, the graph is that of the
  tree, outside six exceptions, which are what the code does not guard against:
  the tree changed under a run; two runs overlapped; a sweep failed; a run was cut
  short before, or without, its outbox entry; the entry could not be written; a partial
  run swept another's entry.
* `HooksCatchUp`: liveness – with the git hooks firing again and again the state comes to be that
  of the tree, past kills, left locks and reused pids, although a run that meets a held lock
  just steps aside.  A watcher's lock has no age, so the statement leaves out a pid in
  it that runs for ever.
* `WatcherCatchesUp`: liveness – through the debouncer, the breaker and one-shot
  runs the watcher brings the state up to date.

One language is modelled; a branch without commits, errors of git and a lock whose `started_at`
cannot be parsed (written by an older `gg`, and judged by its pid alone) are not.  A run ends by its 10-minute
deadline, so a lock that is older than 15 minutes is nobody's who still runs.

### BrainSnapshot

| variable | code |
|---|---|
| `brain` | the directory `.gg/brain`: for each kind a file of lines, and the manifest with the checksums |
| `partial` | `.gg/brain.partial`, in which an export prepares the next one |
| `store`, `queued` | the points (version, zero vector or not), and the creates in the outbox |
| `proc[p]` | a command: position, the kind it works on, whether the file it has opened still has a name, what it has read or collected |
| `born`, `told`, `taken` | auxiliary: created kinds; versions a command called saved; what exports have collected |

Export: `StartExport` – `ExportBrainCollection` for each kind – `Prepare` –
`WriteFile` for each – `WriteManifest` – `Remove` – `Rename`, with `WriteFails`
and `Cleanup` when another export took the directory away.  Import:
`StartImport` (checksums) – `Drop` for each with `--wipe` – `ReadBrainJSONL` and
`UpsertBrainRecords` for each – `EmbedMissing` and `UpsertVector` for each.
Brain writes are `Create` or `Mutate` (the open) – `AppendLine` or `AppendConflict` –
`Mirror`, `MirrorFails`, `Queue`.  `Replay` and `Rescan` are the reconciler, one record
at a time.  A process that has opened a file keeps it when the directory is
removed (`Unlink`): its lines go to a file without a name.  `CrashInRemove` leaves
any part of the directory.

Abstractions: one record per kind; a line is its version and its form, since
appended lines have `uuid` where exported ones have `id`, and an import refuses a
line without one; the checksum of a file is the file; a file is written in one
step.  Not modelled: the copies of the code graph and of
`task-events.jsonl`, the scrubbing of secrets, the size of the collections, `--if-stale`,
writes of two exports into one file at the same time, a scroll that fails.

* `SnapshotIsOneExport`: a directory whose checksums are right is what a single
  export collected, although two exports prepare in one directory.
* `ImportsOnlyExports`: an import writes nothing but what an export collected,
  although the file may change after its checksum was compared.
* `RoundTrips`: from whatever exports, imports, writes, failures and kills have left, exporting and
  importing again and again leads to an intact snapshot that equals the store.
* `ConfirmedSurvives` (refuted): a record a command called saved is somewhere.

### EmbedSpace

| variable | code |
|---|---|
| `config` | `embedding.model` in `.gg/config.yaml` |
| `meta` | `.gg/embedding-meta.json`, the model and dimension of the corpus |
| `point[r]` | the vector of record `r` by the model that made it, a zero vector or none, and its degraded marker |
| `logged`, `queued` | records with a line in `.gg/brain`, with an entry in `.gg/outbox` |
| `proc[p]` | a command: its position, the model and dimension it has resolved, the meta it resolved them against, whether `CheckMeta` has passed, what is left to do |
| `disturbed` | auxiliary: rebuilds that another writer has run beside |
| `unsure` | auxiliary: one of the named exceptions has struck since the last clean rebuild |

A command starts with `Resolve` (`resolveEmbedding`: meta beats config, the override beats
both) or, in the MCP server and the dashboard, `ResolveUnaligned`; then `CheckMeta`,
`Refuse` (`ErrModelMismatch`) or `FirstRun` – `StampMeta`.  A write is `Append` – `Upsert`,
or `AppendUnembedded` if there is no vector; a search `Query` – `HealScan` – `HealPoint` for each
degraded point.  `Replay` is the drain or the doctor.  Rebuild: `Probe` – `ScanAll` – `Drop` –
`Fill` or `FillSkips` for each – `Filled` – `WriteMeta` – `UpdateConfig`.  Import: `StartImport` –
`Size` – `Wipe` – `Restamp` – `Seed` – `MatchManifest` – `EmbedMissing` for each.  `EditConfig` is
a person; `WriteFails`, `RestampFails`, `FillAborts`, `QueryFails` and `Crash` are what goes wrong.

Abstractions: a vector is the model it came from, since all that matters is whether
two may be compared; models may have vectors of one length, so a dimension does not identify them.
`resolveEmbedding` reads meta twice before `CheckMeta` reads it again; the first two are one step,
since `CheckMeta` refuses what a change in between has done.

* `OneSpace`: the store has vectors of the model meta names – outside a migration and the
  exceptions, which the code does not guard against.
* `ComparesLikeWithLike`: whoever searches compares with vectors of the query's own model.
* `DriftIsHarmless`: a config that has drifted from meta stops no record and no search.
* `ReembedSettles`: liveness – whatever happened before, rebuilds one at a time make config, meta
  and vectors agree for good.

### LspClient

| variable | code |
|---|---|
| `pc`, `outcome` | where `Query` is, and what it will return |
| `nextID` | the counter of `Client` |
| `readers`, `got` | the goroutines of `call` that are still in `awaitResponse`, and what each has put in its channel |
| `ctx` | the context of 15 s |
| `server`, `helper` | the child process, and what it has started that keeps its stderr open |
| `stdin`, `stdout` | the two pipes |
| `asked`, `opened` | the server: requests it has not answered, whether it has the file |
| `spoiled` | auxiliary: there was a reason to fail |

`Then` and `Else` are the control flow of `Query`, `Dial` and `Close`: where it goes on
after a success and after an error.  `Write` is the write of `call` and `notify`, and starts the goroutine;
`Receive` and `TimesOut` are the two cases of the select; `Kill` – `Reap` is `kill`.  `Read`,
`ReadEnds`, `Tear` are a goroutine, `CtxEnds` and `CtxKills` the context and
`exec.CommandContext`.  The server is external and may do anything with its pipes.  Two goroutines on one
buffered reader are a data race, so their outcomes are a choice: a message lost, garbage, or a panic.

* `OwnAnswer`: what is printed is the answer to the question, given with the file open – or a
  request of the server's that carries the same id.
* `FailsForAReason`: notifications, requests and late answers make no query fail.
* `CommandEnds`: liveness – whatever the server does, the command ends and neither server nor
  goroutine outlives it, if the server's helpers let go of stderr.  A panic of the two
  goroutines counts as an end; the server is not waited for then.

## 3. Runs

| run | question | instance |
|---|---|---|
| `brain_safety` | the safety properties of BrainStore, `IInv`, the refinement | 2 records, 2 authors, 2 janitors, 1 mutation each, every origin, job, fault; symmetry |
| `brain_live` | `QueuedIsReplayed` under `FairSpec`; `ReportIsTrue` | 1 fresh record, 2 authors with 1 mutation, 2 janitors, every fault |
| `claim_safety` | `ExclusiveClaim`, `ClaimIsStored`, `ClaimInv` and the refinement of `TaskLifecycle` | 2 processes, 2 agents, 2 texts, leases of 1 and 2 ticks, 3 ticks, 3 commands or kills of every kind, no repair; symmetry |
| `claim_repairs` | `NeverOrphaned`; `ReconcileSettles` under `FairSpec` | 2 processes, 1 agent, 2 ticks, start, release and cancel, every repair and fault, 2 commands or kills; reconciles without bound |
| `gates` | `SeparatedClose`, `AuditComplete`, `GatesOpen` | an implementer, and a reviewer who may switch enforcement off; 2 ticks, proofs good for their own tick, 2 changes, messages or faults beside any number of `done` and reads |
| `inbox` | the four properties of Inbox | a direct message and a broadcast, 2 readers and an anonymous one, 2 processes, 2 points in time, 4 commands or faults; doctors and syncs without bound |
| `numbers` | `CounterCovers`, `UniqueNumbers` | 3 processes, 4 creates, the number 2 in use before, every fault; symmetry |
| `index` | `ReadyIsTrue`, `IndexInv`; `HooksCatchUp`, `WatcherCatchesUp` under `FairSpec` | a process that hooks start without bound, and one started by hand; 2 source files with 2 contents and a manifest; a commit, its child without one of the files, and one of another line without a module; a breaker that opens after 2 failures, 2 edits, commands by hand or faults |
| `snapshot` | `SnapshotIsOneExport`, `ImportsOnlyExports`, `RoundTrips` | 2 processes, one of which exports and imports again and again; 2 kinds, 2 versions, 3 commands, failures or kills |
| `snapshot_loses` | `ConfirmedSurvives`, refuted | the same, with what runs by itself in a session and a failing store |
| `embedding` | `OneSpace`, `ComparesLikeWithLike`; `DriftIsHarmless`, `ReembedSettles` under `FairSpec` | 2 processes, 1 record, 3 models, two of one length; one that may be an override; every command and fault, 2 commands, edits or faults; rebuilds without bound |
| `lsp` | `LspInv`, `OwnAnswer`; `FailsForAReason`, `CommandEnds` under `FairSpec` | one command, pipes of 2 messages, a server with ids of its own that clash with the client's; nothing else is bounded |

The `TypeOK` of EmbedSpace is an invariant of its run, those of BrainStore and LspClient are
parts of `IInv` and `LspInv`; for every module it is a theorem (section 4).

Why the bounds are enough.  *Brain*: a lost update, a late mirror or a stale heal needs
two writers, or a writer and a janitor, on one record; the second record shows that a
pass keeps its per-record bookkeeping apart.  A second mutation by the same writer adds
nothing that a second writer does not.  *Claims*: a claim that is lost needs two
agents, a stale write two processes; a third command lets a claim be renewed, released
or finished while another is between its read and its write; `MaxTime` lets every lease
run out during a command.  *Gates*: separation is between two runtimes and two roles; a
proof that expires at the next tick is the shortest, and the one that closes most gates.
*Inbox*: a send, two reads and an archive or rebuild of one message make
every pair of writers meet; the broadcast is there because the archive touches nothing
else; two points in time decide the merge both ways.  *Numbers*: three processes let a
number be pending while another bootstraps and a third allocates.  *Index*: two files
tell a partial run from a full one; the child that lacks one of them makes a switch remove nodes as well as
change them, the commit of another line takes the base away, and its missing module makes runs fail as
often as it takes.  Two events are enough since the hooks' runs are not counted: a kill and a reuse of
its pid, an edit and its revert, a start of a watcher and a fault.  *Snapshot*: a mixed snapshot needs two exports and two kinds; two versions
tell a record from its mutation.  *Embedding*: two models of one length are told apart by name only, the
third makes vectors of a wrong length; a search beside a migration, or an import after an
edit, needs two processes; records do not meet, and one more of them or a third event, tried apart from
these runs, showed nothing new.  *LSP*: a pipe of two is full after two writes without a read, as a
real one is after a large file; three calls are all there are.

`Budget` in each module but BrainStore and LspClient bounds the commands that are started and the faults that
strike, never the steps of a command nor the repairs; `MaxEdits` the mutations a writer
starts; `MaxVersion` the versions of a record; `MaxTime` the clock.  Deadlock is not checked: when commands are spent the system may stop.

**Fairness.**
*BrainStore*: a pass that has begun keeps running (weak fairness of its steps);
`session-start` runs whenever an agent opens a shell, so its `Begin` is strongly fair
although others hold the lock at times; no single step of a replay is cut off for ever by
the 3 s limit, the store or a kill (strong fairness of `ReplayRead`, `ReplayUpsert`,
`DeleteEntry`).  Nothing is assumed of authors, of the doctor or of healing.
*TaskClaims*: a process takes its next step unless it is killed (`WF` of `Step`), the clock goes on
(`WF` of `Tick`), and somebody runs `gg reconcile --apply` again and again (`WF` of `ReadEvents`):
the statement is about what repeated reconciles achieve.
*Inbox*: a command that has started goes on (`WF` of `Continue`), and some process runs
the doctor again and again (`WF` of `\E p : Rescan(p)`), and `gg system sync` for as long as the
collection is missing (`WF` of `\E p : SystemSync(p)`): `gg inbox` fails until somebody does.
*CodeIndex*: processes are scheduled, and window and cooldown pass (`WF` of
`Continue`); the 15 minutes pass (`WF` of `Expire`); and there is always another git operation
whose hook runs (`WF` of `\E p : Hook(p)`), which is what a run that skips counts on ("the graph refreshes
on the next git op", `index.go:123`).  No edit, no command by hand and no watcher is ever required, nor
that a process with a reused pid ends.
*TaskGates*: a command goes on (`WF` of `Step`) and gets the file lock in the end
(`SF` of `LockState`: the file lock is waited for, and held briefly); and agents that may close do what
the refusals ask for again and again (`SF` of `ReadInbox`, `ReadInFull`, `TryDone`) – that
these three efforts, in no order, suffice is what the property says.
*BrainSnapshot*: a process takes its next step (`WF` of `Step`); the keepers export,
as every session-start does, and import as often (`SF` of `StartExport`, `StartImport`):
`RoundTrips` is about what a user who exports and imports again achieves.
*EmbedSpace*: commands go on, or fail (`WF` of `Continue \/ GoesWrong`), dashboards are closed, and
somebody runs `gg reembed`, without an override, again and again, as every message about a mismatch asks for (`SF` of `Probe`);
`ReembedSettles` is stated for rebuilds that in the end run one at a time.
*LspClient*: the command and its goroutines are scheduled, the timeout strikes, and the kill by
`exec.CommandContext` follows (`WF` of each); nothing is assumed of the server.
Commands and faults are bounded in all of these but the last, so the liveness properties say that
things come to rest once commands and faults do, not under a load that never pauses.

## 4. Proofs

The theorems hold for every value of the constants: any number of processes,
records, agents, kinds, any bounds.  The only assumptions are those the modules name
(`ConstantsOK`, `AllocConstantsOK`, `GatesOK`, `MissingIsNoFile`), which TLC evaluates in each run,
for five theorems about claims `Repairs = {}`, and for the doctor's report
`Origins \subseteq {"fresh"}`.

`BrainStore_proofs`: `TypeCorrect`, `LogIntegrity`, `VersionsCount`,
`StoreHoldsCommitted`, `NoSilentGap`, `HealIsTransparent`, `Refinement`, all from
`Invariance == Spec => []IInv`.  The invariants are not inductive alone: each speaks of
the files, and the steps write what a process read some steps before.  `IInv` adds what
processes remember.  `AuthorValid`: what an author is about to append extends a line
that is, or was, in the history, by its own next edit (`ReadValid`, `EditIsNew`), so a
matching version means that it extends the last line; what it is about to mirror is a line
of the history.  `PassValid`: the payloads a pass has read are lines of the history.
`EditsStarted` and `FirstVersion` make an edit new and tie versions to positions.
`QueuedIsLogged` makes the first line of an entry's record exist.  `DegradedIsStored`,
`PassHoldsLock` and `HealIsFresh` say that the one pass that may heal holds the lock and
has seen what the store holds.  The proof goes action by action, grouped by the variables
an action touches.  `ReportHolds` (`ReportIsTrue`, for records this program created) is proved from
`FreshInv`: a history begins with a create (`CreatedHere`), so a folded line of version 1 is the
only line and a point that exists shows it, which is why phase 2 may skip it; and until an
author moves, what a pass has still to visit is folded as it was read, and what it has visited
is repaired or counted as failed (`ScanIsCurrent`).  With unversioned records the report can be
false (section 5).

`TaskClaims_proofs`:

* `TypeCorrect` and `LeaseHasOwner` with every repair and fault.  `TypeOK` needs
  `RepairsWellFormed` (a reconcile writes only statuses a task can have), and
  `NeverOrphaned` needs `RenewerOwns` (a renewal sets a lease and no owner, so its
  writer must be the owner it has read).
* `ClaimInvariance`, `ClaimsExclusive`, `ClaimsAreStored`, `WritesAdvance` and
  `CommandsAreAtomic` under `Repairs = {}`.  `ClaimInv` adds to `ExclusiveClaim` and `ClaimIsStored` what
  makes them inductive: `VersionIdentifies` (a writer that sees its version in the
  store sees the very task it has read, so the filter makes read, decision and write one
  step), `StillLegal` (what was legal when read is legal when written: a lease can only
  have run out meanwhile) and `CreatorIsAlone`, `NothingBefore` (nobody has read the
  task before its point is there).  `MatchedTask` is the heart of it: where a filter
  matches, nobody else holds the task.  The assumption is needed: a reconcile
  writes by id (section 5).
* `CommandsAreAtomic` (`ImplementsLifecycle`) maps step to step.  A write that matches is the
  whole command of `TaskLifecycle` (`LifecycleWrite`): by `MatchedTask` the task is still the one
  that was read, by `StillLegal` it still may be changed so, and by `AtWork` the command looked at
  the clock no later than now.  A read-back that confirms is a `Tell`, since `Confirmed` compares the
  lease; the other steps stutter, `expected` being read from the log and the creator's position.

`SeqAllocAndLsp_proofs`, first part: `AllocTypeCorrect`, `LockExcludes`, `CounterIsAhead`, `NumbersUnique`.
The three invariants are inductive together: inside the lock the counter and the number on
its way to it are ahead of all numbers in use (`CounterCovers`), which makes a number
new when it leaves the lock, and outside the lock numbers are only used, never made.

`TaskGates_proofs`: `TypeCorrect`, `AuditIsComplete`, `CloserIsSeparate`, from
`Invariance`.  `LockHeld`: at most one process holds the file lock, and what it
has read is what the file still has, so its rewrite loses nothing.
`CheckedHolds`: what the hand-off gate found remains true as long as the task has
the version it was found at, so a write that matches that version writes a task that passes the gate.

`BrainSnapshot_proofs`: `TypeCorrect`, `SnapshotsAreExports`, `ImportsAreExports`, from
an invariant of five parts.  `ManifestsAreExports`: a manifest is made of what its own
export has collected, so files that match it are that export's, whoever wrote them.
`FilesAreExports`: a file all of whose lines have an id was written by an export, or is new – an
appended line disqualifies it for good (`AppendKeepsFile`).  `HeldIsExported`
carries this to what an import has read.  `Named` says that who has opened a file that
still has a name sees it, and that a directory that is gone has no files; without it
the append would not be typed.

`Inbox_proofs`: `TypeCorrect`, `MarksAreKept`, `StoreNeverAhead`, `RebuildIsComplete`,
from one invariant.  `Sound` says what a process remembers of a direct message: a line it
has read, or a point it has copied, is behind the log (`LineBehind`, `PointBehind`), and a
line it is about to append extends the log if the version it saw is still the last
(`Extends`).  The log of a direct message only grows (`Grown`): `AppendCAS` is guarded, and
the archive, which is not, appends to broadcasts only.  `PointBehind` compares the stamps
as well as the readers: that is what makes the rebuild, which compares
stamps, right about the readers.

`CodeIndex_proofs`: `TypeCorrect`, `Invariance`, `ReadyIsRight`, `SkipsAreJustified`, from
`IndexInv`.  `HoldersOK` ties a lock file that names a process to the process: it has created
it and has not released it, which is what `SkipsAreJustified` needs: a run steps aside at the file
of a process that is past this very lock, or at one whose pid the system has given away, and at no other.
`RunsOK` says, for as long as the state is sure, that at most one
run touches the graph, what the graph is at each point of it (`Renewing`: which files'
nodes are missing, the others being those of the tree; `BuildsOnGood`: an incremental
run can only be trusted as far as what it builds on), and that between runs the graph is
that of the recorded tree or an entry tells that it may not be (`Current`).
`CutShort` is the heart of it: whatever ends a run early, it has left its entry or has
touched nothing – or it is one of the exceptions.  `DeltaSuffices` is why an incremental
run may leave the other files alone.

`EmbedSpace_proofs`: `TypeCorrect`, `StoreIsOneSpace`, `QueriesMatch`, `DriftStopsNobody`, from
`Inv`.  `ProcsOK` says what a process remembers: a dimension that is that of its model or was
checked against a meta, a basis that meta once was.  `AloneOK` is a rebuild beside which nobody has
written: no other writer is there, and all vectors are its own, so the meta it is about to write
is true whatever was there before – that is why a rebuild may end `unsure`.  `SpaceOK` and
`WritersOK` hold while the state is sure: every vector is of meta's model or of a
rebuild under way, and a command that may still write holds meta's model, so its write
keeps the space one.

`SeqAllocAndLsp_proofs`, second part (the two share nothing; SeqAlloc names its own
`AllocInit`, `AllocNext`, ..., so that one module can extend both): `LspInvariance`, `LspTypeCorrect`,
`AnswersAreOwn`, `FailuresHaveReasons`, from `LspInv`.  An answer is matched by its id alone, and
`RequestsPlaced` and `GoroutinesOK` say why that is enough: which ids the calls of each method can have
got, in the pipes, in the server and in goroutines that were left behind.  A `shutdown` may have
the question's id, but only when the question was given up (`GivenUp`), and then nobody prints.
`FileFirst` keeps the `didOpen` ahead of the question through the pipe, the server and the reply.
`ErrorsExplained` holds since two goroutines never read at once while there is time
(`AloneInTime`): only a timeout leaves one behind, so the rubbish two of them make
of the stream comes after it.

Only model-checked: all liveness properties (fairness and ENABLED are beyond the prover).  There are no recursive operators: folds
of files are kept as their results, so nothing rests on induction over data.

## 5. What the code refutes

One statement is refuted by a run, and is an entry of `findings`:

* `ConfirmedSurvives` (`snapshot_loses`): an export replaces the log by a scroll of
  the store.  A create whose store write failed – "saved to JSONL" – is only in the log,
  and gone after the next session-start (`brain_export.go:201`; `docs/offline-resilience.md:37`
  says entries are never deleted).

The models show more of the kind.  These have no run of their own; where a property had
to leave one out, its comment says so:

* the replay of a queued create writes the create-time payload over a later one (`doctor_reconcile.go:296`);
* mirrors of two mutations may land in the wrong order (`mutations.go:183`), and a mirror
  that fails is queued nowhere (`mutations.go:189`): the point is stale until a doctor runs;
* the first mutation of an unversioned record gets version 1, and the doctor, which
  syncs versions above 1, never repairs its point (`doctor_reconcile.go:196`), so
  `ReportIsTrue` is stated for versioned records;
* a scroll that fails counts as an empty collection, so healthy vectors are overwritten
  with zero vectors (`doctor_reconcile.go:177`);
* a reconcile that meets a claim before its event is appended resets it, and a second
  agent can start the task (`reconcile.go:313`): `ExclusiveClaim` does not survive it;
* the doctor puts a cancelled task back as pending (`doctor_reconcile.go:212`);
* the read-back of a write that succeeded finds the next command's write, and the event
  is never logged (`task_claims.go:153`);
* healing writes back a task as it was before it was claimed (`heal.go:79`);
* the archive appends without the version guard (`messages.go:286`): an ack of a broadcast
  made meanwhile is overwritten, and one made on an older line brings a broadcast back;
* a rebuild killed between drop and create (`reembed.go:161`, `166`) leaves no collection of
  messages: `gg inbox` fails (`inbox.go:108`), and each doctor replays every message
  (`doctor_reconcile.go:177`) into rows no scroll shows, until `gg system sync`, `gg init`, an import
  or another rebuild creates the collection;
* dismissals of anonymous readers are in the store only (`messages.go:315`), and a rebuild undoes them;
* a bootstrap of a counter from an empty store gives out numbers that the log has (`taskseq.go:59`);
* verifier separation is checked on one read of the task and acted on after another
  (`task_status.go:154`, `170`): a hand-off in between is closed by its own author;
* two runs that find the same stale lock can both take it (`index_lock.go:57`), and a
  watcher does not look at `index.lock` (`index_watch.go:318`): two indexers run at once;
* the lock of a killed run whose pid was given to another process holds hooks off for 15
  minutes (`index_lock.go:17`), that of a killed watcher as long as that process runs (`index_lock.go:46`);
* an incremental run removes nodes before its outbox entry is written (`index.go:353`,
  although `index.go:362` says "Record intent before Memgraph writes"), and one that finishes deletes the
  entry of a full run that was killed (`index.go:440`);
* a watcher whose last manifest is gone runs the full index and fails, for ever;
* a migration that is killed before its meta, or cannot write it, leaves the old meta over new
  vectors (`reembed.go:111`–`119`), and later commands embed with the old model, although "a
  query MUST be embedded with the same model as the stored vectors" (`backend.go:109`); one beside a
  writer mixes two models;
* an import stamps meta with the model of `config.yaml`, which may have drifted from it
  (`brain_import.go:202`); `docs/brain-export.md:111` says that an import must abort if the
  configured model differs from the manifest's, and the code compares meta (`brain_import.go:55`);
* two first runs with different models both find no meta, and the later stamps over the
  earlier (`meta.go:82`); the dashboard stamps the fallback dimension if the model does not answer then;
* the dashboard resolves its model once and keeps it, or its error, through a rebuild
  (`serve.go:221`–`225`); MCP and dashboard do not align a drifted config as the commands do;
* `awaitResponse` does not look at the method of a message (`client.go:231`–`257`, whose comment
  says that it does): a request of the server with the question's id is an empty answer;
* after a question that timed out two goroutines read one buffer (`client.go:218`), and a helper of the
  server that keeps its stderr makes the command wait without end (`client.go:183`), although "no server, goroutine,
  or process outlives this call" (`query.go:35`).

## 6. Not modelled, and why

* **Discussions**: no command calls `OpenDiscussion`, `AppendTurn`, `ResolveDiscussion`
  or `DismissDiscussion`; only tests do.
* **Notes and rejections**: created and never changed – the create path of `BrainStore`.
* **Canon and dedup**: heuristics over scores; what they end in are mutations.  Canon
  keeps its own `canon.jsonl`, outside `brain/` because an export would remove it.
* **Session state and caches** (`internal/session`, `internal/cache`): single files,
  replaced by a rename, read for advice.  The one file decisions depend on, `state.json`, is in `TaskGates`.
* **Configuration and registry**: one file changed under one lock.
* **Search, ranking, graph queries**: functions of what they read.
* **Embedding**: the requests to Ollama and Voyage (a failing call in the models), the Voyage backend's
  own names for models, metas without a dimension, messages, whose zero vectors are meant, `GG_NO_HEAL`,
  records without text.
* Inside `EmbedSpace`: the start of an import from an unreadable meta; the hard-coded
  `VectorSize` of the placeholder record (`brain_import.go:60`); and dropping and creating the
  collections is one step there, since the rebuild that follows a kill in between creates them itself.
* Inside `LspClient`: a server that closes its own stdin or stdout and lives on.
* **LSP**: which server a file gets, the conversion of columns, the decoding of results: functions of their input.
* **MCP, dashboard**: tools and pages other than the search.
* **Hooks, templates, identity, telemetry**: output, without state that the modelled parts read back.
* Inside modelled parts: torn and malformed JSONL lines and the 1 MiB limit; retries within one
  SQLite call; tasks without a `task_version`; the environment switches that skip a single gate and the
  content of a rationale (`AppendBypass` and `RecordHydration` also start from an empty state
  when `state.json` cannot be read); `lock_other.go`, which locks nothing on systems that are neither
  unix nor windows; what is named under each module above.

Most of the repository's lines are commands that parse flags and print, the
parsers and queries of the code graph, templates and installers.  The map
therefore covers a small share of the lines, and nearly all of the code that changes
shared state under `.gg/`.
