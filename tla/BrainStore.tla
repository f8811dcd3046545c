------------------------------ MODULE BrainStore ------------------------------
(***************************************************************************)
(* The durable brain of one project: bugs and decisions, as                *)
(* internal/brain and internal/store write them.  Every gg command is a    *)
(* process of its own; the processes share                                 *)
(*                                                                         *)
(*   jsonl   .gg/brain/<kind>.jsonl, appended to under flock;              *)
(*   point   the embedded SQLite vector store, a mirror of the JSONL;      *)
(*   outbox  .gg/outbox/, the creates whose mirror write failed;           *)
(*   lock    .gg/brain/.reconcile.lock, held with flock.                   *)
(*                                                                         *)
(* An author runs commands that create or mutate a record.  A janitor runs *)
(* `gg doctor --reconcile' ("doctor"), the outbox drain of session-start   *)
(* ("auto") or the vector repair that follows a search ("heal").           *)
(*                                                                         *)
(* Each step below is what one process does between two points where       *)
(* another process may run: one flock-protected append, one SQLite         *)
(* transaction, one read of a file, one file created or removed.           *)
(*                                                                         *)
(* A payload is the set of edits applied to the record and its "version"   *)
(* field; the edit texts do not matter.  The file is kept per record: no   *)
(* reader of the code relates the positions of different uuids.            *)
(***************************************************************************)
EXTENDS Integers, Sequences, FiniteSets

CONSTANTS
    Records,    \* uuids
    Authors,    \* processes that create and mutate
    Janitors,   \* processes that reconcile or heal
    NoOne,      \* the holder of a lock nobody holds
    NoRecord,   \* the record of a process that works on none
    MaxEdits,   \* bound: mutations an author may start
    Origins,    \* how a record may have come about, a subset of AllOrigins
    Jobs,       \* what janitors run, a subset of AllJobs
    Faults      \* what may go wrong, a subset of AllFaults

\* "fresh": not created yet.  "unversioned": JSONL and store hold a record
\* written before the version field.  "store_only": it predates the JSONL.
AllOrigins == {"fresh", "unversioned", "store_only"}
AllJobs    == {"doctor", "auto", "heal"}

\* "store": a vector-store call fails (or no embedding is available);
\* "outbox": the outbox file cannot be written; "crash": a process is killed.
AllFaults  == {"store", "outbox", "crash"}

ASSUME ConstantsOK ==
    /\ MaxEdits \in Nat
    /\ Origins \subseteq AllOrigins
    /\ Jobs \subseteq AllJobs
    /\ Faults \subseteq AllFaults
    /\ NoOne \notin Janitors
    /\ NoRecord \notin Records

VARIABLES
    jsonl,      \* jsonl[r]: the lines of record r, oldest first
    point,      \* point[r]: the vector-store point of r
    outbox,     \* records with a pending outbox entry
    lock,       \* holder of the reconcile lock, or NoOne
    author,     \* author[a]: the command a is running
    janitor,    \* janitor[j]: the pass j is running
    edits,      \* edits[a]: mutations a has started
    orphaned,   \* auxiliary: creates whose repair trail a fault destroyed
    quiet       \* auxiliary: no author has moved since the pass began

vars == <<jsonl, point, outbox, lock, author, janitor, edits, orphaned, quiet>>

--------------------------------------------------------------------------------
(* Data *)

Edit  == Authors \X (1..MaxEdits)
Line  == [version : Nat, edits : SUBSET Edit]
Blank == [version |-> 0, edits |-> {}]       \* a payload with no version field
Point == [present : BOOLEAN, line : Line, degraded : BOOLEAN]

NoPoint          == [present |-> FALSE, line |-> Blank, degraded |-> FALSE]
StoredPoint(l)   == [present |-> TRUE, line |-> l, degraded |-> FALSE]
ZeroVectorPoint(l) == [present |-> TRUE, line |-> l, degraded |-> TRUE]

AuthorPC  == {"idle", "upsert", "queue", "append", "mirror"}
JanitorPC == {"idle", "drain", "replay", "delete", "fold", "uuids", "scan", "heal"}

Idle == [pc |-> "idle", rec |-> NoRecord, line |-> Blank]
Rest == [pc |-> "idle", job |-> "none", rec |-> NoRecord, todo |-> {},
         seen |-> [r \in Records |-> Blank], present |-> {}, failed |-> FALSE]

Command == [pc : AuthorPC, rec : Records \union {NoRecord}, line : Line]
Pass    == [pc : JanitorPC, job : AllJobs \union {"none"},
            rec : Records \union {NoRecord},      \* the entry being replayed
            todo : SUBSET Records,                \* what is still to be done
            seen : [Records -> Line],             \* the payloads it has read
            present : SUBSET Records,             \* the points it has found
            failed : BOOLEAN]                     \* whether any step has failed

TypeOK ==
    /\ jsonl \in [Records -> Seq(Line)]
    /\ point \in [Records -> Point]
    /\ outbox \in SUBSET Records
    /\ lock \in Janitors \union {NoOne}
    /\ author \in [Authors -> Command]
    /\ janitor \in [Janitors -> Pass]
    /\ edits \in [Authors -> 0..MaxEdits]
    /\ orphaned \in SUBSET Records
    /\ quiet \in BOOLEAN

--------------------------------------------------------------------------------
(* Reading the JSONL *)

Logged(r)     == jsonl[r] # <<>>
FoldLatest(r) == jsonl[r][Len(jsonl[r])]     \* last write wins
FirstLine(r)  == jsonl[r][1]                 \* the create-time payload

\* A lookup that stops at the first line of the record, not at its last.
LatestVersion_FirstMatch(r) == IF Logged(r) THEN FirstLine(r).version ELSE 0

\* latestVersionLocked: the version of the last line, 0 when there is none.
LatestVersion(r) == IF Logged(r) THEN FoldLatest(r).version ELSE 0

\* currentBrainPayload: the fold of the JSONL, or the stored point of a record
\* that has no line there.
Current(r) ==
    IF Logged(r)
    THEN [present |-> TRUE, line |-> FoldLatest(r)]
    ELSE [present |-> point[r].present, line |-> point[r].line]

(* Writing the vector store *)

\* SetPayload by id merges the payload and keeps the vector; a point that is
\* not there is skipped without an error.  Mutations rewrite the keys a create
\* writes and stamp updated_at, so a merge of one mutation's payload over
\* another's replaces it.
SetPayload(r, l) ==
    point' = [point EXCEPT ![r].line = IF point[r].present THEN l ELSE @]

Upsert(r, p) == point' = [point EXCEPT ![r] = p]

--------------------------------------------------------------------------------
(* Authors: create *)

SetAuthor(a, cmd) == author' = [author EXCEPT ![a] = cmd]

\* AddDecision, ReportBug: the first line goes to the JSONL before anything
\* is sent to the vector store.
Create(a, r) ==
    /\ author[a] = Idle
    /\ ~Logged(r) /\ ~point[r].present
    /\ LET l == [version |-> 1, edits |-> {}]
       IN  /\ jsonl' = [jsonl EXCEPT ![r] = <<l>>]
           /\ SetAuthor(a, [pc |-> "upsert", rec |-> r, line |-> l])
    /\ quiet' = FALSE
    /\ UNCHANGED <<point, outbox, lock, janitor, edits, orphaned>>

UpsertCreated(a) ==
    /\ author[a].pc = "upsert"
    /\ Upsert(author[a].rec, StoredPoint(author[a].line))
    /\ SetAuthor(a, Idle)
    /\ quiet' = FALSE
    /\ UNCHANGED <<jsonl, outbox, lock, janitor, edits, orphaned>>

\* No vector, or a failing upsert: the store returns OutboxQueued ...
UpsertFails(a) ==
    /\ "store" \in Faults
    /\ author[a].pc = "upsert"
    /\ SetAuthor(a, [author[a] EXCEPT !.pc = "queue"])
    /\ quiet' = FALSE
    /\ UNCHANGED <<jsonl, point, outbox, lock, janitor, edits, orphaned>>

\* ... and the command writes the outbox entry, in a later step.
QueueBrainOutbox(a) ==
    /\ author[a].pc = "queue"
    /\ outbox' = outbox \union {author[a].rec}
    /\ SetAuthor(a, Idle)
    /\ quiet' = FALSE
    /\ UNCHANGED <<jsonl, point, lock, janitor, edits, orphaned>>

\* A failed outbox write is only a warning.
QueueBrainOutboxFails(a) ==
    /\ "outbox" \in Faults
    /\ author[a].pc = "queue"
    /\ orphaned' = orphaned \union {author[a].rec}
    /\ SetAuthor(a, Idle)
    /\ quiet' = FALSE
    /\ UNCHANGED <<jsonl, point, outbox, lock, janitor, edits>>

--------------------------------------------------------------------------------
(* Authors: mutate (applyBrainMutation) *)

\* Read the current payload and apply the change to it in memory.  line.version
\* is the version observed.  (A change that apply() refuses writes nothing.)
ReadAndApply(a, r) ==
    /\ author[a] = Idle
    /\ edits[a] < MaxEdits
    /\ Current(r).present
    /\ LET e == <<a, edits[a] + 1>>
           l == Current(r).line
       IN  SetAuthor(a, [pc |-> "append", rec |-> r,
                         line |-> [l EXCEPT !.edits = @ \union {e}]])
    /\ edits' = [edits EXCEPT ![a] = @ + 1]
    /\ quiet' = FALSE
    /\ UNCHANGED <<jsonl, point, outbox, lock, janitor, orphaned>>

\* The version guard left out: whatever is latest is overwritten.
VersionMatches_Unchecked(a) == author[a].line.version = author[a].line.version

\* The version guard AppendCAS evaluates under the flock.
VersionMatches(a) == LatestVersion(author[a].rec) = author[a].line.version

\* AppendCAS that wins: one line, version cur + 1, in the same flock window.
AppendCAS(a) ==
    /\ author[a].pc = "append"
    /\ VersionMatches(a)
    /\ LET r == author[a].rec
           l == [author[a].line EXCEPT !.version = LatestVersion(r) + 1]
       IN  /\ jsonl' = [jsonl EXCEPT ![r] = Append(@, l)]
           /\ SetAuthor(a, [author[a] EXCEPT !.pc = "mirror", !.line = l])
    /\ quiet' = FALSE
    /\ UNCHANGED <<point, outbox, lock, janitor, edits, orphaned>>

\* A command that mirrors its payload although the append was refused.
AppendConflict_MirrorsAnyway(a) ==
    /\ author[a].pc = "append"
    /\ ~VersionMatches(a)
    /\ SetAuthor(a, [author[a] EXCEPT !.pc = "mirror"])
    /\ quiet' = FALSE
    /\ UNCHANGED <<jsonl, point, outbox, lock, janitor, edits, orphaned>>

\* AppendCAS that loses: ErrVersionConflict, nothing is written.
AppendConflict(a) ==
    /\ author[a].pc = "append"
    /\ ~VersionMatches(a)
    /\ SetAuthor(a, Idle)
    /\ quiet' = FALSE
    /\ UNCHANGED <<jsonl, point, outbox, lock, janitor, edits, orphaned>>

MirrorMutation(a) ==
    /\ author[a].pc = "mirror"
    /\ SetPayload(author[a].rec, author[a].line)
    /\ SetAuthor(a, Idle)
    /\ quiet' = FALSE
    /\ UNCHANGED <<jsonl, outbox, lock, janitor, edits, orphaned>>

\* mirrorMutationToStore returns OutboxQueued, and `gg bug fix' and the other
\* mutating commands return it as their error: nothing reaches the outbox.
MirrorFails(a) ==
    /\ "store" \in Faults
    /\ author[a].pc = "mirror"
    /\ SetAuthor(a, Idle)
    /\ quiet' = FALSE
    /\ UNCHANGED <<jsonl, point, outbox, lock, janitor, edits, orphaned>>

\* Killed between two steps.  A create that was killed before its point or its
\* outbox entry was written leaves no trail except the JSONL line.
AuthorCrash(a) ==
    /\ "crash" \in Faults
    /\ author[a].pc # "idle"
    /\ orphaned' = IF author[a].pc \in {"upsert", "queue"}
                   THEN orphaned \union {author[a].rec} ELSE orphaned
    /\ SetAuthor(a, Idle)
    /\ quiet' = FALSE
    /\ UNCHANGED <<jsonl, point, outbox, lock, janitor, edits>>

--------------------------------------------------------------------------------
(* Janitors *)

SetJanitor(j, pass) == janitor' = [janitor EXCEPT ![j] = pass]

\* The lock failing to exclude (LOCK_SH for LOCK_EX).
Begin_Shared(j, job) ==
    /\ job \in Jobs
    /\ janitor[j] = Rest
    /\ job = "auto" => outbox # {}
    /\ lock' = j
    /\ SetJanitor(j,
         IF job = "heal"
         THEN [Rest EXCEPT !.pc = "heal", !.job = job,
                           !.todo = {r \in Records : point[r].degraded},
                           !.seen = [r \in Records |-> point[r].line]]
         ELSE [Rest EXCEPT !.pc = "drain", !.job = job, !.todo = outbox])
    /\ quiet' = TRUE
    /\ UNCHANGED <<jsonl, point, outbox, author, edits, orphaned>>

\* AcquireReconcileLock and the first thing done under it.  The lock does not
\* block: a janitor that finds it held gives up, which changes nothing.
Begin(j, job) ==
    /\ job \in Jobs
    /\ janitor[j] = Rest
    /\ lock = NoOne
    /\ job = "auto" => outbox # {}
    /\ lock' = j
    /\ SetJanitor(j,
         IF job = "heal"
         THEN [Rest EXCEPT !.pc = "heal", !.job = job,
                           !.todo = {r \in Records : point[r].degraded},
                           !.seen = [r \in Records |-> point[r].line]]
         ELSE [Rest EXCEPT !.pc = "drain", !.job = job, !.todo = outbox])
    /\ quiet' = TRUE
    /\ UNCHANGED <<jsonl, point, outbox, author, edits, orphaned>>

\* A pass that ends without giving the lock back.
Release_KeepsLock(j) ==
    /\ SetJanitor(j, Rest)
    /\ quiet' = FALSE
    /\ UNCHANGED <<jsonl, point, outbox, lock, author, edits, orphaned>>

Release(j) ==
    /\ SetJanitor(j, Rest)
    /\ lock' = NoOne
    /\ quiet' = FALSE
    /\ UNCHANGED <<jsonl, point, outbox, author, edits, orphaned>>

\* replayBrainEntry scans the JSONL and stops at the first line of the record.
ReplayRead(j, r) ==
    /\ janitor[j].pc = "drain"
    /\ r \in janitor[j].todo
    /\ SetJanitor(j, [janitor[j] EXCEPT !.pc = "replay", !.rec = r,
                                        !.seen[r] = FirstLine(r)])
    /\ UNCHANGED <<jsonl, point, outbox, lock, author, edits, orphaned, quiet>>

ReplayUpsert(j) ==
    /\ janitor[j].pc = "replay"
    /\ LET r == janitor[j].rec
       IN  Upsert(r, ZeroVectorPoint(janitor[j].seen[r]))
    /\ SetJanitor(j, [janitor[j] EXCEPT !.pc = "delete"])
    /\ UNCHANGED <<jsonl, outbox, lock, author, edits, orphaned, quiet>>

\* Back to the drain loop with the current entry behind it.
NextEntry(j) == [janitor[j] EXCEPT !.pc = "drain", !.rec = NoRecord,
                                   !.todo = @ \ {janitor[j].rec},
                                   !.seen = Rest.seen]

\* A drain that drops the entry although the replay failed.
ReplayFails_Drops(j) ==
    /\ "store" \in Faults
    /\ janitor[j].pc = "replay"
    /\ outbox' = outbox \ {janitor[j].rec}
    /\ SetJanitor(j, [NextEntry(j) EXCEPT !.failed = TRUE])
    /\ UNCHANGED <<jsonl, point, lock, author, edits, orphaned, quiet>>

\* The entry stays (its retry counter is rewritten).
ReplayFails(j) ==
    /\ "store" \in Faults
    /\ janitor[j].pc = "replay"
    /\ SetJanitor(j, [NextEntry(j) EXCEPT !.failed = TRUE])
    /\ UNCHANGED <<jsonl, point, outbox, lock, author, edits, orphaned, quiet>>

DeleteEntry(j) ==
    /\ janitor[j].pc = "delete"
    /\ outbox' = outbox \ {janitor[j].rec}
    /\ SetJanitor(j, NextEntry(j))
    /\ UNCHANGED <<jsonl, point, lock, author, edits, orphaned, quiet>>

\* session-start stops after the drain, or earlier when its 3 s are over.
AutoStops(j) ==
    /\ janitor[j].pc = "drain"
    /\ janitor[j].job = "auto"
    /\ Release(j)

\* The doctor goes on to phase 2, runReconcileFromJSONL.
DrainDone(j) ==
    /\ janitor[j].pc = "drain"
    /\ janitor[j].job = "doctor"
    /\ janitor[j].todo = {}
    /\ SetJanitor(j, [janitor[j] EXCEPT !.pc = "fold"])
    /\ UNCHANGED <<jsonl, point, outbox, lock, author, edits, orphaned, quiet>>

\* What phase 2 takes from the JSONL: the create-time line, before folding.
ScanSource_FirstLine(r) == FirstLine(r)

ScanSource(r) == FoldLatest(r)

ReadFold(j) ==
    /\ janitor[j].pc = "fold"
    /\ SetJanitor(j, [janitor[j] EXCEPT
                        !.pc   = "uuids",
                        !.todo = {r \in Records : Logged(r)},
                        !.seen = [r \in Records |->
                                    IF Logged(r) THEN ScanSource(r) ELSE Blank]])
    /\ UNCHANGED <<jsonl, point, outbox, lock, author, edits, orphaned, quiet>>

CollectionUUIDs(j) ==
    /\ janitor[j].pc = "uuids"
    /\ SetJanitor(j, [janitor[j] EXCEPT
                        !.pc = "scan",
                        !.present = {r \in Records : point[r].present}])
    /\ UNCHANGED <<jsonl, point, outbox, lock, author, edits, orphaned, quiet>>

\* A scroll that fails counts as an empty collection, and not as a failure.
CollectionUUIDsFails(j) ==
    /\ "store" \in Faults
    /\ janitor[j].pc = "uuids"
    /\ SetJanitor(j, [janitor[j] EXCEPT !.pc = "scan"])
    /\ UNCHANGED <<jsonl, point, outbox, lock, author, edits, orphaned, quiet>>

\* A missing point is upserted with a zero vector; a present one is synced only
\* when its folded line has a version above 1.
RepairRecord(j, r) ==
    /\ janitor[j].pc = "scan"
    /\ r \in janitor[j].todo
    /\ \/ /\ r \notin janitor[j].present
          /\ Upsert(r, ZeroVectorPoint(janitor[j].seen[r]))
       \/ /\ r \in janitor[j].present
          /\ janitor[j].seen[r].version > 1
          /\ SetPayload(r, janitor[j].seen[r])
       \/ /\ r \in janitor[j].present
          /\ janitor[j].seen[r].version <= 1
          /\ UNCHANGED point
    /\ SetJanitor(j, [janitor[j] EXCEPT !.todo = @ \ {r}])
    /\ UNCHANGED <<jsonl, outbox, lock, author, edits, orphaned, quiet>>

RepairFails(j, r) ==
    /\ "store" \in Faults
    /\ janitor[j].pc = "scan"
    /\ r \in janitor[j].todo
    /\ r \in janitor[j].present => janitor[j].seen[r].version > 1
    /\ SetJanitor(j, [janitor[j] EXCEPT !.todo = @ \ {r}, !.failed = TRUE])
    /\ UNCHANGED <<jsonl, point, outbox, lock, author, edits, orphaned, quiet>>

\* The report: "All stores consistent." unless something failed.
Reporting(j) == janitor[j].pc = "scan" /\ janitor[j].todo = {}

DoctorReports(j) == Reporting(j) /\ Release(j)

\* HealDegradedVectors writes back the payload it scrolled, with a vector.
HealRecord(j, r) ==
    /\ janitor[j].pc = "heal"
    /\ r \in janitor[j].todo
    /\ Upsert(r, StoredPoint(janitor[j].seen[r]))
    /\ SetJanitor(j, [janitor[j] EXCEPT !.todo = @ \ {r}])
    /\ UNCHANGED <<jsonl, outbox, lock, author, edits, orphaned, quiet>>

\* Out of budget, time or embedder, or nothing left to do.
HealStops(j) == janitor[j].pc = "heal" /\ Release(j)

\* The kernel drops the flock of a killed process.
JanitorCrash(j) ==
    /\ "crash" \in Faults
    /\ janitor[j].pc # "idle"
    /\ Release(j)

\* Killed while IncrementRetries rewrites the entry in place: what is left of
\* the file does not parse and every later List skips it.
RetryTorn(j) ==
    /\ {"crash", "store"} \subseteq Faults
    /\ janitor[j].pc = "replay"
    /\ outbox' = outbox \ {janitor[j].rec}
    /\ orphaned' = orphaned \union {janitor[j].rec}
    /\ SetJanitor(j, Rest)
    /\ lock' = NoOne
    /\ quiet' = FALSE
    /\ UNCHANGED <<jsonl, point, author, edits>>

--------------------------------------------------------------------------------
(* Specification *)

OriginLines(o)  == IF o = "unversioned" THEN <<Blank>> ELSE <<>>
OriginPoint(o)  == IF o = "fresh" THEN NoPoint ELSE StoredPoint(Blank)

Init ==
    /\ \E origin \in [Records -> Origins] :
         /\ jsonl = [r \in Records |-> OriginLines(origin[r])]
         /\ point = [r \in Records |-> OriginPoint(origin[r])]
    /\ outbox = {}
    /\ lock = NoOne
    /\ author = [a \in Authors |-> Idle]
    /\ janitor = [j \in Janitors |-> Rest]
    /\ edits = [a \in Authors |-> 0]
    /\ orphaned = {}
    /\ quiet = FALSE

AuthorStep(a) ==
    \/ \E r \in Records : Create(a, r) \/ ReadAndApply(a, r)
    \/ UpsertCreated(a)
    \/ UpsertFails(a)
    \/ QueueBrainOutbox(a)
    \/ QueueBrainOutboxFails(a)
    \/ AppendCAS(a)
    \/ AppendConflict(a)
    \/ MirrorMutation(a)
    \/ MirrorFails(a)
    \/ AuthorCrash(a)

\* The steps of a pass that has begun, crashes apart.
PassStep(j) ==
    \/ \E r \in Records : ReplayRead(j, r) \/ RepairRecord(j, r)
                          \/ RepairFails(j, r) \/ HealRecord(j, r)
    \/ ReplayUpsert(j)
    \/ ReplayFails(j)
    \/ DeleteEntry(j)
    \/ AutoStops(j)
    \/ DrainDone(j)
    \/ ReadFold(j)
    \/ CollectionUUIDs(j)
    \/ CollectionUUIDsFails(j)
    \/ DoctorReports(j)
    \/ HealStops(j)

JanitorStep(j) ==
    \/ \E job \in AllJobs : Begin(j, job)
    \/ PassStep(j)
    \/ JanitorCrash(j)
    \/ RetryTorn(j)

Next == (\E a \in Authors : AuthorStep(a)) \/ (\E j \in Janitors : JanitorStep(j))

Spec == Init /\ [][Next]_vars

(***************************************************************************)
(* Fairness.  A pass that runs keeps running.  Agents keep opening shells, *)
(* so session-start keeps being tried although the lock may be held by     *)
(* someone else at one time or another; and neither the 3 s limit, nor a   *)
(* failing store, nor a kill strikes the same step of every pass for ever. *)
(* Nothing is assumed of authors, of the doctor or of healing.             *)
(***************************************************************************)
Fairness ==
    \A j \in Janitors :
        /\ WF_vars(PassStep(j))
        /\ SF_vars(Begin(j, "auto"))
        /\ \A r \in Records : SF_vars(ReplayRead(j, r))
        /\ SF_vars(ReplayUpsert(j))
        /\ SF_vars(DeleteEntry(j))

FairSpec == Spec /\ Fairness

--------------------------------------------------------------------------------
(* Properties *)

\* The versions in a record's history count up by one: no two mutations commit
\* the same version and none is skipped, however the read, the append and the
\* crashes of several commands interleave (AppendCAS).
VersionChain ==
    \A r \in Records : \A k \in 1..Len(jsonl[r]) :
        jsonl[r][k].version = jsonl[r][1].version + k - 1

\* No lost update: every line of the history contains all edits of the line
\* before it and exactly one more, although the payload was read, and changed
\* in memory, outside the lock that the append takes.
OneEditPerLine ==
    \A r \in Records : \A k \in 1..(Len(jsonl[r]) - 1) :
        \E e \in Edit \ jsonl[r][k].edits :
            jsonl[r][k + 1].edits = jsonl[r][k].edits \union {e}

\* The payload of a line of history s, or the payload of a record that is not
\* in it from its creation.
WrittenIn(s, l) ==
    \/ \E k \in 1..Len(s) : s[k] = l
    \/ l = Blank /\ (s # <<>> => s[1].edits # {})

Written(r, l) == WrittenIn(jsonl[r], l)

\* JSONL first: the vector store never shows a payload that was not committed
\* to the JSONL, whoever wrote it last (creates, mirrors, replays, repairs and
\* heals all write payloads they read some steps earlier).
StoreReflectsLog == \A r \in Records : point[r].present => Written(r, point[r].line)

BeingCreated(r) ==
    \E a \in Authors : author[a].rec = r /\ author[a].pc \in {"upsert", "queue"}

\* A created record that is missing from the vector store is always on its way
\* there: its creator is still at work, or the outbox has it, or one of the
\* faults that are known to destroy the trail has happened.
MissingIsTracked ==
    \A r \in Records :
        Logged(r) /\ ~point[r].present
            => r \in outbox \/ r \in orphaned \/ BeingCreated(r)

InSync(r) == Logged(r) => point[r].present /\ point[r].line = FoldLatest(r)

\* When the doctor prints "All stores consistent.", and no command wrote
\* anything while it ran, every stored point is its record's folded line: also
\* after crashes, failed mirrors, lost outbox entries and replays of
\* create-time payloads.
ReportIsTrue ==
    \A j \in Janitors :
        Reporting(j) /\ ~janitor[j].failed /\ quiet => \A r \in Records : InSync(r)

\* Once a create is queued, its record does reach the vector store and the
\* entry does leave the outbox, without anyone running the doctor
\* (session_start_reconcile.go), unless the entry itself was destroyed.
QueuedIsReplayed ==
    \A r \in Records :
        (r \in outbox) ~> (point[r].present /\ r \notin outbox) \/ r \in orphaned

\* Healing adds the vector and nothing else, although it writes back a payload
\* it read at its start: the reconcile lock keeps the other janitors away.  (It
\* does not keep authors away, hence quiet.)
HealKeepsPayload ==
    [][\A j \in Janitors, r \in Records :
          quiet /\ HealRecord(j, r) => point'[r].line = point[r].line]_vars

Register == INSTANCE VersionedRecord WITH current <- [r \in Records |-> Current(r)]

\* The JSONL, the vector store and the janitors together implement a versioned
\* record: every mutation that commits is one atomic edit of the latest payload.
ImplementsRegister == Register!Spec

================================================================================
