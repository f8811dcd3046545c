--------------------------------- MODULE Inbox ---------------------------------
(***************************************************************************)
(* Messages between agents (internal/store/messages.go), read and archived *)
(* by gg inbox, and the rebuild of the store that gg reembed makes.  Every *)
(* gg command is a process of its own; the processes share                 *)
(*                                                                         *)
(*   log     .gg/brain/messages.jsonl.  Its readers want only the last     *)
(*           line of a message, so that line stands for the file;          *)
(*   point   the points of the messages in the vector store;               *)
(*   collection  whether the store has a collection of messages: without   *)
(*           one reads fail, and writes go to rows that nobody sees;       *)
(*   lock    .gg/brain/.reconcile.lock;                                    *)
(*   now     the clock that stamps created_at and updated_at.              *)
(*                                                                         *)
(* A reader's command fetches the unread messages from the store and then  *)
(* marks them one by one: read the log, append under the version guard,    *)
(* mirror the whole payload.  The archive reads the store, folds the log   *)
(* once and appends without the guard.  The rebuild copies store and log,  *)
(* drops the collection, creates it again and fills it, without a lock; a  *)
(* rebuild killed in between leaves no collection, and only another        *)
(* rebuild, an import, gg system sync or gg init creates one.  The outbox  *)
(* is left to BrainStore: here a create that misses the store waits for    *)
(* the doctor.                                                             *)
(***************************************************************************)
EXTENDS Integers

CONSTANTS
    Messages,   \* uuids
    Broadcasts, \* the messages with audience "agents"
    Readers,    \* agents that read their inbox
    Anonymous,  \* a reader without an identity
    Procs,      \* processes
    NoOne,      \* the holder of a lock nobody holds
    NoMessage,  \* the message of a process that works on none
    MaxTime,    \* bound: the last tick
    Budget,     \* bound: commands started and faults, together
    Jobs,       \* what processes run, a subset of AllJobs
    Faults      \* what may go wrong, a subset of AllFaults

\* "doctor" is phase 2 of gg doctor --reconcile; "sync" is the tracker
\* self-heal of gg system sync.
AllJobs == {"send", "read", "archive", "reembed", "doctor", "sync"}

\* "store": a vector-store call fails; "unreadable": messages.jsonl cannot be
\* read; "crash": a process is killed.
AllFaults == {"store", "unreadable", "crash"}

ASSUME ConstantsOK ==
    /\ Broadcasts \subseteq Messages
    /\ Anonymous \notin Readers
    /\ NoOne \notin Procs
    /\ NoMessage \notin Messages
    /\ MaxTime \in Nat
    /\ Budget \in Nat
    /\ Jobs \subseteq AllJobs
    /\ Faults \subseteq AllFaults

VARIABLES
    log,        \* log[m]: the last line of m
    point,      \* point[m]: the vector-store point of m
    collection, \* the store has the collection of messages
    lock,       \* holder of the reconcile lock, or NoOne
    proc,       \* proc[p]: what process p is running
    now,        \* the current tick
    budget,     \* auxiliary: commands and faults that are left
    told        \* auxiliary: told[m], the readers whose command has marked m

vars == <<log, point, collection, lock, proc, now, budget, told>>

--------------------------------------------------------------------------------
(* Data *)

Direct == Messages \ Broadcasts

\* version 0: the file has no line of the message.  stamp is updated_at, or
\* created_at while there is none.
Line   == [version : Nat, readers : SUBSET Readers, archived : BOOLEAN, stamp : Nat]
NoLine == [version |-> 0, readers |-> {}, archived |-> FALSE, stamp |-> 0]

\* read is the dismissal by an anonymous reader, for everyone.
Point   == [present : BOOLEAN, readers : SUBSET Readers, archived : BOOLEAN,
            read : BOOLEAN, stamp : Nat]
NoPoint == [present |-> FALSE, readers |-> {}, archived |-> FALSE,
            read |-> FALSE, stamp |-> 0]

PC == {"idle", "upsert", "mark", "append", "mirror", "dismiss",
       "fold", "archive", "archived", "merge", "drop", "ensure", "insert",
       "uuids", "scan"}

Process == [pc : PC,
            who  : Readers \union {Anonymous},
            todo : SUBSET Messages,             \* what is still to be done
            done : SUBSET Messages,             \* archived; found by the doctor
            msg  : Messages \union {NoMessage}, \* the message being marked
            seen : [Messages -> Line],          \* the lines it has read
            copy : [Messages -> Point]]         \* the points a rebuild inserts

Idle == [pc |-> "idle", who |-> Anonymous, todo |-> {}, done |-> {},
         msg |-> NoMessage, seen |-> [m \in Messages |-> NoLine],
         copy |-> [m \in Messages |-> NoPoint]]

TypeOK ==
    /\ log \in [Messages -> Line]
    /\ point \in [Messages -> Point]
    /\ collection \in BOOLEAN
    /\ lock \in Procs \union {NoOne}
    /\ proc \in [Procs -> Process]
    /\ now \in Nat
    /\ budget \in Nat
    /\ told \in [Messages -> SUBSET Readers]

Logged(m) == log[m].version > 0

\* A payload of the log as a whole point.  No line carries read = true.
PointOf(l) == [present |-> TRUE, readers |-> l.readers, archived |-> l.archived,
               read |-> FALSE, stamp |-> l.stamp]

\* SetPayload merges keys: a line that was never archived has no such key.  A
\* point that is not there is skipped.
Merged(pt, l) ==
    IF pt.present
    THEN [PointOf(l) EXCEPT !.archived = l.archived \/ pt.archived]
    ELSE pt

SetProc(p, new) == proc' = [proc EXCEPT ![p] = new]

\* A scroll of the collection, which fails when there is none.
Scrolled == {m \in Messages : collection /\ point[m].present}

\* The messages one GetInbox returns.  Its error ends the command as an empty
\* list does.
GetInbox(r) == {m \in Scrolled : /\ ~point[m].read
                                 /\ ~point[m].archived
                                 /\ r \notin point[m].readers}

\* A process takes up a new command.
Start(p, job) ==
    /\ job \in Jobs
    /\ proc[p] = Idle
    /\ budget > 0
    /\ budget' = budget - 1

--------------------------------------------------------------------------------
(* Send *)

\* SendMessage: the line first ...
Send(p, m) ==
    /\ Start(p, "send")
    /\ ~Logged(m)
    /\ log' = [log EXCEPT ![m] = [NoLine EXCEPT !.version = 1, !.stamp = now]]
    /\ SetProc(p, [Idle EXCEPT !.pc = "upsert", !.msg = m, !.seen = log'])
    /\ UNCHANGED <<point, lock, now, told, collection>>

\* ... then the point.
UpsertSent(p) ==
    /\ proc[p].pc = "upsert"
    /\ LET m == proc[p].msg
       IN  point' = [point EXCEPT ![m] = PointOf(proc[p].seen[m])]
    /\ SetProc(p, Idle)
    /\ UNCHANGED <<log, lock, now, budget, told, collection>>

--------------------------------------------------------------------------------
(* Read: gg inbox, and its --dismiss-all and --older-than *)

\* The filters of the command (role, audience, age) keep any part of the list.
Fetch(p, r) ==
    /\ Start(p, "read")
    /\ \E shown \in SUBSET GetInbox(r) :
        /\ shown # {}
        /\ SetProc(p, [Idle EXCEPT !.pc = IF r = Anonymous THEN "dismiss" ELSE "mark",
                                   !.who = r, !.todo = shown])
    /\ UNCHANGED <<log, point, lock, now, told, collection>>

\* The next message of MarkMessagesRead, or the end of the command.
NextMessage(p, m) ==
    LET rest == proc[p].todo \ {m}
    IN  SetProc(p, IF rest = {} THEN Idle
                   ELSE [Idle EXCEPT !.pc = "mark", !.who = proc[p].who, !.todo = rest])

\* markMessagesGloballyRead: one SetPayload, and nothing in the log.
Dismiss(p) ==
    /\ proc[p].pc = "dismiss"
    /\ point' = [m \in Messages |->
                    IF m \in proc[p].todo /\ point[m].present
                    THEN [point[m] EXCEPT !.read = TRUE] ELSE point[m]]
    /\ SetProc(p, Idle)
    /\ UNCHANGED <<log, lock, now, budget, told, collection>>

\* errMutationNoop: the log has this reader already.
AlreadyRead(p, m) ==
    /\ proc[p].pc = "mark"
    /\ m \in proc[p].todo
    /\ proc[p].who \in log[m].readers
    /\ NextMessage(p, m)
    /\ told' = [told EXCEPT ![m] = @ \union {proc[p].who}]
    /\ UNCHANGED <<log, point, lock, now, budget, collection>>

\* applyBrainMutation reads the last line and adds the reader in memory.
AddReader(p, m) ==
    /\ proc[p].pc = "mark"
    /\ m \in proc[p].todo
    /\ proc[p].who \notin log[m].readers
    /\ SetProc(p, [proc[p] EXCEPT
                    !.pc = "append", !.msg = m,
                    !.seen[m] = [log[m] EXCEPT !.readers = @ \union {proc[p].who},
                                               !.stamp = now]])
    /\ UNCHANGED <<log, point, lock, now, budget, told, collection>>

\* The version guard left out.
AppendCAS_Unchecked(p) ==
    /\ proc[p].pc = "append"
    /\ LET m == proc[p].msg
           l == [proc[p].seen[m] EXCEPT !.version = @ + 1]
       IN  /\ log' = [log EXCEPT ![m] = l]
           /\ SetProc(p, [proc[p] EXCEPT !.pc = "mirror", !.seen[m] = l])
    /\ UNCHANGED <<point, lock, now, budget, told, collection>>

\* AppendCAS: the version it saw must still be the last one.
AppendCAS(p) ==
    /\ proc[p].pc = "append"
    /\ LET m == proc[p].msg
           l == [proc[p].seen[m] EXCEPT !.version = @ + 1]
       IN  /\ log[m].version = proc[p].seen[m].version
           /\ log' = [log EXCEPT ![m] = l]
           /\ SetProc(p, [proc[p] EXCEPT !.pc = "mirror", !.seen[m] = l])
    /\ UNCHANGED <<point, lock, now, budget, told, collection>>

\* A refused append that is mirrored all the same.
AppendConflict_MirrorsAnyway(p) ==
    /\ proc[p].pc = "append"
    /\ log[proc[p].msg].version # proc[p].seen[proc[p].msg].version
    /\ SetProc(p, [proc[p] EXCEPT !.pc = "mirror"])
    /\ UNCHANGED <<log, point, lock, now, budget, told, collection>>

\* ErrMutationConflict: the command fails and marks none of the rest.
AppendConflict(p) ==
    /\ proc[p].pc = "append"
    /\ log[proc[p].msg].version # proc[p].seen[proc[p].msg].version
    /\ SetProc(p, Idle)
    /\ UNCHANGED <<log, point, lock, now, budget, told, collection>>

MirrorRead(p) ==
    /\ proc[p].pc = "mirror"
    /\ LET m == proc[p].msg
       IN  /\ point' = [point EXCEPT ![m] = Merged(@, proc[p].seen[m])]
           /\ told' = [told EXCEPT ![m] = @ \union {proc[p].who}]
           /\ NextMessage(p, m)
    /\ UNCHANGED <<log, lock, now, budget, collection>>

--------------------------------------------------------------------------------
(* Archive: gg inbox archive, and the auto-drain of session-start *)

\* The stale broadcasts the store shows.  The cutoff is the caller's: which of
\* them are older than it is left open.
ScrollStale(p) ==
    /\ Start(p, "archive")
    /\ \E stale \in SUBSET {m \in Broadcasts \intersect Scrolled : ~point[m].archived} :
        /\ stale # {}
        /\ SetProc(p, [Idle EXCEPT !.pc = "fold", !.todo = stale])
    /\ UNCHANGED <<log, point, lock, now, told, collection>>

FoldOnce(p) ==
    /\ proc[p].pc = "fold"
    /\ SetProc(p, [proc[p] EXCEPT !.pc = "archive", !.seen = log])
    /\ UNCHANGED <<log, point, lock, now, budget, told, collection>>

\* brain.Append, not AppendCAS: the version is the one folded, plus one.
AppendArchived(p, m) ==
    /\ proc[p].pc = "archive"
    /\ m \in proc[p].todo
    /\ LET l == proc[p].seen[m]
       IN  log' = [log EXCEPT ![m] = [l EXCEPT !.archived = TRUE, !.stamp = now,
                                               !.version = @ + 1]]
    /\ LET rest == proc[p].todo \ {m}
       IN  SetProc(p, [proc[p] EXCEPT !.pc = IF rest = {} THEN "archived" ELSE "archive",
                                      !.todo = rest, !.done = @ \union {m}])
    /\ UNCHANGED <<point, lock, now, budget, told, collection>>

\* One SetPayload of the one key, for all of them.
MirrorArchived(p) ==
    /\ proc[p].pc = "archived"
    /\ point' = [m \in Messages |->
                    IF m \in proc[p].done /\ point[m].present
                    THEN [point[m] EXCEPT !.archived = TRUE] ELSE point[m]]
    /\ SetProc(p, Idle)
    /\ UNCHANGED <<log, lock, now, budget, told, collection>>

--------------------------------------------------------------------------------
(* Rebuild: gg reembed *)

\* A scroll that fails, for want of a collection too, is taken for an empty store.
ScrollAll(p) ==
    /\ Start(p, "reembed")
    /\ \E found \in {Scrolled, {}} :
        /\ found # Scrolled => "store" \in Faults
        /\ SetProc(p, [Idle EXCEPT
                        !.pc = "merge",
                        !.copy = [m \in Messages |-> IF m \in found THEN point[m] ELSE NoPoint]])
    /\ UNCHANGED <<log, point, lock, now, told, collection>>

\* At equal stamps the stored payload.
Newer_Strictly(l, pt) == ~pt.present \/ l.stamp > pt.stamp

\* mergeJSONLSource: the line of the log unless the stored payload is newer.
Newer(l, pt) == ~pt.present \/ l.stamp >= pt.stamp

MergeJSONL(p) ==
    /\ proc[p].pc = "merge"
    /\ SetProc(p, [proc[p] EXCEPT
                    !.pc = "drop",
                    !.copy = [m \in Messages |->
                                IF Logged(m) /\ Newer(log[m], @[m])
                                THEN PointOf(log[m]) ELSE @[m]]])
    /\ UNCHANGED <<log, point, lock, now, budget, told, collection>>

\* A log that cannot be read leaves the copy as it is.
MergeUnreadable(p) ==
    /\ "unreadable" \in Faults
    /\ proc[p].pc = "merge"
    /\ budget > 0
    /\ budget' = budget - 1
    /\ SetProc(p, [proc[p] EXCEPT !.pc = "drop"])
    /\ UNCHANGED <<log, point, lock, now, told, collection>>

\* DropAllCollections: the points and the collection go in one transaction.
Drop(p) ==
    /\ proc[p].pc = "drop"
    /\ point' = [m \in Messages |-> NoPoint]
    /\ collection' = FALSE
    /\ SetProc(p, [proc[p] EXCEPT !.pc = "ensure"])
    /\ UNCHANGED <<log, lock, now, budget, told>>

\* EnsureCollections: nothing is done when another process was quicker.
Ensure(p) ==
    /\ proc[p].pc = "ensure"
    /\ collection' = TRUE
    /\ SetProc(p, [proc[p] EXCEPT !.pc = "insert",
                                  !.todo = {m \in Messages : proc[p].copy[m].present}])
    /\ UNCHANGED <<log, point, lock, now, budget, told>>

Insert(p, m) ==
    /\ proc[p].pc = "insert"
    /\ m \in proc[p].todo
    /\ point' = [point EXCEPT ![m] = proc[p].copy[m]]
    /\ SetProc(p, [proc[p] EXCEPT !.todo = @ \ {m}])
    /\ UNCHANGED <<log, lock, now, budget, told, collection>>

Rebuilt(p) ==
    /\ proc[p].pc = "insert"
    /\ proc[p].todo = {}
    /\ SetProc(p, Idle)
    /\ UNCHANGED <<log, point, lock, now, budget, told, collection>>

--------------------------------------------------------------------------------
(* Repair: gg doctor --reconcile *)

\* AcquireReconcileLock does not block.  It is run again and again, and is not
\* charged to the budget.
Rescan(p) ==
    /\ "doctor" \in Jobs
    /\ proc[p] = Idle
    /\ lock = NoOne
    /\ lock' = p
    /\ SetProc(p, [Idle EXCEPT !.pc = "uuids", !.seen = log])
    /\ UNCHANGED <<log, point, now, budget, told, collection>>

CollectionUUIDs(p) ==
    /\ proc[p].pc = "uuids"
    /\ SetProc(p, [proc[p] EXCEPT !.pc = "scan",
                                  !.todo = {m \in Messages : proc[p].seen[m].version > 0},
                                  !.done = Scrolled])
    /\ UNCHANGED <<log, point, lock, now, budget, told, collection>>

\* A scroll that fails finds nothing: every entry is then replayed.
UUIDsFail(p) ==
    /\ "store" \in Faults
    /\ proc[p].pc = "uuids"
    /\ budget > 0
    /\ budget' = budget - 1
    /\ SetProc(p, [proc[p] EXCEPT !.pc = "scan",
                                  !.todo = {m \in Messages : proc[p].seen[m].version > 0}])
    /\ UNCHANGED <<log, point, lock, now, told, collection>>

\* ReplayBrainEntry: a message the scan did not find is put back.
ReplayMissing(p, m) ==
    /\ proc[p].pc = "scan"
    /\ m \in proc[p].todo \ proc[p].done
    /\ point' = [point EXCEPT ![m] = PointOf(proc[p].seen[m])]
    /\ SetProc(p, [proc[p] EXCEPT !.todo = @ \ {m}])
    /\ UNCHANGED <<log, lock, now, budget, told, collection>>

\* The first mutation taken for a create.
SyncPayload_OffByOne(p, m) ==
    /\ proc[p].pc = "scan"
    /\ m \in proc[p].todo \intersect proc[p].done
    /\ point' = IF proc[p].seen[m].version > 2
                THEN [point EXCEPT ![m] = Merged(@, proc[p].seen[m])]
                ELSE point
    /\ SetProc(p, [proc[p] EXCEPT !.todo = @ \ {m}])
    /\ UNCHANGED <<log, lock, now, budget, told, collection>>

\* SyncBrainPayload: one that it found gets the last line, if that is a mutation.
SyncPayload(p, m) ==
    /\ proc[p].pc = "scan"
    /\ m \in proc[p].todo \intersect proc[p].done
    /\ point' = IF proc[p].seen[m].version > 1
                THEN [point EXCEPT ![m] = Merged(@, proc[p].seen[m])]
                ELSE point
    /\ SetProc(p, [proc[p] EXCEPT !.todo = @ \ {m}])
    /\ UNCHANGED <<log, lock, now, budget, told, collection>>

Rescanned(p) ==
    /\ proc[p].pc = "scan"
    /\ proc[p].todo = {}
    /\ lock' = NoOne
    /\ SetProc(p, Idle)
    /\ UNCHANGED <<log, point, now, budget, told, collection>>

\* The tracker self-heal: EnsureCollections, when the collection is missing.  It
\* is not charged to the budget either.
SystemSync(p) ==
    /\ "sync" \in Jobs
    /\ proc[p] = Idle
    /\ ~collection
    /\ collection' = TRUE
    /\ UNCHANGED <<log, point, lock, proc, now, budget, told>>

--------------------------------------------------------------------------------
(* Faults, and time *)

\* A write of the store fails, DDL included, and the command ends: OutboxQueued, or the error.
\* The doctor stops as well, and gives its lock back.
StoreFails(p) ==
    /\ "store" \in Faults
    /\ proc[p].pc \in {"upsert", "mirror", "dismiss", "archived", "drop", "ensure", "insert", "scan"}
    /\ budget > 0
    /\ budget' = budget - 1
    /\ lock' = IF lock = p THEN NoOne ELSE lock
    /\ SetProc(p, Idle)
    /\ UNCHANGED <<log, point, now, told, collection>>

\* Killed between two steps: the operating system drops its flock.
Crash(p) ==
    /\ "crash" \in Faults
    /\ proc[p].pc # "idle"
    /\ budget > 0
    /\ budget' = budget - 1
    /\ lock' = IF lock = p THEN NoOne ELSE lock
    /\ SetProc(p, Idle)
    /\ UNCHANGED <<log, point, now, told, collection>>

Tick ==
    /\ now < MaxTime
    /\ now' = now + 1
    /\ UNCHANGED <<log, point, lock, proc, budget, told, collection>>

--------------------------------------------------------------------------------
Init ==
    /\ log = [m \in Messages |-> NoLine]
    /\ point = [m \in Messages |-> NoPoint]
    /\ collection = TRUE
    /\ lock = NoOne
    /\ proc = [p \in Procs |-> Idle]
    /\ now = 0
    /\ budget = Budget
    /\ told = [m \in Messages |-> {}]

\* The steps of a command that has started.
Continue(p) ==
    \/ UpsertSent(p) \/ Dismiss(p) \/ AppendCAS(p) \/ AppendConflict(p)
    \/ MirrorRead(p) \/ FoldOnce(p) \/ MirrorArchived(p)
    \/ MergeJSONL(p) \/ Drop(p) \/ Ensure(p) \/ Rebuilt(p)
    \/ CollectionUUIDs(p) \/ Rescanned(p)
    \/ \E m \in Messages : \/ AlreadyRead(p, m) \/ AddReader(p, m)
                           \/ AppendArchived(p, m) \/ Insert(p, m)
                           \/ ReplayMissing(p, m) \/ SyncPayload(p, m)

Step(p) ==
    \/ \E m \in Messages : Send(p, m)
    \/ \E r \in Readers \union {Anonymous} : Fetch(p, r)
    \/ ScrollStale(p) \/ ScrollAll(p) \/ Rescan(p) \/ SystemSync(p)
    \/ Continue(p)
    \/ MergeUnreadable(p) \/ UUIDsFail(p) \/ StoreFails(p) \/ Crash(p)

Next == (\E p \in Procs : Step(p)) \/ Tick

Spec == Init /\ [][Next]_vars

\* A command that has started goes on; the doctor is run again and again; and
\* somebody who finds no collection runs gg system sync.
Fairness ==
    /\ \A p \in Procs : WF_vars(Continue(p))
    /\ WF_vars(\E p \in Procs : Rescan(p))
    /\ WF_vars(\E p \in Procs : SystemSync(p))

FairSpec == Spec /\ Fairness

--------------------------------------------------------------------------------
(* Properties *)

\* Once a command has marked a direct message read for a reader, the log says
\* so for good: no concurrent reader, archive or repair undoes it.
MarkedStaysInLog == \A m \in Direct : told[m] \subseteq log[m].readers

\* The store, and what a rebuild or the doctor is about to write to it, hides a
\* direct message from nobody for whom the log does not hide it: dropping the
\* store and filling it from the log takes no mail away and loses no mark.
LogAhead(m, readers) == readers \subseteq log[m].readers

StoreBehindLog ==
    \A m \in Direct :
        /\ LogAhead(m, point[m].readers)
        /\ \A p \in Procs : LogAhead(m, proc[p].copy[m].readers)

\* When a rebuild has read the log and merged the two, it holds every mark on a
\* direct message that the log has, also when the stored payload is newer than
\* the line was.
RebuildKeepsMarks ==
    [][\A p \in Procs : MergeJSONL(p) =>
          \A m \in Direct : log[m].readers \subseteq proc'[p].copy[m].readers]_vars

InSync(m) ==
    Logged(m) => /\ m \in Scrolled
                 /\ log[m].readers \subseteq point[m].readers
                 /\ log[m].archived => point[m].archived

\* With the doctor run again and again, and gg system sync where a killed rebuild
\* left no collection, the store comes to show every message that was sent and
\* to hide what the log says is read or archived: after failed mirrors, mirrors
\* in the wrong order, and rebuilds killed at any step.  The doctor alone does
\* not do it: it writes to rows of a collection that is not there.
InboxSettles == <>[](\A m \in Messages : InSync(m))

================================================================================
