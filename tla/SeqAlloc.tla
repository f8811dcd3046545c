------------------------------- MODULE SeqAlloc --------------------------------
(***************************************************************************)
(* The numbers of tasks, bugs and discussions (internal/store/taskseq.go   *)
(* and its two copies bugseq.go and discseq.go): TASK-001, TASK-002, ...   *)
(* The number is the identity of a record, its uuid is computed from it.   *)
(* Every create is a process of its own; the processes share               *)
(*                                                                         *)
(*   seq     .gg/.task-seq, the last number given out; 0 when the file is  *)
(*           missing or empty;                                             *)
(*   lock    the flock on that file;                                       *)
(*   log     the create lines of .gg/brain/tasks.jsonl;                    *)
(*   stored  the numbers of the points in the vector store.                *)
(*                                                                         *)
(* Under the lock a create reads the counter, or bootstraps it from the    *)
(* store, then truncates the file and writes the next number.  Without the *)
(* lock it appends its line and upserts its point.                         *)
(***************************************************************************)
EXTENDS Integers

CONSTANTS
    Procs,      \* processes
    NoOne,      \* the holder of a lock nobody holds
    Existing,   \* numbers that log and store hold before the first allocation
    Budget,     \* bound: creates started
    Faults      \* what may go wrong, a subset of AllFaults

\* "store": the store cannot be read or written; "crash": a process is killed;
\* "delete": the counter file is deleted while nobody uses it; "empty": the
\* store is a new one or is being rebuilt.
AllFaults == {"store", "crash", "delete", "empty"}

ASSUME AllocConstantsOK ==
    /\ NoOne \notin Procs
    /\ Existing \subseteq Nat \ {0}
    /\ Budget \in Nat
    /\ Faults \subseteq AllFaults

VARIABLES
    seq,        \* the counter file
    lock,       \* holder of the lock on it, or NoOne
    log,        \* the create lines
    stored,     \* the numbers in the store
    proc,       \* proc[p]: the create that p is running
    budget,     \* auxiliary: creates that are left
    blind       \* auxiliary: a bootstrap has missed a number in use

allocVars == <<seq, lock, log, stored, proc, budget, blind>>

--------------------------------------------------------------------------------
(* Data *)

Number == Nat \ {0}

\* The line of the create that was the k-th from the last to start; 0 for those
\* of before.
Line == [number : Number, create : Nat]

AllocPC == {"idle", "bootstrap", "truncate", "write", "append", "upsert"}
Process == [pc : AllocPC, number : Nat, create : Nat]
Idle    == [pc |-> "idle", number |-> 0, create |-> 0]

Allocating == {"bootstrap", "truncate", "write"}
HasNumber  == {"truncate", "write", "append", "upsert"}

AllocTypeOK ==
    /\ seq \in Nat
    /\ lock \in Procs \union {NoOne}
    /\ log \in SUBSET Line
    /\ stored \in SUBSET Number
    /\ proc \in [Procs -> Process]
    /\ \A p \in Procs : proc[p].pc \in HasNumber => proc[p].number \in Number
    /\ budget \in Nat
    /\ blind \in BOOLEAN

InLog == {l.number : l \in log}

\* The numbers that belong to a record, or will when its line is appended.
Pending == {p \in Procs : proc[p].pc = "append"}
Given   == InLog \union {proc[p].number : p \in Pending}

\* maxTaskIDNumber, maxTaskIDFromBrainJSONL: 0 when there is none.
IsMax(n, S) == n \in S \union {0} /\ \A k \in S : k <= n

SetProc(p, new) == proc' = [proc EXCEPT ![p] = new]

--------------------------------------------------------------------------------
(* Allocation *)

\* A lock that does not exclude.
Lock_Shared(p) ==
    /\ proc[p] = Idle
    /\ budget > 0
    /\ budget' = budget - 1
    /\ lock' = p
    /\ SetProc(p, IF seq = 0
                  THEN [pc |-> "bootstrap", number |-> 0, create |-> budget]
                  ELSE [pc |-> "truncate", number |-> seq + 1, create |-> budget])
    /\ UNCHANGED <<seq, log, stored, blind>>

\* lockFileCtx and the read of the file.  A create whose deadline passes while
\* it waits changes nothing.
Lock(p) ==
    /\ proc[p] = Idle
    /\ budget > 0
    /\ budget' = budget - 1
    /\ lock = NoOne
    /\ lock' = p
    /\ SetProc(p, IF seq = 0
                  THEN [pc |-> "bootstrap", number |-> 0, create |-> budget]
                  ELSE [pc |-> "truncate", number |-> seq + 1, create |-> budget])
    /\ UNCHANGED <<seq, log, stored, blind>>

NumberAfter(p, max) ==
    SetProc(p, [pc |-> "truncate", number |-> max + 1, create |-> proc[p].create])

\* No usable counter: the numbers in the vector store ...
Bootstrap(p) ==
    /\ proc[p].pc = "bootstrap"
    /\ \E max \in stored \union {0} :
        /\ IsMax(max, stored)
        /\ NumberAfter(p, max)
        /\ blind' = (blind \/ \E n \in Given : n > max)
    /\ UNCHANGED <<seq, lock, log, stored, budget>>

\* ... or, only if that cannot be read, those in the log.
BootstrapOffline(p) ==
    /\ "store" \in Faults
    /\ proc[p].pc = "bootstrap"
    /\ \E max \in InLog \union {0} :
        /\ IsMax(max, InLog)
        /\ NumberAfter(p, max)
        /\ blind' = (blind \/ \E n \in Given : n > max)
    /\ UNCHANGED <<seq, lock, log, stored, budget>>

Truncate(p) ==
    /\ proc[p].pc = "truncate"
    /\ seq' = 0
    /\ SetProc(p, [proc[p] EXCEPT !.pc = "write"])
    /\ UNCHANGED <<lock, log, stored, budget, blind>>

\* The number before the one given out.
WriteSeq_OffByOne(p) ==
    /\ proc[p].pc = "write"
    /\ seq' = proc[p].number - 1
    /\ lock' = NoOne
    /\ SetProc(p, [proc[p] EXCEPT !.pc = "append"])
    /\ UNCHANGED <<log, stored, budget, blind>>

\* Written, synced and unlocked.
WriteSeq(p) ==
    /\ proc[p].pc = "write"
    /\ seq' = proc[p].number
    /\ lock' = NoOne
    /\ SetProc(p, [proc[p] EXCEPT !.pc = "append"])
    /\ UNCHANGED <<log, stored, budget, blind>>

--------------------------------------------------------------------------------
(* The create that uses the number *)

\* CreateTask, ReportBug: the line first ...
AppendLine(p) ==
    /\ proc[p].pc = "append"
    /\ log' = log \union {[number |-> proc[p].number, create |-> proc[p].create]}
    /\ SetProc(p, [proc[p] EXCEPT !.pc = "upsert"])
    /\ UNCHANGED <<seq, lock, stored, budget, blind>>

\* ... then the point, under the uuid that goes with the number.
UpsertPoint(p) ==
    /\ proc[p].pc = "upsert"
    /\ stored' = stored \union {proc[p].number}
    /\ SetProc(p, Idle)
    /\ UNCHANGED <<seq, lock, log, budget, blind>>

\* No vector, or no store: the create ends, and its point is owed.
UpsertFails(p) ==
    /\ "store" \in Faults
    /\ proc[p].pc = "upsert"
    /\ SetProc(p, Idle)
    /\ UNCHANGED <<seq, lock, log, stored, budget, blind>>

--------------------------------------------------------------------------------
(* What happens around it *)

\* The drain of the outbox, the doctor, an import: points from the log.
Repair(n) ==
    /\ n \in InLog \ stored
    /\ stored' = stored \union {n}
    /\ UNCHANGED <<seq, lock, log, proc, budget, blind>>

\* gg task cancel deletes the point; the log keeps its line.
Cancel(n) ==
    /\ n \in stored
    /\ stored' = stored \ {n}
    /\ UNCHANGED <<seq, lock, log, proc, budget, blind>>

EmptyStore ==
    /\ "empty" \in Faults
    /\ stored # {}
    /\ stored' = {}
    /\ UNCHANGED <<seq, lock, log, proc, budget, blind>>

DeleteSeq ==
    /\ "delete" \in Faults
    /\ lock = NoOne
    /\ seq' = 0
    /\ UNCHANGED <<lock, log, stored, proc, budget, blind>>

\* Killed, or ended by an error: the lock goes, and a file that was truncated
\* stays empty.
Crash(p) ==
    /\ "crash" \in Faults
    /\ proc[p].pc # "idle"
    /\ lock' = IF lock = p THEN NoOne ELSE lock
    /\ SetProc(p, Idle)
    /\ UNCHANGED <<seq, log, stored, budget, blind>>

--------------------------------------------------------------------------------
AllocInit ==
    /\ seq = 0
    /\ lock = NoOne
    /\ log = {[number |-> n, create |-> 0] : n \in Existing}
    /\ stored = Existing
    /\ proc = [p \in Procs |-> Idle]
    /\ budget = Budget
    /\ blind = FALSE

Step(p) ==
    \/ Lock(p) \/ Bootstrap(p) \/ BootstrapOffline(p) \/ Truncate(p) \/ WriteSeq(p)
    \/ AppendLine(p) \/ UpsertPoint(p) \/ UpsertFails(p) \/ Crash(p)

AllocNext ==
    \/ \E p \in Procs : Step(p)
    \/ \E n \in InLog \union stored : Repair(n) \/ Cancel(n)
    \/ EmptyStore \/ DeleteSeq

AllocSpec == AllocInit /\ [][AllocNext]_allocVars

--------------------------------------------------------------------------------
(* Properties *)

\* The lock: whoever works on the counter file holds it, nobody else does.
OneAllocator == \A p \in Procs : proc[p].pc \in Allocating <=> lock = p

\* Unless a bootstrap has missed a number, the counter is at least every number
\* in use when it has one, and so is the number on its way to it.
CounterCovers ==
    ~blind =>
        /\ seq # 0 => \A n \in Given : n <= seq
        /\ \A p \in Procs : proc[p].pc \in {"truncate", "write"} =>
                \A n \in Given : n < proc[p].number

\* No two records have or will have the same number, also when creates are
\* killed at any point, the store is down or empty, or the counter is lost --
\* unless a bootstrap took its start from a source that missed a number in use.
UniqueNumbers ==
    ~blind => /\ \A l1, l2 \in log : l1.number = l2.number => l1 = l2
              /\ \A p \in Pending : proc[p].number \notin InLog
              /\ \A p, q \in Pending : proc[p].number = proc[q].number => p = q

================================================================================
