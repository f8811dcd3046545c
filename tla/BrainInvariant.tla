---------------------------- MODULE BrainInvariant -----------------------------
(***************************************************************************)
(* An inductive invariant of BrainStore.  The safety properties of         *)
(* BrainStore are not inductive: that a commit adds exactly one edit       *)
(* depends on what a process read before it took the lock, and that the    *)
(* store holds committed payloads only depends on what every process has   *)
(* in memory.  The parts below say what a command or a pass may rely on    *)
(* between two of its steps, whatever the other processes do meanwhile.    *)
(***************************************************************************)
EXTENDS BrainStore

\* The edit a has started last.
OwnEdit(a) == <<a, edits[a]>>

\* What an author read is a line of the history, or the stored point of a
\* record that had no line (the first line then written has version 1, which
\* is not the version 0 the author saw).
ReadValid(a) ==
    LET r == author[a].rec
        l == author[a].line
    IN  \/ \E k \in 1..Len(jsonl[r]) :
             /\ l.version = jsonl[r][k].version
             /\ l.edits = jsonl[r][k].edits \union {OwnEdit(a)}
        \/ /\ l.version = 0
           /\ l.edits = {OwnEdit(a)}
           /\ Logged(r) => FirstLine(r).version = 1

\* An edit being applied is in no history yet.
EditIsNew(a) ==
    \A r \in Records : \A k \in 1..Len(jsonl[r]) : OwnEdit(a) \notin jsonl[r][k].edits

AuthorValid(a) ==
    /\ author[a].pc # "idle" => author[a].rec \in Records
    /\ author[a].pc \in {"upsert", "queue", "mirror"} => Logged(author[a].rec)
    /\ author[a].pc \in {"upsert", "mirror"} => Written(author[a].rec, author[a].line)
    /\ author[a].pc = "append"
         => /\ ReadValid(a) /\ EditIsNew(a) /\ edits[a] > 0
            /\ Logged(author[a].rec) \/ point[author[a].rec].present

\* What a pass has listed exists, and what it will write was committed.
PassValid(j) ==
    LET pass == janitor[j]
    IN  /\ pass.pc \in {"drain", "replay", "delete", "uuids", "scan"}
             => \A r \in pass.todo : Logged(r)
        /\ pass.pc \in {"replay", "delete"} => pass.rec \in Records /\ Logged(pass.rec)
        /\ pass.pc = "replay" => Written(pass.rec, pass.seen[pass.rec])
        /\ pass.pc = "delete" => point[pass.rec].present
        /\ pass.pc \in {"uuids", "scan"}
             => \A r \in pass.todo : Written(r, pass.seen[r])
        /\ pass.pc = "heal"
             => \A r \in pass.todo : point[r].present /\ Written(r, pass.seen[r])

\* Histories begin at version 0 (unversioned) or 1, and hold started edits.
FirstVersion ==
    \A r \in Records : Logged(r) => FirstLine(r).version \in {0, 1}
EditsStarted ==
    \A r \in Records : \A k \in 1..Len(jsonl[r]) : \A e \in jsonl[r][k].edits :
        e[2] <= edits[e[1]]

\* Only what exists is queued, and only a stored point is degraded.
QueuedIsLogged   == \A r \in outbox : Logged(r)
DegradedIsStored == \A r \in Records : point[r].degraded => point[r].present

\* A pass that has begun holds the reconcile lock.
PassHoldsLock == \A j \in Janitors : janitor[j].pc # "idle" => lock = j

\* What a heal has still to write back is what the store holds.
HealIsFresh ==
    \A j \in Janitors :
        janitor[j].pc = "heal" /\ quiet
            => \A r \in janitor[j].todo : janitor[j].seen[r] = point[r].line

(***************************************************************************)
(* The invariant: with the properties it strengthens, no process holds     *)
(* anything in memory that another one's commit could have falsified.      *)
(***************************************************************************)
IInv ==
    /\ TypeOK
    /\ VersionChain /\ OneEditPerLine /\ FirstVersion /\ EditsStarted
    /\ \A a \in Authors : AuthorValid(a)
    /\ \A j \in Janitors : PassValid(j)
    /\ StoreReflectsLog /\ DegradedIsStored
    /\ QueuedIsLogged /\ MissingIsTracked
    /\ PassHoldsLock /\ HealIsFresh

(***************************************************************************)
(* The doctor's report needs two parts more.  They hold when every record  *)
(* was created by this program: the sync of phase 2 skips a folded line of *)
(* version 1, which is the create-time line only of such a record.         *)
(***************************************************************************)

\* The store holds nothing the JSONL lacks, and histories begin with a create.
CreatedHere ==
    \A r \in Records :
        /\ point[r].present => Logged(r)
        /\ Logged(r) => FirstLine(r) = [version |-> 1, edits |-> {}]

\* While no command runs beside the doctor, a record it has still to visit is
\* folded as it was read, and one it has visited is repaired or counted as failed.
ScanIsCurrent ==
    \A j \in Janitors :
        LET pass == janitor[j]
        IN  /\ pass.pc # "scan" => pass.present = {}
            /\ \A r \in pass.present : point[r].present
            /\ pass.pc \in {"uuids", "scan"} /\ quiet
                 => \A r \in Records :
                      /\ r \in pass.todo => pass.seen[r] = FoldLatest(r)
                      /\ r \notin pass.todo => pass.failed \/ InSync(r)

FreshInv == IInv /\ CreatedHere /\ ScanIsCurrent

================================================================================
