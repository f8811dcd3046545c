----------------------------- MODULE BrainSnapshot -----------------------------
(***************************************************************************)
(* gg brain export and gg brain import (cmd/brain_export.go,               *)
(* cmd/brain_import.go), beside the commands that append to the files an   *)
(* export replaces.  Every command is a process of its own; the processes  *)
(* share                                                                   *)
(*                                                                         *)
(*   brain    the directory .gg/brain: a file of lines for each kind, to   *)
(*            which the brain writes append, and the manifest of the last  *)
(*            export, if the directory comes from one;                     *)
(*   partial  .gg/brain.partial, in which an export prepares the next one; *)
(*   store    the vector store;                                            *)
(*   queued   the creates that wait in .gg/outbox.                         *)
(*                                                                         *)
(* None of the commands takes a lock that another one takes: an append     *)
(* locks the file it has opened, which an export may have unlinked by      *)
(* then.  There is one record of each kind.  The steps of a write and of a *)
(* reconcile are those of BrainStore, in less detail.  The copies of the   *)
(* code graph and of task-events.jsonl, the size of the collections and    *)
(* the scrubbing of secrets are left out.                                  *)
(***************************************************************************)
EXTENDS Integers, Sequences

CONSTANTS
    Procs,      \* processes
    Keepers,    \* the processes that export and import again and again
    BrainKind,  \* the kinds of record, in the order they are copied
    Missing,    \* a file that is not there
    NoManifest, \* the manifest of a directory that no export has written
    MaxVersion, \* bound: versions of a record
    Budget,     \* bound: other commands, failures and kills, together
    Jobs,       \* what processes run, a subset of AllJobs
    Faults      \* what may go wrong, a subset of AllFaults

\* "wipe" is an import with --wipe.
AllJobs == {"create", "mutate", "export", "import", "wipe", "reconcile"}

\* "store": a write to the vector store fails; "crash": a process is killed.
AllFaults == {"store", "crash"}

Kinds == {BrainKind[i] : i \in DOMAIN BrainKind}

ASSUME ConstantsOK ==
    /\ Keepers \subseteq Procs
    /\ BrainKind \in Seq(Kinds) /\ BrainKind # <<>>
    /\ MaxVersion \in Nat \ {0}
    /\ Budget \in Nat
    /\ Jobs \subseteq AllJobs
    /\ Faults \subseteq AllFaults

VARIABLES
    brain,      \* .gg/brain
    partial,    \* .gg/brain.partial
    store,      \* store[k]: the point of the record
    queued,     \* the kinds whose create waits in the outbox
    proc,       \* proc[p]: what process p is running
    budget,     \* auxiliary: commands, failures and kills that are left
    born,       \* auxiliary: the kinds whose record has been created
    told,       \* auxiliary: told[k], the version a command has called saved
    taken       \* auxiliary: what exports have collected

files == <<brain, partial>>
vars  == <<brain, partial, store, queued, proc, budget, born, told, taken>>

--------------------------------------------------------------------------------
(* Data *)

\* An appended line has other keys than an exported one: uuid for id.
Line == [version : 1..MaxVersion, form : {"appended", "exported"}]

\* The versions in a file count up by one.
File == {lines \in Seq(Line) :
            \A n \in 1..(Len(lines) - 1) : lines[n + 1].version = lines[n].version + 1}

ASSUME MissingIsNoFile == Missing \notin File

Directory == [there    : BOOLEAN,
              file     : [Kinds -> File \union {Missing}],
              manifest : [Kinds -> File] \union {NoManifest}]

NoDirectory == [there |-> FALSE, file |-> [k \in Kinds |-> Missing],
                manifest |-> NoManifest]

\* version 0: no point.  An import leaves the vector zero.
Point   == [version : 0..MaxVersion, vector : BOOLEAN]
NoPoint == [version |-> 0, vector |-> FALSE]

PC == {"idle", "append", "mirror", "queue",
       "scroll", "prepare", "write", "manifest", "cleanup", "remove", "rename",
       "drop", "read", "upsert", "embed", "vector"}

Process == [pc : PC,
            i       : DOMAIN BrainKind,     \* the kind it works on
            version : 0..MaxVersion,        \* the version it writes
            linked  : BOOLEAN,              \* the file it has opened has a name
            held    : File,                 \* the lines it has read, or its unnamed file
            snap    : [Kinds -> File]]      \* what an export has collected

NoLines == [k \in Kinds |-> <<>>]

Idle == [pc |-> "idle", i |-> 1, version |-> 0, linked |-> TRUE, held |-> <<>>,
         snap |-> NoLines]

TypeOK ==
    /\ brain \in Directory
    /\ partial \in Directory
    /\ store \in [Kinds -> Point]
    /\ queued \subseteq Kinds
    /\ proc \in [Procs -> Process]
    /\ budget \in Nat
    /\ born \subseteq Kinds
    /\ told \in [Kinds -> 0..MaxVersion]
    /\ taken \subseteq [Kinds -> File]

Kind(p) == BrainKind[proc[p].i]

\* The version of the last line, 0 without one.
Folded(file) == IF file \in {Missing, <<>>} THEN 0 ELSE file[Len(file)].version

InLog(k) == Folded(brain.file[k]) > 0

\* The checksums of the manifest are those of the files.
Valid(dir) == dir.manifest # NoManifest /\ dir.file = dir.manifest

SetProc(p, new) == proc' = [proc EXCEPT ![p] = new]
Goto(p, pc)     == SetProc(p, [proc[p] EXCEPT !.pc = pc])
Stop(p)         == SetProc(p, Idle)

\* The next kind, or the phase after the last one.
Advance(p, new, phase) ==
    SetProc(p, IF new.i < Len(BrainKind) THEN [new EXCEPT !.i = @ + 1]
                                         ELSE [new EXCEPT !.i = 1, !.pc = phase])

Spend          == budget > 0 /\ budget' = budget - 1
SpendUnless(b) == IF b THEN UNCHANGED budget ELSE Spend

\* The handles on the files of gone keep what the files had.
Unlink(procs, gone) ==
    [q \in Procs |->
        IF procs[q].pc = "append" /\ procs[q].linked /\ Kind(q) \in gone
        THEN [procs[q] EXCEPT !.linked = FALSE, !.held = brain.file[Kind(q)]]
        ELSE procs[q]]

--------------------------------------------------------------------------------
(* Brain writes: open the file, append under its lock, write to the store *)

Open(p, i, version) ==
    /\ Spend
    /\ brain' = [brain EXCEPT !.there = TRUE,
                              !.file[BrainKind[i]] = IF @ = Missing THEN <<>> ELSE @]
    /\ SetProc(p, [Idle EXCEPT !.pc = "append", !.i = i, !.version = version])
    /\ UNCHANGED <<partial, store, queued, told, taken>>

Create(p, i) ==
    /\ "create" \in Jobs
    /\ proc[p] = Idle /\ BrainKind[i] \notin born
    /\ born' = born \union {BrainKind[i]}
    /\ Open(p, i, 1)

\* The record is read from the file, and from the store if it is not there.
Mutate(p, i) ==
    LET k   == BrainKind[i]
        cur == IF InLog(k) THEN Folded(brain.file[k]) ELSE store[k].version
    IN  /\ "mutate" \in Jobs
        /\ proc[p] = Idle /\ cur \in 1..(MaxVersion - 1)
        /\ Open(p, i, cur + 1)
        /\ UNCHANGED born

Opened(p) == IF proc[p].linked THEN brain.file[Kind(p)] ELSE proc[p].held

AppendLine(p) ==
    /\ proc[p].pc = "append"
    /\ Folded(Opened(p)) = proc[p].version - 1
    /\ brain' = IF proc[p].linked
                THEN [brain EXCEPT !.file[Kind(p)] =
                        Append(@, [version |-> proc[p].version, form |-> "appended"])]
                ELSE brain
    /\ SetProc(p, [proc[p] EXCEPT !.pc = "mirror", !.linked = TRUE, !.held = <<>>])
    /\ UNCHANGED <<partial, store, queued, budget, born, told, taken>>

AppendConflict(p) ==
    /\ proc[p].pc = "append"
    /\ Folded(Opened(p)) # proc[p].version - 1
    /\ Stop(p)
    /\ UNCHANGED <<files, store, queued, budget, born, told, taken>>

\* A create upserts; a mutation sets the payload of a point that is there.
Mirror(p) ==
    LET k == Kind(p)
    IN  /\ proc[p].pc = "mirror"
        /\ store' = [store EXCEPT ![k] =
                        IF proc[p].version = 1 THEN [version |-> 1, vector |-> TRUE]
                        ELSE IF @.version = 0 THEN @
                        ELSE [@ EXCEPT !.version = proc[p].version]]
        /\ told' = [told EXCEPT ![k] = proc[p].version]
        /\ Stop(p)
        /\ UNCHANGED <<files, queued, budget, born, taken>>

\* A mutation reports the error, a create goes to the outbox.
MirrorFails(p) ==
    /\ "store" \in Faults /\ Spend
    /\ proc[p].pc = "mirror"
    /\ IF proc[p].version = 1 THEN Goto(p, "queue") ELSE Stop(p)
    /\ UNCHANGED <<files, store, queued, born, told, taken>>

Queue(p) ==
    /\ proc[p].pc = "queue"
    /\ queued' = queued \union {Kind(p)}
    /\ told' = [told EXCEPT ![Kind(p)] = 1]
    /\ Stop(p)
    /\ UNCHANGED <<files, store, budget, born, taken>>

--------------------------------------------------------------------------------
(* Reconcile *)

\* An entry whose record the file does not have counts as replayed.
Replay(k) ==
    /\ "reconcile" \in Jobs
    /\ k \in queued
    /\ store' = [store EXCEPT ![k] =
                    IF InLog(k) THEN [version |-> brain.file[k][1].version, vector |-> FALSE]
                                ELSE @]
    /\ queued' = queued \ {k}
    /\ UNCHANGED <<files, proc, budget, born, told, taken>>

Rescan(k) ==
    LET last == Folded(brain.file[k])
    IN  /\ "reconcile" \in Jobs
        /\ InLog(k)
        /\ store[k].version = 0 \/ last > 1
        /\ store' = [store EXCEPT ![k].version = last]
        /\ UNCHANGED <<files, queued, proc, budget, born, told, taken>>

--------------------------------------------------------------------------------
(* Export *)

StartExport(p) ==
    /\ "export" \in Jobs
    /\ proc[p] = Idle /\ SpendUnless(p \in Keepers)
    /\ Goto(p, "scroll")
    /\ UNCHANGED <<files, store, queued, born, told, taken>>

Exported(k) == IF store[k].version = 0 THEN <<>>
               ELSE <<[version |-> store[k].version, form |-> "exported"]>>

\* The whole store is read before a file is written.
ExportBrainCollection(p) ==
    LET new == [proc[p] EXCEPT !.snap[Kind(p)] = Exported(Kind(p))]
    IN  /\ proc[p].pc = "scroll"
        /\ Advance(p, new, "prepare")
        /\ taken' = IF new.i = Len(BrainKind) THEN taken \union {new.snap} ELSE taken
        /\ UNCHANGED <<files, store, queued, budget, born, told>>

Prepare(p) ==
    /\ proc[p].pc = "prepare"
    /\ partial' = [NoDirectory EXCEPT !.there = TRUE]
    /\ Goto(p, "write")
    /\ UNCHANGED <<brain, store, queued, budget, born, told, taken>>

WriteFile(p) ==
    /\ proc[p].pc = "write" /\ partial.there
    /\ partial' = [partial EXCEPT !.file[Kind(p)] = proc[p].snap[Kind(p)]]
    /\ Advance(p, proc[p], "manifest")
    /\ UNCHANGED <<brain, store, queued, budget, born, told, taken>>

WriteManifest_Reread(p) ==
    /\ proc[p].pc = "manifest" /\ partial.there
    /\ partial' = [partial EXCEPT !.manifest = partial.file]
    /\ Goto(p, "remove")
    /\ UNCHANGED <<brain, store, queued, budget, born, told, taken>>

\* The sums are those of the lines the export itself has written.
WriteManifest(p) ==
    /\ proc[p].pc = "manifest" /\ partial.there
    /\ partial' = [partial EXCEPT !.manifest = proc[p].snap]
    /\ Goto(p, "remove")
    /\ UNCHANGED <<brain, store, queued, budget, born, told, taken>>

\* Another export has taken the directory away ...
WriteFails(p) ==
    /\ proc[p].pc \in {"write", "manifest"} /\ ~partial.there
    /\ Goto(p, "cleanup")
    /\ UNCHANGED <<files, store, queued, budget, born, told, taken>>

\* ... and this one removes it, should there be one again.
Cleanup(p) ==
    /\ proc[p].pc = "cleanup"
    /\ partial' = NoDirectory
    /\ Stop(p)
    /\ UNCHANGED <<brain, store, queued, budget, born, told, taken>>

Remove_Skipped(p) ==
    /\ proc[p].pc = "remove"
    /\ Goto(p, "rename")
    /\ UNCHANGED <<files, store, queued, budget, born, told, taken>>

Remove(p) ==
    /\ proc[p].pc = "remove"
    /\ brain' = NoDirectory
    /\ proc' = Unlink([proc EXCEPT ![p].pc = "rename"], Kinds)
    /\ UNCHANGED <<partial, store, queued, budget, born, told, taken>>

\* A kill in the middle of the removal leaves some of the files.
CrashInRemove(p) ==
    /\ "crash" \in Faults /\ Spend
    /\ proc[p].pc = "remove" /\ brain.there
    /\ \E gone \in SUBSET Kinds, manifest \in {brain.manifest, NoManifest} :
         /\ brain' = [brain EXCEPT !.manifest = manifest,
                        !.file = [k \in Kinds |-> IF k \in gone THEN Missing ELSE @[k]]]
         /\ proc' = Unlink([proc EXCEPT ![p] = Idle], gone)
    /\ UNCHANGED <<partial, store, queued, born, told, taken>>

\* Fails if there is nothing to rename, or an append has made a new directory.
Rename(p) ==
    /\ proc[p].pc = "rename"
    /\ IF partial.there /\ ~brain.there
       THEN brain' = partial /\ partial' = NoDirectory
       ELSE UNCHANGED files
    /\ Stop(p)
    /\ UNCHANGED <<store, queued, budget, born, told, taken>>

--------------------------------------------------------------------------------
(* Import *)

\* Refused, without effect, unless the checksums are right.
StartImport(p, job) ==
    /\ job \in Jobs
    /\ proc[p] = Idle /\ SpendUnless(p \in Keepers /\ job = "import")
    /\ Valid(brain)
    /\ Goto(p, IF job = "wipe" THEN "drop" ELSE "read")
    /\ UNCHANGED <<files, store, queued, born, told, taken>>

Drop(p) ==
    /\ proc[p].pc = "drop"
    /\ store' = [store EXCEPT ![Kind(p)] = NoPoint]
    /\ Advance(p, proc[p], "read")
    /\ UNCHANGED <<files, queued, budget, born, told, taken>>

Readable_AnyForm(file) == file # Missing

\* An appended line has no id.
Readable(file) ==
    file # Missing /\ \A n \in DOMAIN file : file[n].form = "exported"

\* A file that is not there is an empty one.
ReadBrainJSONL(p) ==
    LET file == brain.file[Kind(p)]
    IN  /\ proc[p].pc = "read"
        /\ \/ Readable(file) /\ SetProc(p, [proc[p] EXCEPT !.pc = "upsert", !.held = file])
           \/ file = Missing /\ SetProc(p, [proc[p] EXCEPT !.pc = "upsert", !.held = <<>>])
           \/ file # Missing /\ ~Readable(file) /\ Stop(p)
        /\ UNCHANGED <<files, store, queued, budget, born, told, taken>>

UpsertBrainRecords(p) ==
    LET new  == [proc[p] EXCEPT !.held = <<>>]
        last == Folded(proc[p].held)
    IN  /\ proc[p].pc = "upsert"
        /\ store' = [store EXCEPT ![Kind(p)] =
                        IF last = 0 THEN @ ELSE [version |-> last, vector |-> FALSE]]
        /\ SetProc(p, IF new.i < Len(BrainKind)
                      THEN [new EXCEPT !.i = @ + 1, !.pc = "read"]
                      ELSE [new EXCEPT !.i = 1, !.pc = "embed"])
        /\ UNCHANGED <<files, queued, budget, born, told, taken>>

\* A point with a zero vector is read here and written in the next step.
EmbedMissing(p) ==
    LET point == store[Kind(p)]
    IN  /\ proc[p].pc = "embed"
        /\ IF point.version > 0 /\ ~point.vector
           THEN SetProc(p, [proc[p] EXCEPT !.pc = "vector", !.version = point.version])
           ELSE Advance(p, proc[p], "idle")
        /\ UNCHANGED <<files, store, queued, budget, born, told, taken>>

UpsertVector(p) ==
    LET new == [proc[p] EXCEPT !.pc = "embed", !.version = 0]
    IN  /\ proc[p].pc = "vector"
        /\ store' = [store EXCEPT ![Kind(p)] =
                        [version |-> proc[p].version, vector |-> TRUE]]
        /\ IF new.i < Len(BrainKind) THEN SetProc(p, [new EXCEPT !.i = @ + 1]) ELSE Stop(p)
        /\ UNCHANGED <<files, queued, budget, born, told, taken>>

\* Every write of an import ends it if it fails.
ImportFails(p) ==
    /\ "store" \in Faults /\ Spend
    /\ proc[p].pc \in {"drop", "upsert", "vector"}
    /\ Stop(p)
    /\ UNCHANGED <<files, store, queued, born, told, taken>>

Crash(p) ==
    /\ "crash" \in Faults /\ Spend
    /\ proc[p] # Idle
    /\ Stop(p)
    /\ UNCHANGED <<files, store, queued, born, told, taken>>

--------------------------------------------------------------------------------
(* The whole *)

Init ==
    /\ brain = NoDirectory
    /\ partial = NoDirectory
    /\ store = [k \in Kinds |-> NoPoint]
    /\ queued = {}
    /\ proc = [p \in Procs |-> Idle]
    /\ budget = Budget
    /\ born = {}
    /\ told = [k \in Kinds |-> 0]
    /\ taken = {}

\* What a process does once it has begun.
Step(p) ==
    \/ AppendLine(p) \/ AppendConflict(p) \/ Mirror(p) \/ Queue(p)
    \/ ExportBrainCollection(p) \/ Prepare(p) \/ WriteFile(p) \/ WriteManifest(p)
    \/ WriteFails(p) \/ Cleanup(p) \/ Remove(p) \/ Rename(p)
    \/ Drop(p) \/ ReadBrainJSONL(p) \/ UpsertBrainRecords(p)
    \/ EmbedMissing(p) \/ UpsertVector(p)

Next ==
    \/ \E p \in Procs :
         \/ \E i \in DOMAIN BrainKind : Create(p, i) \/ Mutate(p, i)
         \/ StartExport(p)
         \/ \E job \in {"import", "wipe"} : StartImport(p, job)
         \/ Step(p)
         \/ MirrorFails(p) \/ ImportFails(p) \/ CrashInRemove(p) \/ Crash(p)
    \/ \E k \in Kinds : Replay(k) \/ Rescan(k)

Spec == Init /\ [][Next]_vars

\* A process that runs takes its next step unless it is killed.  The keepers
\* export again and again, as every session-start does, and import as often.
FairSpec ==
    /\ Spec
    /\ \A p \in Procs : WF_vars(Step(p))
    /\ \A p \in Keepers : SF_vars(StartExport(p)) /\ SF_vars(StartImport(p, "import"))

--------------------------------------------------------------------------------
(* Properties *)

\* Exports that overlap write into one brain.partial and may rename a mixture
\* of their files.  A directory that an import accepts never is one: its files
\* are what a single export has collected, whatever was killed, removed halfway
\* or appended since.
SnapshotIsOneExport == Valid(brain) => brain.file \in taken

\* Between its checksum and its reading a file may be replaced, or a line
\* appended to it.  What an import writes to the store was collected by an
\* export all the same.
ImportsOnlyExports ==
    \A p \in Procs :
        proc[p].pc = "upsert" => proc[p].held \in {t[Kind(p)] : t \in taken} \union {<<>>}

\* However exports, imports and brain writes were mixed, failed or were killed,
\* and whatever they have left in the two directories: by exporting and
\* importing again and again one gets a snapshot that is intact, is what the
\* store holds, and whose records all have a vector.
RoundTrips ==
    []<>(/\ Valid(brain)
         /\ \A k \in Kinds : /\ Folded(brain.file[k]) = store[k].version
                             /\ store[k].version > 0 => store[k].vector)

\* A record that a command has called saved is in a file or in the store.
ConfirmedSurvives ==
    \A k \in Kinds : told[k] > 0 =>
        InLog(k) \/ store[k].version > 0 \/ Folded(partial.file[k]) > 0

================================================================================
