------------------------- MODULE BrainSnapshot_proofs --------------------------
(***************************************************************************)
(* Proofs about BrainSnapshot: an accepted snapshot is one export's, and   *)
(* an import writes only what exports have collected.                      *)
(***************************************************************************)
EXTENDS BrainSnapshot, TLAPS

\* A directory that is not there has no files, and who has opened a file that
\* still has a name sees it.
Named ==
    /\ ~brain.there => \A k \in Kinds : brain.file[k] = Missing
    /\ \A p \in Procs :
         proc[p].pc = "append" /\ proc[p].linked => brain.file[Kind(p)] # Missing

\* What exports have collected of a kind.
Collected(k) == {t[k] : t \in taken} \union {<<>>}

\* A manifest is written by one export, of what it has collected itself.
ManifestsAreExports ==
    /\ brain.manifest \in taken \union {NoManifest}
    /\ partial.manifest \in taken \union {NoManifest}
    /\ \A p \in Procs :
         proc[p].pc \in {"prepare", "write", "manifest"} => proc[p].snap \in taken

\* A file without an appended line is an export's, or a new one.
FilesAreExports ==
    \A k \in Kinds :
        /\ partial.file[k] # Missing => partial.file[k] \in Collected(k)
        /\ Readable(brain.file[k]) => brain.file[k] \in Collected(k)

HeldIsExported ==
    \A p \in Procs : proc[p].pc = "upsert" => proc[p].held \in Collected(Kind(p))

Inv == TypeOK /\ Named /\ ManifestsAreExports /\ FilesAreExports /\ HeldIsExported

--------------------------------------------------------------------------------
(* Data *)

LEMMA KindDomain ==
    /\ DOMAIN BrainKind = 1..Len(BrainKind)
    /\ 1 \in DOMAIN BrainKind
    /\ \A i \in DOMAIN BrainKind : BrainKind[i] \in Kinds
  <1>1. BrainKind \in Seq(Kinds) /\ BrainKind # <<>>
    BY ConstantsOK
  <1>2. DOMAIN BrainKind = 1..Len(BrainKind) /\ Len(BrainKind) > 0 /\ Len(BrainKind) \in Nat
    BY <1>1
  <1>3. \A i \in DOMAIN BrainKind : BrainKind[i] \in Kinds
    BY DEF Kinds
  <1> QED  BY <1>2, <1>3

LEMMA NoLinesIsFile == <<>> \in File
  BY DEF File

LEMMA FoldedType ==
    ASSUME NEW f \in File \union {Missing}
    PROVE  Folded(f) \in 0..MaxVersion
  <1>1. CASE f \in {Missing, <<>>}
    BY <1>1, ConstantsOK DEF Folded
  <1>2. CASE f \notin {Missing, <<>>}
    <2>1. f \in Seq(Line) /\ f # <<>>
      BY <1>2 DEF File
    <2>2. Len(f) \in 1..Len(f)
      BY <2>1
    <2>3. f[Len(f)] \in Line
      BY <2>1, <2>2
    <2> QED  BY <1>2, <2>3, ConstantsOK DEF Folded, Line
  <1> QED  BY <1>1, <1>2

\* Appending the version after the last one keeps a file a file.
LEMMA AppendKeepsFile ==
    ASSUME NEW f \in File, NEW v \in 0..MaxVersion, Folded(f) = v - 1
    PROVE  LET line == [version |-> v, form |-> "appended"]
           IN  Append(f, line) \in File /\ ~Readable(Append(f, line))
  <1> DEFINE line == [version |-> v, form |-> "appended"]
             g    == Append(f, line)
  <1>1. f \in Seq(Line)
    BY DEF File
  <1>2. v \in 1..MaxVersion
    BY FoldedType, ConstantsOK
  <1>3. line \in Line /\ line.version = v /\ line.form # "exported"
    BY <1>2 DEF Line
  <1> HIDE DEF line
  <1>4. g \in Seq(Line) /\ Len(g) = Len(f) + 1 /\ g[Len(f) + 1] = line
    BY <1>1, <1>3
  <1>5. \A n \in 1..Len(f) : g[n] = f[n]
    BY <1>1, <1>3
  <1>6. ASSUME NEW n \in 1..(Len(g) - 1) PROVE g[n + 1].version = g[n].version + 1
    <2>1. Len(f) \in Nat /\ n \in 1..Len(f)
      BY <1>1, <1>4
    <2>2. CASE n < Len(f)
      <3>1. n \in 1..(Len(f) - 1) /\ n + 1 \in 1..Len(f)
        BY <2>1, <2>2
      <3>2. f[n + 1].version = f[n].version + 1
        BY <3>1 DEF File
      <3> QED  BY <3>1, <3>2, <2>1, <1>5
    <2>3. CASE n = Len(f)
      <3>1. f # <<>> /\ f # Missing
        BY <2>1, MissingIsNoFile, <1>1
      <3>2. f[Len(f)].version = v - 1
        BY <3>1 DEF Folded
      <3>3. f[Len(f)] \in Line
        BY <1>1, <2>1, <2>3
      <3> QED  BY <3>2, <3>3, <2>1, <2>3, <1>2, <1>3, <1>4, <1>5 DEF Line
    <2> QED  BY <2>1, <2>2, <2>3
  <1>7. g \in File
    BY <1>4, <1>6 DEF File
  <1>8. ~Readable(g)
    <2>1. Len(f) + 1 \in DOMAIN g
      BY <1>1, <1>4
    <2> QED  BY <2>1, <1>3, <1>4 DEF Readable
  <1> QED  BY <1>7, <1>8 DEF line

LEMMA ExportedType ==
    ASSUME TypeOK, NEW k \in Kinds
    PROVE  Exported(k) \in File
  <1>1. CASE store[k].version = 0
    BY <1>1, NoLinesIsFile DEF Exported
  <1>2. CASE store[k].version # 0
    <2> DEFINE line == [version |-> store[k].version, form |-> "exported"]
    <2>1. store[k] \in Point
      BY DEF TypeOK
    <2>2. line \in Line
      BY <1>2, <2>1, ConstantsOK DEF Point, Line
    <2> HIDE DEF line
    <2>3. <<line>> \in Seq(Line) /\ Len(<<line>>) = 1
      BY <2>2
    <2>4. <<line>> \in File
      BY <2>3 DEF File
    <2> QED  BY <1>2, <2>4 DEF Exported, line
  <1> QED  BY <1>1, <1>2

LEMMA CollectedGrows ==
    ASSUME taken \subseteq taken', NEW k, NEW f \in Collected(k)
    PROVE  f \in Collected(k)'
  BY DEF Collected

--------------------------------------------------------------------------------
(* Processes *)

LEMMA IdleType == Idle \in Process
  BY NoLinesIsFile, KindDomain, ConstantsOK DEF Idle, Process, PC, NoLines

LEMMA KindType == ASSUME TypeOK, NEW p \in Procs PROVE Kind(p) \in Kinds
  <1>1. proc[p].i \in DOMAIN BrainKind
    BY DEF TypeOK, Process
  <1> QED  BY <1>1, KindDomain DEF Kind

LEMMA SetProcType ==
    ASSUME TypeOK, NEW p \in Procs, NEW new \in Process, SetProc(p, new)
    PROVE  /\ proc' \in [Procs -> Process]
           /\ proc'[p] = new
           /\ \A q \in Procs : q # p => proc'[q] = proc[q]
  BY DEF TypeOK, SetProc

\* Where a process stands changes, and what it holds does not.
LEMMA Moved ==
    ASSUME NEW new \in Process, NEW pc \in PC
    PROVE  LET next == [new EXCEPT !.pc = pc]
           IN  /\ next \in Process /\ next.pc = pc /\ next.i = new.i
               /\ next.held = new.held /\ next.snap = new.snap
               /\ next.linked = new.linked /\ next.version = new.version
  BY DEF Process

\* The step to the next kind, or to the next phase.
LEMMA AdvanceType ==
    ASSUME NEW p \in Procs, NEW new \in Process, NEW phase \in PC, Advance(p, new, phase)
    PROVE  \E next \in Process :
              /\ SetProc(p, next)
              /\ next.held = new.held /\ next.snap = new.snap
              /\ \/ new.i # Len(BrainKind) /\ next.pc = new.pc
                 \/ new.i = Len(BrainKind) /\ next.pc = phase
  <1>1. new.i \in 1..Len(BrainKind) /\ Len(BrainKind) \in Nat
    BY KindDomain, ConstantsOK DEF Process
  <1>2. CASE new.i < Len(BrainKind)
    <2> DEFINE next == [new EXCEPT !.i = @ + 1]
    <2>1. new.i + 1 \in DOMAIN BrainKind
      BY <1>1, <1>2, KindDomain
    <2>2. /\ next \in Process /\ next.pc = new.pc
          /\ next.held = new.held /\ next.snap = new.snap
      BY <2>1 DEF Process
    <2>3. SetProc(p, next)
      BY <1>2 DEF Advance
    <2> HIDE DEF next
    <2> QED  BY <1>1, <1>2, <2>2, <2>3
  <1>3. CASE ~(new.i < Len(BrainKind))
    <2> DEFINE next == [new EXCEPT !.i = 1, !.pc = phase]
    <2>1. /\ next \in Process /\ next.pc = phase
          /\ next.held = new.held /\ next.snap = new.snap
      BY KindDomain DEF Process
    <2>2. SetProc(p, next)
      BY <1>3 DEF Advance
    <2> HIDE DEF next
    <2> QED  BY <1>1, <1>3, <2>1, <2>2
  <1> QED  BY <1>2, <1>3

--------------------------------------------------------------------------------
(* Steps that leave the two directories alone *)

\* What such a step has to respect.
LEMMA FilesLeftAlone ==
    ASSUME Inv, NEW p \in Procs, NEW new \in Process, SetProc(p, new),
           UNCHANGED files,
           store' \in [Kinds -> Point], queued' \subseteq Kinds, budget' \in Nat,
           born' \subseteq Kinds, told' \in [Kinds -> 0..MaxVersion],
           taken' \subseteq [Kinds -> File], taken \subseteq taken',
           new.pc # "append",
           new.pc \in {"prepare", "write", "manifest"} => new.snap \in taken',
           new.pc = "upsert" => new.held \in Collected(BrainKind[new.i])'
    PROVE  Inv'
  <1> USE DEF Inv
  <1>1. /\ proc' \in [Procs -> Process]
        /\ proc'[p] = new
        /\ \A q \in Procs : q # p => proc'[q] = proc[q]
    BY SetProcType
  <1>2. TypeOK'
    BY <1>1 DEF TypeOK, files
  <1>3. Named'
    BY <1>1 DEF Named, Kind, files
  <1>4. ManifestsAreExports'
    BY <1>1 DEF ManifestsAreExports, files
  <1>5. FilesAreExports'
    BY CollectedGrows DEF FilesAreExports, files, Readable
  <1>6. HeldIsExported'
    <2> SUFFICES ASSUME NEW q \in Procs, proc'[q].pc = "upsert"
                 PROVE  proc'[q].held \in Collected(Kind(q))'
      BY DEF HeldIsExported
    <2>1. CASE q = p
      BY <1>1, <2>1 DEF Kind
    <2>2. CASE q # p
      <3>1. proc'[q] = proc[q]
        BY <1>1, <2>2
      <3>2. proc[q].held \in Collected(Kind(q))
        BY <3>1 DEF HeldIsExported
      <3> QED  BY <3>1, <3>2, CollectedGrows DEF Kind
    <2> QED  BY <2>1, <2>2
  <1> QED  BY <1>2, <1>3, <1>4, <1>5, <1>6

\* The same for steps of the reconciler.
LEMMA ProcLeftAlone ==
    ASSUME Inv, UNCHANGED <<files, proc, born, taken, budget, told>>,
           store' \in [Kinds -> Point], queued' \subseteq Kinds
    PROVE  Inv'
  BY DEF Inv, TypeOK, Named, ManifestsAreExports, FilesAreExports, HeldIsExported,
         Kind, Collected, Readable, files

LEMMA BudgetType ==
    ASSUME TypeOK, Spend
    PROVE  budget' \in Nat
  BY DEF TypeOK, Spend

LEMMA Stopped == ASSUME NEW p \in Procs, Stop(p)
                 PROVE  SetProc(p, Idle) /\ Idle.pc = "idle"
  BY DEF Stop, Idle

LEMMA WriteSteps ==
    ASSUME Inv, NEW p \in Procs,
           AppendConflict(p) \/ Mirror(p) \/ MirrorFails(p) \/ Queue(p)
    PROVE  Inv'
  <1> USE DEF Inv
  <1>1. CASE AppendConflict(p)
    BY <1>1, Stopped, IdleType, FilesLeftAlone DEF AppendConflict, TypeOK
  <1>2. CASE Mirror(p)
    <2>1. Kind(p) \in Kinds /\ proc[p].version \in 0..MaxVersion
      BY KindType DEF TypeOK, Process
    <2>2. store' \in [Kinds -> Point]
      <3>1. store[Kind(p)] \in Point
        BY <2>1 DEF TypeOK
      <3>2. [version |-> 1, vector |-> TRUE] \in Point \/ proc[p].version # 1
        BY <2>1 DEF Point
      <3>3. [store[Kind(p)] EXCEPT !.version = proc[p].version] \in Point
        BY <2>1, <3>1 DEF Point
      <3> DEFINE w == IF proc[p].version = 1 THEN [version |-> 1, vector |-> TRUE]
                      ELSE IF store[Kind(p)].version = 0 THEN store[Kind(p)]
                      ELSE [store[Kind(p)] EXCEPT !.version = proc[p].version]
      <3>4. w \in Point
        BY <3>1, <3>2, <3>3
      <3>5. store' = [store EXCEPT ![Kind(p)] = w]
        BY <1>2 DEF Mirror
      <3> HIDE DEF w
      <3> QED  BY <3>4, <3>5 DEF TypeOK
    <2>3. told' \in [Kinds -> 0..MaxVersion]
      BY <1>2, <2>1 DEF Mirror, TypeOK
    <2>4. Stop(p) /\ UNCHANGED <<files, queued, budget, born, taken>>
      BY <1>2 DEF Mirror
    <2> QED  BY <2>2, <2>3, <2>4, Stopped, IdleType, FilesLeftAlone DEF TypeOK
  <1>3. CASE MirrorFails(p)
    <2>1. budget' \in Nat
      BY <1>3, BudgetType DEF MirrorFails
    <2>2. UNCHANGED <<files, store, queued, born, told, taken>>
      BY <1>3 DEF MirrorFails
    <2>3. PICK new \in Process : SetProc(p, new) /\ new.pc \in {"queue", "idle"}
      <3>1. CASE Goto(p, "queue")
        <4> DEFINE next == [proc[p] EXCEPT !.pc = "queue"]
        <4>1. next \in Process /\ next.pc = "queue"
          BY DEF TypeOK, Process, PC
        <4>2. SetProc(p, next)
          BY <3>1 DEF Goto
        <4> HIDE DEF next
        <4> QED  BY <4>1, <4>2
      <3>2. CASE Stop(p)
        BY <3>2, Stopped, IdleType
      <3> QED  BY <1>3, <3>1, <3>2 DEF MirrorFails
    <2> QED  BY <2>1, <2>2, <2>3, FilesLeftAlone DEF TypeOK
  <1>4. CASE Queue(p)
    <2>1. Kind(p) \in Kinds /\ proc[p].version \in 0..MaxVersion
      BY KindType DEF TypeOK, Process
    <2>2. queued' \subseteq Kinds
      BY <1>4, <2>1 DEF Queue, TypeOK
    <2>3. told' \in [Kinds -> 0..MaxVersion]
      BY <1>4, <2>1, ConstantsOK DEF Queue, TypeOK
    <2>4. Stop(p) /\ UNCHANGED <<files, store, budget, born, taken>>
      BY <1>4 DEF Queue
    <2> QED  BY <2>2, <2>3, <2>4, Stopped, IdleType, FilesLeftAlone DEF TypeOK
  <1> QED  BY <1>1, <1>2, <1>3, <1>4

LEMMA ReconcileSteps ==
    ASSUME Inv, NEW k \in Kinds, Replay(k) \/ Rescan(k)
    PROVE  Inv'
  <1> USE DEF Inv
  <1>1. brain.file[k] \in File \union {Missing} /\ store[k] \in Point
    BY DEF TypeOK, Directory
  <1>2. CASE Replay(k)
    <2> DEFINE w == IF InLog(k) THEN [version |-> brain.file[k][1].version, vector |-> FALSE]
                    ELSE store[k]
    <2>1. w \in Point
      <3>1. CASE InLog(k)
        <4>1. brain.file[k] \in Seq(Line) /\ brain.file[k] # <<>>
          BY <1>1, <3>1 DEF InLog, Folded, File
        <4>2. brain.file[k][1] \in Line
          BY <4>1
        <4> QED  BY <3>1, <4>2, ConstantsOK DEF Line, Point
      <3> QED  BY <1>1, <3>1
    <2>2. store' = [store EXCEPT ![k] = w] /\ queued' = queued \ {k}
      BY <1>2 DEF Replay
    <2> HIDE DEF w
    <2>3. store' \in [Kinds -> Point] /\ queued' \subseteq Kinds
      BY <2>1, <2>2 DEF TypeOK
    <2> QED  BY <1>2, <2>3, ProcLeftAlone DEF Replay
  <1>3. CASE Rescan(k)
    <2> DEFINE w == [store[k] EXCEPT !.version = Folded(brain.file[k])]
    <2>1. w \in Point
      BY <1>1, FoldedType DEF Point
    <2>2. store' = [store EXCEPT ![k] = w]
      BY <1>3 DEF Rescan, TypeOK
    <2> HIDE DEF w
    <2>3. store' \in [Kinds -> Point] /\ queued' \subseteq Kinds
      BY <1>3, <2>1, <2>2 DEF TypeOK, Rescan
    <2> QED  BY <1>3, <2>3, ProcLeftAlone DEF Rescan
  <1> QED  BY <1>2, <1>3

LEMMA Went ==
    ASSUME TypeOK, NEW p \in Procs, NEW pc \in PC, Goto(p, pc)
    PROVE  \E new \in Process :
              /\ SetProc(p, new) /\ new.pc = pc /\ new.i = proc[p].i
              /\ new.snap = proc[p].snap /\ new.held = proc[p].held
  <1> DEFINE next == [proc[p] EXCEPT !.pc = pc]
  <1>1. proc[p] \in Process
    BY DEF TypeOK
  <1>2. /\ next \in Process /\ next.pc = pc /\ next.i = proc[p].i
        /\ next.snap = proc[p].snap /\ next.held = proc[p].held
    BY <1>1, Moved
  <1>3. SetProc(p, next)
    BY DEF Goto
  <1> HIDE DEF next
  <1> QED  BY <1>2, <1>3

LEMMA ExportSteps ==
    ASSUME Inv, NEW p \in Procs,
           StartExport(p) \/ ExportBrainCollection(p) \/ WriteFails(p)
    PROVE  Inv'
  <1> USE DEF Inv
  <1>1. CASE StartExport(p)
    <2>1. budget' \in Nat
      BY <1>1, BudgetType DEF StartExport, SpendUnless, TypeOK
    <2>2. PICK new \in Process : SetProc(p, new) /\ new.pc = "scroll"
      BY <1>1, Went DEF StartExport, PC
    <2> QED  BY <1>1, <2>1, <2>2, FilesLeftAlone DEF StartExport, TypeOK
  <1>2. CASE ExportBrainCollection(p)
    <2> DEFINE snap == [proc[p].snap EXCEPT ![Kind(p)] = Exported(Kind(p))]
               new  == [proc[p] EXCEPT !.snap[Kind(p)] = Exported(Kind(p))]
    <2>1. proc[p] \in Process /\ proc[p].snap \in [Kinds -> File]
      BY DEF TypeOK, Process
    <2>2. snap \in [Kinds -> File]
      BY <2>1, ExportedType, KindType
    <2>3. /\ new \in Process /\ new.snap = snap
          /\ new.pc = proc[p].pc /\ new.i = proc[p].i
      <3>1. new = [proc[p] EXCEPT !.snap = snap]
        BY <2>1 DEF Process
      <3> HIDE DEF snap, new
      <3> QED  BY <2>1, <2>2, <3>1 DEF Process
    <2>4. /\ proc[p].pc = "scroll" /\ Advance(p, new, "prepare")
          /\ taken' = IF new.i = Len(BrainKind) THEN taken \union {new.snap} ELSE taken
          /\ UNCHANGED <<files, store, queued, budget, born, told>>
      BY <1>2 DEF ExportBrainCollection
    <2> HIDE DEF new, snap
    <2>5. PICK next \in Process :
            /\ SetProc(p, next) /\ next.snap = new.snap
            /\ \/ new.i # Len(BrainKind) /\ next.pc = "scroll"
               \/ new.i = Len(BrainKind) /\ next.pc = "prepare"
      <3>1. "prepare" \in PC
        BY DEF PC
      <3> QED  BY <2>3, <2>4, <3>1, AdvanceType
    <2>6. taken' \subseteq [Kinds -> File] /\ taken \subseteq taken'
      BY <2>2, <2>3, <2>4 DEF TypeOK
    <2>7. next.pc \in {"prepare", "write", "manifest"} => next.snap \in taken'
      BY <2>4, <2>5
    <2> QED  BY <2>4, <2>5, <2>6, <2>7, FilesLeftAlone DEF TypeOK
  <1>3. CASE WriteFails(p)
    <2>1. PICK new \in Process : SetProc(p, new) /\ new.pc = "cleanup"
      BY <1>3, Went DEF WriteFails, PC
    <2> QED  BY <1>3, <2>1, FilesLeftAlone DEF WriteFails, TypeOK
  <1> QED  BY <1>1, <1>2, <1>3

LEMMA ImportReads ==
    ASSUME Inv, NEW p \in Procs, ReadBrainJSONL(p)
    PROVE  Inv'
  <1> USE DEF Inv
  <1> DEFINE file == brain.file[Kind(p)]
  <1>1. Kind(p) \in Kinds /\ proc[p] \in Process /\ file \in File \union {Missing}
    BY KindType DEF TypeOK, Directory
  <1>2. /\ proc[p].pc = "read"
        /\ \/ Readable(file) /\ SetProc(p, [proc[p] EXCEPT !.pc = "upsert", !.held = file])
           \/ file = Missing /\ SetProc(p, [proc[p] EXCEPT !.pc = "upsert", !.held = <<>>])
           \/ file # Missing /\ ~Readable(file) /\ Stop(p)
        /\ UNCHANGED <<files, store, queued, budget, born, told, taken>>
    BY DEF ReadBrainJSONL
  <1>3. ASSUME NEW held \in File, held \in Collected(Kind(p)),
               SetProc(p, [proc[p] EXCEPT !.pc = "upsert", !.held = held])
        PROVE  Inv'
    <2> DEFINE new == [proc[p] EXCEPT !.pc = "upsert", !.held = held]
    <2>1. /\ new \in Process /\ new.pc = "upsert"
          /\ new.held = held /\ new.i = proc[p].i
      BY <1>1 DEF Process, PC
    <2>2. SetProc(p, new)
      BY <1>3
    <2> HIDE DEF new
    <2>3. PICK next \in Process : /\ SetProc(p, next) /\ next.pc = "upsert"
                                  /\ next.held = held /\ next.i = proc[p].i
      BY <2>1, <2>2
    <2>4. next.held \in Collected(BrainKind[next.i])'
      BY <1>2, <1>3, <2>3 DEF Kind, Collected
    <2> QED  BY <1>2, <2>3, <2>4, FilesLeftAlone DEF TypeOK
  <1>4. CASE Readable(file) /\ SetProc(p, [proc[p] EXCEPT !.pc = "upsert", !.held = file])
    <2>1. Readable(file) /\ file # Missing
      BY <1>4 DEF Readable
    <2>2. file \in File /\ file \in Collected(Kind(p))
      BY <1>1, <2>1 DEF FilesAreExports
    <2> QED  BY <1>3, <1>4, <2>2
  <1>5. CASE SetProc(p, [proc[p] EXCEPT !.pc = "upsert", !.held = <<>>])
    <2>1. <<>> \in File /\ <<>> \in Collected(Kind(p))
      BY NoLinesIsFile DEF Collected
    <2> QED  BY <1>3, <1>5, <2>1
  <1>6. CASE Stop(p)
    BY <1>2, <1>6, Stopped, IdleType, FilesLeftAlone DEF TypeOK
  <1> QED  BY <1>2, <1>4, <1>5, <1>6

LEMMA ImportSteps ==
    ASSUME Inv, NEW p \in Procs,
           (\E job \in {"import", "wipe"} : StartImport(p, job))
             \/ Drop(p) \/ UpsertBrainRecords(p) \/ EmbedMissing(p) \/ UpsertVector(p)
    PROVE  Inv'
  <1> USE DEF Inv
  <1>0. Kind(p) \in Kinds /\ proc[p] \in Process /\ store \in [Kinds -> Point]
    BY KindType DEF TypeOK
  <1>1. ASSUME NEW job \in {"import", "wipe"}, StartImport(p, job) PROVE Inv'
    <2>1. budget' \in Nat
      BY <1>1, BudgetType DEF StartImport, SpendUnless, TypeOK
    <2>2. PICK new \in Process : SetProc(p, new) /\ new.pc \in {"drop", "read"}
      BY <1>1, Went DEF StartImport, PC
    <2> QED  BY <1>1, <2>1, <2>2, FilesLeftAlone DEF StartImport, TypeOK
  <1>2. CASE Drop(p)
    <2>1. store' \in [Kinds -> Point]
      BY <1>0, <1>2, ConstantsOK DEF Drop, NoPoint, Point
    <2>2. PICK new \in Process : SetProc(p, new) /\ new.pc \in {"drop", "read"}
      BY <1>0, <1>2, AdvanceType DEF Drop, PC
    <2> QED  BY <1>2, <2>1, <2>2, FilesLeftAlone DEF Drop, TypeOK
  <1>3. CASE UpsertBrainRecords(p)
    <2> DEFINE new  == [proc[p] EXCEPT !.held = <<>>]
               w    == IF Folded(proc[p].held) = 0 THEN store[Kind(p)]
                       ELSE [version |-> Folded(proc[p].held), vector |-> FALSE]
               on   == [new EXCEPT !.i = @ + 1, !.pc = "read"]
               last == [new EXCEPT !.i = 1, !.pc = "embed"]
    <2>1. new \in Process /\ new.i = proc[p].i
      BY <1>0, NoLinesIsFile DEF Process
    <2>2. w \in Point
      <3>1. proc[p].held \in File
        BY <1>0 DEF Process
      <3> QED  BY <1>0, <3>1, FoldedType DEF Point
    <2>3. store' = [store EXCEPT ![Kind(p)] = w]
      BY <1>3 DEF UpsertBrainRecords
    <2>4. SetProc(p, IF new.i < Len(BrainKind) THEN on ELSE last)
      BY <1>3 DEF UpsertBrainRecords
    <2> HIDE DEF w, new
    <2>5. last \in Process /\ last.pc = "embed"
      BY <2>1, KindDomain DEF Process, PC
    <2>6. on.pc = "read" /\ (new.i < Len(BrainKind) => on \in Process)
      <3>1. new.i < Len(BrainKind) => new.i + 1 \in DOMAIN BrainKind
        <4>1. new.i \in 1..Len(BrainKind) /\ Len(BrainKind) \in Nat
          BY <2>1, KindDomain, ConstantsOK DEF Process
        <4> QED  BY <4>1, KindDomain
      <3> QED  BY <2>1, <3>1 DEF Process, PC
    <2> HIDE DEF on, last
    <2>7. PICK next \in Process : SetProc(p, next) /\ next.pc \in {"read", "embed"}
      BY <2>4, <2>5, <2>6
    <2>8. store' \in [Kinds -> Point]
      BY <1>0, <2>2, <2>3
    <2> QED  BY <1>3, <2>7, <2>8, FilesLeftAlone DEF UpsertBrainRecords, TypeOK
  <1>4. CASE EmbedMissing(p)
    <2> DEFINE new == [proc[p] EXCEPT !.pc = "vector", !.version = store[Kind(p)].version]
    <2>1. new \in Process /\ new.pc = "vector"
      BY <1>0 DEF Process, PC, Point
    <2>2. /\ SetProc(p, new) \/ Advance(p, proc[p], "idle")
          /\ proc[p].pc = "embed"
      BY <1>4 DEF EmbedMissing
    <2> HIDE DEF new
    <2>3. PICK next \in Process : SetProc(p, next) /\ next.pc \in {"vector", "embed", "idle"}
      <3>1. CASE SetProc(p, new)
        BY <2>1, <3>1
      <3>2. CASE Advance(p, proc[p], "idle")
        BY <1>0, <2>2, <3>2, AdvanceType DEF PC
      <3> QED  BY <2>2, <3>1, <3>2
    <2> QED  BY <1>4, <2>3, FilesLeftAlone DEF EmbedMissing, TypeOK
  <1>5. CASE UpsertVector(p)
    <2> DEFINE new  == [proc[p] EXCEPT !.pc = "embed", !.version = 0]
               next == [new EXCEPT !.i = @ + 1]
    <2>0. 0 \in 0..MaxVersion
      BY ConstantsOK
    <2>1. new \in Process /\ new.pc = "embed" /\ new.i = proc[p].i
      BY <1>0, <2>0 DEF Process, PC
    <2>2. \/ new.i < Len(BrainKind) /\ SetProc(p, next)
          \/ Stop(p)
      BY <1>5 DEF UpsertVector
    <2> HIDE DEF new
    <2>3. new.i < Len(BrainKind) => next \in Process /\ next.pc = "embed"
      <3>1. new.i < Len(BrainKind) => new.i + 1 \in DOMAIN BrainKind
        <4>1. new.i \in 1..Len(BrainKind) /\ Len(BrainKind) \in Nat
          BY <2>1, KindDomain, ConstantsOK DEF Process
        <4> QED  BY <4>1, KindDomain
      <3> QED  BY <2>1, <3>1 DEF Process
    <2> HIDE DEF next
    <2>4. PICK q \in Process : SetProc(p, q) /\ q.pc \in {"embed", "idle"}
      BY <2>2, <2>3, Stopped, IdleType
    <2>5. store' \in [Kinds -> Point]
      <3>1. [version |-> proc[p].version, vector |-> TRUE] \in Point
        BY <1>0 DEF Process, Point
      <3>2. store' = [store EXCEPT ![Kind(p)] = [version |-> proc[p].version, vector |-> TRUE]]
        BY <1>5 DEF UpsertVector
      <3> QED  BY <1>0, <3>1, <3>2
    <2> QED  BY <1>5, <2>4, <2>5, FilesLeftAlone DEF UpsertVector, TypeOK
  <1> QED  BY <1>1, <1>2, <1>3, <1>4, <1>5

LEMMA EndSteps ==
    ASSUME Inv, NEW p \in Procs, ImportFails(p) \/ Crash(p)
    PROVE  Inv'
  <1> USE DEF Inv
  <1>1. Spend /\ Stop(p) /\ UNCHANGED <<files, store, queued, born, told, taken>>
    <2>1. CASE ImportFails(p)
      BY <2>1 DEF ImportFails
    <2>2. CASE Crash(p)
      BY <2>2 DEF Crash
    <2> QED  BY <2>1, <2>2
  <1>2. budget' \in Nat
    BY <1>1, BudgetType
  <1> QED  BY <1>1, <1>2, Stopped, IdleType, FilesLeftAlone DEF TypeOK

--------------------------------------------------------------------------------
(* Steps that change the directories *)

LEMMA NoDirectoryType ==
    /\ NoDirectory \in Directory
    /\ [NoDirectory EXCEPT !.there = TRUE] \in Directory
    /\ NoDirectory.manifest = NoManifest
    /\ ~NoDirectory.there
    /\ \A k \in Kinds : NoDirectory.file[k] = Missing
  BY DEF NoDirectory, Directory

\* Steps that change partial, and not the other files.
LEMMA PartialSteps ==
    ASSUME Inv, NEW p \in Procs, NEW new \in Process, SetProc(p, new),
           UNCHANGED <<brain, store, queued, budget, born, told, taken>>,
           partial' \in Directory,
           partial'.manifest \in taken \union {NoManifest},
           \A k \in Kinds : partial'.file[k] # Missing => partial'.file[k] \in Collected(k),
           new.pc \notin {"append", "upsert"},
           new.pc \in {"prepare", "write", "manifest"} => new.snap \in taken
    PROVE  Inv'
  <1> USE DEF Inv
  <1>1. /\ proc' \in [Procs -> Process]
        /\ proc'[p] = new
        /\ \A q \in Procs : q # p => proc'[q] = proc[q]
    BY SetProcType
  <1>2. TypeOK'
    BY <1>1 DEF TypeOK
  <1>3. Named'
    BY <1>1 DEF Named, Kind
  <1>4. ManifestsAreExports'
    BY <1>1 DEF ManifestsAreExports
  <1>5. FilesAreExports'
    BY DEF FilesAreExports, Readable, Collected
  <1>6. HeldIsExported'
    BY <1>1 DEF HeldIsExported, Kind, Collected
  <1> QED  BY <1>2, <1>3, <1>4, <1>5, <1>6

LEMMA PrepareSteps ==
    ASSUME Inv, NEW p \in Procs,
           Prepare(p) \/ WriteFile(p) \/ WriteManifest(p) \/ Cleanup(p)
    PROVE  Inv'
  <1> USE DEF Inv
  <1>0. /\ Kind(p) \in Kinds /\ proc[p] \in Process /\ partial \in Directory
        /\ proc[p].snap \in [Kinds -> File]
    BY KindType DEF TypeOK, Process
  <1>1. CASE Prepare(p)
    <2>1. PICK new \in Process : SetProc(p, new) /\ new.pc = "write" /\ new.snap = proc[p].snap
      BY <1>1, Went DEF Prepare, PC
    <2>2. proc[p].snap \in taken
      BY <1>1 DEF Prepare, ManifestsAreExports
    <2> DEFINE d == [NoDirectory EXCEPT !.there = TRUE]
    <2>3. /\ d \in Directory /\ d.manifest = NoManifest
          /\ \A k \in Kinds : d.file[k] = Missing
      BY NoDirectoryType DEF NoDirectory
    <2>4. partial' = d /\ UNCHANGED <<brain, store, queued, budget, born, told, taken>>
      BY <1>1 DEF Prepare
    <2> HIDE DEF d
    <2> QED  BY <2>1, <2>2, <2>3, <2>4, PartialSteps
  <1>2. CASE WriteFile(p)
    <2>1. PICK new \in Process : /\ SetProc(p, new) /\ new.pc \in {"write", "manifest"}
                                 /\ new.snap = proc[p].snap
      BY <1>0, <1>2, AdvanceType DEF WriteFile, PC
    <2>2. proc[p].snap \in taken
      BY <1>2 DEF WriteFile, ManifestsAreExports
    <2> DEFINE lines == proc[p].snap[Kind(p)]
               f     == [partial.file EXCEPT ![Kind(p)] = lines]
               d     == [partial EXCEPT !.file = f]
    <2>3. lines \in File /\ lines \in Collected(Kind(p))
      BY <1>0, <2>2 DEF Collected
    <2>4. partial' = d /\ UNCHANGED <<brain, store, queued, budget, born, told, taken>>
      BY <1>0, <1>2 DEF WriteFile, Directory
    <2> HIDE DEF lines
    <2>5. partial.file \in [Kinds -> File \union {Missing}]
      BY <1>0 DEF Directory
    <2>6. /\ f \in [Kinds -> File \union {Missing}]
          /\ \A k \in Kinds : f[k] # Missing => f[k] \in Collected(k)
      BY <1>0, <2>3, <2>5 DEF FilesAreExports
    <2> HIDE DEF f
    <2>7. d \in Directory /\ d.manifest = partial.manifest /\ d.file = f
      BY <1>0, <2>6 DEF Directory
    <2> HIDE DEF d
    <2>8. d.manifest \in taken \union {NoManifest}
      BY <2>7 DEF ManifestsAreExports
    <2> QED  BY <2>1, <2>2, <2>4, <2>6, <2>7, <2>8, PartialSteps
  <1>3. CASE WriteManifest(p)
    <2>1. PICK new \in Process : SetProc(p, new) /\ new.pc = "remove"
      BY <1>3, Went DEF WriteManifest, PC
    <2>2. proc[p].snap \in taken
      BY <1>3 DEF WriteManifest, ManifestsAreExports
    <2> DEFINE snap == proc[p].snap
               d    == [partial EXCEPT !.manifest = snap]
    <2>3. partial' = d /\ UNCHANGED <<brain, store, queued, budget, born, told, taken>>
      BY <1>3 DEF WriteManifest
    <2>4. snap \in taken /\ snap \in [Kinds -> File]
      BY <1>0, <2>2
    <2> HIDE DEF snap
    <2>5. d \in Directory /\ d.manifest = snap /\ d.file = partial.file
      BY <1>0, <2>4 DEF Directory
    <2> HIDE DEF d
    <2>6. \A k \in Kinds : partial.file[k] # Missing => partial.file[k] \in Collected(k)
      BY DEF FilesAreExports
    <2> QED  BY <2>1, <2>3, <2>4, <2>5, <2>6, PartialSteps
  <1>4. CASE Cleanup(p)
    BY <1>4, NoDirectoryType, Stopped, IdleType, PartialSteps DEF Cleanup
  <1> QED  BY <1>1, <1>2, <1>3, <1>4

\* Steps that change brain.  The processes that prepare or import stand where
\* they stood.
LEMMA BrainSteps ==
    ASSUME Inv, UNCHANGED <<store, queued, taken>>,
           brain' \in Directory, partial' \in Directory, proc' \in [Procs -> Process],
           budget' \in Nat, born' \subseteq Kinds, told' \in [Kinds -> 0..MaxVersion],
           ~brain'.there => \A k \in Kinds : brain'.file[k] = Missing,
           \A q \in Procs :
              proc'[q].pc = "append" /\ proc'[q].linked =>
                brain'.file[BrainKind[proc'[q].i]] # Missing,
           brain'.manifest \in taken \union {NoManifest},
           partial'.manifest \in taken \union {NoManifest},
           \A k \in Kinds : partial'.file[k] # Missing => partial'.file[k] \in Collected(k),
           \A k \in Kinds : Readable(brain'.file[k]) => brain'.file[k] \in Collected(k),
           \A q \in Procs :
              proc'[q].pc \in {"prepare", "write", "manifest", "upsert"} =>
                /\ proc'[q].pc = proc[q].pc /\ proc'[q].i = proc[q].i
                /\ proc'[q].snap = proc[q].snap /\ proc'[q].held = proc[q].held
    PROVE  Inv'
  <1> USE DEF Inv
  <1>1. TypeOK'
    BY DEF TypeOK
  <1>2. Named'
    BY DEF Named, Kind
  <1>3. ManifestsAreExports'
    BY DEF ManifestsAreExports
  <1>4. FilesAreExports'
    BY DEF FilesAreExports, Readable, Collected
  <1>5. HeldIsExported'
    BY DEF HeldIsExported, Kind, Collected
  <1> QED  BY <1>1, <1>2, <1>3, <1>4, <1>5

LEMMA OpenSteps ==
    ASSUME Inv, NEW p \in Procs, NEW i \in DOMAIN BrainKind, Create(p, i) \/ Mutate(p, i)
    PROVE  Inv'
  <1> USE DEF Inv
  <1> DEFINE k == BrainKind[i]
  <1>1. k \in Kinds /\ brain \in Directory /\ brain.file[k] \in File \union {Missing}
    BY KindDomain DEF TypeOK, Directory
  <1>2. PICK version \in 0..MaxVersion : Open(p, i, version)
    <2>1. CASE Create(p, i)
      <3>1. 1 \in 0..MaxVersion
        BY ConstantsOK
      <3> QED  BY <2>1, <3>1 DEF Create
    <2>2. CASE Mutate(p, i)
      <3> DEFINE cur == IF InLog(k) THEN Folded(brain.file[k]) ELSE store[k].version
      <3>1. cur \in 1..(MaxVersion - 1) /\ Open(p, i, cur + 1)
        BY <2>2 DEF Mutate
      <3> HIDE DEF cur
      <3>2. cur + 1 \in 0..MaxVersion
        BY <3>1, ConstantsOK
      <3> QED  BY <3>1, <3>2
    <2> QED  BY <2>1, <2>2
  <1>3. born' \subseteq Kinds
    BY <1>1 DEF Create, Mutate, TypeOK
  <1>4. budget' \in Nat
    BY <1>2, BudgetType DEF Open
  <1> DEFINE lines == IF brain.file[k] = Missing THEN <<>> ELSE brain.file[k]
             f     == [brain.file EXCEPT ![k] = lines]
             d     == [brain EXCEPT !.there = TRUE, !.file = f]
             new   == [Idle EXCEPT !.pc = "append", !.i = i, !.version = version]
  <1>5. brain' = d
    BY <1>1, <1>2 DEF Open, Directory
  <1>6. SetProc(p, new) /\ UNCHANGED <<partial, store, queued, told, taken>>
    BY <1>2 DEF Open
  <1>7. new \in Process /\ new.pc = "append" /\ new.i = i
    BY IdleType DEF Process, PC
  <1> HIDE DEF new
  <1>8. /\ proc' \in [Procs -> Process]
        /\ proc'[p] = new
        /\ \A q \in Procs : q # p => proc'[q] = proc[q]
    BY <1>6, <1>7, SetProcType
  <1>9. /\ lines \in File /\ lines # Missing
        /\ lines = brain.file[k] \/ lines \in Collected(k)
    BY <1>1, NoLinesIsFile, MissingIsNoFile DEF Collected
  <1> HIDE DEF lines
  <1>10. /\ f \in [Kinds -> File \union {Missing}]
         /\ f[k] = lines
         /\ \A j \in Kinds : j # k => f[j] = brain.file[j]
    BY <1>1, <1>9 DEF Directory
  <1> HIDE DEF f
  <1>11. d \in Directory /\ d.there /\ d.file = f /\ d.manifest = brain.manifest
    BY <1>1, <1>10 DEF Directory
  <1> HIDE DEF d
  <1>12. \A q \in Procs :
            proc'[q].pc = "append" /\ proc'[q].linked =>
              brain'.file[BrainKind[proc'[q].i]] # Missing
    <2> SUFFICES ASSUME NEW q \in Procs, proc'[q].pc = "append", proc'[q].linked
                 PROVE  brain'.file[BrainKind[proc'[q].i]] # Missing
      OBVIOUS
    <2>1. CASE q = p
      BY <2>1, <1>5, <1>7, <1>8, <1>9, <1>10, <1>11
    <2>2. CASE q # p
      <3>1. proc'[q] = proc[q] /\ Kind(q) \in Kinds /\ brain.file[Kind(q)] # Missing
        BY <1>8, <2>2, KindType DEF Named
      <3> QED  BY <3>1, <1>5, <1>9, <1>10, <1>11 DEF Kind
    <2> QED  BY <2>1, <2>2
  <1>13. \A j \in Kinds : Readable(brain'.file[j]) => brain'.file[j] \in Collected(j)
    BY <1>5, <1>9, <1>10, <1>11 DEF FilesAreExports
  <1>14. \A q \in Procs :
            proc'[q].pc \in {"prepare", "write", "manifest", "upsert"} => proc'[q] = proc[q]
    BY <1>7, <1>8
  <1>15. /\ brain'.manifest \in taken \union {NoManifest}
         /\ partial'.manifest \in taken \union {NoManifest}
         /\ \A j \in Kinds : partial'.file[j] # Missing => partial'.file[j] \in Collected(j)
    BY <1>5, <1>6, <1>11 DEF ManifestsAreExports, FilesAreExports
  <1>16. /\ brain' \in Directory /\ brain'.there /\ partial' \in Directory
         /\ told' \in [Kinds -> 0..MaxVersion]
    BY <1>5, <1>6, <1>11 DEF TypeOK
  <1> QED  BY <1>3, <1>4, <1>6, <1>8, <1>12, <1>13, <1>14, <1>15, <1>16, BrainSteps

LEMMA AppendSteps ==
    ASSUME Inv, NEW p \in Procs, AppendLine(p)
    PROVE  Inv'
  <1> USE DEF Inv
  <1> DEFINE k   == Kind(p)
             new == [proc[p] EXCEPT !.pc = "mirror", !.linked = TRUE, !.held = <<>>]
  <1>1. /\ k \in Kinds /\ brain \in Directory /\ proc[p] \in Process
        /\ proc[p].version \in 0..MaxVersion
    BY KindType DEF TypeOK, Process
  <1>2. /\ proc[p].pc = "append"
        /\ SetProc(p, new)
        /\ UNCHANGED <<partial, store, queued, budget, born, told, taken>>
    BY DEF AppendLine
  <1>3. new \in Process /\ new.pc = "mirror"
    BY <1>1, NoLinesIsFile DEF Process, PC
  <1> HIDE DEF new
  <1>4. /\ proc' \in [Procs -> Process]
        /\ proc'[p] = new
        /\ \A q \in Procs : q # p => proc'[q] = proc[q]
    BY <1>2, <1>3, SetProcType
  <1>5. CASE ~proc[p].linked
    BY <1>2, <1>3, <1>4, <1>5, BrainSteps
       DEF AppendLine, TypeOK, Named, Kind, ManifestsAreExports, FilesAreExports
  <1>6. CASE proc[p].linked
    <2> DEFINE line == [version |-> proc[p].version, form |-> "appended"]
               g    == Append(brain.file[k], line)
               f    == [brain.file EXCEPT ![k] = g]
               d    == [brain EXCEPT !.file = f]
    <2>1. brain.file[k] # Missing /\ Folded(brain.file[k]) = proc[p].version - 1
      BY <1>2, <1>6 DEF Named, AppendLine, Opened
    <2>2. brain.file[k] \in File
      BY <1>1, <2>1 DEF Directory
    <2>3. g \in File /\ ~Readable(g)
      BY <1>1, <2>1, <2>2, AppendKeepsFile
    <2>4. brain' = d
      BY <1>1, <1>6 DEF AppendLine, Directory
    <2> HIDE DEF g
    <2>5. /\ f \in [Kinds -> File \union {Missing}]
          /\ f[k] = g
          /\ \A j \in Kinds : j # k => f[j] = brain.file[j]
      BY <1>1, <2>3 DEF Directory
    <2> HIDE DEF f
    <2>6. d \in Directory /\ d.there = brain.there /\ d.file = f /\ d.manifest = brain.manifest
      BY <1>1, <2>5 DEF Directory
    <2> HIDE DEF d
    <2>7. g # Missing /\ brain.there
      BY <1>1, <2>1, <2>3, MissingIsNoFile DEF Named
    <2>8. \A q \in Procs :
             proc'[q].pc = "append" /\ proc'[q].linked =>
               brain'.file[BrainKind[proc'[q].i]] # Missing
      <3> SUFFICES ASSUME NEW q \in Procs, proc'[q].pc = "append", proc'[q].linked
                   PROVE  brain'.file[BrainKind[proc'[q].i]] # Missing
        OBVIOUS
      <3>1. proc'[q] = proc[q] /\ Kind(q) \in Kinds /\ brain.file[Kind(q)] # Missing
        BY <1>3, <1>4, KindType DEF Named
      <3> QED  BY <3>1, <2>4, <2>5, <2>6, <2>7 DEF Kind
    <2>9. \A j \in Kinds : Readable(brain'.file[j]) => brain'.file[j] \in Collected(j)
      BY <2>3, <2>4, <2>5, <2>6 DEF FilesAreExports
    <2>10. \A q \in Procs :
             proc'[q].pc \in {"prepare", "write", "manifest", "upsert"} => proc'[q] = proc[q]
      BY <1>3, <1>4
    <2>11. /\ brain'.manifest \in taken \union {NoManifest}
           /\ partial'.manifest \in taken \union {NoManifest}
           /\ \A j \in Kinds : partial'.file[j] # Missing => partial'.file[j] \in Collected(j)
      BY <1>2, <2>4, <2>6 DEF ManifestsAreExports, FilesAreExports
    <2>12. /\ brain' \in Directory /\ brain'.there /\ partial' \in Directory
           /\ told' \in [Kinds -> 0..MaxVersion] /\ budget' \in Nat /\ born' \subseteq Kinds
      BY <1>2, <2>4, <2>6, <2>7 DEF TypeOK
    <2> QED  BY <1>2, <1>4, <2>8, <2>9, <2>10, <2>11, <2>12, BrainSteps
  <1> QED  BY <1>5, <1>6

\* The handles on removed files lose their names, and nothing else changes.
LEMMA UnlinkType ==
    ASSUME Inv, NEW procs \in [Procs -> Process], NEW gone, NEW q \in Procs,
           \/ procs[q] = proc[q]
           \/ procs[q].pc # "append"
    PROVE  LET u == Unlink(procs, gone)[q]
           IN  /\ u \in Process /\ u.i = procs[q].i /\ u.pc = procs[q].pc
               /\ procs[q].pc # "append" => u = procs[q]
               /\ u.pc = "append" /\ u.linked => procs[q].linked /\ Kind(q) \notin gone
  <1> USE DEF Inv
  <1> DEFINE u == Unlink(procs, gone)[q]
  <1>1. u = IF procs[q].pc = "append" /\ procs[q].linked /\ Kind(q) \in gone
            THEN [procs[q] EXCEPT !.linked = FALSE, !.held = brain.file[Kind(q)]]
            ELSE procs[q]
    BY DEF Unlink
  <1>2. CASE procs[q].pc = "append" /\ procs[q].linked /\ Kind(q) \in gone
    <2>1. brain.file[Kind(q)] \in File
      <3>1. procs[q] = proc[q] /\ Kind(q) \in Kinds /\ brain \in Directory
        BY <1>2, KindType DEF TypeOK
      <3>2. brain.file[Kind(q)] # Missing
        BY <1>2, <3>1 DEF Named
      <3> QED  BY <3>1, <3>2 DEF Directory
    <2> DEFINE lines == brain.file[Kind(q)]
               w     == [procs[q] EXCEPT !.linked = FALSE, !.held = lines]
    <2>2. u = w
      BY <1>1, <1>2
    <2> HIDE DEF lines, u
    <2>3. w \in Process /\ w.i = procs[q].i /\ w.pc = procs[q].pc /\ ~w.linked
      BY <2>1 DEF Process, lines
    <2> HIDE DEF w
    <2> QED  BY <1>2, <2>2, <2>3 DEF u
  <1>3. CASE ~(procs[q].pc = "append" /\ procs[q].linked /\ Kind(q) \in gone)
    BY <1>1, <1>3
  <1> QED  BY <1>2, <1>3

\* Some files, or all, are removed, and process p goes on to new.
LEMMA RemoveSteps ==
    ASSUME Inv, NEW p \in Procs, NEW new \in Process, NEW gone,
           UNCHANGED <<partial, store, queued, born, told, taken>>, budget' \in Nat,
           new.pc \in {"idle", "rename"},
           proc' = Unlink([proc EXCEPT ![p] = new], gone),
           brain' \in Directory, brain'.manifest \in {brain.manifest, NoManifest},
           ~brain'.there => gone = Kinds,
           \A k \in Kinds : brain'.file[k] = IF k \in gone THEN Missing ELSE brain.file[k]
    PROVE  Inv'
  <1> USE DEF Inv
  <1> DEFINE procs == [proc EXCEPT ![p] = new]
  <1>1. /\ procs \in [Procs -> Process] /\ procs[p] = new
        /\ \A q \in Procs : q # p => procs[q] = proc[q]
    BY DEF TypeOK
  <1> HIDE DEF procs
  <1>2. ASSUME NEW q \in Procs
        PROVE  /\ proc'[q] \in Process /\ proc'[q].i = procs[q].i /\ proc'[q].pc = procs[q].pc
               /\ procs[q].pc # "append" => proc'[q] = procs[q]
               /\ proc'[q].pc = "append" /\ proc'[q].linked =>
                    procs[q].linked /\ Kind(q) \notin gone
    <2>1. procs[q] = proc[q] \/ procs[q].pc # "append"
      BY <1>1
    <2>2. proc'[q] = Unlink(procs, gone)[q]
      BY DEF procs
    <2> QED  BY <1>1, <2>1, <2>2, UnlinkType
  <1>3. proc' \in [Procs -> Process]
    BY <1>2 DEF Unlink
  <1>4. \A q \in Procs :
           proc'[q].pc = "append" /\ proc'[q].linked =>
             brain'.file[BrainKind[proc'[q].i]] # Missing
    <2> SUFFICES ASSUME NEW q \in Procs, proc'[q].pc = "append", proc'[q].linked
                 PROVE  brain'.file[BrainKind[proc'[q].i]] # Missing
      OBVIOUS
    <2>1. procs[q].linked /\ procs[q].pc = "append" /\ Kind(q) \notin gone
      BY <1>2
    <2>2. procs[q] = proc[q] /\ proc'[q].i = proc[q].i
      BY <1>1, <1>2, <2>1
    <2>3. Kind(q) \in Kinds /\ brain.file[Kind(q)] # Missing
      BY <2>1, <2>2, KindType DEF Named
    <2> QED  BY <2>1, <2>2, <2>3 DEF Kind
  <1>5. \A q \in Procs :
           proc'[q].pc \in {"prepare", "write", "manifest", "upsert"} => proc'[q] = proc[q]
    BY <1>1, <1>2
  <1>6. \A k \in Kinds : Readable(brain'.file[k]) => brain'.file[k] \in Collected(k)
    BY DEF FilesAreExports, Readable
  <1>7. /\ brain'.manifest \in taken \union {NoManifest}
        /\ partial'.manifest \in taken \union {NoManifest}
        /\ \A k \in Kinds : partial'.file[k] # Missing => partial'.file[k] \in Collected(k)
    BY DEF ManifestsAreExports, FilesAreExports
  <1>8. /\ partial' \in Directory /\ told' \in [Kinds -> 0..MaxVersion] /\ born' \subseteq Kinds
        /\ ~brain'.there => \A k \in Kinds : brain'.file[k] = Missing
    BY DEF TypeOK
  <1> QED  BY <1>3, <1>4, <1>5, <1>6, <1>7, <1>8, BrainSteps

LEMMA SwapSteps ==
    ASSUME Inv, NEW p \in Procs, Remove(p) \/ CrashInRemove(p) \/ Rename(p)
    PROVE  Inv'
  <1> USE DEF Inv
  <1>0. brain \in Directory /\ partial \in Directory /\ proc[p] \in Process
    BY DEF TypeOK
  <1>1. CASE Remove(p)
    <2> DEFINE new == [proc[p] EXCEPT !.pc = "rename"]
    <2>1. new \in Process /\ new.pc = "rename"
      BY <1>0 DEF Process, PC
    <2>2. proc' = Unlink([proc EXCEPT ![p] = new], Kinds)
      BY <1>1 DEF Remove
    <2> HIDE DEF new
    <2> QED  BY <1>1, <2>1, <2>2, NoDirectoryType, RemoveSteps DEF Remove, TypeOK, NoDirectory
  <1>2. CASE CrashInRemove(p)
    <2>1. budget' \in Nat /\ brain.there
      BY <1>2, BudgetType DEF CrashInRemove
    <2>2. PICK gone \in SUBSET Kinds, manifest \in {brain.manifest, NoManifest} :
            /\ brain' = [brain EXCEPT !.manifest = manifest,
                           !.file = [k \in Kinds |-> IF k \in gone THEN Missing ELSE @[k]]]
            /\ proc' = Unlink([proc EXCEPT ![p] = Idle], gone)
      BY <1>2 DEF CrashInRemove
    <2> DEFINE f == [k \in Kinds |-> IF k \in gone THEN Missing ELSE brain.file[k]]
               d == [brain EXCEPT !.manifest = manifest, !.file = f]
    <2>3. brain' = d
      BY <1>0, <2>2 DEF Directory
    <2>4. /\ f \in [Kinds -> File \union {Missing}]
          /\ \A k \in Kinds : f[k] = IF k \in gone THEN Missing ELSE brain.file[k]
      BY <1>0 DEF Directory
    <2> HIDE DEF f
    <2>5. d \in Directory /\ d.there = brain.there /\ d.manifest = manifest /\ d.file = f
      BY <1>0, <2>4 DEF Directory
    <2> HIDE DEF d
    <2>6. UNCHANGED <<partial, store, queued, born, told, taken>>
      BY <1>2 DEF CrashInRemove
    <2>7. Idle.pc = "idle"
      BY DEF Idle
    <2>8. /\ brain' \in Directory /\ brain'.there
          /\ brain'.manifest \in {brain.manifest, NoManifest}
          /\ \A k \in Kinds : brain'.file[k] = IF k \in gone THEN Missing ELSE brain.file[k]
      BY <2>1, <2>3, <2>4, <2>5
    <2>9. proc' = Unlink([proc EXCEPT ![p] = Idle], gone)
      BY <2>2
    <2> QED  BY <2>1, <2>6, <2>7, <2>8, <2>9, IdleType, RemoveSteps
  <1>3. CASE Rename(p)
    <2>1. Stop(p) /\ UNCHANGED <<store, queued, budget, born, told, taken>>
      BY <1>3 DEF Rename
    <2>2. CASE UNCHANGED files
      BY <2>1, <2>2, Stopped, IdleType, FilesLeftAlone DEF TypeOK
    <2>3. CASE brain' = partial /\ partial' = NoDirectory /\ partial.there /\ ~brain.there
      <3>1. /\ proc' \in [Procs -> Process] /\ proc'[p].pc = "idle"
            /\ \A q \in Procs : q # p => proc'[q] = proc[q]
        BY <2>1, Stopped, IdleType, SetProcType
      <3>2. \A q \in Procs : ~(proc'[q].pc = "append" /\ proc'[q].linked)
        BY <2>3, <3>1, KindType DEF Named
      <3>3. \A q \in Procs :
               proc'[q].pc \in {"prepare", "write", "manifest", "upsert"} => proc'[q] = proc[q]
        BY <3>1
      <3>4. \A k \in Kinds : Readable(brain'.file[k]) => brain'.file[k] \in Collected(k)
        BY <2>3 DEF FilesAreExports, Readable
      <3>5. /\ brain'.manifest \in taken \union {NoManifest}
            /\ partial'.manifest \in taken \union {NoManifest}
            /\ \A k \in Kinds : partial'.file[k] # Missing => partial'.file[k] \in Collected(k)
        BY <2>3, NoDirectoryType DEF ManifestsAreExports
      <3>6. /\ brain' \in Directory /\ partial' \in Directory /\ brain'.there
            /\ budget' \in Nat /\ born' \subseteq Kinds /\ told' \in [Kinds -> 0..MaxVersion]
        BY <1>0, <2>1, <2>3, NoDirectoryType DEF TypeOK
      <3> QED  BY <2>1, <3>1, <3>2, <3>3, <3>4, <3>5, <3>6, BrainSteps
    <2> QED  BY <1>3, <2>2, <2>3 DEF Rename
  <1> QED  BY <1>1, <1>2, <1>3

--------------------------------------------------------------------------------
(* The invariant *)

LEMMA InvInit == ASSUME Init PROVE Inv
  <1>1. TypeOK
    <2>1. Idle \in Process /\ NoDirectory \in Directory
      BY IdleType, NoDirectoryType
    <2>2. NoPoint \in Point /\ 0 \in 0..MaxVersion /\ Budget \in Nat
      BY ConstantsOK DEF NoPoint, Point
    <2> QED  BY <2>1, <2>2 DEF Init, TypeOK
  <1>2. \A p \in Procs : proc[p].pc = "idle"
    BY DEF Init, Idle
  <1>3. Named
    BY <1>2, NoDirectoryType DEF Init, Named
  <1>4. ManifestsAreExports
    BY <1>2, NoDirectoryType DEF Init, ManifestsAreExports
  <1>5. FilesAreExports
    BY NoDirectoryType DEF Init, FilesAreExports, Readable
  <1>6. HeldIsExported
    BY <1>2 DEF HeldIsExported
  <1> QED  BY <1>1, <1>3, <1>4, <1>5, <1>6 DEF Inv

LEMMA InvNext == ASSUME Inv, [Next]_vars PROVE Inv'
  <1>1. CASE UNCHANGED vars
    BY <1>1 DEF Inv, TypeOK, Named, ManifestsAreExports, FilesAreExports, HeldIsExported,
                Kind, Collected, Readable, vars
  <1>2. ASSUME NEW p \in Procs, NEW i \in DOMAIN BrainKind, Create(p, i) \/ Mutate(p, i)
        PROVE  Inv'
    BY <1>2, OpenSteps
  <1>3. ASSUME NEW p \in Procs, NEW job \in {"import", "wipe"}, StartImport(p, job)
        PROVE  Inv'
    BY <1>3, ImportSteps
  <1>4. ASSUME NEW p \in Procs,
               StartExport(p) \/ Step(p) \/ MirrorFails(p) \/ ImportFails(p)
                 \/ CrashInRemove(p) \/ Crash(p)
        PROVE  Inv'
    BY <1>4, AppendSteps, WriteSteps, ExportSteps, PrepareSteps, SwapSteps, ImportReads,
       ImportSteps, EndSteps DEF Step
  <1>5. ASSUME NEW k \in Kinds, Replay(k) \/ Rescan(k) PROVE Inv'
    BY <1>5, ReconcileSteps
  <1> QED  BY <1>1, <1>2, <1>3, <1>4, <1>5 DEF Next

LEMMA Invariance == Spec => []Inv
  BY InvInit, InvNext, PTL DEF Spec

\* Every variable keeps its type, whatever the processes do and however many
\* they are (cmd/brain_export.go, cmd/brain_import.go).
THEOREM TypeCorrect == Spec => []TypeOK
  <1>1. Inv => TypeOK
    BY DEF Inv
  <1> QED  BY <1>1, Invariance, PTL

\* A directory whose checksums are right is what one export has collected, for
\* any number of processes and kinds: the sums are those of the lines the export
\* has written itself, whoever wrote the files (brain_export.go:329).
THEOREM SnapshotsAreExports == Spec => []SnapshotIsOneExport
  <1>1. Inv => SnapshotIsOneExport
    BY DEF Inv, ManifestsAreExports, SnapshotIsOneExport, Valid
  <1> QED  BY <1>1, Invariance, PTL

\* An import writes to the store only what an export has collected, although
\* it does not look at the checksum again when it reads a file: a line without
\* an id makes it refuse the file (store/brain_import.go:110).
THEOREM ImportsAreExports == Spec => []ImportsOnlyExports
  <1>1. Inv => ImportsOnlyExports
    BY DEF Inv, HeldIsExported, Collected, ImportsOnlyExports
  <1> QED  BY <1>1, Invariance, PTL

================================================================================
