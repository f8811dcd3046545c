-------------------------- MODULE BrainStore_proofs ---------------------------
(***************************************************************************)
(* IInv is an inductive invariant of BrainStore, for all sets of records,  *)
(* authors and janitors, every mix of origins, jobs and faults; FreshInv,  *)
(* from which the doctor's report follows, is one for fresh records.       *)
(***************************************************************************)
EXTENDS BrainInvariant, SequenceTheorems, TLAPS

--------------------------------------------------------------------------------
(* Types *)

LEMMA LinesAreTyped ==
    ASSUME TypeOK, NEW r \in Records, Logged(r)
    PROVE  /\ Len(jsonl[r]) \in Nat \ {0}
           /\ FirstLine(r) \in Line
           /\ FoldLatest(r) \in Line
           /\ LatestVersion(r) \in Nat
<1>1. jsonl[r] \in Seq(Line) /\ jsonl[r] # <<>>  BY DEF TypeOK, Logged
<1>2. Len(jsonl[r]) \in Nat \ {0}  BY <1>1, EmptySeq, LenProperties
<1>3. jsonl[r][1] \in Line /\ jsonl[r][Len(jsonl[r])] \in Line
      BY <1>1, <1>2, ElementOfSeq
<1> QED  BY <1>2, <1>3 DEF FirstLine, FoldLatest, LatestVersion, Line

LEMMA LatestVersionIsNat ==
    ASSUME TypeOK, NEW r \in Records
    PROVE  LatestVersion(r) \in Nat
BY LinesAreTyped DEF LatestVersion

LEMMA CurrentIsTyped ==
    ASSUME TypeOK, NEW r \in Records
    PROVE  Current(r).line \in Line
<1>1. point[r].line \in Line  BY DEF TypeOK, Point
<1> QED  BY <1>1, LinesAreTyped DEF Current

LEMMA TypeInit == Init => TypeOK
<1> SUFFICES ASSUME Init PROVE TypeOK  OBVIOUS
<1>1. Blank \in Line  BY DEF Blank, Line
<1>2. <<>> \in Seq(Line) /\ <<Blank>> \in Seq(Line)  BY <1>1
<1>3. jsonl \in [Records -> Seq(Line)]  BY <1>2 DEF Init, OriginLines
<1>4. NoPoint \in Point /\ StoredPoint(Blank) \in Point
      BY <1>1 DEF NoPoint, StoredPoint, Point
<1>5. point \in [Records -> Point]  BY <1>4 DEF Init, OriginPoint
<1>6. Idle \in Command  BY <1>1 DEF Idle, Command, AuthorPC
<1>7. Rest \in Pass  BY <1>1 DEF Rest, Pass, JanitorPC
<1>8. 0 \in 0..MaxEdits  BY ConstantsOK
<1> QED  BY <1>3, <1>5, <1>6, <1>7, <1>8 DEF Init, TypeOK

\* A command or a pass that moves to a well-typed state leaves the others alone.
LEMMA SetAuthorTyped ==
    ASSUME TypeOK, NEW a \in Authors, NEW cmd \in Command, SetAuthor(a, cmd)
    PROVE  author' \in [Authors -> Command]
BY DEF TypeOK, SetAuthor

LEMMA SetJanitorTyped ==
    ASSUME TypeOK, NEW j \in Janitors, NEW pass \in Pass, SetJanitor(j, pass)
    PROVE  janitor' \in [Janitors -> Pass]
BY DEF TypeOK, SetJanitor

LEMMA UpsertTyped ==
    ASSUME TypeOK, NEW r \in Records, NEW l \in Line, NEW d \in BOOLEAN,
           Upsert(r, [present |-> TRUE, line |-> l, degraded |-> d])
    PROVE  point' \in [Records -> Point]
BY DEF TypeOK, Upsert, Point

LEMMA SetPayloadTyped ==
    ASSUME TypeOK, NEW r \in Records, NEW l \in Line, SetPayload(r, l)
    PROVE  point' \in [Records -> Point]
BY DEF TypeOK, SetPayload, Point

LEMMA AppendLineTyped ==
    ASSUME TypeOK, NEW r \in Records, NEW l \in Line,
           jsonl' = [jsonl EXCEPT ![r] = Append(@, l)]
    PROVE  jsonl' \in [Records -> Seq(Line)]
BY DEF TypeOK

LEMMA AuthorTypes ==
    ASSUME TypeOK, NEW a \in Authors, AuthorValid(a), AuthorStep(a)
    PROVE  TypeOK'
<1>0. /\ author[a] \in Command /\ edits[a] \in 0..MaxEdits /\ MaxEdits \in Nat
      /\ Idle \in Command
  BY ConstantsOK DEF TypeOK, Idle, Command, AuthorPC, Blank, Line
<1>1. ASSUME NEW r \in Records, Create(a, r) PROVE TypeOK'
  <2> DEFINE l == [version |-> 1, edits |-> {}]
  <2>1. l \in Line  BY DEF Line
  <2>2. [pc |-> "upsert", rec |-> r, line |-> l] \in Command
        BY <2>1 DEF Command, AuthorPC
  <2>3. jsonl' \in [Records -> Seq(Line)]  BY <1>1, <2>1 DEF Create, TypeOK
  <2> QED  BY <1>1, <2>2, <2>3, SetAuthorTyped DEF Create, TypeOK
<1>2. ASSUME NEW r \in Records, ReadAndApply(a, r) PROVE TypeOK'
  <2> DEFINE n == edits[a] + 1
             l == [Current(r).line EXCEPT !.edits = @ \union {<<a, n>>}]
  <2>1. n \in 1..MaxEdits  BY <1>0, <1>2 DEF ReadAndApply
  <2>2. l \in Line  BY <2>1, CurrentIsTyped DEF Line, Edit
  <2>3. [pc |-> "append", rec |-> r, line |-> l] \in Command
        BY <2>2 DEF Command, AuthorPC
  <2>4. edits' \in [Authors -> 0..MaxEdits]  BY <1>2, <2>1 DEF ReadAndApply, TypeOK
  <2> QED  BY <1>2, <2>3, <2>4, SetAuthorTyped DEF ReadAndApply, TypeOK
<1>3. CASE UpsertCreated(a)
  <2>1. point' \in [Records -> Point]
        BY <1>0, <1>3, UpsertTyped
        DEF UpsertCreated, StoredPoint, AuthorValid, Command
  <2> QED  BY <1>0, <1>3, <2>1, SetAuthorTyped DEF UpsertCreated, TypeOK
<1>4. CASE UpsertFails(a)
  <2>1. [author[a] EXCEPT !.pc = "queue"] \in Command  BY <1>0 DEF Command, AuthorPC
  <2> QED  BY <1>4, <2>1, SetAuthorTyped DEF UpsertFails, TypeOK
<1>5. CASE QueueBrainOutbox(a)
  <2>1. outbox' \in SUBSET Records
        BY <1>5 DEF QueueBrainOutbox, AuthorValid, TypeOK
  <2> QED  BY <1>0, <1>5, <2>1, SetAuthorTyped DEF QueueBrainOutbox, TypeOK
<1>6. CASE QueueBrainOutboxFails(a)
  <2>1. orphaned' \in SUBSET Records
        BY <1>6 DEF QueueBrainOutboxFails, AuthorValid, TypeOK
  <2> QED  BY <1>0, <1>6, <2>1, SetAuthorTyped DEF QueueBrainOutboxFails, TypeOK
<1>7. CASE AppendCAS(a)
  <2> DEFINE r == author[a].rec
             l == [author[a].line EXCEPT !.version = LatestVersion(r) + 1]
  <2>1. r \in Records  BY <1>7 DEF AppendCAS, AuthorValid
  <2>2. l \in Line  BY <1>0, <2>1, LatestVersionIsNat DEF Line, Command
  <2>3. [author[a] EXCEPT !.pc = "mirror", !.line = l] \in Command
        BY <1>0, <2>2 DEF Command, AuthorPC
  <2>4. jsonl' \in [Records -> Seq(Line)]
        BY <1>7, <2>1, <2>2, AppendLineTyped DEF AppendCAS
  <2> QED  BY <1>7, <2>3, <2>4, SetAuthorTyped DEF AppendCAS, TypeOK
<1>8. CASE AppendConflict(a)
  BY <1>0, <1>8, SetAuthorTyped DEF AppendConflict, TypeOK
<1>9. CASE MirrorMutation(a)
  <2>1. point' \in [Records -> Point]
        BY <1>0, <1>9, SetPayloadTyped DEF MirrorMutation, AuthorValid, Command
  <2> QED  BY <1>0, <1>9, <2>1, SetAuthorTyped DEF MirrorMutation, TypeOK
<1>10. CASE MirrorFails(a)
  BY <1>0, <1>10, SetAuthorTyped DEF MirrorFails, TypeOK
<1>11. CASE AuthorCrash(a)
  <2>1. orphaned' \in SUBSET Records
        BY <1>11 DEF AuthorCrash, AuthorValid, TypeOK
  <2> QED  BY <1>0, <1>11, <2>1, SetAuthorTyped DEF AuthorCrash, TypeOK
<1> QED  BY <1>1, <1>2, <1>3, <1>4, <1>5, <1>6, <1>7, <1>8, <1>9, <1>10, <1>11
         DEF AuthorStep

LEMMA ReleaseTypes ==
    ASSUME TypeOK, NEW j \in Janitors, Release(j)
    PROVE  TypeOK'
<1>1. Rest \in Pass  BY DEF Rest, Pass, JanitorPC, Blank, Line
<1> QED  BY <1>1, SetJanitorTyped DEF Release, TypeOK

LEMMA BeginTypes ==
    ASSUME TypeOK, NEW j \in Janitors, NEW job \in AllJobs, Begin(j, job)
    PROVE  TypeOK'
<1> DEFINE heal == [Rest EXCEPT !.pc = "heal", !.job = job,
                                !.todo = {r \in Records : point[r].degraded},
                                !.seen = [r \in Records |-> point[r].line]]
           drain == [Rest EXCEPT !.pc = "drain", !.job = job, !.todo = outbox]
<1>0. Rest \in Pass  BY DEF Rest, Pass, JanitorPC, Blank, Line
<1>1. heal \in Pass  BY <1>0 DEF Pass, JanitorPC, TypeOK, Point
<1>2. drain \in Pass  BY <1>0 DEF Pass, JanitorPC, TypeOK
<1>3. CASE job = "heal"
  <2>1. SetJanitor(j, heal)  BY <1>3 DEF Begin
  <2> QED  BY <2>1, <1>1, SetJanitorTyped DEF Begin, TypeOK
<1>4. CASE job # "heal"
  <2>1. SetJanitor(j, drain)  BY <1>4 DEF Begin
  <2> QED  BY <2>1, <1>2, SetJanitorTyped DEF Begin, TypeOK
<1> QED  BY <1>3, <1>4

LEMMA PassTypes ==
    ASSUME TypeOK, NEW j \in Janitors, PassValid(j), PassStep(j)
    PROVE  TypeOK'
<1>0. janitor[j] \in Pass /\ Rest \in Pass
  BY DEF TypeOK, Rest, Pass, JanitorPC, Blank, Line
<1>1. ASSUME NEW r \in Records, ReplayRead(j, r) PROVE TypeOK'
  <2>1. FirstLine(r) \in Line  BY <1>1, LinesAreTyped DEF ReplayRead, PassValid
  <2>2. [janitor[j] EXCEPT !.pc = "replay", !.rec = r,
                           !.seen[r] = FirstLine(r)] \in Pass
        BY <1>0, <2>1 DEF Pass, JanitorPC
  <2> QED  BY <1>1, <2>2, SetJanitorTyped DEF ReplayRead, TypeOK
<1>2. ASSUME NEW r \in Records, RepairRecord(j, r) PROVE TypeOK'
  <2>1. [janitor[j] EXCEPT !.todo = @ \ {r}] \in Pass  BY <1>0 DEF Pass
  <2>2. janitor[j].seen[r] \in Line  BY <1>0 DEF Pass
  <2>3. point' \in [Records -> Point]
        BY <1>2, <2>2, UpsertTyped, SetPayloadTyped
        DEF RepairRecord, ZeroVectorPoint, TypeOK
  <2> QED  BY <1>2, <2>1, <2>3, SetJanitorTyped DEF RepairRecord, TypeOK
<1>3. ASSUME NEW r \in Records, RepairFails(j, r) PROVE TypeOK'
  <2>1. [janitor[j] EXCEPT !.todo = @ \ {r}, !.failed = TRUE] \in Pass
        BY <1>0 DEF Pass
  <2> QED  BY <1>3, <2>1, SetJanitorTyped DEF RepairFails, TypeOK
<1>4. ASSUME NEW r \in Records, HealRecord(j, r) PROVE TypeOK'
  <2>1. [janitor[j] EXCEPT !.todo = @ \ {r}] \in Pass  BY <1>0 DEF Pass
  <2>2. janitor[j].seen[r] \in Line  BY <1>0 DEF Pass
  <2>3. point' \in [Records -> Point]
        BY <1>4, <2>2, UpsertTyped DEF HealRecord, StoredPoint
  <2> QED  BY <1>4, <2>1, <2>3, SetJanitorTyped DEF HealRecord, TypeOK
<1>5. CASE ReplayUpsert(j)
  <2>1. janitor[j].rec \in Records  BY <1>5 DEF ReplayUpsert, PassValid
  <2>2. janitor[j].seen[janitor[j].rec] \in Line  BY <1>0, <2>1 DEF Pass
  <2>3. point' \in [Records -> Point]
        BY <1>5, <2>1, <2>2, UpsertTyped DEF ReplayUpsert, ZeroVectorPoint
  <2>4. [janitor[j] EXCEPT !.pc = "delete"] \in Pass  BY <1>0 DEF Pass, JanitorPC
  <2> QED  BY <1>5, <2>3, <2>4, SetJanitorTyped DEF ReplayUpsert, TypeOK
<1>6. NextEntry(j) \in Pass
  BY <1>0 DEF NextEntry, Pass, JanitorPC
<1>7. CASE ReplayFails(j)
  <2>1. [NextEntry(j) EXCEPT !.failed = TRUE] \in Pass  BY <1>6 DEF Pass
  <2> QED  BY <1>7, <2>1, SetJanitorTyped DEF ReplayFails, TypeOK
<1>8. CASE DeleteEntry(j)
  BY <1>6, <1>8, SetJanitorTyped DEF DeleteEntry, TypeOK
<1>9. CASE DrainDone(j)
  <2>1. [janitor[j] EXCEPT !.pc = "fold"] \in Pass  BY <1>0 DEF Pass, JanitorPC
  <2> QED  BY <1>9, <2>1, SetJanitorTyped DEF DrainDone, TypeOK
<1>10. CASE ReadFold(j)
  <2> DEFINE folded == [r \in Records |-> IF Logged(r) THEN ScanSource(r) ELSE Blank]
  <2>1. folded \in [Records -> Line]
        BY LinesAreTyped DEF ScanSource, Blank, Line
  <2>2. [janitor[j] EXCEPT !.pc = "uuids", !.todo = {r \in Records : Logged(r)},
                           !.seen = folded] \in Pass
        BY <1>0, <2>1 DEF Pass, JanitorPC
  <2> QED  BY <1>10, <2>2, SetJanitorTyped DEF ReadFold, TypeOK
<1>11. CASE CollectionUUIDs(j)
  <2>1. [janitor[j] EXCEPT !.pc = "scan",
                           !.present = {r \in Records : point[r].present}] \in Pass
        BY <1>0 DEF Pass, JanitorPC
  <2> QED  BY <1>11, <2>1, SetJanitorTyped DEF CollectionUUIDs, TypeOK
<1>12. CASE CollectionUUIDsFails(j)
  <2>1. [janitor[j] EXCEPT !.pc = "scan"] \in Pass  BY <1>0 DEF Pass, JanitorPC
  <2> QED  BY <1>12, <2>1, SetJanitorTyped DEF CollectionUUIDsFails, TypeOK
<1>13. CASE AutoStops(j) \/ DoctorReports(j) \/ HealStops(j)
  BY <1>13, ReleaseTypes DEF AutoStops, DoctorReports, HealStops
<1> QED  BY <1>1, <1>2, <1>3, <1>4, <1>5, <1>7, <1>8, <1>9, <1>10, <1>11, <1>12, <1>13
         DEF PassStep

LEMMA JanitorTypes ==
    ASSUME TypeOK, NEW j \in Janitors, PassValid(j), JanitorStep(j)
    PROVE  TypeOK'
<1>1. CASE JanitorCrash(j)  BY <1>1, ReleaseTypes DEF JanitorCrash
<1>2. CASE RetryTorn(j)
  <2>1. Rest \in Pass  BY DEF Rest, Pass, JanitorPC, Blank, Line
  <2>2. orphaned' \in SUBSET Records  BY <1>2 DEF RetryTorn, PassValid, TypeOK
  <2> QED  BY <1>2, <2>1, <2>2, SetJanitorTyped DEF RetryTorn, TypeOK
<1> QED  BY <1>1, <1>2, BeginTypes, PassTypes DEF JanitorStep

--------------------------------------------------------------------------------
(* What a step can do to the histories *)

\* Only a create and a commit write the JSONL.
LEMMA LogSteps ==
    ASSUME [Next]_vars
    PROVE  \/ UNCHANGED jsonl
           \/ \E a \in Authors, r \in Records : Create(a, r)
           \/ \E a \in Authors : AppendCAS(a)
<1>1. ASSUME NEW a \in Authors, AuthorStep(a),
             \A r \in Records : ~Create(a, r), ~AppendCAS(a)
      PROVE  UNCHANGED jsonl
  BY <1>1 DEF AuthorStep, ReadAndApply, UpsertCreated, UpsertFails, QueueBrainOutbox,
     QueueBrainOutboxFails, AppendConflict, MirrorMutation, MirrorFails, AuthorCrash
<1>2. ASSUME NEW j \in Janitors, JanitorStep(j)
      PROVE  UNCHANGED jsonl
  BY <1>2 DEF JanitorStep, PassStep, Begin, JanitorCrash, RetryTorn, ReplayRead,
     RepairRecord, RepairFails, HealRecord, ReplayUpsert, ReplayFails, DeleteEntry,
     AutoStops, DrainDone, ReadFold, CollectionUUIDs, CollectionUUIDsFails,
     DoctorReports, HealStops, Release
<1> QED  BY <1>1, <1>2 DEF Next, vars

\* Only the start of a mutation counts as an edit.
LEMMA EditSteps ==
    ASSUME [Next]_vars
    PROVE  \/ UNCHANGED edits
           \/ /\ UNCHANGED jsonl
              /\ \E a \in Authors : edits' = [edits EXCEPT ![a] = @ + 1]
<1>1. ASSUME NEW a \in Authors, AuthorStep(a),
             \A r \in Records : ~ReadAndApply(a, r)
      PROVE  UNCHANGED edits
  BY <1>1 DEF AuthorStep, Create, UpsertCreated, UpsertFails, QueueBrainOutbox,
     QueueBrainOutboxFails, AppendCAS, AppendConflict, MirrorMutation, MirrorFails,
     AuthorCrash
<1>2. ASSUME NEW j \in Janitors, JanitorStep(j)
      PROVE  UNCHANGED edits
  BY <1>2 DEF JanitorStep, PassStep, Begin, JanitorCrash, RetryTorn, ReplayRead,
     RepairRecord, RepairFails, HealRecord, ReplayUpsert, ReplayFails, DeleteEntry,
     AutoStops, DrainDone, ReadFold, CollectionUUIDs, CollectionUUIDsFails,
     DoctorReports, HealStops, Release
<1> QED  BY <1>1, <1>2 DEF Next, vars, ReadAndApply

\* An append keeps the lines before it.
LEMMA AppendKeeps ==
    ASSUME NEW s \in Seq(Line), NEW l \in Line
    PROVE  /\ Append(s, l) \in Seq(Line)
           /\ Len(Append(s, l)) = Len(s) + 1
           /\ \A k \in 1..Len(s) : Append(s, l)[k] = s[k]
           /\ Append(s, l)[Len(s) + 1] = l
           /\ Append(s, l) # <<>>
OBVIOUS

\* The line a commit appends, and what follows from its version guard.
LEMMA CommitStep ==
    ASSUME IInv, NEW a \in Authors, AppendCAS(a)
    PROVE  LET r == author[a].rec
               l == [author[a].line EXCEPT !.version = LatestVersion(r) + 1]
           IN  /\ r \in Records
               /\ l \in Line
               /\ jsonl' = [jsonl EXCEPT ![r] = Append(@, l)]
               /\ OwnEdit(a) \in l.edits /\ OwnEdit(a) \in Edit
               /\ Logged(r) => /\ l.version = FoldLatest(r).version + 1
                               /\ l.edits = FoldLatest(r).edits \union {OwnEdit(a)}
                               /\ OwnEdit(a) \notin FoldLatest(r).edits
               /\ ~Logged(r) => l.version = 1 /\ l.edits = {OwnEdit(a)}
<1> DEFINE r == author[a].rec
           l == [author[a].line EXCEPT !.version = LatestVersion(r) + 1]
<1>1. /\ TypeOK /\ VersionChain /\ FirstVersion /\ r \in Records
      /\ ReadValid(a) /\ EditIsNew(a) /\ edits[a] > 0
  BY DEF IInv, AuthorValid, AppendCAS
<1>2. author[a].line \in Line  BY <1>1 DEF TypeOK, Command
<1>3. l \in Line /\ l.edits = author[a].line.edits /\ l.version = LatestVersion(r) + 1
  BY <1>1, <1>2, LatestVersionIsNat DEF Line
<1>4. OwnEdit(a) \in Edit
  <2>1. edits[a] \in 1..MaxEdits  BY <1>1, ConstantsOK DEF TypeOK
  <2> QED  BY <2>1 DEF OwnEdit, Edit
<1>5. OwnEdit(a) \in l.edits  BY <1>1, <1>3 DEF ReadValid
<1>6. CASE Logged(r)
  <2> DEFINE n == Len(jsonl[r])
  <2>1. n \in Nat \ {0} /\ FoldLatest(r) \in Line /\ FirstLine(r) \in Line
        BY <1>1, <1>6, LinesAreTyped
  <2>2. FoldLatest(r).version = author[a].line.version
        BY <1>6 DEF AppendCAS, VersionMatches, LatestVersion
  <2>3. FoldLatest(r).version = FirstLine(r).version + n - 1
        BY <1>1, <2>1 DEF VersionChain, FoldLatest, FirstLine
  <2>4. FirstLine(r).version = 1 => author[a].line.version # 0
        BY <2>1, <2>2, <2>3
  <2>5. PICK k \in 1..n : /\ author[a].line.version = jsonl[r][k].version
                          /\ author[a].line.edits = jsonl[r][k].edits \union {OwnEdit(a)}
        BY <1>1, <1>6, <2>4 DEF ReadValid
  <2>6. jsonl[r][k].version = FirstLine(r).version + k - 1
        BY <1>1 DEF VersionChain, FirstLine
  <2>7. k = n
    <3>1. FirstLine(r).version \in Int /\ n \in Int /\ k \in Int  BY <2>1 DEF Line
    <3>2. FirstLine(r).version + n - 1 = FirstLine(r).version + k - 1
          BY <2>2, <2>3, <2>5, <2>6
    <3> HIDE DEF n
    <3> QED  BY <3>1, <3>2
  <2>8. jsonl[r][k] = FoldLatest(r)  BY <2>7 DEF FoldLatest
  <2>9. OwnEdit(a) \notin FoldLatest(r).edits  BY <1>1, <2>5, <2>8 DEF EditIsNew
  <2> QED  BY <1>1, <1>3, <1>4, <1>5, <1>6, <2>5, <2>8, <2>9 DEF AppendCAS, LatestVersion
<1>7. CASE ~Logged(r)
  <2>1. Len(jsonl[r]) = 0  BY <1>7 DEF Logged
  <2>2. l.edits = {OwnEdit(a)}  BY <1>1, <1>3, <2>1 DEF ReadValid
  <2>3. l.version = 1  BY <1>3, <1>7 DEF LatestVersion
  <2> QED  BY <1>1, <1>3, <1>4, <1>5, <1>7, <2>2, <2>3 DEF AppendCAS
<1> QED  BY <1>6, <1>7

\* The same, seen from any one history.
LEMMA CommitAppends ==
    ASSUME IInv, NEW a \in Authors, AppendCAS(a), NEW r \in Records
    PROVE  \/ r # author[a].rec /\ jsonl'[r] = jsonl[r]
           \/ /\ r = author[a].rec
              /\ \E l \in Line :
                   /\ jsonl'[r] = Append(jsonl[r], l)
                   /\ l.edits # {}
                   /\ Logged(r) => l.edits = FoldLatest(r).edits \union {OwnEdit(a)}
                   /\ ~Logged(r) => l.version = 1 /\ l.edits = {OwnEdit(a)}
<1> DEFINE q == author[a].rec
           m == [author[a].line EXCEPT !.version = LatestVersion(q) + 1]
<1>1. jsonl \in [Records -> Seq(Line)]  BY DEF IInv, TypeOK
<1>2. /\ q \in Records /\ m \in Line
      /\ jsonl' = [jsonl EXCEPT ![q] = Append(@, m)]
      /\ OwnEdit(a) \in m.edits
      /\ Logged(q) => m.edits = FoldLatest(q).edits \union {OwnEdit(a)}
      /\ ~Logged(q) => m.version = 1 /\ m.edits = {OwnEdit(a)}
  BY CommitStep
<1> HIDE DEF m
<1>3. CASE r = q
  <2>1. jsonl'[r] = Append(jsonl[r], m) /\ m.edits # {}  BY <1>1, <1>2, <1>3
  <2> QED  BY <1>2, <1>3, <2>1
<1>4. CASE r # q  BY <1>1, <1>2, <1>4
<1> QED  BY <1>3, <1>4

\* OneEditPerLine, one history at a time.
OneEdit(s) ==
    \A k \in 1..(Len(s) - 1) :
        \E e \in Edit \ s[k].edits : s[k + 1].edits = s[k].edits \union {e}

LEMMA OneEditEach ==
    /\ OneEditPerLine <=> \A r \in Records : OneEdit(jsonl[r])
    /\ OneEditPerLine' <=> \A r \in Records : OneEdit(jsonl'[r])
BY Zenon DEF OneEditPerLine, OneEdit

\* The histories stay well formed.
HistoryOK == VersionChain /\ OneEditPerLine /\ FirstVersion /\ EditsStarted

LEMMA CreateKeepsHistory ==
    ASSUME IInv, NEW a \in Authors, NEW r \in Records, Create(a, r)
    PROVE  HistoryOK'
<1> DEFINE l == [version |-> 1, edits |-> {}]
<1>1. TypeOK /\ HistoryOK  BY DEF IInv, HistoryOK
<1>2. /\ jsonl' = [jsonl EXCEPT ![r] = <<l>>] /\ UNCHANGED edits
  BY DEF Create
<1>3. /\ jsonl'[r] = <<l>>
      /\ \A q \in Records \ {r} : jsonl'[q] = jsonl[q]
  BY <1>1, <1>2 DEF TypeOK
<1>4. /\ Len(jsonl'[r]) = 1 /\ jsonl'[r][1] = l
      /\ \A k \in 1..1 : k = 1
  BY <1>3
<1>5. VersionChain'
  BY <1>1, <1>3, <1>4 DEF HistoryOK, VersionChain
<1>6. OneEditPerLine'
  <2>1. \A k \in 1..(1 - 1) : FALSE  OBVIOUS
  <2>2. OneEdit(jsonl'[r])  BY <1>4, <2>1 DEF OneEdit
  <2>3. \A q \in Records \ {r} : OneEdit(jsonl'[q])
        BY <1>1, <1>3, OneEditEach DEF HistoryOK
  <2> QED  BY <2>2, <2>3, OneEditEach
<1>7. FirstVersion'
  BY <1>1, <1>3, <1>4 DEF HistoryOK, FirstVersion, Logged, FirstLine
<1>8. EditsStarted'
  BY <1>1, <1>2, <1>3, <1>4 DEF HistoryOK, EditsStarted
<1> QED  BY <1>5, <1>6, <1>7, <1>8 DEF HistoryOK

LEMMA CommitKeepsHistory ==
    ASSUME IInv, NEW a \in Authors, AppendCAS(a)
    PROVE  HistoryOK'
<1> DEFINE r == author[a].rec
           n == Len(jsonl[r])
           l == [author[a].line EXCEPT !.version = LatestVersion(r) + 1]
<1>1. TypeOK /\ HistoryOK  BY DEF IInv, HistoryOK
<1>2. /\ r \in Records /\ l \in Line
      /\ jsonl' = [jsonl EXCEPT ![r] = Append(@, l)]
      /\ OwnEdit(a) \in l.edits /\ OwnEdit(a) \in Edit
      /\ Logged(r) => /\ l.version = FoldLatest(r).version + 1
                      /\ l.edits = FoldLatest(r).edits \union {OwnEdit(a)}
                      /\ OwnEdit(a) \notin FoldLatest(r).edits
      /\ ~Logged(r) => l.version = 1 /\ l.edits = {OwnEdit(a)}
  BY CommitStep
<1> HIDE DEF l, r
<1>3. jsonl[r] \in Seq(Line) /\ n \in Nat  BY <1>1, <1>2 DEF TypeOK
<1>4. /\ jsonl'[r] = Append(jsonl[r], l)
      /\ \A q \in Records \ {r} : jsonl'[q] = jsonl[q]
  BY <1>1, <1>2 DEF TypeOK
<1>5. /\ Len(jsonl'[r]) = n + 1 /\ jsonl'[r][n + 1] = l /\ jsonl'[r] # <<>>
      /\ \A k \in 1..n : jsonl'[r][k] = jsonl[r][k]
  BY <1>2, <1>3, <1>4, AppendKeeps
<1>6. CASE Logged(r)
  <2>1. n \in Nat \ {0} /\ FirstLine(r) \in Line /\ FoldLatest(r) \in Line
        BY <1>1, <1>2, <1>6, LinesAreTyped
  <2>2. FirstLine(r).version \in Nat  BY <2>1 DEF Line
  <2>3. 1 \in 1..n /\ n \in 1..n /\ jsonl[r][n] = FoldLatest(r)  BY <2>1 DEF FoldLatest
  <2>4. jsonl'[r][1] = FirstLine(r) /\ jsonl'[r][n] = FoldLatest(r)
        BY <1>5, <2>3 DEF FirstLine
  <2>5. \A k \in 1..n : jsonl[r][k].version = FirstLine(r).version + k - 1
        BY <1>1, <1>2 DEF HistoryOK, VersionChain, FirstLine
  <2>6. l.version = FirstLine(r).version + (n + 1) - 1
    <3>1. FoldLatest(r).version = FirstLine(r).version + n - 1  BY <2>3, <2>5
    <3> HIDE DEF n
    <3> QED  BY <1>2, <1>6, <2>1, <2>2, <3>1
  <2>7. VersionChain'
    <3> SUFFICES ASSUME NEW q \in Records, NEW k \in 1..Len(jsonl'[q])
                 PROVE  jsonl'[q][k].version = jsonl'[q][1].version + k - 1
        BY DEF VersionChain
    <3>1. CASE q # r  BY <1>1, <1>4, <3>1 DEF HistoryOK, VersionChain
    <3>2. CASE q = r /\ k \in 1..n  BY <1>5, <2>4, <2>5, <3>2
    <3>3. CASE q = r /\ k = n + 1  BY <1>5, <2>4, <2>6, <3>3
    <3>4. q = r => k \in 1..n \/ k = n + 1  BY <1>3, <1>5
    <3> QED  BY <3>1, <3>2, <3>3, <3>4
  <2>8. OneEditPerLine'
    <3>1. \A q \in Records \ {r} : OneEdit(jsonl'[q])
          BY <1>1, <1>4, OneEditEach DEF HistoryOK
    <3>2. OneEdit(jsonl'[r])
      <4> SUFFICES ASSUME NEW k \in 1..n
                   PROVE  \E e \in Edit \ jsonl'[r][k].edits :
                             jsonl'[r][k + 1].edits = jsonl'[r][k].edits \union {e}
          BY <1>3, <1>5 DEF OneEdit
      <4>1. CASE k \in 1..(n - 1)
        <5>1. k \in 1..n /\ k + 1 \in 1..n  BY <1>3, <4>1
        <5>2. jsonl'[r][k] = jsonl[r][k] /\ jsonl'[r][k + 1] = jsonl[r][k + 1]
              BY <1>5, <5>1
        <5> QED  BY <1>1, <1>2, <4>1, <5>2 DEF HistoryOK, OneEditPerLine
      <4>2. CASE k = n
        <5>1. jsonl'[r][k] = FoldLatest(r) /\ jsonl'[r][k + 1] = l
              BY <1>5, <2>4, <4>2
        <5> QED  BY <1>2, <1>6, <5>1
      <4> QED  BY <1>3, <4>1, <4>2
    <3> QED  BY <3>1, <3>2, OneEditEach
  <2>9. FirstVersion'
    BY <1>1, <1>2, <1>4, <1>6, <2>4 DEF HistoryOK, FirstVersion, Logged, FirstLine
  <2> QED
    <3>1. EditsStarted'
      <4> SUFFICES ASSUME NEW q \in Records, NEW k \in 1..Len(jsonl'[q]),
                          NEW e \in jsonl'[q][k].edits
                   PROVE  e[2] <= edits[e[1]]
          BY DEF EditsStarted, AppendCAS
      <4>1. CASE q # r  BY <1>1, <1>4, <4>1 DEF HistoryOK, EditsStarted
      <4>2. CASE q = r /\ k \in 1..n
            BY <1>1, <1>2, <1>5, <4>2 DEF HistoryOK, EditsStarted
      <4>3. CASE q = r /\ k = n + 1
        <5>1. e \in FoldLatest(r).edits \/ e = OwnEdit(a)  BY <1>2, <1>5, <1>6, <4>3
        <5>2. edits[a] <= edits[a]  BY <1>1, ConstantsOK DEF TypeOK
        <5>3. OwnEdit(a)[1] = a /\ OwnEdit(a)[2] = edits[a]  BY DEF OwnEdit
        <5>4. CASE e = OwnEdit(a)  BY <5>2, <5>3, <5>4
        <5>5. CASE e \in FoldLatest(r).edits
              BY <1>1, <1>2, <2>3, <5>5 DEF HistoryOK, EditsStarted
        <5> QED  BY <5>1, <5>4, <5>5
      <4>4. q = r => k \in 1..n \/ k = n + 1  BY <1>3, <1>5
      <4> QED  BY <4>1, <4>2, <4>3, <4>4
    <3> QED  BY <2>7, <2>8, <2>9, <3>1 DEF HistoryOK
<1>7. CASE ~Logged(r)
  <2>1. /\ Len(jsonl'[r]) = 1 /\ jsonl'[r][1] = l
        /\ \A k \in 1..1 : k = 1
        /\ \A k \in 1..(1 - 1) : FALSE
    <3>1. n = 0  BY <1>7 DEF Logged
    <3> QED  BY <1>5, <3>1
  <2>2. VersionChain'
    <3>1. l.version = l.version + 1 - 1  BY <1>2, <1>7
    <3> QED  BY <1>1, <1>4, <2>1, <3>1 DEF HistoryOK, VersionChain
  <2>3. OneEditPerLine'
    <3>1. OneEdit(jsonl'[r])  BY <2>1 DEF OneEdit
    <3>2. \A q \in Records \ {r} : OneEdit(jsonl'[q])
          BY <1>1, <1>4, OneEditEach DEF HistoryOK
    <3> QED  BY <3>1, <3>2, OneEditEach
  <2>4. FirstVersion'
    BY <1>1, <1>2, <1>4, <1>7, <2>1 DEF HistoryOK, FirstVersion, Logged, FirstLine
  <2>5. EditsStarted'
    <3>1. UNCHANGED edits  BY DEF AppendCAS
    <3>2. edits[a] <= edits[a]  BY <1>1, ConstantsOK DEF TypeOK
    <3>3. \A e \in l.edits : e[2] <= edits[e[1]]
          BY <1>2, <1>7, <3>2 DEF OwnEdit
    <3> QED  BY <1>1, <1>4, <2>1, <3>1, <3>3 DEF HistoryOK, EditsStarted
  <2> QED  BY <2>2, <2>3, <2>4, <2>5 DEF HistoryOK
<1> QED  BY <1>6, <1>7

LEMMA EditKeepsHistory ==
    ASSUME IInv, UNCHANGED jsonl,
           NEW a \in Authors, edits' = [edits EXCEPT ![a] = @ + 1]
    PROVE  HistoryOK'
<1>1. TypeOK /\ HistoryOK  BY DEF IInv, HistoryOK
<1>2. VersionChain' /\ OneEditPerLine' /\ FirstVersion'
  BY <1>1 DEF HistoryOK, VersionChain, OneEditPerLine, FirstVersion, Logged, FirstLine
<1>3. \A b \in Authors : /\ edits[b] \in Int /\ edits'[b] \in Int
                         /\ edits[b] <= edits'[b]
  BY <1>1, ConstantsOK DEF TypeOK
<1>4. EditsStarted'
  <2> SUFFICES ASSUME NEW r \in Records, NEW k \in 1..Len(jsonl[r]),
                      NEW e \in jsonl[r][k].edits
               PROVE  e[2] <= edits'[e[1]]
      BY DEF EditsStarted
  <2>1. jsonl[r][k] \in Line  BY <1>1, ElementOfSeq DEF TypeOK
  <2>2. e[1] \in Authors /\ e[2] \in Int  BY <2>1, ConstantsOK DEF Line, Edit
  <2>3. e[2] <= edits[e[1]]  BY <1>1 DEF HistoryOK, EditsStarted
  <2> QED  BY <1>3, <2>2, <2>3
<1> QED  BY <1>2, <1>4 DEF HistoryOK

LEMMA HistoryStep ==
    ASSUME IInv, [Next]_vars
    PROVE  HistoryOK'
<1>1. ASSUME UNCHANGED <<jsonl, edits>> PROVE HistoryOK'
  BY <1>1 DEF IInv, HistoryOK, VersionChain, OneEditPerLine, FirstVersion,
     EditsStarted, Logged, FirstLine
<1> QED  BY <1>1, LogSteps, EditSteps, CreateKeepsHistory, CommitKeepsHistory,
            EditKeepsHistory DEF Create, AppendCAS

--------------------------------------------------------------------------------
(* What stays true of a record, whoever moves *)

LEMMA LogPersists ==
    ASSUME IInv, [Next]_vars, NEW r \in Records, Logged(r)
    PROVE  /\ Logged(r)' /\ FirstLine(r)' = FirstLine(r)
           /\ Len(jsonl[r]) \in Nat /\ Len(jsonl'[r]) \in Nat
           /\ Len(jsonl[r]) <= Len(jsonl'[r])
           /\ \A k \in 1..Len(jsonl[r]) : jsonl'[r][k] = jsonl[r][k]
<1>1. TypeOK  BY DEF IInv
<1>2. Len(jsonl[r]) \in Nat \ {0}  BY <1>1, LinesAreTyped
<1>3. CASE jsonl'[r] = jsonl[r]  BY <1>2, <1>3 DEF Logged, FirstLine
<1>4. ASSUME NEW a \in Authors, NEW q \in Records, Create(a, q)
      PROVE  jsonl'[r] = jsonl[r]
  BY <1>1, <1>4 DEF Create, TypeOK
<1>5. ASSUME NEW a \in Authors, AppendCAS(a)
      PROVE  \/ jsonl'[r] = jsonl[r]
             \/ \E l \in Line : jsonl'[r] = Append(jsonl[r], l)
  BY <1>5, CommitAppends
<1>6. ASSUME NEW l \in Line, jsonl'[r] = Append(jsonl[r], l)
      PROVE  /\ Len(jsonl'[r]) = Len(jsonl[r]) + 1 /\ jsonl'[r] # <<>>
             /\ \A k \in 1..Len(jsonl[r]) : jsonl'[r][k] = jsonl[r][k]
  BY <1>1, <1>6, AppendKeeps DEF TypeOK
<1>7. ASSUME NEW l \in Line, jsonl'[r] = Append(jsonl[r], l)
      PROVE  jsonl'[r][1] = jsonl[r][1]
  BY <1>2, <1>6, <1>7
<1> QED  BY <1>2, <1>3, <1>4, <1>5, <1>6, <1>7, LogSteps DEF Logged, FirstLine

\* What was written stays written.  Only a create could falsify it (a record
\* that has no line has Blank), and a create is of a record nobody knows.
LEMMA WrittenPersists ==
    ASSUME IInv, [Next]_vars, NEW r \in Records, NEW l, WrittenIn(jsonl[r], l),
           Logged(r) \/ point[r].present
    PROVE  WrittenIn(jsonl'[r], l)
<1>1. CASE Logged(r)
  <2>1. /\ jsonl[r] # <<>> /\ jsonl'[r] # <<>> /\ jsonl'[r][1] = jsonl[r][1]
        /\ 1..Len(jsonl[r]) \subseteq 1..Len(jsonl'[r])
        /\ \A k \in 1..Len(jsonl[r]) : jsonl'[r][k] = jsonl[r][k]
        BY <1>1, LogPersists DEF Logged, FirstLine
  <2> QED  BY <2>1 DEF WrittenIn
<1>2. CASE ~Logged(r)
  <2>1. TypeOK  BY DEF IInv
  <2>2. jsonl[r] = <<>> /\ Len(jsonl[r]) = 0  BY <1>2 DEF Logged
  <2>3. l = Blank  BY <2>2 DEF WrittenIn
  <2>4. ASSUME NEW a \in Authors, NEW q \in Records, Create(a, q)
        PROVE  jsonl'[r] = jsonl[r]
    BY <1>2, <2>1, <2>4 DEF Create, TypeOK
  <2>5. ASSUME NEW a \in Authors, AppendCAS(a), jsonl'[r] # jsonl[r]
        PROVE  WrittenIn(jsonl'[r], l)
    <3>1. PICK m \in Line : jsonl'[r] = Append(jsonl[r], m) /\ m.edits # {}
          BY <2>5, CommitAppends
    <3>2. jsonl'[r][1] = m  BY <2>2, <3>1
    <3> QED  BY <2>3, <3>1, <3>2 DEF WrittenIn
  <2> QED  BY <2>4, <2>5, LogSteps
<1> QED  BY <1>1, <1>2

\* Every write to the vector store is of a payload that was written before, to
\* a record that exists.
LEMMA PointSteps ==
    ASSUME IInv, [Next]_vars
    PROVE  \/ UNCHANGED point
           \/ \E r \in Records, l \in Line :
                /\ Written(r, l) /\ (Logged(r) \/ point[r].present)
                /\ \/ SetPayload(r, l)
                   \/ \E d \in BOOLEAN :
                        Upsert(r, [present |-> TRUE, line |-> l, degraded |-> d])
<1> DEFINE Goal == \/ UNCHANGED point
                   \/ \E r \in Records, l \in Line :
                        /\ Written(r, l) /\ (Logged(r) \/ point[r].present)
                        /\ \/ SetPayload(r, l)
                           \/ \E d \in BOOLEAN :
                                Upsert(r, [present |-> TRUE, line |-> l, degraded |-> d])
<1>0. TypeOK  BY DEF IInv
<1>1. ASSUME NEW a \in Authors, AuthorStep(a) PROVE Goal
  <2>1. AuthorValid(a) /\ author[a].line \in Line  BY <1>0 DEF IInv, TypeOK, Command
  <2>2. CASE UpsertCreated(a)
        BY <2>1, <2>2 DEF UpsertCreated, StoredPoint, AuthorValid
  <2>3. CASE MirrorMutation(a)
        BY <2>1, <2>3 DEF MirrorMutation, AuthorValid
  <2>4. CASE UNCHANGED point  BY <2>4
  <2> QED  BY <1>1, <2>2, <2>3, <2>4 DEF AuthorStep, Create, ReadAndApply, UpsertFails,
           QueueBrainOutbox, QueueBrainOutboxFails, AppendCAS, AppendConflict,
           MirrorFails, AuthorCrash
<1>2. ASSUME NEW j \in Janitors, JanitorStep(j) PROVE Goal
  <2>1. PassValid(j) /\ janitor[j].seen \in [Records -> Line]
        BY <1>0 DEF IInv, TypeOK, Pass
  <2>2. CASE ReplayUpsert(j)
    <3>1. janitor[j].rec \in Records  BY <2>1, <2>2 DEF ReplayUpsert, PassValid
    <3> QED  BY <2>1, <2>2, <3>1 DEF ReplayUpsert, ZeroVectorPoint, PassValid
  <2>3. ASSUME NEW r \in Records, RepairRecord(j, r) PROVE Goal
        BY <2>1, <2>3 DEF RepairRecord, ZeroVectorPoint, PassValid
  <2>4. ASSUME NEW r \in Records, HealRecord(j, r) PROVE Goal
        BY <2>1, <2>4 DEF HealRecord, StoredPoint, PassValid
  <2>5. CASE UNCHANGED point  BY <2>5
  <2> QED  BY <1>2, <2>2, <2>3, <2>4, <2>5 DEF JanitorStep, PassStep, Begin, JanitorCrash,
           RetryTorn, ReplayRead, RepairFails, ReplayFails, DeleteEntry, AutoStops,
           DrainDone, ReadFold, CollectionUUIDs, CollectionUUIDsFails, DoctorReports,
           HealStops, Release
<1> QED  BY <1>1, <1>2 DEF Next, vars

LEMMA SetPayloadEffect ==
    ASSUME TypeOK, NEW q \in Records, NEW l \in Line, SetPayload(q, l), NEW r \in Records
    PROVE  /\ point'[r].present = point[r].present
           /\ point'[r].degraded = point[r].degraded
           /\ point'[r].line = IF r = q /\ point[r].present THEN l ELSE point[r].line
<1>1. point[r] \in Point /\ point[q] \in Point  BY DEF TypeOK
<1>2. CASE r = q  BY <1>1, <1>2 DEF SetPayload, TypeOK, Point
<1>3. CASE r # q  BY <1>1, <1>3 DEF SetPayload, TypeOK, Point
<1> QED  BY <1>2, <1>3

LEMMA UpsertEffect ==
    ASSUME TypeOK, NEW q \in Records, NEW p, Upsert(q, p), NEW r \in Records
    PROVE  point'[r] = IF r = q THEN p ELSE point[r]
BY DEF Upsert, TypeOK

LEMMA WriteEffect ==
    ASSUME TypeOK, NEW q \in Records, NEW l \in Line, NEW r \in Records,
           SetPayload(q, l) \/ \E d \in BOOLEAN :
              Upsert(q, [present |-> TRUE, line |-> l, degraded |-> d])
    PROVE  /\ point[r].present => point'[r].present
           /\ \/ point'[r].line = l /\ r = q
              \/ point'[r].line = point[r].line /\ point'[r].present = point[r].present
           /\ (point[r].degraded => point[r].present)
                 => (point'[r].degraded => point'[r].present)
<1>1. CASE SetPayload(q, l)
  <2>1. /\ point'[r].present = point[r].present
        /\ point'[r].degraded = point[r].degraded
        /\ point'[r].line = IF r = q /\ point[r].present THEN l ELSE point[r].line
        BY <1>1, SetPayloadEffect
  <2> QED  BY <2>1
<1>2. ASSUME NEW d \in BOOLEAN,
             Upsert(q, [present |-> TRUE, line |-> l, degraded |-> d])
      PROVE  \/ r = q /\ point'[r].present /\ point'[r].line = l
             \/ point'[r] = point[r]
  BY <1>2, UpsertEffect
<1> QED  BY <1>1, <1>2

\* A point is never removed, and what it holds was written.
LEMMA PointPersists ==
    ASSUME IInv, [Next]_vars, NEW r \in Records, point[r].present
    PROVE  point[r].present'
<1>1. TypeOK  BY DEF IInv
<1> QED  BY <1>1, PointSteps, WriteEffect

LEMMA StoreStep ==
    ASSUME IInv, [Next]_vars
    PROVE  StoreReflectsLog' /\ DegradedIsStored'
<1>1. TypeOK /\ StoreReflectsLog /\ DegradedIsStored  BY DEF IInv
<1> SUFFICES ASSUME NEW r \in Records
             PROVE  /\ point'[r].present => WrittenIn(jsonl'[r], point'[r].line)
                    /\ point'[r].degraded => point'[r].present
    BY DEF StoreReflectsLog, DegradedIsStored, Written
<1>2. point[r].present => WrittenIn(jsonl'[r], point[r].line)
  BY <1>1, WrittenPersists DEF StoreReflectsLog, Written
<1>3. CASE UNCHANGED point
  BY <1>1, <1>2, <1>3 DEF DegradedIsStored
<1>4. ASSUME NEW q \in Records, NEW l \in Line,
             Written(q, l), Logged(q) \/ point[q].present,
             SetPayload(q, l) \/ \E d \in BOOLEAN :
                Upsert(q, [present |-> TRUE, line |-> l, degraded |-> d])
      PROVE  /\ point'[r].present => WrittenIn(jsonl'[r], point'[r].line)
             /\ point'[r].degraded => point'[r].present
  <2>1. WrittenIn(jsonl'[q], l)  BY <1>4, WrittenPersists DEF Written
  <2>2. \/ point'[r].line = l /\ r = q
        \/ point'[r].line = point[r].line /\ point'[r].present = point[r].present
        BY <1>1, <1>4, WriteEffect
  <2>3. point'[r].degraded => point'[r].present
        BY <1>1, <1>4, WriteEffect DEF DegradedIsStored
  <2> QED  BY <1>2, <2>1, <2>2, <2>3
<1> QED  BY <1>3, <1>4, PointSteps

--------------------------------------------------------------------------------
(* Commands *)

LEMMA SetAuthorAt ==
    ASSUME TypeOK, NEW a \in Authors, NEW cmd, SetAuthor(a, cmd)
    PROVE  author'[a] = cmd
BY DEF TypeOK, SetAuthor

LEMMA SetJanitorAt ==
    ASSUME TypeOK, NEW j \in Janitors, NEW pass, SetJanitor(j, pass)
    PROVE  janitor'[j] = pass
BY DEF TypeOK, SetJanitor

\* A process moves itself only.
LEMMA OthersStay ==
    ASSUME TypeOK
    PROVE  /\ \A a \in Authors : AuthorStep(a)
                => /\ UNCHANGED <<janitor, lock>> /\ quiet' = FALSE
                   /\ \A b \in Authors \ {a} : /\ author'[b] = author[b]
                                               /\ edits'[b] = edits[b]
           /\ \A j \in Janitors : JanitorStep(j)
                => /\ UNCHANGED <<jsonl, author, edits>>
                   /\ \A i \in Janitors \ {j} : janitor'[i] = janitor[i]
<1>1. ASSUME NEW a \in Authors, AuthorStep(a)
      PROVE  /\ UNCHANGED <<janitor, lock>> /\ quiet' = FALSE
             /\ \A b \in Authors \ {a} : /\ author'[b] = author[b]
                                         /\ edits'[b] = edits[b]
  BY <1>1 DEF TypeOK, AuthorStep, SetAuthor, Create, ReadAndApply, UpsertCreated,
     UpsertFails, QueueBrainOutbox, QueueBrainOutboxFails, AppendCAS, AppendConflict,
     MirrorMutation, MirrorFails, AuthorCrash
<1>2. ASSUME NEW j \in Janitors, JanitorStep(j)
      PROVE  /\ UNCHANGED <<jsonl, author, edits>>
             /\ \A i \in Janitors \ {j} : janitor'[i] = janitor[i]
  BY <1>2 DEF TypeOK, JanitorStep, PassStep, SetJanitor, Begin, JanitorCrash, RetryTorn,
     ReplayRead, RepairRecord, RepairFails, HealRecord, ReplayUpsert, ReplayFails,
     DeleteEntry, AutoStops, DrainDone, ReadFold, CollectionUUIDs, CollectionUUIDsFails,
     DoctorReports, HealStops, Release
<1> QED  BY <1>1, <1>2

\* A line can hold the edit of its own author and what the line before held.
LEMMA NewEditPersists ==
    ASSUME IInv, [Next]_vars, NEW b \in Authors, EditIsNew(b),
           edits'[b] = edits[b], ~AppendCAS(b)
    PROVE  EditIsNew(b)'
<1>1. TypeOK  BY DEF IInv
<1> SUFFICES ASSUME NEW r \in Records, NEW k \in 1..Len(jsonl'[r])
             PROVE  OwnEdit(b) \notin jsonl'[r][k].edits
    BY DEF EditIsNew, OwnEdit
<1>2. \A n \in 1..Len(jsonl[r]) : OwnEdit(b) \notin jsonl[r][n].edits
  BY DEF EditIsNew
<1>3. CASE jsonl'[r] = jsonl[r]  BY <1>2, <1>3
<1>4. ASSUME NEW a \in Authors, NEW q \in Records, Create(a, q), jsonl'[r] # jsonl[r]
      PROVE  jsonl'[r][k].edits = {}
  BY <1>1, <1>4 DEF Create, TypeOK
<1>5. ASSUME NEW a \in Authors, AppendCAS(a), jsonl'[r] # jsonl[r]
      PROVE  OwnEdit(b) \notin jsonl'[r][k].edits
  <2>1. a # b  BY <1>5
  <2>2. OwnEdit(a) # OwnEdit(b)  BY <2>1 DEF OwnEdit
  <2>3. PICK l \in Line :
           /\ jsonl'[r] = Append(jsonl[r], l)
           /\ Logged(r) => l.edits = FoldLatest(r).edits \union {OwnEdit(a)}
           /\ ~Logged(r) => l.edits = {OwnEdit(a)}
        BY <1>5, CommitAppends
  <2>4. jsonl[r] \in Seq(Line)  BY <1>1 DEF TypeOK
  <2>5. CASE k \in 1..Len(jsonl[r])
        BY <1>2, <2>3, <2>4, <2>5, AppendKeeps
  <2>6. OwnEdit(b) \notin l.edits
    <3>1. CASE Logged(r)
      <4>1. Len(jsonl[r]) \in 1..Len(jsonl[r])  BY <1>1, <3>1, LinesAreTyped
      <4> QED  BY <1>2, <2>2, <2>3, <3>1, <4>1 DEF FoldLatest
    <3>2. CASE ~Logged(r)  BY <2>2, <2>3, <3>2
    <3> QED  BY <3>1, <3>2
  <2>7. CASE k = Len(jsonl[r]) + 1
        BY <2>3, <2>4, <2>6, <2>7, AppendKeeps
  <2> QED  BY <2>3, <2>4, <2>5, <2>7, AppendKeeps
<1> QED  BY <1>3, <1>4, <1>5, LogSteps

\* What an author has in memory stays valid while others move: a line it read
\* stays where it is, and a first line written since has version 1.
LEMMA AuthorStays ==
    ASSUME IInv, [Next]_vars, NEW b \in Authors,
           author'[b] = author[b], edits'[b] = edits[b]
    PROVE  AuthorValid(b)'
<1> DEFINE r == author[b].rec
           l == author[b].line
<1>1. TypeOK /\ AuthorValid(b)  BY DEF IInv
<1>2. ~AppendCAS(b)
  <2> SUFFICES ASSUME AppendCAS(b) PROVE FALSE  OBVIOUS
  <2>1. author[b] \in Command  BY <1>1 DEF TypeOK
  <2>2. author'[b] = [author[b] EXCEPT !.pc = "mirror",
                        !.line = [@ EXCEPT !.version = LatestVersion(r) + 1]]
        BY <1>1, SetAuthorAt DEF AppendCAS
  <2>3. author'[b].pc = "mirror"  BY <2>1, <2>2 DEF Command
  <2> QED  BY <2>3 DEF AppendCAS
<1>3. author[b].pc # "idle" => r \in Records  BY <1>1 DEF AuthorValid
<1>4. author[b].pc \in {"upsert", "queue", "mirror"} => Logged(r)'
  BY <1>1, <1>3, LogPersists DEF AuthorValid, Logged
<1>5. author[b].pc \in {"upsert", "mirror"} => WrittenIn(jsonl'[r], l)
  BY <1>1, <1>3, WrittenPersists DEF AuthorValid, Written
<1>6. ASSUME author[b].pc = "append"
      PROVE  /\ ReadValid(b)' /\ EditIsNew(b)' /\ edits'[b] > 0
             /\ Logged(r)' \/ point'[r].present
  <2>1. /\ r \in Records /\ ReadValid(b) /\ EditIsNew(b) /\ edits[b] > 0
        /\ Logged(r) \/ point[r].present
        BY <1>1, <1>6 DEF AuthorValid
  <2>2. EditIsNew(b)'  BY <1>2, <2>1, NewEditPersists
  <2>3. OwnEdit(b)' = OwnEdit(b)  BY DEF OwnEdit
  <2>4. ASSUME NEW k \in 1..Len(jsonl[r]),
               l.version = jsonl[r][k].version,
               l.edits = jsonl[r][k].edits \union {OwnEdit(b)}
        PROVE  ReadValid(b)'
    <3>1. jsonl[r] \in Seq(Line)  BY <1>1, <2>1 DEF TypeOK
    <3>2. Logged(r)  BY <2>4, <3>1 DEF Logged
    <3>3. k \in 1..Len(jsonl'[r]) /\ jsonl'[r][k] = jsonl[r][k]
          BY <2>1, <3>2, LogPersists
    <3> QED  BY <2>3, <2>4, <3>3 DEF ReadValid
  <2>5. ASSUME l.version = 0, l.edits = {OwnEdit(b)},
               Logged(r) => FirstLine(r).version = 1
        PROVE  ReadValid(b)'
    <3>1. Logged(r)' => FirstLine(r)'.version = 1
      <4>1. CASE Logged(r)  BY <2>1, <2>5, <4>1, LogPersists
      <4>2. CASE jsonl'[r] = jsonl[r]  BY <2>5, <4>2 DEF Logged, FirstLine
      <4>3. ASSUME NEW a \in Authors, NEW q \in Records, Create(a, q), jsonl'[r] # jsonl[r]
            PROVE  jsonl'[r][1].version = 1
        BY <1>1, <2>1, <4>3 DEF Create, TypeOK
      <4>4. ASSUME NEW a \in Authors, AppendCAS(a), jsonl'[r] # jsonl[r], ~Logged(r)
            PROVE  jsonl'[r][1].version = 1
        BY <2>1, <4>4, CommitAppends DEF Logged
      <4> QED  BY <4>1, <4>2, <4>3, <4>4, LogSteps DEF FirstLine
    <3> QED  BY <2>3, <2>5, <3>1 DEF ReadValid, Logged, FirstLine
  <2>6. Logged(r)' \/ point'[r].present
        BY <2>1, LogPersists, PointPersists DEF Logged
  <2> QED  BY <2>1, <2>2, <2>4, <2>5, <2>6 DEF ReadValid
<1> QED  BY <1>3, <1>4, <1>5, <1>6 DEF AuthorValid, Written, Logged

\* The command that moves is in a valid state afterwards.
LEMMA AuthorMoves ==
    ASSUME IInv, [Next]_vars, NEW a \in Authors, AuthorStep(a)
    PROVE  AuthorValid(a)'
<1>0. /\ TypeOK /\ AuthorValid(a) /\ author[a] \in Command
      /\ edits[a] \in Int /\ edits[a] >= 0
  BY ConstantsOK DEF IInv, TypeOK
<1>1. ASSUME SetAuthor(a, Idle) PROVE AuthorValid(a)'
  <2>1. author'[a].pc = "idle"  BY <1>0, <1>1, SetAuthorAt DEF Idle
  <2> QED  BY <2>1 DEF AuthorValid
<1>2. ASSUME NEW r \in Records, Create(a, r) PROVE AuthorValid(a)'
  <2> DEFINE l == [version |-> 1, edits |-> {}]
  <2>1. author'[a] = [pc |-> "upsert", rec |-> r, line |-> l]
        BY <1>0, <1>2, SetAuthorAt DEF Create
  <2>2. jsonl'[r] = <<l>>  BY <1>0, <1>2 DEF Create, TypeOK
  <2>3. author'[a].pc = "upsert" /\ author'[a].rec = r /\ author'[a].line = l
        BY <2>1
  <2>4. jsonl'[r] # <<>> /\ WrittenIn(jsonl'[r], l)  BY <2>2 DEF WrittenIn
  <2> HIDE DEF l
  <2> QED  BY <2>3, <2>4 DEF AuthorValid, Written, Logged
<1>3. ASSUME NEW r \in Records, ReadAndApply(a, r) PROVE AuthorValid(a)'
  <2> DEFINE e == <<a, edits[a] + 1>>
             l == [Current(r).line EXCEPT !.edits = @ \union {e}]
  <2>1. author'[a] = [pc |-> "append", rec |-> r, line |-> l]
        BY <1>0, <1>3, SetAuthorAt DEF ReadAndApply
  <2>2. UNCHANGED jsonl /\ edits'[a] = edits[a] + 1 /\ OwnEdit(a)' = e
        BY <1>0, <1>3 DEF ReadAndApply, TypeOK, OwnEdit
  <2>3. Current(r).line \in Line  BY <1>0, CurrentIsTyped
  <2>4. l.version = Current(r).line.version /\ l.edits = Current(r).line.edits \union {e}
        BY <2>3 DEF Line
  <2>5. ReadValid(a)'
    <3>1. CASE Logged(r)
      <4>1. Len(jsonl[r]) \in 1..Len(jsonl[r]) /\ Current(r).line = jsonl[r][Len(jsonl[r])]
            BY <1>0, <3>1, LinesAreTyped DEF Current, FoldLatest
      <4> HIDE DEF l
      <4> QED  BY <2>1, <2>2, <2>4, <4>1 DEF ReadValid
    <3>2. CASE ~Logged(r)
      <4>1. jsonl[r] = <<>> /\ Len(jsonl[r]) = 0  BY <3>2 DEF Logged
      <4>2. point[r].present /\ Current(r).line = point[r].line
            BY <1>3, <3>2 DEF ReadAndApply, Current
      <4>3. WrittenIn(jsonl[r], point[r].line)
            BY <4>2 DEF IInv, StoreReflectsLog, Written
      <4>4. Current(r).line = Blank  BY <4>1, <4>2, <4>3 DEF WrittenIn
      <4>5. l.version = 0 /\ l.edits = {e}  BY <2>4, <4>4 DEF Blank
      <4> HIDE DEF l
      <4> QED  BY <2>1, <2>2, <3>2, <4>5 DEF ReadValid, Logged
    <3> QED  BY <3>1, <3>2
  <2>6. EditIsNew(a)'
    <3> SUFFICES ASSUME NEW q \in Records, NEW k \in 1..Len(jsonl[q]),
                        e \in jsonl[q][k].edits
                 PROVE  FALSE
        BY <2>2 DEF EditIsNew
    <3>1. edits[a] + 1 <= edits[a]  BY DEF IInv, EditsStarted
    <3> QED  BY <1>0, <3>1
  <2>7. edits'[a] > 0  BY <1>0, <2>2
  <2>8. Logged(r)' \/ point'[r].present
        BY <1>3 DEF ReadAndApply, Current, Logged
  <2>9. author'[a].pc = "append" /\ author'[a].rec = r  BY <2>1
  <2> HIDE DEF l
  <2> QED  BY <2>5, <2>6, <2>7, <2>8, <2>9 DEF AuthorValid, Logged
<1>4. CASE UpsertFails(a)
  <2>1. author'[a] = [author[a] EXCEPT !.pc = "queue"]
        BY <1>0, <1>4, SetAuthorAt DEF UpsertFails
  <2>2. author'[a].pc = "queue" /\ author'[a].rec = author[a].rec
        BY <1>0, <2>1 DEF Command
  <2> QED  BY <1>0, <1>4, <2>2 DEF AuthorValid, UpsertFails, Logged
<1>5. CASE AppendCAS(a)
  <2> DEFINE r == author[a].rec
             l == [author[a].line EXCEPT !.version = LatestVersion(r) + 1]
  <2>1. author'[a] = [author[a] EXCEPT !.pc = "mirror", !.line = l]
        BY <1>0, <1>5, SetAuthorAt DEF AppendCAS
  <2>2. author'[a].pc = "mirror" /\ author'[a].rec = r /\ author'[a].line = l
        BY <1>0, <2>1 DEF Command
  <2>3. r \in Records /\ l \in Line /\ jsonl' = [jsonl EXCEPT ![r] = Append(@, l)]
        BY <1>5, CommitStep
  <2> HIDE DEF l
  <2>4. jsonl[r] \in Seq(Line) /\ jsonl'[r] = Append(jsonl[r], l)
        BY <1>0, <2>3 DEF TypeOK
  <2>5. /\ Len(jsonl'[r]) = Len(jsonl[r]) + 1 /\ jsonl'[r] # <<>>
        /\ jsonl'[r][Len(jsonl[r]) + 1] = l
        /\ Len(jsonl[r]) + 1 \in 1..Len(jsonl'[r])
        BY <2>3, <2>4, AppendKeeps
  <2>6. WrittenIn(jsonl'[r], l)  BY <2>5 DEF WrittenIn
  <2> QED  BY <2>2, <2>3, <2>5, <2>6 DEF AuthorValid, Written, Logged
<1> QED  BY <1>1, <1>2, <1>3, <1>4, <1>5 DEF AuthorStep, UpsertCreated, QueueBrainOutbox,
         QueueBrainOutboxFails, AppendConflict, MirrorMutation, MirrorFails, AuthorCrash

LEMMA AuthorsStep ==
    ASSUME IInv, [Next]_vars
    PROVE  \A a \in Authors : AuthorValid(a)'
<1>1. TypeOK  BY DEF IInv
<1> SUFFICES ASSUME NEW b \in Authors PROVE AuthorValid(b)'  OBVIOUS
<1>2. CASE AuthorStep(b)  BY <1>2, AuthorMoves
<1>3. CASE ~AuthorStep(b)
  <2>1. author'[b] = author[b] /\ edits'[b] = edits[b]
        BY <1>1, <1>3, OthersStay DEF Next, vars
  <2> QED  BY <2>1, AuthorStays
<1> QED  BY <1>2, <1>3

--------------------------------------------------------------------------------
(* Passes *)

LEMMA PassStays ==
    ASSUME IInv, [Next]_vars, NEW i \in Janitors, janitor'[i] = janitor[i]
    PROVE  PassValid(i)'
<1> DEFINE p == janitor[i]
<1>1. /\ PassValid(i) /\ p.todo \subseteq Records
      /\ p.seen \in [Records -> Line]
  BY DEF IInv, TypeOK, Pass
<1>2. p.pc \in {"drain", "replay", "delete", "uuids", "scan"}
        => \A r \in p.todo : jsonl'[r] # <<>>
  BY <1>1, LogPersists DEF PassValid, Logged
<1>3. p.pc \in {"replay", "delete"} => p.rec \in Records /\ jsonl'[p.rec] # <<>>
  BY <1>1, LogPersists DEF PassValid, Logged
<1>4. p.pc = "replay" => WrittenIn(jsonl'[p.rec], p.seen[p.rec])
  BY <1>1, WrittenPersists DEF PassValid, Written
<1>5. p.pc = "delete" => point'[p.rec].present
  BY <1>1, PointPersists DEF PassValid
<1>6. p.pc \in {"uuids", "scan"} => \A r \in p.todo : WrittenIn(jsonl'[r], p.seen[r])
  BY <1>1, WrittenPersists DEF PassValid, Written
<1>7. p.pc = "heal" => \A r \in p.todo : /\ point'[r].present
                                         /\ WrittenIn(jsonl'[r], p.seen[r])
  BY <1>1, WrittenPersists, PointPersists DEF PassValid, Written
<1> QED  BY <1>2, <1>3, <1>4, <1>5, <1>6, <1>7 DEF PassValid, Written, Logged

\* The pass that moves is in a valid state afterwards.
LEMMA PassMoves ==
    ASSUME IInv, [Next]_vars, NEW j \in Janitors, JanitorStep(j)
    PROVE  PassValid(j)'
<1> DEFINE p == janitor[j]
<1>0. /\ TypeOK /\ PassValid(j) /\ p \in Pass /\ UNCHANGED jsonl
  BY OthersStay DEF IInv, TypeOK
<1>1. ASSUME SetJanitor(j, Rest) PROVE PassValid(j)'
  <2>1. janitor'[j].pc = "idle"  BY <1>0, <1>1, SetJanitorAt DEF Rest
  <2> QED  BY <2>1 DEF PassValid
<1>2. ASSUME NEW job \in AllJobs, Begin(j, job) PROVE PassValid(j)'
  <2>1. CASE job = "heal"
    <3>1. janitor'[j] = [Rest EXCEPT !.pc = "heal", !.job = job,
                           !.todo = {r \in Records : point[r].degraded},
                           !.seen = [r \in Records |-> point[r].line]]
          BY <1>0, <1>2, <2>1, SetJanitorAt DEF Begin
    <3>2. /\ janitor'[j].pc = "heal"
          /\ janitor'[j].todo = {r \in Records : point[r].degraded}
          /\ janitor'[j].seen = [r \in Records |-> point[r].line]
          BY <3>1 DEF Rest
    <3>3. \A r \in Records : point[r].degraded
            => /\ point[r].present /\ WrittenIn(jsonl[r], point[r].line)
          BY DEF IInv, DegradedIsStored, StoreReflectsLog, Written
    <3>4. UNCHANGED point  BY <1>2 DEF Begin
    <3> QED  BY <1>0, <3>2, <3>3, <3>4 DEF PassValid, Written
  <2>2. CASE job # "heal"
    <3>1. janitor'[j] = [Rest EXCEPT !.pc = "drain", !.job = job, !.todo = outbox]
          BY <1>0, <1>2, <2>2, SetJanitorAt DEF Begin
    <3>2. janitor'[j].pc = "drain" /\ janitor'[j].todo = outbox  BY <3>1 DEF Rest
    <3> QED  BY <1>0, <3>2 DEF PassValid, Logged, IInv, QueuedIsLogged
  <2> QED  BY <2>1, <2>2
<1>3. ASSUME NEW r \in Records, ReplayRead(j, r) PROVE PassValid(j)'
  <2>1. janitor'[j] = [p EXCEPT !.pc = "replay", !.rec = r, !.seen[r] = FirstLine(r)]
        BY <1>0, <1>3, SetJanitorAt DEF ReplayRead
  <2>2. /\ janitor'[j].pc = "replay" /\ janitor'[j].rec = r
        /\ janitor'[j].todo = p.todo /\ janitor'[j].seen[r] = FirstLine(r)
        BY <1>0, <2>1 DEF Pass
  <2>3. \A q \in p.todo : Logged(q)  BY <1>0, <1>3 DEF ReplayRead, PassValid
  <2>4. Logged(r)  BY <1>3, <2>3 DEF ReplayRead
  <2>5. Len(jsonl[r]) \in Nat \ {0}  BY <1>0, <2>4, LinesAreTyped
  <2>6. WrittenIn(jsonl[r], FirstLine(r))  BY <2>5 DEF WrittenIn, FirstLine
  <2> QED  BY <1>0, <2>2, <2>3, <2>4, <2>6 DEF PassValid, Written, Logged
<1>4. CASE ReplayUpsert(j)
  <2>1. p.rec \in Records /\ Logged(p.rec) /\ \A r \in p.todo : Logged(r)
        BY <1>0, <1>4 DEF ReplayUpsert, PassValid
  <2>2. janitor'[j] = [p EXCEPT !.pc = "delete"]
        BY <1>0, <1>4, SetJanitorAt DEF ReplayUpsert
  <2>3. janitor'[j].pc = "delete" /\ janitor'[j].rec = p.rec /\ janitor'[j].todo = p.todo
        BY <1>0, <2>2 DEF Pass
  <2>4. point'[p.rec].present
        BY <1>0, <1>4, <2>1, UpsertEffect DEF ReplayUpsert, ZeroVectorPoint
  <2> QED  BY <1>0, <2>1, <2>3, <2>4 DEF PassValid, Logged
<1>5. NextEntry(j).pc = "drain" /\ NextEntry(j).todo \subseteq p.todo
  BY <1>0 DEF NextEntry, Pass
<1>6. CASE ReplayFails(j) \/ DeleteEntry(j)
  <2>1. \A r \in p.todo : Logged(r)
        BY <1>0, <1>6 DEF ReplayFails, DeleteEntry, PassValid
  <2>2. janitor'[j] = NextEntry(j) \/ janitor'[j] = [NextEntry(j) EXCEPT !.failed = TRUE]
        BY <1>0, <1>6, SetJanitorAt DEF ReplayFails, DeleteEntry
  <2>3. janitor'[j].pc = "drain" /\ janitor'[j].todo \subseteq p.todo
        BY <1>0, <1>5, <2>2 DEF NextEntry, Pass
  <2> QED  BY <1>0, <2>1, <2>3 DEF PassValid, Logged
<1>7. CASE DrainDone(j)
  <2>1. janitor'[j].pc = "fold"
        BY <1>0, <1>7, SetJanitorAt DEF DrainDone, Pass
  <2> QED  BY <2>1 DEF PassValid
<1>8. CASE ReadFold(j)
  <2> DEFINE folded == [r \in Records |-> IF Logged(r) THEN ScanSource(r) ELSE Blank]
  <2>1. janitor'[j] = [p EXCEPT !.pc = "uuids", !.todo = {r \in Records : Logged(r)},
                                !.seen = folded]
        BY <1>0, <1>8, SetJanitorAt DEF ReadFold
  <2> HIDE DEF folded
  <2>2. /\ janitor'[j].pc = "uuids" /\ janitor'[j].todo = {r \in Records : Logged(r)}
        /\ janitor'[j].seen = folded
        BY <1>0, <2>1 DEF Pass
  <2>3. ASSUME NEW r \in Records, Logged(r)
        PROVE  WrittenIn(jsonl[r], folded[r])
    <3>1. Len(jsonl[r]) \in Nat \ {0}  BY <1>0, <2>3, LinesAreTyped
    <3>2. folded[r] = jsonl[r][Len(jsonl[r])]
          BY <2>3 DEF folded, ScanSource, FoldLatest
    <3> QED  BY <3>1, <3>2 DEF WrittenIn
  <2> QED  BY <1>0, <2>2, <2>3 DEF PassValid, Written, Logged
<1>9. CASE CollectionUUIDs(j) \/ CollectionUUIDsFails(j)
  <2>1. /\ janitor'[j].pc = "scan" /\ janitor'[j].todo = p.todo
        /\ janitor'[j].seen = p.seen
    <3>1. \/ janitor'[j] = [p EXCEPT !.pc = "scan",
                                     !.present = {r \in Records : point[r].present}]
          \/ janitor'[j] = [p EXCEPT !.pc = "scan"]
          BY <1>0, <1>9, SetJanitorAt DEF CollectionUUIDs, CollectionUUIDsFails
    <3> QED  BY <1>0, <3>1 DEF Pass
  <2> QED  BY <1>0, <1>9, <2>1 DEF CollectionUUIDs, CollectionUUIDsFails, PassValid,
           Written, Logged
<1>10. ASSUME NEW r \in Records, RepairRecord(j, r) \/ RepairFails(j, r)
       PROVE  PassValid(j)'
  <2>1. /\ janitor'[j].pc = "scan" /\ janitor'[j].todo \subseteq p.todo
        /\ janitor'[j].seen = p.seen
    <3>1. \/ janitor'[j] = [p EXCEPT !.todo = @ \ {r}]
          \/ janitor'[j] = [p EXCEPT !.todo = @ \ {r}, !.failed = TRUE]
          BY <1>0, <1>10, SetJanitorAt DEF RepairRecord, RepairFails
    <3>2. p.pc = "scan"  BY <1>10 DEF RepairRecord, RepairFails
    <3> QED  BY <1>0, <3>1, <3>2 DEF Pass
  <2>2. \A q \in p.todo : Logged(q) /\ Written(q, p.seen[q])
        BY <1>0, <1>10 DEF RepairRecord, RepairFails, PassValid
  <2> QED  BY <1>0, <2>1, <2>2 DEF PassValid, Written, Logged
<1>11. ASSUME NEW r \in Records, HealRecord(j, r) PROVE PassValid(j)'
  <2>1. /\ janitor'[j].pc = "heal" /\ janitor'[j].todo \subseteq p.todo
        /\ janitor'[j].seen = p.seen
        BY <1>0, <1>11, SetJanitorAt DEF HealRecord, Pass
  <2>2. \A q \in p.todo : /\ q \in Records /\ point[q].present
                          /\ WrittenIn(jsonl[q], p.seen[q])
        BY <1>0, <1>11 DEF HealRecord, PassValid, Written, Pass
  <2>3. \A q \in p.todo : point'[q].present  BY <2>2, PointPersists
  <2> QED  BY <1>0, <2>1, <2>2, <2>3 DEF PassValid, Written
<1> QED  BY <1>1, <1>2, <1>3, <1>4, <1>6, <1>7, <1>8, <1>9, <1>10, <1>11
         DEF JanitorStep, PassStep, JanitorCrash, RetryTorn, AutoStops, DoctorReports,
             HealStops, Release

LEMMA PassesStep ==
    ASSUME IInv, [Next]_vars
    PROVE  \A j \in Janitors : PassValid(j)'
<1>1. TypeOK  BY DEF IInv
<1> SUFFICES ASSUME NEW i \in Janitors PROVE PassValid(i)'  OBVIOUS
<1>2. CASE JanitorStep(i)  BY <1>2, PassMoves
<1>3. CASE ~JanitorStep(i)
  <2>1. janitor'[i] = janitor[i]  BY <1>1, <1>3, OthersStay DEF Next, vars
  <2> QED  BY <2>1, PassStays
<1> QED  BY <1>2, <1>3

--------------------------------------------------------------------------------
(* The repair trail *)

\* What a command that is not the mover creates is still being created.
LEMMA TrailStep ==
    ASSUME IInv, [Next]_vars
    PROVE  QueuedIsLogged' /\ MissingIsTracked'
<1>0. TypeOK /\ QueuedIsLogged /\ MissingIsTracked  BY DEF IInv
<1>1. ASSUME NEW r, r \in outbox' PROVE Logged(r)'
  <2>1. CASE r \in outbox  BY <1>0, <2>1, LogPersists DEF QueuedIsLogged, TypeOK
  <2>2. ASSUME NEW a \in Authors, QueueBrainOutbox(a), r = author[a].rec
        PROVE  Logged(r)'
    <3>1. r \in Records /\ Logged(r)
          BY <2>2 DEF QueueBrainOutbox, IInv, AuthorValid
    <3> QED  BY <3>1, LogPersists
  <2>3. r \in outbox \/ \E a \in Authors : QueueBrainOutbox(a) /\ r = author[a].rec
    <3>1. ASSUME NEW a \in Authors, AuthorStep(a)
          PROVE  r \in outbox \/ (QueueBrainOutbox(a) /\ r = author[a].rec)
      <4>1. CASE QueueBrainOutbox(a)  BY <1>1, <4>1 DEF QueueBrainOutbox
      <4>2. CASE UNCHANGED outbox  BY <1>1, <4>2
      <4> QED  BY <3>1, <4>1, <4>2 DEF AuthorStep, Create, ReadAndApply, UpsertCreated,
               UpsertFails, QueueBrainOutboxFails, AppendCAS, AppendConflict,
               MirrorMutation, MirrorFails, AuthorCrash
    <3>2. ASSUME NEW j \in Janitors, JanitorStep(j) PROVE r \in outbox
      BY <1>1, <3>2 DEF JanitorStep, PassStep, Begin, JanitorCrash, RetryTorn, ReplayRead,
         RepairRecord, RepairFails, HealRecord, ReplayUpsert, ReplayFails, DeleteEntry,
         AutoStops, DrainDone, ReadFold, CollectionUUIDs, CollectionUUIDsFails,
         DoctorReports, HealStops, Release
    <3> QED  BY <1>1, <3>1, <3>2 DEF Next, vars
  <2> QED  BY <2>1, <2>2, <2>3
<1>2. ASSUME NEW r \in Records, Logged(r)', ~point'[r].present, r \notin outbox',
             r \notin orphaned', ~BeingCreated(r)'
      PROVE  FALSE
  <2>1. ~point[r].present  BY <1>2, PointPersists
  <2>2. ASSUME NEW a \in Authors, AuthorStep(a) PROVE FALSE
    <3>0. author[a] \in Command /\ AuthorValid(a)  BY <1>0 DEF IInv, TypeOK
    <3>1. orphaned \subseteq orphaned' /\ outbox \subseteq outbox'
      BY <2>2 DEF AuthorStep, Create, ReadAndApply, UpsertCreated, UpsertFails,
         QueueBrainOutbox, QueueBrainOutboxFails, AppendCAS, AppendConflict,
         MirrorMutation, MirrorFails, AuthorCrash
    <3>2. CASE ~Logged(r)
      <4>1. CASE \E q \in Records : Create(a, q) /\ r = q
        <5>1. author'[a].rec = r /\ author'[a].pc = "upsert"
              BY <1>0, <4>1, SetAuthorAt DEF Create
        <5> QED  BY <1>2, <5>1 DEF BeingCreated
      <4>2. CASE AppendCAS(a) /\ author[a].rec = r
            BY <2>1, <3>0, <3>2, <4>2 DEF AppendCAS, AuthorValid
      <4>3. \A q \in Records : Create(a, q) => q = r
            BY <1>0, <1>2, <3>2 DEF Create, Logged, TypeOK
      <4>4. AppendCAS(a) => author[a].rec = r
            BY <1>2, <3>2, CommitAppends DEF Logged
      <4>5. CASE UNCHANGED jsonl  BY <1>2, <3>2, <4>5 DEF Logged
      <4> QED  BY <2>2, <4>1, <4>2, <4>3, <4>4, <4>5 DEF AuthorStep, ReadAndApply,
               UpsertCreated, UpsertFails, QueueBrainOutbox, QueueBrainOutboxFails,
               AppendConflict, MirrorMutation, MirrorFails, AuthorCrash
    <3>3. CASE Logged(r)
      <4>1. BeingCreated(r)
            BY <1>0, <1>2, <2>1, <3>1, <3>3 DEF MissingIsTracked
      <4>2. PICK b \in Authors : author[b].rec = r /\ author[b].pc \in {"upsert", "queue"}
            BY <4>1 DEF BeingCreated
      <4>3. author'[b] # author[b]  BY <1>2, <4>2 DEF BeingCreated
      <4>4. a = b  BY <1>0, <2>2, <4>3, OthersStay
      <4>5. CASE UpsertCreated(a)
        <5>1. point'[r].present
              BY <1>0, <4>2, <4>4, <4>5, UpsertEffect DEF UpsertCreated, StoredPoint
        <5> QED  BY <1>2, <5>1
      <4>6. CASE UpsertFails(a)
        <5>1. author'[a] = [author[a] EXCEPT !.pc = "queue"]
              BY <1>0, <4>6, SetAuthorAt DEF UpsertFails
        <5>2. author'[a].pc = "queue" /\ author'[a].rec = r
              BY <3>0, <4>2, <4>4, <5>1 DEF Command
        <5> QED  BY <1>2, <5>2 DEF BeingCreated
      <4>7. CASE QueueBrainOutbox(a)  BY <1>2, <4>2, <4>4, <4>7 DEF QueueBrainOutbox
      <4>8. CASE QueueBrainOutboxFails(a)
            BY <1>2, <4>2, <4>4, <4>8 DEF QueueBrainOutboxFails
      <4>9. CASE AuthorCrash(a)  BY <1>2, <4>2, <4>4, <4>9 DEF AuthorCrash
      <4>10. author[a] # Idle /\ author[a].pc \notin {"append", "mirror"}
             BY <4>2, <4>4 DEF Idle
      <4> QED  BY <2>2, <4>5, <4>6, <4>7, <4>8, <4>9, <4>10 DEF AuthorStep, Create,
               ReadAndApply, AppendCAS, AppendConflict, MirrorMutation, MirrorFails
    <3> QED  BY <3>2, <3>3
  <2>3. ASSUME NEW j \in Janitors, JanitorStep(j) PROVE FALSE
    <3>1. UNCHANGED <<jsonl, author>>  BY <1>0, <2>3, OthersStay
    <3>2. r \in outbox \/ r \in orphaned
          BY <1>0, <1>2, <2>1, <3>1 DEF MissingIsTracked, BeingCreated, Logged
    <3>3. CASE DeleteEntry(j)
      <4>1. point[janitor[j].rec].present  BY <3>3 DEF DeleteEntry, IInv, PassValid
      <4> QED  BY <1>2, <2>1, <3>2, <3>3, <4>1 DEF DeleteEntry
    <3>4. CASE RetryTorn(j)  BY <1>2, <3>2, <3>4 DEF RetryTorn
    <3>5. CASE UNCHANGED <<outbox, orphaned>>  BY <1>2, <3>2, <3>5
    <3> QED  BY <2>3, <3>3, <3>4, <3>5 DEF JanitorStep, PassStep, Begin, JanitorCrash,
             ReplayRead, RepairRecord, RepairFails, HealRecord, ReplayUpsert, ReplayFails,
             AutoStops, DrainDone, ReadFold, CollectionUUIDs, CollectionUUIDsFails,
             DoctorReports, HealStops, Release
  <2>4. CASE UNCHANGED vars
        BY <1>0, <1>2, <2>4 DEF vars, MissingIsTracked, BeingCreated, Logged
  <2> QED  BY <2>2, <2>3, <2>4 DEF Next
<1> QED  BY <1>1, <1>2 DEF QueuedIsLogged, MissingIsTracked, Logged, BeingCreated

--------------------------------------------------------------------------------
(* The reconcile lock *)

\* Whoever moves has the lock or takes it, so nobody else is at work.
LEMMA OthersRest ==
    ASSUME IInv, NEW j \in Janitors, JanitorStep(j)
    PROVE  \A i \in Janitors \ {j} : janitor[i].pc = "idle"
<1>0. PassHoldsLock  BY DEF IInv
<1>1. CASE \E job \in AllJobs : Begin(j, job)
  <2>1. lock = NoOne  BY <1>1 DEF Begin
  <2> QED  BY <1>0, <2>1, ConstantsOK DEF PassHoldsLock
<1>2. CASE janitor[j].pc # "idle"  BY <1>0, <1>2 DEF PassHoldsLock
<1>3. PassStep(j) => janitor[j].pc # "idle"
  BY DEF PassStep, ReplayRead, RepairRecord, RepairFails, HealRecord, ReplayUpsert,
     ReplayFails, DeleteEntry, AutoStops, DrainDone, ReadFold, CollectionUUIDs,
     CollectionUUIDsFails, DoctorReports, Reporting, HealStops
<1> QED  BY <1>1, <1>2, <1>3 DEF JanitorStep, JanitorCrash, RetryTorn

LEMMA LockStep ==
    ASSUME IInv, [Next]_vars
    PROVE  PassHoldsLock' /\ HealIsFresh'
<1>0. TypeOK /\ PassHoldsLock /\ HealIsFresh  BY DEF IInv
<1>1. ASSUME NEW a \in Authors, AuthorStep(a) PROVE PassHoldsLock' /\ HealIsFresh'
  BY <1>0, <1>1, OthersStay DEF PassHoldsLock, HealIsFresh
<1>2. ASSUME NEW j \in Janitors, JanitorStep(j) PROVE PassHoldsLock' /\ HealIsFresh'
  <2> DEFINE p == janitor[j]
  <2>0. p \in Pass  BY <1>0 DEF TypeOK
  <2>1. \A i \in Janitors \ {j} : janitor'[i] = janitor[i]  BY <1>0, <1>2, OthersStay
  <2>2. \A i \in Janitors \ {j} : janitor[i].pc = "idle"  BY <1>2, OthersRest
  <2>3. PassHoldsLock'
    <3>1. janitor'[j].pc # "idle" => lock' = j
      <4>1. CASE \E job \in AllJobs : Begin(j, job)  BY <4>1 DEF Begin
      <4>2. CASE SetJanitor(j, Rest)  BY <1>0, <4>2, SetJanitorAt DEF Rest
      <4>3. CASE UNCHANGED lock /\ p.pc # "idle"  BY <1>0, <4>3 DEF PassHoldsLock
      <4> QED  BY <1>2, <4>1, <4>2, <4>3 DEF JanitorStep, PassStep, JanitorCrash, RetryTorn,
               ReplayRead, RepairRecord, RepairFails, HealRecord, ReplayUpsert, ReplayFails,
               DeleteEntry, AutoStops, DrainDone, ReadFold, CollectionUUIDs,
               CollectionUUIDsFails, DoctorReports, HealStops, Release
    <3> QED  BY <2>1, <2>2, <3>1 DEF PassHoldsLock
  <2>4. HealIsFresh'
    <3> SUFFICES ASSUME janitor'[j].pc = "heal", quiet', NEW r \in janitor'[j].todo
                 PROVE  janitor'[j].seen[r] = point'[r].line
        BY <2>1, <2>2 DEF HealIsFresh
    <3>1. CASE \E job \in AllJobs : Begin(j, job)
      <4>1. PICK job \in AllJobs : Begin(j, job)  BY <3>1
      <4>2. CASE job = "heal"
        <5>1. janitor'[j] = [Rest EXCEPT !.pc = "heal", !.job = job,
                               !.todo = {q \in Records : point[q].degraded},
                               !.seen = [q \in Records |-> point[q].line]]
              BY <1>0, <4>1, <4>2, SetJanitorAt DEF Begin
        <5>2. /\ janitor'[j].todo = {q \in Records : point[q].degraded}
              /\ janitor'[j].seen = [q \in Records |-> point[q].line]
              BY <5>1 DEF Rest
        <5> QED  BY <4>1, <5>2 DEF Begin
      <4>3. CASE job # "heal"
        <5>1. janitor'[j] = [Rest EXCEPT !.pc = "drain", !.job = job, !.todo = outbox]
              BY <1>0, <4>1, <4>3, SetJanitorAt DEF Begin
        <5> QED  BY <5>1 DEF Rest
      <4> QED  BY <4>2, <4>3
    <3>2. CASE \E q \in Records : HealRecord(j, q)
      <4>1. PICK q \in Records : HealRecord(j, q)  BY <3>2
      <4>2. janitor'[j] = [p EXCEPT !.todo = @ \ {q}]
            BY <1>0, <4>1, SetJanitorAt DEF HealRecord
      <4>3. /\ janitor'[j].todo = p.todo \ {q} /\ janitor'[j].seen = p.seen
            /\ p.pc = "heal" /\ quiet
            BY <2>0, <4>1, <4>2 DEF Pass, HealRecord
      <4>4. r \in Records /\ r # q /\ p.seen[r] = point[r].line
            BY <1>0, <2>0, <4>3 DEF HealIsFresh, Pass
      <4>5. point'[r] = point[r]  BY <1>0, <4>1, <4>4, UpsertEffect DEF HealRecord
      <4> QED  BY <4>3, <4>4, <4>5
    <3>3. CASE SetJanitor(j, Rest)  BY <1>0, <3>3, SetJanitorAt DEF Rest
    <3>4. ASSUME NEW q \in Records, ReplayRead(j, q) \/ RepairRecord(j, q) \/ RepairFails(j, q)
          PROVE  FALSE
      BY <1>0, <2>0, <3>4, SetJanitorAt DEF ReplayRead, RepairRecord, RepairFails, Pass
    <3>5. NextEntry(j).pc = "drain" /\ [NextEntry(j) EXCEPT !.failed = TRUE].pc = "drain"
      BY <2>0 DEF NextEntry, Pass
    <3>6. CASE ReplayFails(j) \/ DeleteEntry(j)
      BY <1>0, <3>5, <3>6, SetJanitorAt DEF ReplayFails, DeleteEntry
    <3>7. CASE ReplayUpsert(j) \/ DrainDone(j) \/ ReadFold(j) \/ CollectionUUIDs(j)
               \/ CollectionUUIDsFails(j)
      BY <1>0, <2>0, <3>7, SetJanitorAt DEF ReplayUpsert, DrainDone, ReadFold,
         CollectionUUIDs, CollectionUUIDsFails, Pass
    <3> QED  BY <1>2, <3>1, <3>2, <3>3, <3>4, <3>6, <3>7 DEF JanitorStep, PassStep,
             JanitorCrash, RetryTorn, AutoStops, DoctorReports, HealStops, Release
  <2> QED  BY <2>3, <2>4
<1>3. CASE UNCHANGED vars  BY <1>0, <1>3 DEF vars, PassHoldsLock, HealIsFresh
<1> QED  BY <1>1, <1>2, <1>3 DEF Next

--------------------------------------------------------------------------------
(* The theorems *)

LEMMA InvInit == Init => IInv
<1> SUFFICES ASSUME Init PROVE IInv  OBVIOUS
<1>1. TypeOK  BY TypeInit
<1>2. PICK origin \in [Records -> Origins] :
         /\ jsonl = [r \in Records |-> OriginLines(origin[r])]
         /\ point = [r \in Records |-> OriginPoint(origin[r])]
  BY DEF Init
<1>3. \A r \in Records : jsonl[r] = <<>> \/ (jsonl[r] = <<Blank>> /\ point[r].present)
  BY <1>2 DEF OriginLines, OriginPoint, StoredPoint
<1>4. \A r \in Records : point[r].line = Blank /\ ~point[r].degraded
  BY <1>2 DEF OriginPoint, NoPoint, StoredPoint
<1>5. /\ Len(<<>>) = 0 /\ Len(<<Blank>>) = 1 /\ <<Blank>>[1] = Blank
      /\ Blank.version = 0 /\ Blank.edits = {}
      /\ \A k \in 1..0 : FALSE
      /\ \A k \in 1..(0 - 1) : FALSE
      /\ \A k \in 1..1 : k = 1
      /\ \A k \in 1..(1 - 1) : FALSE
  BY DEF Blank
<1>6. VersionChain  BY <1>3, <1>5 DEF VersionChain
<1>7. OneEditPerLine
  <2>1. OneEdit(<<>>) /\ OneEdit(<<Blank>>)  BY <1>5 DEF OneEdit
  <2> QED  BY <1>3, <2>1, OneEditEach
<1>8. FirstVersion  BY <1>3, <1>5 DEF FirstVersion, Logged, FirstLine
<1>9. EditsStarted  BY <1>3, <1>5 DEF EditsStarted
<1>10. \A a \in Authors : AuthorValid(a)  BY DEF Init, AuthorValid, Idle
<1>11. \A j \in Janitors : janitor[j].pc = "idle"  BY DEF Init, Rest
<1>12. (\A j \in Janitors : PassValid(j)) /\ PassHoldsLock /\ HealIsFresh
  BY <1>11 DEF PassValid, PassHoldsLock, HealIsFresh
<1>13. StoreReflectsLog
  <2>1. WrittenIn(<<>>, Blank)  BY DEF WrittenIn
  <2>2. WrittenIn(<<Blank>>, Blank)  BY <1>5 DEF WrittenIn
  <2> QED  BY <1>3, <1>4, <2>1, <2>2 DEF StoreReflectsLog, Written
<1>14. DegradedIsStored /\ QueuedIsLogged
  BY <1>4 DEF Init, DegradedIsStored, QueuedIsLogged
<1>15. MissingIsTracked  BY <1>3, <1>4 DEF MissingIsTracked, Logged
<1> QED  BY <1>1, <1>6, <1>7, <1>8, <1>9, <1>10, <1>12, <1>13, <1>14, <1>15 DEF IInv

LEMMA InvNext == IInv /\ [Next]_vars => IInv'
<1> SUFFICES ASSUME IInv, [Next]_vars PROVE IInv'  OBVIOUS
<1>1. TypeOK'
  <2>1. TypeOK /\ (\A a \in Authors : AuthorValid(a)) /\ \A j \in Janitors : PassValid(j)
        BY DEF IInv
  <2>2. CASE UNCHANGED vars  BY <2>1, <2>2 DEF vars, TypeOK
  <2> QED  BY <2>1, <2>2, AuthorTypes, JanitorTypes DEF Next
<1> QED  BY <1>1, HistoryStep, AuthorsStep, PassesStep, StoreStep, TrailStep, LockStep
         DEF IInv, HistoryOK

\* The invariant of BrainInvariant holds throughout: nothing that a process holds
\* in memory between two steps is falsified by what others commit meanwhile.
THEOREM Invariance == Spec => []IInv
BY InvInit, InvNext, PTL DEF Spec

\* Every command and every pass keeps the state well typed: no reader ever
\* takes the first or the last line of a history that has none.
THEOREM TypeCorrect == Spec => []TypeOK
<1>1. IInv => TypeOK  BY DEF IInv
<1> QED  BY <1>1, Invariance, PTL

\* The compare-and-swap on the version field serialises the mutations of a
\* record: every commit adds exactly one edit to what was current, so no update
\* is lost (AppendCAS, applyBrainMutation) ...
THEOREM LogIntegrity == Spec => []OneEditPerLine
<1>1. IInv => OneEditPerLine  BY DEF IInv
<1> QED  BY <1>1, Invariance, PTL

\* ... and the versions count up by one, so that a version a command has read
\* names one line of the history.
THEOREM VersionsCount == Spec => []VersionChain
<1>1. IInv => VersionChain  BY DEF IInv
<1> QED  BY <1>1, Invariance, PTL

\* Nothing reaches the vector store that is not durable in the JSONL, whichever
\* of the creates, mirrors, replays, repairs and heals writes last.
THEOREM StoreHoldsCommitted == Spec => []StoreReflectsLog
<1>1. IInv => StoreReflectsLog  BY DEF IInv
<1> QED  BY <1>1, Invariance, PTL

\* A created record that the vector store lacks is on its way there, or one of
\* the faults that are known to lose the outbox entry has struck it.
THEOREM NoSilentGap == Spec => []MissingIsTracked
<1>1. IInv => MissingIsTracked  BY DEF IInv
<1> QED  BY <1>1, Invariance, PTL

\* Two passes never overlap, so a heal writes back the payload the store holds
\* as long as no command runs beside it.
THEOREM HealIsTransparent == Spec => HealKeepsPayload
<1> DEFINE Keeps == \A j \in Janitors, r \in Records :
                      quiet /\ HealRecord(j, r) => point'[r].line = point[r].line
<1>1. ASSUME IInv, [Next]_vars PROVE [Keeps]_vars
  <2> SUFFICES ASSUME NEW j \in Janitors, NEW r \in Records, quiet, HealRecord(j, r)
               PROVE  point'[r].line = point[r].line
      OBVIOUS
  <2>1. TypeOK /\ janitor[j].seen[r] = point[r].line
    <3>1. TypeOK /\ HealIsFresh  BY <1>1 DEF IInv
    <3>2. janitor[j].pc = "heal" /\ r \in janitor[j].todo  BY DEF HealRecord
    <3> QED  BY <3>1, <3>2, Zenon DEF HealIsFresh
  <2>2. point'[r] = StoredPoint(janitor[j].seen[r])
        BY <2>1, UpsertEffect DEF HealRecord
  <2> QED  BY <2>1, <2>2 DEF StoredPoint
<1> QED  BY <1>1, Invariance, PTL DEF Spec, HealKeepsPayload

--------------------------------------------------------------------------------
(* The doctor's report *)

LEMMA FreshInit == Origins \subseteq {"fresh"} /\ Init => FreshInv
<1> SUFFICES ASSUME Origins \subseteq {"fresh"}, Init PROVE FreshInv  OBVIOUS
<1>1. PICK origin \in [Records -> Origins] :
         /\ jsonl = [r \in Records |-> OriginLines(origin[r])]
         /\ point = [r \in Records |-> OriginPoint(origin[r])]
  BY DEF Init
<1>2. \A r \in Records : origin[r] = "fresh"  BY <1>1
<1>3. \A r \in Records : jsonl[r] = <<>> /\ ~point[r].present
  BY <1>1, <1>2 DEF OriginLines, OriginPoint, NoPoint
<1>4. CreatedHere  BY <1>3 DEF CreatedHere, Logged
<1>5. \A j \in Janitors : janitor[j].pc = "idle" /\ janitor[j].present = {}
  BY DEF Init, Rest
<1>6. ScanIsCurrent  BY <1>5 DEF ScanIsCurrent
<1> QED  BY <1>4, <1>6, InvInit DEF FreshInv

\* A mutation has to read the record first, so a history begins with a create.
LEMMA CreatedHereStep ==
    ASSUME IInv, CreatedHere, [Next]_vars
    PROVE  CreatedHere'
<1>1. TypeOK  BY DEF IInv
<1> SUFFICES ASSUME NEW r \in Records
             PROVE  /\ point'[r].present => Logged(r)'
                    /\ Logged(r)' => FirstLine(r)' = [version |-> 1, edits |-> {}]
    BY DEF CreatedHere, Logged, FirstLine
<1>2. CASE Logged(r)
  <2>1. Logged(r)' /\ FirstLine(r)' = FirstLine(r)  BY <1>2, LogPersists
  <2> QED  BY <1>2, <2>1 DEF CreatedHere
<1>3. CASE ~Logged(r)
  <2>1. ~point[r].present  BY <1>3 DEF CreatedHere
  <2>2. ~point'[r].present
    <3>1. ASSUME NEW q \in Records, NEW l \in Line, Logged(q) \/ point[q].present,
                 SetPayload(q, l) \/ \E d \in BOOLEAN :
                    Upsert(q, [present |-> TRUE, line |-> l, degraded |-> d])
          PROVE  ~point'[r].present
      <4>1. r # q  BY <1>3, <2>1, <3>1
      <4> QED  BY <1>1, <2>1, <3>1, <4>1, WriteEffect
    <3> QED  BY <2>1, <3>1, PointSteps
  <2>3. Logged(r)' => FirstLine(r)' = [version |-> 1, edits |-> {}]
    <3>1. CASE UNCHANGED jsonl  BY <1>3, <3>1 DEF Logged
    <3>2. ASSUME NEW a \in Authors, NEW q \in Records, Create(a, q), Logged(r)'
          PROVE  FirstLine(r)' = [version |-> 1, edits |-> {}]
      <4>1. jsonl'[r] = <<[version |-> 1, edits |-> {}]>>
            BY <1>1, <1>3, <3>2 DEF Create, Logged, TypeOK
      <4> QED  BY <4>1 DEF FirstLine
    <3>3. ASSUME NEW a \in Authors, AppendCAS(a) PROVE ~Logged(r)'
      <4>1. Logged(author[a].rec) \/ point[author[a].rec].present
            BY <3>3 DEF IInv, AuthorValid, AppendCAS
      <4>2. r # author[a].rec  BY <1>3, <2>1, <4>1
      <4> QED  BY <1>3, <3>3, <4>2, CommitAppends DEF Logged
    <3> QED  BY <3>1, <3>2, <3>3, LogSteps
  <2> QED  BY <2>2, <2>3
<1> QED  BY <1>2, <1>3

\* A record that was never mutated is in sync as soon as its point exists: the
\* sync of phase 2 may skip it.
LEMMA CreateTimeIsInSync ==
    ASSUME IInv, CreatedHere, NEW r \in Records,
           Logged(r), point[r].present, FoldLatest(r).version <= 1
    PROVE  point[r].line = FoldLatest(r)
<1> DEFINE n == Len(jsonl[r])
<1>1. /\ TypeOK /\ VersionChain /\ WrittenIn(jsonl[r], point[r].line)
      /\ FirstLine(r) = [version |-> 1, edits |-> {}]
  BY DEF IInv, StoreReflectsLog, Written, CreatedHere
<1>2. n \in Nat \ {0}  BY <1>1, LinesAreTyped
<1>3. FoldLatest(r).version = 1 + n - 1
  BY <1>1, <1>2 DEF VersionChain, FoldLatest, FirstLine
<1>4. n = 1
  <2> HIDE DEF n
  <2> QED  BY <1>2, <1>3
<1>5. FoldLatest(r) = jsonl[r][1] /\ \A k \in 1..Len(jsonl[r]) : k = 1
  BY <1>4 DEF FoldLatest
<1>6. jsonl[r] # <<>> /\ jsonl[r][1].edits = {}  BY <1>1 DEF Logged, FirstLine
<1> QED  BY <1>1, <1>5, <1>6 DEF WrittenIn

\* What phase 2 does with a record brings its point to the folded line.
LEMMA RepairSyncs ==
    ASSUME IInv, CreatedHere, ScanIsCurrent, NEW j \in Janitors, NEW r \in Records,
           RepairRecord(j, r), janitor[j].seen[r] = FoldLatest(r)
    PROVE  /\ point'[r].present /\ point'[r].line = FoldLatest(r)
           /\ \A q \in Records \ {r} : point'[q] = point[q]
<1> DEFINE l == janitor[j].seen[r]
<1>1. /\ TypeOK /\ Logged(r) /\ l \in Line
      /\ r \in janitor[j].present => point[r].present
  BY DEF IInv, TypeOK, Pass, PassValid, RepairRecord, ScanIsCurrent
<1>2. CASE Upsert(r, ZeroVectorPoint(l))
  BY <1>1, <1>2, UpsertEffect DEF ZeroVectorPoint
<1>3. CASE r \in janitor[j].present /\ SetPayload(r, l)
  <2>1. point'[r].present /\ point'[r].line = l  BY <1>1, <1>3, SetPayloadEffect
  <2>2. \A q \in Records \ {r} : point'[q] = point[q]
        BY <1>1, <1>3 DEF SetPayload, TypeOK
  <2> QED  BY <2>1, <2>2
<1>4. CASE r \in janitor[j].present /\ l.version <= 1 /\ UNCHANGED point
  BY <1>1, <1>4, CreateTimeIsInSync
<1> QED  BY <1>2, <1>3, <1>4 DEF RepairRecord

\* ScanIsCurrent, one pass at a time.
ScanOK(j) ==
    LET pass == janitor[j]
    IN  /\ pass.pc # "scan" => pass.present = {}
        /\ \A r \in pass.present : point[r].present
        /\ pass.pc \in {"uuids", "scan"} /\ quiet
             => \A r \in Records :
                  /\ r \in pass.todo => pass.seen[r] = FoldLatest(r)
                  /\ r \notin pass.todo => pass.failed \/ InSync(r)

LEMMA ScanEach ==
    /\ ScanIsCurrent <=> \A j \in Janitors : ScanOK(j)
    /\ ScanIsCurrent' <=> \A j \in Janitors : ScanOK(j)'
BY Zenon DEF ScanIsCurrent, ScanOK

\* The pass that moves keeps its part of the bargain.
LEMMA ScanMoves ==
    ASSUME FreshInv, [Next]_vars, NEW j \in Janitors, JanitorStep(j)
    PROVE  ScanOK(j)'
<1> DEFINE p == janitor[j]
<1>0. /\ IInv /\ CreatedHere /\ ScanIsCurrent /\ TypeOK /\ ScanOK(j)
      /\ p \in Pass /\ UNCHANGED jsonl
  BY OthersStay, ScanEach DEF FreshInv, IInv, TypeOK
<1>1. \A r \in p.present : point'[r].present
  BY <1>0, PointPersists DEF ScanOK, Pass
<1>2. ASSUME janitor'[j].pc \notin {"uuids", "scan"}, janitor'[j].present = {}
      PROVE  ScanOK(j)'
  BY <1>2 DEF ScanOK
<1>3. CASE SetJanitor(j, Rest)
  BY <1>0, <1>2, <1>3, SetJanitorAt DEF Rest
<1>4. ASSUME NEW job \in AllJobs, Begin(j, job) PROVE ScanOK(j)'
  <2>1. \/ janitor'[j] = [Rest EXCEPT !.pc = "heal", !.job = job,
                            !.todo = {r \in Records : point[r].degraded},
                            !.seen = [r \in Records |-> point[r].line]]
        \/ janitor'[j] = [Rest EXCEPT !.pc = "drain", !.job = job, !.todo = outbox]
    <3>1. CASE job = "heal"  BY <1>0, <1>4, <3>1, SetJanitorAt DEF Begin
    <3>2. CASE job # "heal"  BY <1>0, <1>4, <3>2, SetJanitorAt DEF Begin
    <3> QED  BY <3>1, <3>2
  <2> QED  BY <1>2, <2>1 DEF Rest
<1>5. ASSUME NEW r \in Records, ReplayRead(j, r) PROVE ScanOK(j)'
  <2>1. janitor'[j] = [p EXCEPT !.pc = "replay", !.rec = r, !.seen[r] = FirstLine(r)]
        BY <1>0, <1>5, SetJanitorAt DEF ReplayRead
  <2> QED  BY <1>0, <1>2, <1>5, <2>1 DEF ReplayRead, ScanOK, Pass
<1>6. ASSUME p.pc # "scan",
             janitor'[j] \in {[p EXCEPT !.pc = "delete"], [p EXCEPT !.pc = "fold"]}
      PROVE  ScanOK(j)'
  BY <1>0, <1>2, <1>6 DEF ScanOK, Pass
<1>7. CASE ReplayUpsert(j) \/ DrainDone(j)
  BY <1>0, <1>6, <1>7, SetJanitorAt DEF ReplayUpsert, DrainDone
<1>8. CASE ReplayFails(j) \/ DeleteEntry(j)
  <2>1. janitor'[j] = NextEntry(j) \/ janitor'[j] = [NextEntry(j) EXCEPT !.failed = TRUE]
        BY <1>0, <1>8, SetJanitorAt DEF ReplayFails, DeleteEntry
  <2>2. janitor'[j].pc = "drain" /\ janitor'[j].present = p.present
        BY <1>0, <2>1 DEF NextEntry, Pass
  <2>3. p.present = {}  BY <1>0, <1>8 DEF ReplayFails, DeleteEntry, ScanOK
  <2> QED  BY <1>2, <2>2, <2>3
<1>9. CASE ReadFold(j)
  <2> DEFINE folded == [r \in Records |-> IF Logged(r) THEN ScanSource(r) ELSE Blank]
  <2>1. janitor'[j] = [p EXCEPT !.pc = "uuids", !.todo = {r \in Records : Logged(r)},
                                !.seen = folded]
        BY <1>0, <1>9, SetJanitorAt DEF ReadFold
  <2>2. \A r \in Records : Logged(r) => folded[r] = FoldLatest(r)
        BY DEF ScanSource
  <2> HIDE DEF folded
  <2>3. /\ janitor'[j].pc = "uuids" /\ janitor'[j].seen = folded
        /\ janitor'[j].todo = {r \in Records : Logged(r)}
        /\ janitor'[j].present = p.present
        BY <1>0, <2>1 DEF Pass
  <2>4. p.present = {}  BY <1>0, <1>9 DEF ReadFold, ScanOK
  <2> QED  BY <1>0, <2>2, <2>3, <2>4 DEF ScanOK, InSync, Logged, FoldLatest
<1>10. CASE CollectionUUIDs(j) \/ CollectionUUIDsFails(j)
  <2>1. /\ p.pc = "uuids" /\ p.present = {} /\ UNCHANGED <<point, quiet>>
        BY <1>0, <1>10 DEF CollectionUUIDs, CollectionUUIDsFails, ScanOK
  <2>2. \/ janitor'[j] = [p EXCEPT !.pc = "scan",
                                   !.present = {r \in Records : point[r].present}]
        \/ janitor'[j] = [p EXCEPT !.pc = "scan"]
        BY <1>0, <1>10, SetJanitorAt DEF CollectionUUIDs, CollectionUUIDsFails
  <2>3. /\ janitor'[j].pc = "scan" /\ janitor'[j].todo = p.todo
        /\ janitor'[j].seen = p.seen /\ janitor'[j].failed = p.failed
        /\ \A r \in janitor'[j].present : point[r].present
        BY <1>0, <2>1, <2>2 DEF Pass
  <2> QED  BY <1>0, <2>1, <2>3 DEF ScanOK, InSync, Logged, FoldLatest
<1>11. ASSUME NEW r \in Records, RepairFails(j, r) PROVE ScanOK(j)'
  <2>1. janitor'[j] = [p EXCEPT !.todo = @ \ {r}, !.failed = TRUE]
        BY <1>0, <1>11, SetJanitorAt DEF RepairFails
  <2>2. /\ janitor'[j].pc = "scan" /\ janitor'[j].todo = p.todo \ {r}
        /\ janitor'[j].seen = p.seen /\ janitor'[j].failed
        /\ janitor'[j].present = p.present
        BY <1>0, <1>11, <2>1 DEF Pass, RepairFails
  <2>3. p.pc = "scan" /\ UNCHANGED <<point, quiet>>  BY <1>11 DEF RepairFails
  <2> QED  BY <1>0, <1>1, <2>2, <2>3 DEF ScanOK, FoldLatest
<1>12. ASSUME NEW r \in Records, RepairRecord(j, r) PROVE ScanOK(j)'
  <2>1. janitor'[j] = [p EXCEPT !.todo = @ \ {r}]
        BY <1>0, <1>12, SetJanitorAt DEF RepairRecord
  <2>2. p.pc = "scan" /\ r \in p.todo /\ UNCHANGED quiet  BY <1>12 DEF RepairRecord
  <2>3. /\ janitor'[j].pc = "scan" /\ janitor'[j].todo = p.todo \ {r}
        /\ janitor'[j].seen = p.seen /\ janitor'[j].failed = p.failed
        /\ janitor'[j].present = p.present
        BY <1>0, <2>1, <2>2 DEF Pass
  <2>4. ASSUME quiet, NEW q \in Records
        PROVE  /\ q \in p.todo \ {r} => p.seen[q] = FoldLatest(q)
               /\ q \notin p.todo \ {r} => p.failed \/ InSync(q)'
    <3>1. /\ q \in p.todo => p.seen[q] = FoldLatest(q)
          /\ q \notin p.todo => p.failed \/ InSync(q)
          /\ p.seen[r] = FoldLatest(r)
          BY <1>0, <2>2, <2>4 DEF ScanOK
    <3>2. /\ point'[r].present /\ point'[r].line = FoldLatest(r)
          /\ \A k \in Records \ {r} : point'[k] = point[k]
          BY <1>0, <1>12, <3>1, RepairSyncs
    <3>3. CASE q = r  BY <1>0, <3>2, <3>3 DEF InSync, Logged, FoldLatest
    <3>4. CASE q # r
      <4>1. InSync(q) => InSync(q)'
            BY <1>0, <3>2, <3>4 DEF InSync, Logged, FoldLatest
      <4> QED  BY <3>1, <3>4, <4>1
    <3> QED  BY <3>3, <3>4
  <2> QED  BY <1>0, <1>1, <2>2, <2>3, <2>4 DEF ScanOK, FoldLatest
<1>13. ASSUME NEW r \in Records, HealRecord(j, r) PROVE ScanOK(j)'
  <2>1. janitor'[j] = [p EXCEPT !.todo = @ \ {r}] /\ p.pc = "heal"
        BY <1>0, <1>13, SetJanitorAt DEF HealRecord
  <2> QED  BY <1>0, <1>2, <2>1 DEF ScanOK, Pass
<1> QED  BY <1>3, <1>4, <1>5, <1>7, <1>8, <1>9, <1>10, <1>11, <1>12, <1>13
         DEF JanitorStep, PassStep, JanitorCrash, RetryTorn, AutoStops, DoctorReports,
             HealStops, Release

LEMMA FreshNext == FreshInv /\ [Next]_vars => FreshInv'
<1> SUFFICES ASSUME FreshInv, [Next]_vars PROVE FreshInv'  OBVIOUS
<1>0. IInv /\ CreatedHere /\ TypeOK /\ \A i \in Janitors : ScanOK(i)
  BY ScanEach DEF FreshInv, IInv
<1>1. IInv' /\ CreatedHere'  BY <1>0, InvNext, CreatedHereStep
<1>2. \A i \in Janitors : \A r \in janitor[i].present : point'[r].present
  BY <1>0, PointPersists DEF ScanOK, TypeOK, Pass
<1>3. ASSUME NEW a \in Authors, AuthorStep(a), NEW i \in Janitors PROVE ScanOK(i)'
  <2>1. janitor' = janitor /\ quiet' = FALSE  BY <1>0, <1>3, OthersStay
  <2> QED  BY <1>0, <1>2, <2>1 DEF ScanOK
<1>4. ASSUME NEW j \in Janitors, JanitorStep(j), NEW i \in Janitors PROVE ScanOK(i)'
  <2>1. CASE i = j  BY <1>4, <2>1, ScanMoves
  <2>2. CASE i # j
    <3>1. janitor[i].pc = "idle"  BY <1>0, <1>4, <2>2, OthersRest
    <3>2. janitor'[i] = janitor[i]  BY <1>0, <1>4, <2>2, OthersStay
    <3> QED  BY <1>0, <1>2, <3>1, <3>2 DEF ScanOK
  <2> QED  BY <2>1, <2>2
<1>5. ASSUME UNCHANGED vars, NEW i \in Janitors PROVE ScanOK(i)'
  BY <1>0, <1>5 DEF vars, ScanOK, InSync, Logged, FoldLatest
<1>6. \A i \in Janitors : ScanOK(i)'  BY <1>3, <1>4, <1>5 DEF Next
<1> QED  BY <1>1, <1>6, ScanEach DEF FreshInv

\* If every record was created by this program, "All stores consistent." is
\* true whenever no command wrote beside the doctor: whatever crashes, failed
\* mirrors, lost entries and replays came before, phase 2 has brought every
\* point to its folded line or has counted a failure (runReconcileFromJSONL).
THEOREM ReportHolds ==
    ASSUME Origins \subseteq {"fresh"}
    PROVE  Spec => []ReportIsTrue
<1>1. FreshInv => ReportIsTrue
  <2> SUFFICES ASSUME FreshInv, NEW j \in Janitors, Reporting(j), ~janitor[j].failed, quiet,
                      NEW r \in Records
               PROVE  InSync(r)
      BY DEF ReportIsTrue
  <2>1. ScanOK(j)  BY ScanEach DEF FreshInv
  <2> QED  BY <2>1 DEF ScanOK, Reporting
<1>2. Init => FreshInv  BY FreshInit
<1> QED  BY <1>1, <1>2, FreshNext, PTL DEF Spec

--------------------------------------------------------------------------------
(* Refinement *)

\* The current payloads of all records, as VersionedRecord sees them.
Register_current == [r \in Records |-> Current(r)]

LEMMA RegisterInit == Init => Register!Init
<1> SUFFICES ASSUME Init PROVE Register!Init  OBVIOUS
<1>1. PICK origin \in [Records -> Origins] :
         /\ jsonl = [r \in Records |-> OriginLines(origin[r])]
         /\ point = [r \in Records |-> OriginPoint(origin[r])]
  BY DEF Init
<1>2. ASSUME NEW r \in Records
      PROVE  Current(r) \in {Register!Absent, Register!Legacy}
  <2>1. CASE origin[r] = "unversioned"
    <3>1. jsonl[r] = <<Blank>>  BY <1>1, <2>1 DEF OriginLines
    <3>2. Logged(r) /\ FoldLatest(r) = Blank  BY <3>1 DEF Logged, FoldLatest
    <3> QED  BY <3>2 DEF Current, Register!Legacy, Blank
  <2>2. CASE origin[r] # "unversioned"
    <3>1. ~Logged(r)  BY <1>1, <2>2 DEF OriginLines, Logged
    <3>2. point[r] \in {NoPoint, StoredPoint(Blank)}  BY <1>1 DEF OriginPoint
    <3>3. Current(r) = [present |-> point[r].present, line |-> point[r].line]
          BY <3>1 DEF Current
    <3>4. CASE point[r] = NoPoint
      <4>1. point[r].present = FALSE /\ point[r].line = Blank  BY <3>4 DEF NoPoint
      <4> QED  BY <3>3, <4>1 DEF Register!Absent, Blank
    <3>5. CASE point[r] = StoredPoint(Blank)
      <4>1. point[r].present = TRUE /\ point[r].line = Blank  BY <3>5 DEF StoredPoint
      <4> QED  BY <3>3, <4>1 DEF Register!Legacy, Blank
    <3> QED  BY <3>2, <3>4, <3>5
  <2> QED  BY <2>1, <2>2
<1> QED  BY <1>2 DEF Register!Init

\* A record without a line shows a blank payload, if any.
LEMMA UnloggedIsBlank ==
    ASSUME IInv, NEW r \in Records, ~Logged(r), point[r].present
    PROVE  point[r].line = Blank
<1>1. WrittenIn(jsonl[r], point[r].line)  BY DEF IInv, StoreReflectsLog, Written
<1>2. Len(jsonl[r]) = 0  BY DEF Logged
<1> QED  BY <1>1, <1>2 DEF WrittenIn

\* Mirrors, replays, repairs and heals are invisible to who reads the current
\* payload: for a record with lines the JSONL decides, and for one without they
\* could only write what is there.
LEMMA StoreWritesStutter ==
    ASSUME IInv, [Next]_vars, NEW r \in Records, jsonl'[r] = jsonl[r]
    PROVE  Current(r)' = Current(r)
<1>1. TypeOK  BY DEF IInv
<1>2. CASE Logged(r)  BY <1>2 DEF Current, Logged, FoldLatest
<1>3. CASE ~Logged(r)
  <2>1. CASE UNCHANGED point  BY <2>1 DEF Current, Logged, FoldLatest
  <2>2. ASSUME NEW q \in Records, NEW l \in Line,
               Written(q, l), Logged(q) \/ point[q].present,
               SetPayload(q, l) \/ \E d \in BOOLEAN :
                  Upsert(q, [present |-> TRUE, line |-> l, degraded |-> d])
        PROVE  point'[r].present = point[r].present /\ point'[r].line = point[r].line
    <3>1. /\ point[r].present => point'[r].present
          /\ \/ point'[r].line = l /\ r = q
             \/ point'[r].line = point[r].line /\ point'[r].present = point[r].present
          BY <1>1, <2>2, WriteEffect
    <3>2. CASE r = q
      <4>1. point[r].present  BY <1>3, <2>2, <3>2
      <4>2. WrittenIn(jsonl[r], l) /\ Len(jsonl[r]) = 0
            BY <1>3, <2>2, <3>2 DEF Written, Logged
      <4>3. l = Blank /\ point[r].line = Blank
            BY <1>3, <4>1, <4>2, UnloggedIsBlank DEF WrittenIn
      <4>4. point[r].present \in BOOLEAN /\ point'[r].present \in BOOLEAN
        <5>1. TypeOK'  BY InvNext DEF IInv
        <5> QED  BY <1>1, <5>1 DEF TypeOK, Point
      <4> QED  BY <3>1, <4>1, <4>3, <4>4
    <3>3. CASE r # q  BY <3>1, <3>3
    <3> QED  BY <3>2, <3>3
  <2> QED  BY <1>3, <2>1, <2>2, PointSteps DEF Current, Logged, FoldLatest
<1> QED  BY <1>2, <1>3

LEMMA RegisterNext ==
    ASSUME IInv, [Next]_vars
    PROVE  Register!Next \/ UNCHANGED Register_current
<1>1. TypeOK  BY DEF IInv
<1>2. CASE UNCHANGED jsonl
  <2>1. \A r \in Records : Current(r)' = Current(r)  BY <1>2, StoreWritesStutter
  <2> QED  BY <2>1 DEF Register_current
<1>3. ASSUME NEW a \in Authors, NEW q \in Records, Create(a, q)
      PROVE  Register!Next
  <2> DEFINE l == [version |-> 1, edits |-> {}]
  <2>1. jsonl' = [jsonl EXCEPT ![q] = <<l>>] /\ ~Logged(q) /\ ~point[q].present
        BY <1>3 DEF Create
  <2>2. jsonl'[q] = <<l>> /\ \A r \in Records \ {q} : jsonl'[r] = jsonl[r]
        BY <1>1, <2>1 DEF TypeOK
  <2>3. \A r \in Records \ {q} : Current(r)' = Current(r)
        BY <2>2, StoreWritesStutter
  <2>4. Current(q)' = [present |-> TRUE, line |-> l]
        BY <2>2 DEF Current, Logged, FoldLatest
  <2>5. ~Current(q).present  BY <2>1 DEF Current
  <2>6. Register!Create(q)
        BY <2>3, <2>4, <2>5 DEF Register!Create
  <2> QED  BY <2>6 DEF Register!Next
<1>4. ASSUME NEW a \in Authors, AppendCAS(a)
      PROVE  Register!Next
  <2> DEFINE q == author[a].rec
             l == [author[a].line EXCEPT !.version = LatestVersion(q) + 1]
             c == Current(q)
             e == OwnEdit(a)
  <2>1. /\ q \in Records /\ l \in Line /\ e \in Edit
        /\ jsonl' = [jsonl EXCEPT ![q] = Append(@, l)]
        /\ Logged(q) => /\ l.version = FoldLatest(q).version + 1
                        /\ l.edits = FoldLatest(q).edits \union {e}
                        /\ e \notin FoldLatest(q).edits
        /\ ~Logged(q) => l.version = 1 /\ l.edits = {e}
        BY <1>4, CommitStep
  <2> HIDE DEF l, e
  <2>2. jsonl[q] \in Seq(Line) /\ jsonl'[q] = Append(jsonl[q], l)
        /\ \A r \in Records \ {q} : jsonl'[r] = jsonl[r]
        BY <1>1, <2>1 DEF TypeOK
  <2>3. \A r \in Records \ {q} : Current(r)' = Current(r)
        BY <2>2, StoreWritesStutter
  <2>4. jsonl'[q] # <<>> /\ jsonl'[q][Len(jsonl'[q])] = l
        BY <2>1, <2>2, AppendKeeps
  <2>6. \A r \in Records : r = q => Current(r)' = [present |-> TRUE, line |-> l]
        BY <2>4 DEF Current, Logged, FoldLatest
  <2>7. c.present
    <3>1. Logged(q) \/ point[q].present
          BY <1>4 DEF IInv, AuthorValid, AppendCAS
    <3> QED  BY <3>1 DEF Current
  <2>8. e \notin c.line.edits /\ l.version = c.line.version + 1
        /\ l.edits = c.line.edits \union {e}
    <3>1. CASE Logged(q)  BY <2>1, <3>1 DEF Current
    <3>2. CASE ~Logged(q)
      <4>1. c.line = Blank  BY <2>1, <2>7, <3>2, UnloggedIsBlank DEF Current
      <4> QED  BY <2>1, <3>2, <4>1 DEF Blank
    <3> QED  BY <3>1, <3>2
  <2>9. l = [version |-> c.line.version + 1, edits |-> c.line.edits \union {e}]
        BY <2>1, <2>8 DEF Line
  <2>10. Register!Commit(q, e)
    <3> HIDE DEF c, q
    <3>1. Register_current[q] = c  BY <2>1 DEF Register_current, c
    <3>2. Register_current' = [Register_current EXCEPT ![q] = [present |-> TRUE, line |-> l]]
          BY <2>1, <2>3, <2>6 DEF Register_current
    <3>3. l = [version |-> Register_current[q].line.version + 1,
               edits |-> Register_current[q].line.edits \union {e}]
          BY <2>9, <3>1
    <3>4. Register_current' = [Register_current EXCEPT
             ![q] = [present |-> TRUE,
                     line |-> [version |-> @.line.version + 1,
                               edits |-> @.line.edits \union {e}]]]
          BY <3>2, <3>3
    <3> QED  BY <2>7, <2>8, <3>1, <3>4 DEF Register!Commit, Register_current
  <2> QED  BY <2>1, <2>10 DEF Register!Next
<1> QED  BY <1>2, <1>3, <1>4, LogSteps

\* BrainStore implements the versioned record: seen through the read that a
\* mutation starts with, every step is one create, one atomic edit of the
\* latest payload, or nothing at all.
THEOREM Refinement == Spec => ImplementsRegister
<1>1. IInv /\ [Next]_vars => [Register!Next]_Register_current
  BY RegisterNext
<1> QED  BY <1>1, RegisterInit, Invariance, PTL
         DEF Spec, ImplementsRegister, Register!Spec, Register_current

================================================================================
