------------------------------ MODULE Inbox_proofs ------------------------------
(***************************************************************************)
(* Proofs about Inbox: the log of a direct message only grows, and nothing *)
(* that a process writes to the store is ahead of it, for every number of  *)
(* messages, readers and processes and every fault.                        *)
(***************************************************************************)
EXTENDS Inbox, TLAPS

\* A line, or a point, that the log has or has had.
LineBehind(l, m)   == /\ l.version <= log[m].version
                      /\ l.readers \subseteq log[m].readers
                      /\ l.stamp <= log[m].stamp
PointBehind(pt, m) == pt.readers \subseteq log[m].readers /\ pt.stamp <= log[m].stamp

\* A line about to be appended, of a version that is still the last one, only
\* adds to it: its own reader, and a later time.
Extends(l, who, m) ==
    /\ l.version <= log[m].version
    /\ l.version = log[m].version =>
          log[m].readers \subseteq l.readers /\ log[m].stamp <= l.stamp
    /\ who \in l.readers
    /\ l.stamp <= now

\* What a process remembers of direct messages.
Sound(q) ==
    /\ q.pc \in {"upsert", "append", "mirror"} => q.msg \in Messages
    /\ q.pc \in {"mark", "append", "mirror"} => q.who \in Readers
    /\ q.pc \in {"fold", "archive", "archived"} =>
          q.todo \subseteq Broadcasts /\ q.done \subseteq Broadcasts
    /\ \A m \in Direct :
          /\ PointBehind(q.copy[m], m)
          /\ q.pc # "append" \/ q.msg # m => LineBehind(q.seen[m], m)
          /\ q.pc = "append" /\ q.msg = m => Extends(q.seen[m], q.who, m)
          /\ q.pc = "mirror" /\ q.msg = m => q.who \in log[m].readers

\* The log of a direct message.
LogOK ==
    \A m \in Direct : /\ log[m].stamp <= now
                      /\ log[m].version = 0 => log[m].readers = {}

StoreOK == \A m \in Direct : PointBehind(point[m], m)

ProcsOK == \A p \in Procs : Sound(proc[p])

Inv == TypeOK /\ LogOK /\ StoreOK /\ ProcsOK /\ MarkedStaysInLog

\* The last line of a direct message is replaced by one that says more.
Grown ==
    \A m \in Direct :
        /\ log[m].version <= log'[m].version
        /\ log[m].readers \subseteq log'[m].readers
        /\ log[m].stamp <= log'[m].stamp
        /\ log'[m].version = log[m].version => log'[m] = log[m]

--------------------------------------------------------------------------------
(* Data *)

LEMMA NoLineType == NoLine \in Line /\ NoPoint \in Point
  BY DEF NoLine, Line, NoPoint, Point

LEMMA IdleType ==
    /\ Idle \in Process /\ Idle.pc = "idle" /\ Idle.who = Anonymous
    /\ Idle.todo = {} /\ Idle.done = {}
    /\ \A m \in Messages : Idle.seen[m] = NoLine /\ Idle.copy[m] = NoPoint
  BY NoLineType DEF Idle, Process, PC

LEMMA PointOfType ==
    ASSUME NEW l \in Line
    PROVE  /\ PointOf(l) \in Point
           /\ PointOf(l).readers = l.readers /\ PointOf(l).stamp = l.stamp
  BY DEF PointOf, Line, Point

LEMMA MergedType ==
    ASSUME NEW pt \in Point, NEW l \in Line
    PROVE  /\ Merged(pt, l) \in Point
           /\ Merged(pt, l) = pt \/ (/\ Merged(pt, l).readers = l.readers
                                     /\ Merged(pt, l).stamp = l.stamp)
  <1> DEFINE w == PointOf(l)
             b == l.archived \/ pt.archived
             n == [w EXCEPT !.archived = b]
  <1>1. w \in Point /\ w.readers = l.readers /\ w.stamp = l.stamp
    BY PointOfType
  <1>2. b \in BOOLEAN
    BY DEF Line, Point
  <1>3. Merged(pt, l) = IF pt.present THEN n ELSE pt
    BY DEF Merged
  <1> HIDE DEF w, b
  <1>4. n \in Point /\ n.readers = w.readers /\ n.stamp = w.stamp
    BY <1>1, <1>2 DEF Point
  <1> HIDE DEF n
  <1> QED  BY <1>1, <1>3, <1>4

LEMMA DirectIsMessage == Direct \subseteq Messages
  BY DEF Direct

\* What a process remembers stays true while the log grows and time goes on.
LEMMA SoundStays ==
    ASSUME TypeOK, TypeOK', Grown, now <= now', NEW q \in Process, Sound(q)
    PROVE  Sound(q)'
  <1>1. ASSUME NEW m \in Direct
        PROVE  /\ PointBehind(q.copy[m], m)'
               /\ q.pc # "append" \/ q.msg # m => LineBehind(q.seen[m], m)'
               /\ q.pc = "append" /\ q.msg = m => Extends(q.seen[m], q.who, m)'
               /\ q.pc = "mirror" /\ q.msg = m => q.who \in log'[m].readers
    <2>1. /\ q.seen[m] \in Line /\ q.copy[m] \in Point
          /\ log[m] \in Line /\ log'[m] \in Line /\ now \in Nat /\ now' \in Nat
      BY DirectIsMessage DEF TypeOK, Process
    <2>2. /\ log[m].version <= log'[m].version
          /\ log[m].readers \subseteq log'[m].readers
          /\ log[m].stamp <= log'[m].stamp
          /\ log'[m].version = log[m].version => log'[m] = log[m]
      BY DEF Grown
    <2>3. PointBehind(q.copy[m], m)'
      BY <2>1, <2>2 DEF Sound, PointBehind, Line, Point
    <2>4. q.pc # "append" \/ q.msg # m => LineBehind(q.seen[m], m)'
      BY <2>1, <2>2 DEF Sound, LineBehind, Line
    <2>5. q.pc = "append" /\ q.msg = m => Extends(q.seen[m], q.who, m)'
      BY <2>1, <2>2 DEF Sound, Extends, Line
    <2>6. q.pc = "mirror" /\ q.msg = m => q.who \in log'[m].readers
      BY <2>2 DEF Sound
    <2> QED  BY <2>3, <2>4, <2>5, <2>6
  <1> QED  BY <1>1 DEF Sound

\* A step of one process.
LEMMA OneMoves ==
    ASSUME Inv, NEW p \in Procs, NEW new \in Process, SetProc(p, new), Sound(new)',
           Grown, now' = now, LogOK', StoreOK', MarkedStaysInLog',
           log' \in [Messages -> Line], point' \in [Messages -> Point],
           lock' \in Procs \union {NoOne}, collection' \in BOOLEAN, budget' \in Nat,
           told' \in [Messages -> SUBSET Readers]
    PROVE  Inv'
  <1> USE DEF Inv
  <1>1. /\ proc' \in [Procs -> Process] /\ proc'[p] = new
        /\ \A q \in Procs : q # p => proc'[q] = proc[q]
    BY DEF TypeOK, SetProc
  <1>2. TypeOK'
    BY <1>1 DEF TypeOK
  <1>3. ASSUME NEW q \in Procs PROVE Sound(proc[q])'
    <2>1. CASE q = p
      BY <1>1, <2>1
    <2>2. CASE q # p
      <3>1. proc[q] \in Process /\ Sound(proc[q]) /\ now <= now'
        BY DEF TypeOK, ProcsOK
      <3>2. PICK w \in Process : w = proc[q]
        BY <3>1
      <3>3. Sound(w)'
        BY <1>2, <3>1, <3>2, SoundStays
      <3>4. proc'[q] = w
        BY <1>1, <2>2, <3>2
      <3> QED  BY <3>3, <3>4
    <2> QED  BY <2>1, <2>2
  <1>4. ProcsOK'
    BY <1>3 DEF ProcsOK
  <1> QED  BY <1>2, <1>4

\* A step that leaves the log alone.
LEMMA QuietStep ==
    ASSUME Inv, NEW p \in Procs, NEW new \in Process, SetProc(p, new), Sound(new),
           UNCHANGED <<log, now>>, StoreOK', MarkedStaysInLog',
           point' \in [Messages -> Point],
           lock' \in Procs \union {NoOne}, collection' \in BOOLEAN, budget' \in Nat,
           told' \in [Messages -> SUBSET Readers]
    PROVE  Inv'
  <1> USE DEF Inv
  <1>1. Grown /\ now <= now'
    BY DirectIsMessage DEF Grown, TypeOK, Line
  <1>2. TypeOK'
    BY DEF TypeOK, SetProc
  <1>3. Sound(new)'
    BY <1>1, <1>2, SoundStays
  <1>4. LogOK' /\ log' \in [Messages -> Line]
    BY DEF LogOK, TypeOK
  <1> QED  BY <1>1, <1>3, <1>4, OneMoves

LEMMA StoreStays == ASSUME Inv, UNCHANGED <<log, point>> PROVE StoreOK'
  BY DEF Inv, StoreOK, PointBehind

LEMMA MarksStay == ASSUME Inv, UNCHANGED <<log, told>> PROVE MarkedStaysInLog'
  BY DEF Inv, MarkedStaysInLog

\* ... and the store and the marks as well.
LEMMA ProcessStep ==
    ASSUME Inv, NEW p \in Procs, NEW new \in Process, SetProc(p, new), Sound(new),
           UNCHANGED <<log, point, now, told>>,
           lock' \in Procs \union {NoOne}, collection' \in BOOLEAN, budget' \in Nat
    PROVE  Inv'
  <1>1. point' \in [Messages -> Point] /\ told' \in [Messages -> SUBSET Readers]
    BY DEF Inv, TypeOK
  <1>2. UNCHANGED <<log, now>>
    OBVIOUS
  <1> QED  BY <1>1, <1>2, StoreStays, MarksStay, QuietStep

LEMMA IdleIsSound == ASSUME Inv PROVE Sound(Idle)
  <1>1. ASSUME NEW m \in Direct PROVE PointBehind(NoPoint, m) /\ LineBehind(NoLine, m)
    <2>1. log[m] \in Line
      BY DirectIsMessage DEF Inv, TypeOK
    <2> QED  BY <2>1 DEF PointBehind, LineBehind, NoPoint, NoLine, Line
  <1> QED  BY <1>1, IdleType, DirectIsMessage DEF Sound

\* A process that is well typed and sound, seen through its fields.
LEMMA Fields ==
    ASSUME Inv, NEW p \in Procs
    PROVE  /\ proc[p] \in Process /\ Sound(proc[p])
           /\ proc[p].seen \in [Messages -> Line] /\ proc[p].copy \in [Messages -> Point]
           /\ proc[p].todo \subseteq Messages /\ proc[p].done \subseteq Messages
           /\ proc[p].who \in Readers \union {Anonymous}
           /\ proc[p].msg \in Messages \union {NoMessage}
           /\ log \in [Messages -> Line] /\ point \in [Messages -> Point]
           /\ told \in [Messages -> SUBSET Readers]
           /\ budget \in Nat /\ now \in Nat /\ lock \in Procs \union {NoOne}
           /\ collection \in BOOLEAN
  BY DEF Inv, TypeOK, ProcsOK, Process

LEMMA Ended ==
    ASSUME Inv, NEW p \in Procs, SetProc(p, Idle), UNCHANGED <<log, point, now, told>>,
           lock' \in Procs \union {NoOne}, collection' \in BOOLEAN, budget' \in Nat
    PROVE  Inv'
  BY IdleIsSound, IdleType, ProcessStep

\* Starting to mark, archive or rebuild: what is to be done, by whom, and the
\* points that were copied.
LEMMA NewCommand ==
    ASSUME Inv, NEW p \in Procs, NEW pc \in {"mark", "dismiss", "fold", "merge"},
           NEW who \in Readers \union {Anonymous}, NEW todo \in SUBSET Messages,
           NEW copy \in [Messages -> Point],
           pc = "mark" => who \in Readers,
           pc = "fold" => todo \subseteq Broadcasts,
           \A m \in Direct : PointBehind(copy[m], m)
    PROVE  LET new == [Idle EXCEPT !.pc = pc, !.who = who, !.todo = todo, !.copy = copy]
           IN  new \in Process /\ Sound(new)
  <1> DEFINE new == [Idle EXCEPT !.pc = pc, !.who = who, !.todo = todo, !.copy = copy]
  <1>1. /\ new \in Process /\ new.pc = pc /\ new.who = who /\ new.todo = todo
        /\ new.copy = copy /\ new.seen = Idle.seen /\ new.done = {}
    BY IdleType DEF Process, PC
  <1> HIDE DEF new
  <1>2. ASSUME NEW m \in Direct PROVE LineBehind(new.seen[m], m)
    BY <1>1, IdleIsSound, IdleType DEF Sound
  <1>3. Sound(new)
    BY <1>1, <1>2 DEF Sound
  <1> QED  BY <1>1, <1>3 DEF new

--------------------------------------------------------------------------------
(* Send and read *)

LEMMA SendStep == ASSUME Inv, NEW p \in Procs, NEW m \in Messages, Send(p, m) PROVE Inv'
  <1> USE DEF Inv
  <1> DEFINE line == [NoLine EXCEPT !.version = 1, !.stamp = now]
             l    == [log EXCEPT ![m] = line]
             new  == [Idle EXCEPT !.pc = "upsert", !.msg = m, !.seen = l]
  <1>1. /\ log' = l /\ SetProc(p, new) /\ UNCHANGED <<point, lock, now, told, collection>>
        /\ log[m].version = 0 /\ budget' \in Nat
    <2>1. /\ log' = l /\ UNCHANGED <<point, lock, now, told, collection>>
          /\ SetProc(p, [Idle EXCEPT !.pc = "upsert", !.msg = m, !.seen = log'])
      BY DEF Send
    <2>2. log[m].version = 0
      BY DEF Send, Logged, TypeOK, Line
    <2>3. budget' \in Nat
      BY DEF Send, Start, TypeOK
    <2> QED  BY <2>1, <2>2, <2>3
  <1>2. /\ line \in Line /\ line.version = 1 /\ line.stamp = now /\ line.readers = {}
    BY NoLineType DEF NoLine, Line, TypeOK
  <1> HIDE DEF line
  <1>3. l \in [Messages -> Line] /\ l[m] = line /\ \A n \in Messages \ {m} : l[n] = log[n]
    BY <1>2 DEF TypeOK
  <1> HIDE DEF l
  <1>4. /\ new \in Process /\ new.pc = "upsert" /\ new.msg = m /\ new.seen = l
        /\ new.copy = Idle.copy
    BY <1>3, IdleType DEF Process, PC
  <1> HIDE DEF new
  <1>5. PICK next \in Process : /\ SetProc(p, next) /\ next.pc = "upsert" /\ next.msg = m
                                 /\ next.seen = l /\ next.copy = Idle.copy
    BY <1>1, <1>4
  <1>6. Grown
    <2> SUFFICES ASSUME NEW n \in Direct
                 PROVE  /\ log[n].version <= l[n].version
                        /\ log[n].readers \subseteq l[n].readers
                        /\ log[n].stamp <= l[n].stamp
                        /\ l[n].version = log[n].version => l[n] = log[n]
      BY <1>1 DEF Grown
    <2>1. n \in Messages /\ log[n] \in Line
      BY DirectIsMessage DEF TypeOK
    <2>2. CASE n = m
      BY <1>1, <1>2, <1>3, <2>1, <2>2 DEF LogOK, Line
    <2>3. CASE n # m
      BY <1>3, <2>1, <2>3 DEF Line
    <2> QED  BY <2>2, <2>3
  <1>7. LogOK'
    <2> SUFFICES ASSUME NEW n \in Direct
                 PROVE  l[n].stamp <= now /\ (l[n].version = 0 => l[n].readers = {})
      BY <1>1 DEF LogOK
    <2>1. n \in Messages /\ now \in Nat
      BY DirectIsMessage DEF TypeOK
    <2> QED  BY <1>2, <1>3, <2>1 DEF LogOK
  <1>8. ASSUME NEW n \in Direct, NEW pt \in Point, PointBehind(pt, n)
        PROVE  PointBehind(pt, n)'
    BY <1>1, <1>3, <1>6, <1>8, DirectIsMessage DEF PointBehind, Grown, TypeOK, Line, Point
  <1>9. StoreOK'
    BY <1>1, <1>8, DirectIsMessage DEF StoreOK, TypeOK
  <1>10. MarkedStaysInLog'
    BY <1>1, <1>6 DEF MarkedStaysInLog, Grown
  <1>11. Sound(next)'
    <2>1. ASSUME NEW n \in Direct PROVE PointBehind(next.copy[n], n)'
      BY <1>5, <1>8, IdleIsSound, IdleType, DirectIsMessage, NoLineType DEF Sound
    <2>2. ASSUME NEW n \in Direct PROVE LineBehind(next.seen[n], n)'
      BY <1>1, <1>3, <1>5, DirectIsMessage DEF LineBehind, Line
    <2> QED  BY <1>5, <2>1, <2>2 DEF Sound
  <1>12. lock' \in Procs \union {NoOne} /\ collection' \in BOOLEAN /\ told' \in [Messages -> SUBSET Readers]
         /\ point' \in [Messages -> Point] /\ log' \in [Messages -> Line] /\ now' = now
    BY <1>1, <1>3 DEF TypeOK
  <1> QED  BY <1>1, <1>6, <1>7, <1>9, <1>10, <1>11, <1>12, <1>5, OneMoves

LEMMA UpsertStep == ASSUME Inv, NEW p \in Procs, UpsertSent(p) PROVE Inv'
  <1> DEFINE m == proc[p].msg
             w == PointOf(proc[p].seen[m])
  <1>1. m \in Messages /\ proc[p].seen[m] \in Line
    BY Fields DEF UpsertSent, Sound
  <1>2. /\ w \in Point /\ w.readers = proc[p].seen[m].readers
        /\ w.stamp = proc[p].seen[m].stamp
    BY <1>1, PointOfType
  <1>3. m \in Direct => PointBehind(w, m)
    BY <1>2, Fields DEF UpsertSent, Sound, LineBehind, PointBehind
  <1>4. /\ point' = [point EXCEPT ![m] = w] /\ SetProc(p, Idle)
        /\ UNCHANGED <<log, lock, now, budget, told, collection>>
    BY DEF UpsertSent
  <1> HIDE DEF w
  <1>5. point' \in [Messages -> Point] /\ StoreOK'
    BY <1>1, <1>2, <1>3, <1>4, DirectIsMessage DEF Inv, TypeOK, StoreOK, PointBehind
  <1> QED  BY <1>4, <1>5, Fields, IdleType, IdleIsSound, MarksStay, QuietStep

LEMMA FetchStep ==
    ASSUME Inv, NEW p \in Procs, NEW r \in Readers \union {Anonymous}, Fetch(p, r)
    PROVE  Inv'
  <1>1. PICK shown \in SUBSET GetInbox(r) :
          SetProc(p, [Idle EXCEPT !.pc = IF r = Anonymous THEN "dismiss" ELSE "mark",
                                  !.who = r, !.todo = shown])
    BY DEF Fetch
  <1>2. UNCHANGED <<log, point, lock, now, told, collection>> /\ budget' \in Nat
    BY DEF Fetch, Start, Inv, TypeOK
  <1> DEFINE pc  == IF r = Anonymous THEN "dismiss" ELSE "mark"
             new == [Idle EXCEPT !.pc = pc, !.who = r, !.todo = shown, !.copy = Idle.copy]
  <1>3. pc \in {"mark", "dismiss", "fold", "merge"} /\ shown \in SUBSET Messages
        /\ (pc = "mark" => r \in Readers) /\ pc # "fold"
    BY DEF GetInbox, Scrolled
  <1>4. /\ Idle.copy \in [Messages -> Point]
        /\ \A m \in Direct : PointBehind(Idle.copy[m], m)
    BY IdleType, IdleIsSound DEF Process, Sound
  <1>5. SetProc(p, new)
    <2>1. new = [Idle EXCEPT !.pc = pc, !.who = r, !.todo = shown]
      BY IdleType DEF Process
    <2> QED  BY <1>1, <2>1
  <1> HIDE DEF pc
  <1>6. new \in Process /\ Sound(new)
    BY <1>3, <1>4, NewCommand
  <1> HIDE DEF new
  <1> QED  BY <1>2, <1>5, <1>6, Fields, ProcessStep

\* The next message, or the end of the command.
LEMMA NextStep ==
    ASSUME Inv, NEW p \in Procs, NEW m \in Messages, proc[p].who \in Readers, NextMessage(p, m)
    PROVE  \E new \in Process : SetProc(p, new) /\ Sound(new)
  <1> DEFINE rest == proc[p].todo \ {m}
             who  == proc[p].who
             new  == [Idle EXCEPT !.pc = "mark", !.who = who, !.todo = rest, !.copy = Idle.copy]
  <1>1. SetProc(p, Idle) \/ SetProc(p, new)
    <2>1. new = [Idle EXCEPT !.pc = "mark", !.who = who, !.todo = rest]
      BY IdleType DEF Process
    <2> QED  BY <2>1 DEF NextMessage
  <1>2. /\ Idle.copy \in [Messages -> Point]
        /\ \A n \in Direct : PointBehind(Idle.copy[n], n)
    BY IdleType, IdleIsSound DEF Process, Sound
  <1>3. rest \in SUBSET Messages /\ who \in Readers
    BY Fields
  <1> HIDE DEF rest, who
  <1>4. new \in Process /\ Sound(new)
    BY <1>2, <1>3, NewCommand
  <1> HIDE DEF new
  <1> QED  BY <1>1, <1>4, IdleType, IdleIsSound

LEMMA DismissStep == ASSUME Inv, NEW p \in Procs, Dismiss(p) PROVE Inv'
  <1>1. /\ point' = [m \in Messages |->
                      IF m \in proc[p].todo /\ point[m].present
                      THEN [point[m] EXCEPT !.read = TRUE] ELSE point[m]]
        /\ SetProc(p, Idle) /\ UNCHANGED <<log, lock, now, budget, told, collection>>
    BY DEF Dismiss
  <1>2. ASSUME NEW m \in Messages
        PROVE  /\ point'[m] \in Point /\ point'[m].readers = point[m].readers
               /\ point'[m].stamp = point[m].stamp
    <2>1. point[m] \in Point
      BY Fields
    <2> DEFINE w == [point[m] EXCEPT !.read = TRUE]
    <2>2. w \in Point /\ w.readers = point[m].readers /\ w.stamp = point[m].stamp
      BY <2>1 DEF Point
    <2>3. point'[m] = w \/ point'[m] = point[m]
      BY <1>1
    <2> HIDE DEF w
    <2> QED  BY <2>1, <2>2, <2>3
  <1>3. point' \in [Messages -> Point]
    <2>1. DOMAIN point' = Messages /\ point' = [m \in Messages |-> point'[m]]
      BY <1>1
    <2> QED  BY <1>2, <2>1
  <1>4. StoreOK'
    BY <1>1, <1>2, DirectIsMessage DEF Inv, StoreOK, PointBehind
  <1> QED  BY <1>1, <1>3, <1>4, Fields, IdleType, IdleIsSound, MarksStay, QuietStep

LEMMA AlreadyStep ==
    ASSUME Inv, NEW p \in Procs, NEW m \in Messages, AlreadyRead(p, m)
    PROVE  Inv'
  <1>1. /\ proc[p].who \in log[m].readers /\ NextMessage(p, m)
        /\ told' = [told EXCEPT ![m] = @ \union {proc[p].who}]
        /\ UNCHANGED <<log, point, lock, now, budget, collection>>
    BY DEF AlreadyRead
  <1>2. proc[p].who \in Readers
    BY Fields DEF AlreadyRead, Sound
  <1>3. PICK new \in Process : SetProc(p, new) /\ Sound(new)
    BY <1>1, <1>2, NextStep
  <1>4. told' \in [Messages -> SUBSET Readers] /\ MarkedStaysInLog'
    BY <1>1, <1>2, Fields, DirectIsMessage DEF Inv, MarkedStaysInLog
  <1>5. StoreOK' /\ point' \in [Messages -> Point]
    BY <1>1, Fields, StoreStays
  <1> QED  BY <1>1, <1>3, <1>4, <1>5, Fields, QuietStep

LEMMA AddStep ==
    ASSUME Inv, NEW p \in Procs, NEW m \in Messages, AddReader(p, m)
    PROVE  Inv'
  <1> DEFINE readers == log[m].readers \union {proc[p].who}
             l    == [log[m] EXCEPT !.readers = readers, !.stamp = now]
             seen == [proc[p].seen EXCEPT ![m] = l]
             new  == [proc[p] EXCEPT !.pc = "append", !.msg = m, !.seen = seen]
  <1>0. proc[p].pc = "mark" /\ proc[p].who \in Readers /\ log[m] \in Line
    BY Fields DEF AddReader, Sound
  <1>1. SetProc(p, new) /\ UNCHANGED <<log, point, lock, now, budget, told, collection>>
    <2>1. UNCHANGED <<log, point, lock, now, budget, told, collection>>
      BY DEF AddReader
    <2>2. SetProc(p, [proc[p] EXCEPT !.pc = "append", !.msg = m,
                        !.seen[m] = [log[m] EXCEPT !.readers = @ \union {proc[p].who},
                                                   !.stamp = now]])
      BY DEF AddReader
    <2>3. l = [log[m] EXCEPT !.readers = @ \union {proc[p].who}, !.stamp = now]
      BY <1>0 DEF Line
    <2> HIDE DEF l
    <2>4. new = [proc[p] EXCEPT !.pc = "append", !.msg = m, !.seen[m] = l]
      BY Fields DEF Process
    <2> HIDE DEF new
    <2> QED  BY <2>1, <2>2, <2>3, <2>4
  <1>2. readers \in SUBSET Readers /\ log[m].readers \subseteq readers /\ proc[p].who \in readers
    BY <1>0 DEF Line
  <1> HIDE DEF readers
  <1>3. /\ l \in Line /\ l.version = log[m].version /\ l.readers = readers /\ l.stamp = now
    BY <1>0, <1>2, Fields DEF Line
  <1> HIDE DEF l
  <1>4. /\ seen \in [Messages -> Line] /\ seen[m] = l
        /\ \A n \in Messages : n # m => seen[n] = proc[p].seen[n]
    BY <1>3, Fields
  <1> HIDE DEF seen
  <1>5. /\ new \in Process /\ new.pc = "append" /\ new.msg = m /\ new.seen = seen
        /\ new.who = proc[p].who /\ new.copy = proc[p].copy
    BY <1>4, Fields DEF Process, PC
  <1> HIDE DEF new
  <1>6. ASSUME NEW n \in Direct
        PROVE  /\ PointBehind(new.copy[n], n)
               /\ new.msg # n => LineBehind(new.seen[n], n)
               /\ new.msg = n => Extends(new.seen[n], new.who, n)
    <2>1. n \in Messages
      BY DirectIsMessage
    <2>2. PointBehind(new.copy[n], n)
      BY <1>5, Fields DEF Sound
    <2>3. CASE n # m
      <3>1. LineBehind(proc[p].seen[n], n)
        BY <1>0, Fields DEF Sound
      <3> QED  BY <2>1, <2>2, <2>3, <3>1, <1>4, <1>5
    <2>4. CASE n = m
      <3>1. log[m].stamp <= now
        BY <2>4 DEF Inv, LogOK
      <3>2. Extends(l, new.who, m)
        BY <3>1, <1>0, <1>2, <1>3, <1>5, Fields DEF Extends, Line
      <3> QED  BY <2>2, <2>4, <3>2, <1>4, <1>5
    <2> QED  BY <2>3, <2>4
  <1>7. Sound(new)
    BY <1>0, <1>5, <1>6 DEF Sound
  <1> QED  BY <1>1, <1>5, <1>7, Fields, ProcessStep

LEMMA AppendStep == ASSUME Inv, NEW p \in Procs, AppendCAS(p) PROVE Inv'
  <1> DEFINE m    == proc[p].msg
             old  == proc[p].seen[m]
             v    == old.version + 1
             l    == [old EXCEPT !.version = v]
             seen == [proc[p].seen EXCEPT ![m] = l]
             new  == [proc[p] EXCEPT !.pc = "mirror", !.seen = seen]
             lg   == [log EXCEPT ![m] = l]
  <1>1. /\ proc[p].pc = "append" /\ m \in Messages /\ proc[p].who \in Readers
        /\ old \in Line /\ log[m].version = old.version
    BY Fields DEF AppendCAS, Sound
  <1>2. SetProc(p, new) /\ log' = lg /\ UNCHANGED <<point, lock, now, budget, told, collection>>
    <2>1. l = [proc[p].seen[m] EXCEPT !.version = @ + 1]
      BY <1>1 DEF Line
    <2>2. /\ log' = [log EXCEPT ![m] = [proc[p].seen[m] EXCEPT !.version = @ + 1]]
          /\ SetProc(p, [proc[p] EXCEPT !.pc = "mirror",
                            !.seen[m] = [proc[p].seen[m] EXCEPT !.version = @ + 1]])
          /\ UNCHANGED <<point, lock, now, budget, told, collection>>
      BY DEF AppendCAS
    <2> HIDE DEF l
    <2>3. new = [proc[p] EXCEPT !.pc = "mirror", !.seen[m] = l]
      BY Fields DEF Process
    <2> HIDE DEF new
    <2> QED  BY <2>1, <2>2, <2>3
  <1>3. l \in Line /\ l.version = v /\ l.readers = old.readers /\ l.stamp = old.stamp
    BY <1>1 DEF Line
  <1>4. v = log[m].version + 1 /\ log[m].version \in Nat
    BY <1>1 DEF Line
  <1> HIDE DEF l, v
  <1>5. m \in Direct =>
           /\ log[m].readers \subseteq l.readers /\ log[m].stamp <= l.stamp
           /\ l.stamp <= now /\ proc[p].who \in l.readers
    <2>1. m \in Direct => Extends(old, proc[p].who, m)
      BY <1>1, Fields DEF Sound
    <2> QED  BY <1>1, <1>3, <2>1 DEF Extends
  <1>6. /\ lg \in [Messages -> Line] /\ lg[m] = l
        /\ \A n \in Messages : n # m => lg[n] = log[n]
    BY <1>1, <1>3, Fields
  <1>7. /\ seen \in [Messages -> Line] /\ seen[m] = l
        /\ \A n \in Messages : n # m => seen[n] = proc[p].seen[n]
    BY <1>1, <1>3, Fields
  <1> HIDE DEF lg, seen
  <1>8. Grown
    <2> SUFFICES ASSUME NEW n \in Direct
                 PROVE  /\ log[n].version <= lg[n].version
                        /\ log[n].readers \subseteq lg[n].readers
                        /\ log[n].stamp <= lg[n].stamp
                        /\ lg[n].version = log[n].version => lg[n] = log[n]
      BY <1>2 DEF Grown
    <2>1. n \in Messages /\ log[n] \in Line
      BY DirectIsMessage, Fields
    <2>2. CASE n = m
      BY <1>3, <1>4, <1>5, <1>6, <2>2
    <2>3. CASE n # m
      BY <1>6, <2>1, <2>3 DEF Line
    <2> QED  BY <2>2, <2>3
  <1>9. /\ new \in Process /\ new.pc = "mirror" /\ new.msg = m /\ new.seen = seen
        /\ new.who = proc[p].who /\ new.copy = proc[p].copy
    BY <1>7, Fields DEF Process, PC
  <1> HIDE DEF new
  <1>10. PICK next \in Process : /\ SetProc(p, next) /\ next.pc = "mirror" /\ next.msg = m
                                 /\ next.seen = seen /\ next.who = proc[p].who
                                 /\ next.copy = proc[p].copy
    BY <1>2, <1>9
  <1>11. LogOK'
    <2> SUFFICES ASSUME NEW n \in Direct
                 PROVE  lg[n].stamp <= now /\ (lg[n].version = 0 => lg[n].readers = {})
      BY <1>2 DEF LogOK
    <2>1. n \in Messages /\ LogOK
      BY DirectIsMessage DEF Inv
    <2> QED  BY <1>3, <1>4, <1>5, <1>6, <2>1 DEF LogOK
  <1>12. ASSUME NEW n \in Direct, NEW pt \in Point, PointBehind(pt, n)
         PROVE  PointBehind(pt, n)'
    <2>1. n \in Messages /\ log[n] \in Line /\ log'[n] \in Line
      BY <1>2, <1>6, DirectIsMessage, Fields
    <2> QED  BY <1>8, <1>12, <2>1 DEF PointBehind, Grown, Line, Point
  <1>13. StoreOK'
    BY <1>2, <1>12, Fields, DirectIsMessage DEF Inv, StoreOK
  <1>14. MarkedStaysInLog'
    BY <1>2, <1>8 DEF Inv, MarkedStaysInLog, Grown
  <1>15. ASSUME NEW n \in Direct
         PROVE  /\ PointBehind(next.copy[n], n)'
                /\ LineBehind(next.seen[n], n)'
                /\ next.msg = n => next.who \in log'[n].readers
    <2>1. n \in Messages
      BY DirectIsMessage
    <2>2. PointBehind(next.copy[n], n)'
      <3>1. PointBehind(next.copy[n], n) /\ next.copy[n] \in Point
        BY <1>10, <2>1, Fields DEF Sound
      <3> QED  BY <3>1, <1>12
    <2>3. CASE n = m
      <3>1. LineBehind(next.seen[n], n)'
        BY <2>3, <1>2, <1>3, <1>6, <1>7, <1>10 DEF LineBehind, Line
      <3> QED  BY <2>2, <2>3, <3>1, <1>2, <1>5, <1>6, <1>10
    <2>4. CASE n # m
      <3>1. next.seen[n] = proc[p].seen[n] /\ LineBehind(proc[p].seen[n], n)
        BY <2>1, <2>4, <1>7, <1>10, Fields DEF Sound
      <3>2. log'[n] = log[n]
        BY <2>1, <2>4, <1>2, <1>6
      <3>3. LineBehind(next.seen[n], n)'
        BY <3>1, <3>2 DEF LineBehind
      <3> QED  BY <2>2, <2>4, <3>3, <1>10
    <2> QED  BY <2>3, <2>4
  <1>16. Sound(next)'
    BY <1>1, <1>10, <1>15 DEF Sound
  <1>17. /\ lock' \in Procs \union {NoOne} /\ collection' \in BOOLEAN
         /\ told' \in [Messages -> SUBSET Readers]
         /\ point' \in [Messages -> Point] /\ log' \in [Messages -> Line] /\ now' = now
         /\ budget' \in Nat
    BY <1>2, <1>6, Fields
  <1> QED  BY <1>8, <1>10, <1>11, <1>13, <1>14, <1>16, <1>17, OneMoves

LEMMA MirrorStep == ASSUME Inv, NEW p \in Procs, MirrorRead(p) PROVE Inv'
  <1> DEFINE m == proc[p].msg
             w == Merged(point[m], proc[p].seen[m])
  <1>1. /\ proc[p].pc = "mirror" /\ m \in Messages /\ proc[p].who \in Readers
        /\ proc[p].seen[m] \in Line /\ point[m] \in Point
    BY Fields DEF MirrorRead, Sound
  <1>2. /\ point' = [point EXCEPT ![m] = w]
        /\ told' = [told EXCEPT ![m] = @ \union {proc[p].who}]
        /\ NextMessage(p, m) /\ UNCHANGED <<log, lock, now, budget, collection>>
    BY DEF MirrorRead
  <1>3. /\ w \in Point
        /\ w = point[m] \/ (w.readers = proc[p].seen[m].readers /\ w.stamp = proc[p].seen[m].stamp)
    BY <1>1, MergedType
  <1> HIDE DEF w
  <1>4. m \in Direct => PointBehind(w, m)
    <2>1. m \in Direct => LineBehind(proc[p].seen[m], m) /\ PointBehind(point[m], m)
      BY <1>1, Fields DEF Sound, Inv, StoreOK
    <2> QED  BY <1>3, <2>1 DEF LineBehind, PointBehind
  <1>5. point' \in [Messages -> Point] /\ StoreOK'
    BY <1>1, <1>2, <1>3, <1>4, DirectIsMessage DEF Inv, TypeOK, StoreOK, PointBehind
  <1>6. told' \in [Messages -> SUBSET Readers]
    BY <1>1, <1>2, Fields
  <1>7. MarkedStaysInLog'
    <2>1. m \in Direct => proc[p].who \in log[m].readers
      BY <1>1, Fields DEF Sound
    <2> QED  BY <1>1, <1>2, <2>1, Fields, DirectIsMessage DEF Inv, MarkedStaysInLog
  <1>8. PICK new \in Process : SetProc(p, new) /\ Sound(new)
    BY <1>1, <1>2, NextStep
  <1> QED  BY <1>2, <1>5, <1>6, <1>7, <1>8, Fields, QuietStep

LEMMA ConflictStep == ASSUME Inv, NEW p \in Procs, AppendConflict(p) PROVE Inv'
  BY Ended, Fields DEF AppendConflict

--------------------------------------------------------------------------------
(* Archive *)

LEMMA ScrollStaleStep == ASSUME Inv, NEW p \in Procs, ScrollStale(p) PROVE Inv'
  <1>1. PICK stale \in SUBSET {m \in Broadcasts \intersect Scrolled : ~point[m].archived} :
          SetProc(p, [Idle EXCEPT !.pc = "fold", !.todo = stale])
    BY DEF ScrollStale
  <1>2. UNCHANGED <<log, point, lock, now, told, collection>> /\ budget' \in Nat
    BY DEF ScrollStale, Start, Inv, TypeOK
  <1> DEFINE new == [Idle EXCEPT !.pc = "fold", !.who = Anonymous, !.todo = stale,
                                 !.copy = Idle.copy]
  <1>3. stale \subseteq Broadcasts /\ stale \subseteq Messages
    BY ConstantsOK
  <1>4. /\ Idle.copy \in [Messages -> Point]
        /\ \A m \in Direct : PointBehind(Idle.copy[m], m)
    BY IdleType, IdleIsSound DEF Process, Sound
  <1>5. SetProc(p, new)
    <2>1. new = [Idle EXCEPT !.pc = "fold", !.todo = stale]
      BY IdleType DEF Process
    <2> QED  BY <1>1, <2>1
  <1>6. new \in Process /\ Sound(new)
    BY <1>3, <1>4, NewCommand
  <1> HIDE DEF new
  <1> QED  BY <1>2, <1>5, <1>6, Fields, ProcessStep

\* The log as it is now is behind itself.
LEMMA LogBehindItself == ASSUME Inv, NEW m \in Direct PROVE LineBehind(log[m], m)
  <1>1. log[m] \in Line
    BY DirectIsMessage DEF Inv, TypeOK
  <1> QED  BY <1>1 DEF LineBehind, Line

LEMMA FoldStep == ASSUME Inv, NEW p \in Procs, FoldOnce(p) PROVE Inv'
  <1> DEFINE new == [proc[p] EXCEPT !.pc = "archive", !.seen = log]
  <1>1. /\ proc[p].pc = "fold" /\ SetProc(p, new)
        /\ UNCHANGED <<log, point, lock, now, budget, told, collection>>
    BY DEF FoldOnce
  <1>2. /\ new \in Process /\ new.pc = "archive" /\ new.seen = log
        /\ new.todo = proc[p].todo /\ new.done = proc[p].done /\ new.copy = proc[p].copy
    BY Fields DEF Process, PC
  <1> HIDE DEF new
  <1>3. Sound(new)
    BY <1>1, <1>2, Fields, LogBehindItself DEF Sound
  <1> QED  BY <1>1, <1>2, <1>3, Fields, ProcessStep

\* Unguarded, but never a line of a direct message.
LEMMA ArchiveStep ==
    ASSUME Inv, NEW p \in Procs, NEW m \in Messages, AppendArchived(p, m)
    PROVE  Inv'
  <1> DEFINE old  == proc[p].seen[m]
             v    == old.version + 1
             l    == [old EXCEPT !.archived = TRUE, !.stamp = now, !.version = v]
             rest == proc[p].todo \ {m}
             done == proc[p].done \union {m}
             pc   == IF rest = {} THEN "archived" ELSE "archive"
             new  == [proc[p] EXCEPT !.pc = pc, !.todo = rest, !.done = done]
             lg   == [log EXCEPT ![m] = l]
  <1>1. /\ proc[p].pc = "archive" /\ m \in proc[p].todo /\ old \in Line
        /\ proc[p].todo \subseteq Broadcasts /\ proc[p].done \subseteq Broadcasts
    BY Fields DEF AppendArchived, Sound
  <1>2. m \notin Direct
    BY <1>1 DEF Direct
  <1>3. SetProc(p, new) /\ log' = lg /\ UNCHANGED <<point, lock, now, budget, told, collection>>
    <2>1. l = [old EXCEPT !.archived = TRUE, !.stamp = now, !.version = @ + 1]
      BY <1>1 DEF Line
    <2>2. new = [proc[p] EXCEPT !.pc = pc, !.todo = rest, !.done = @ \union {m}]
      BY Fields DEF Process
    <2>3. /\ log' = [log EXCEPT ![m] = [old EXCEPT !.archived = TRUE, !.stamp = now,
                                                   !.version = @ + 1]]
          /\ SetProc(p, [proc[p] EXCEPT !.pc = pc, !.todo = rest, !.done = @ \union {m}])
          /\ UNCHANGED <<point, lock, now, budget, told, collection>>
      BY DEF AppendArchived
    <2> HIDE DEF l, new
    <2> QED  BY <2>1, <2>2, <2>3
  <1>4. l \in Line
    <2>1. v \in Nat /\ now \in Nat
      BY <1>1, Fields DEF Line
    <2> HIDE DEF v
    <2> QED  BY <1>1, <2>1 DEF Line
  <1>5. pc \in {"archive", "archived"} /\ rest \subseteq proc[p].todo
        /\ done \subseteq Broadcasts /\ done \subseteq Messages
    BY <1>1, Fields
  <1> HIDE DEF l, pc, rest, done
  <1>6. lg \in [Messages -> Line] /\ \A n \in Direct : lg[n] = log[n]
    BY <1>2, <1>4, Fields, DirectIsMessage
  <1> HIDE DEF lg
  <1>7. /\ new \in Process /\ new.pc = pc /\ new.todo = rest /\ new.done = done
        /\ new.seen = proc[p].seen /\ new.copy = proc[p].copy
    BY <1>5, Fields DEF Process, PC
  <1> HIDE DEF new
  <1>8. Sound(new)
    BY <1>1, <1>5, <1>7, Fields DEF Sound
  <1>9. Grown
    BY <1>3, <1>6, DirectIsMessage, Fields DEF Grown, Line
  <1>10. /\ LogOK' /\ MarkedStaysInLog' /\ StoreOK'
    BY <1>3, <1>6 DEF Inv, LogOK, MarkedStaysInLog, StoreOK, PointBehind
  <1>11. PICK next \in Process : next = new
    BY <1>7
  <1>12. Sound(next)'
    <2>1. Sound(next)
      BY <1>8, <1>11
    <2> QED  BY <1>3, <1>6, <2>1 DEF Sound, PointBehind, LineBehind, Extends
  <1>13. /\ lock' \in Procs \union {NoOne} /\ collection' \in BOOLEAN
         /\ told' \in [Messages -> SUBSET Readers]
         /\ point' \in [Messages -> Point] /\ log' \in [Messages -> Line] /\ now' = now
         /\ budget' \in Nat
    BY <1>3, <1>6, Fields
  <1>14. SetProc(p, next)
    BY <1>3, <1>11
  <1> QED  BY <1>9, <1>10, <1>12, <1>13, <1>14, OneMoves

LEMMA MirrorArchivedStep == ASSUME Inv, NEW p \in Procs, MirrorArchived(p) PROVE Inv'
  <1>1. /\ point' = [m \in Messages |->
                      IF m \in proc[p].done /\ point[m].present
                      THEN [point[m] EXCEPT !.archived = TRUE] ELSE point[m]]
        /\ SetProc(p, Idle) /\ UNCHANGED <<log, lock, now, budget, told, collection>>
    BY DEF MirrorArchived
  <1>2. ASSUME NEW m \in Messages
        PROVE  /\ point'[m] \in Point /\ point'[m].readers = point[m].readers
               /\ point'[m].stamp = point[m].stamp
    <2>1. point[m] \in Point
      BY Fields
    <2> DEFINE w == [point[m] EXCEPT !.archived = TRUE]
    <2>2. w \in Point /\ w.readers = point[m].readers /\ w.stamp = point[m].stamp
      BY <2>1 DEF Point
    <2>3. point'[m] = w \/ point'[m] = point[m]
      BY <1>1
    <2> HIDE DEF w
    <2> QED  BY <2>1, <2>2, <2>3
  <1>3. point' \in [Messages -> Point]
    <2>1. DOMAIN point' = Messages /\ point' = [m \in Messages |-> point'[m]]
      BY <1>1
    <2> QED  BY <1>2, <2>1
  <1>4. StoreOK'
    BY <1>1, <1>2, DirectIsMessage DEF Inv, StoreOK, PointBehind
  <1> QED  BY <1>1, <1>3, <1>4, Fields, IdleType, IdleIsSound, MarksStay, QuietStep

--------------------------------------------------------------------------------
(* Rebuild *)

LEMMA NoPointBehind == ASSUME Inv, NEW m \in Direct PROVE PointBehind(NoPoint, m)
  <1>1. log[m] \in Line
    BY DirectIsMessage DEF Inv, TypeOK
  <1> QED  BY <1>1 DEF PointBehind, NoPoint, Line

LEMMA ScrollAllStep == ASSUME Inv, NEW p \in Procs, ScrollAll(p) PROVE Inv'
  <1>1. PICK set \in {Scrolled, {}} :
          SetProc(p, [Idle EXCEPT
                        !.pc = "merge",
                        !.copy = [m \in Messages |-> IF m \in set THEN point[m] ELSE NoPoint]])
    BY DEF ScrollAll
  <1> DEFINE found == [m \in Messages |-> IF m \in set THEN point[m] ELSE NoPoint]
  <1>2. UNCHANGED <<log, point, lock, now, told, collection>> /\ budget' \in Nat
    BY DEF ScrollAll, Start, Inv, TypeOK
  <1>3. found \in [Messages -> Point] /\ \A m \in Direct : PointBehind(found[m], m)
    BY NoLineType, NoPointBehind, DirectIsMessage, Fields DEF Inv, StoreOK
  <1>6. SetProc(p, [Idle EXCEPT !.pc = "merge", !.copy = found])
    BY <1>1
  <1> HIDE DEF found
  <1> DEFINE new == [Idle EXCEPT !.pc = "merge", !.who = Anonymous, !.todo = {},
                                 !.copy = found]
  <1>4. SetProc(p, new)
    <2>1. new = [Idle EXCEPT !.pc = "merge", !.copy = found]
      BY IdleType DEF Process
    <2> QED  BY <1>6, <2>1
  <1>5. new \in Process /\ Sound(new)
    BY <1>3, NewCommand
  <1> HIDE DEF new
  <1> QED  BY <1>2, <1>4, <1>5, Fields, ProcessStep

\* What the merge keeps of one message.
LEMMA MergedCopy ==
    ASSUME Inv, NEW p \in Procs, NEW m \in Messages,
           NEW w, w = IF Logged(m) /\ Newer(log[m], proc[p].copy[m])
                      THEN PointOf(log[m]) ELSE proc[p].copy[m]
    PROVE  /\ w \in Point
           /\ m \in Direct => PointBehind(w, m) /\ log[m].readers \subseteq w.readers
  <1>1. /\ log[m] \in Line /\ proc[p].copy[m] \in Point
        /\ PointOf(log[m]) \in Point /\ PointOf(log[m]).readers = log[m].readers
        /\ PointOf(log[m]).stamp = log[m].stamp
    BY Fields, PointOfType
  <1>2. w \in Point
    BY <1>1
  <1>3. ASSUME m \in Direct
        PROVE  PointBehind(w, m) /\ log[m].readers \subseteq w.readers
    <2>1. PointBehind(proc[p].copy[m], m)
      BY <1>3, Fields DEF Sound
    <2>2. CASE Logged(m)
      <3>1. Newer(log[m], proc[p].copy[m])
        BY <1>1, <2>1 DEF PointBehind, Newer, Line, Point
      <3>2. w = PointOf(log[m])
        BY <2>2, <3>1
      <3> QED  BY <1>1, <3>2 DEF PointBehind, Line
    <2>3. CASE ~Logged(m)
      <3>1. log[m].readers = {}
        BY <1>1, <1>3, <2>3 DEF Inv, LogOK, Logged, Line
      <3> QED  BY <2>1, <2>3, <3>1
    <2> QED  BY <2>2, <2>3
  <1> QED  BY <1>2, <1>3

LEMMA MergeStep == ASSUME Inv, NEW p \in Procs, MergeJSONL(p) PROVE Inv'
  <1> DEFINE old  == proc[p].copy
             copy == [m \in Messages |-> IF Logged(m) /\ Newer(log[m], old[m])
                                         THEN PointOf(log[m]) ELSE old[m]]
             new  == [proc[p] EXCEPT !.pc = "drop", !.copy = copy]
  <1>1. /\ SetProc(p, new) /\ UNCHANGED <<log, point, lock, now, budget, told, collection>>
        /\ proc[p].pc = "merge"
    <2>1. /\ SetProc(p, [proc[p] EXCEPT !.pc = "drop",
                           !.copy = [m \in Messages |->
                                       IF Logged(m) /\ Newer(log[m], @[m])
                                       THEN PointOf(log[m]) ELSE @[m]]])
          /\ UNCHANGED <<log, point, lock, now, budget, told, collection>> /\ proc[p].pc = "merge"
      BY DEF MergeJSONL
    <2> QED  BY <2>1, Fields DEF Process
  <1>2. /\ copy \in [Messages -> Point]
        /\ \A m \in Direct : PointBehind(copy[m], m)
    BY MergedCopy, DirectIsMessage
  <1> HIDE DEF copy
  <1>3. /\ new \in Process /\ new.pc = "drop" /\ new.copy = copy
        /\ new.seen = proc[p].seen
    BY <1>2, Fields DEF Process, PC
  <1> HIDE DEF new
  <1>4. Sound(new)
    BY <1>1, <1>2, <1>3, Fields DEF Sound
  <1> QED  BY <1>1, <1>3, <1>4, Fields, ProcessStep

LEMMA UnreadableStep == ASSUME Inv, NEW p \in Procs, MergeUnreadable(p) PROVE Inv'
  <1> DEFINE new == [proc[p] EXCEPT !.pc = "drop"]
  <1>1. /\ proc[p].pc = "merge" /\ SetProc(p, new)
        /\ UNCHANGED <<log, point, lock, now, told, collection>> /\ budget' \in Nat
    BY DEF MergeUnreadable, Inv, TypeOK
  <1>2. /\ new \in Process /\ new.pc = "drop"
        /\ new.seen = proc[p].seen /\ new.copy = proc[p].copy
    BY Fields DEF Process, PC
  <1> HIDE DEF new
  <1>3. Sound(new)
    BY <1>1, <1>2, Fields DEF Sound
  <1> QED  BY <1>1, <1>2, <1>3, Fields, ProcessStep

LEMMA DropStep == ASSUME Inv, NEW p \in Procs, Drop(p) PROVE Inv'
  <1> DEFINE new == [proc[p] EXCEPT !.pc = "ensure"]
  <1>1. /\ proc[p].pc = "drop" /\ point' = [m \in Messages |-> NoPoint] /\ SetProc(p, new)
        /\ UNCHANGED <<log, lock, now, budget, told>> /\ collection' \in BOOLEAN
    BY DEF Drop
  <1>2. /\ new \in Process /\ new.pc = "ensure"
        /\ new.seen = proc[p].seen /\ new.copy = proc[p].copy
    BY Fields DEF Process, PC
  <1> HIDE DEF new
  <1>3. Sound(new)
    BY <1>1, <1>2, Fields DEF Sound
  <1>4. point' \in [Messages -> Point] /\ StoreOK'
    <2>1. ASSUME NEW m \in Direct PROVE PointBehind(point[m], m)'
      BY <1>1, NoPointBehind, DirectIsMessage DEF PointBehind
    <2> QED  BY <1>1, <2>1, NoLineType DEF StoreOK
  <1> QED  BY <1>1, <1>2, <1>3, <1>4, Fields, MarksStay, QuietStep

LEMMA EnsureStep == ASSUME Inv, NEW p \in Procs, Ensure(p) PROVE Inv'
  <1> DEFINE todo == {m \in Messages : proc[p].copy[m].present}
             new  == [proc[p] EXCEPT !.pc = "insert", !.todo = todo]
  <1>1. /\ proc[p].pc = "ensure" /\ SetProc(p, new) /\ collection' \in BOOLEAN
        /\ UNCHANGED <<log, point, lock, now, budget, told>>
    BY DEF Ensure
  <1>2. todo \subseteq Messages
    OBVIOUS
  <1> HIDE DEF todo
  <1>3. /\ new \in Process /\ new.pc = "insert" /\ new.todo = todo
        /\ new.seen = proc[p].seen /\ new.copy = proc[p].copy
    BY <1>2, Fields DEF Process, PC
  <1> HIDE DEF new
  <1>4. Sound(new)
    BY <1>1, <1>3, Fields DEF Sound
  <1> QED  BY <1>1, <1>3, <1>4, Fields, ProcessStep

\* A process of the same kind that has less to do.
LEMMA LessToDo ==
    ASSUME Inv, NEW p \in Procs, NEW m \in Messages, proc[p].pc \in {"insert", "scan"}
    PROVE  LET new == [proc[p] EXCEPT !.todo = @ \ {m}] IN new \in Process /\ Sound(new)
  <1> DEFINE rest == proc[p].todo \ {m}
             new  == [proc[p] EXCEPT !.todo = rest]
  <1>1. rest \subseteq Messages
    BY Fields
  <1>2. new = [proc[p] EXCEPT !.todo = @ \ {m}]
    BY Fields DEF Process
  <1> HIDE DEF rest
  <1>3. /\ new \in Process /\ new.pc = proc[p].pc /\ new.msg = proc[p].msg
        /\ new.seen = proc[p].seen /\ new.copy = proc[p].copy /\ new.who = proc[p].who
    BY <1>1, Fields DEF Process
  <1> HIDE DEF new
  <1>4. Sound(new)
    BY <1>3, Fields DEF Sound
  <1> QED  BY <1>2, <1>3, <1>4

\* A write of one point that the log has.
LEMMA OnePoint ==
    ASSUME Inv, NEW m \in Messages, NEW w \in Point, m \in Direct => PointBehind(w, m),
           point' = [point EXCEPT ![m] = w], log' = log
    PROVE  point' \in [Messages -> Point] /\ StoreOK'
  BY DirectIsMessage DEF Inv, TypeOK, StoreOK, PointBehind

LEMMA InsertStep ==
    ASSUME Inv, NEW p \in Procs, NEW m \in Messages, Insert(p, m)
    PROVE  Inv'
  <1> DEFINE new == [proc[p] EXCEPT !.todo = @ \ {m}]
  <1>1. /\ proc[p].pc = "insert" /\ point' = [point EXCEPT ![m] = proc[p].copy[m]]
        /\ SetProc(p, new) /\ UNCHANGED <<log, lock, now, budget, told, collection>>
    BY DEF Insert
  <1>2. new \in Process /\ Sound(new)
    BY <1>1, LessToDo
  <1> HIDE DEF new
  <1>3. point' \in [Messages -> Point] /\ StoreOK'
    <2>1. /\ proc[p].copy[m] \in Point
          /\ m \in Direct => PointBehind(proc[p].copy[m], m)
      BY Fields DEF Sound
    <2> QED  BY <1>1, <2>1, OnePoint
  <1> QED  BY <1>1, <1>2, <1>3, Fields, MarksStay, QuietStep

LEMMA RebuiltStep == ASSUME Inv, NEW p \in Procs, Rebuilt(p) PROVE Inv'
  BY Ended, Fields DEF Rebuilt

--------------------------------------------------------------------------------
(* Repair, faults, and time *)

LEMMA RescanStep == ASSUME Inv, NEW p \in Procs, Rescan(p) PROVE Inv'
  <1> DEFINE new == [Idle EXCEPT !.pc = "uuids", !.seen = log]
  <1>1. SetProc(p, new) /\ lock' = p /\ UNCHANGED <<log, point, now, budget, told, collection>>
    BY DEF Rescan
  <1>2. /\ new \in Process /\ new.pc = "uuids" /\ new.seen = log /\ new.copy = Idle.copy
    BY IdleType, Fields DEF Process, PC
  <1> HIDE DEF new
  <1>3. Sound(new)
    BY <1>2, IdleIsSound, LogBehindItself DEF Sound
  <1> QED  BY <1>1, <1>2, <1>3, Fields, ProcessStep

LEMMA UUIDsStep == ASSUME Inv, NEW p \in Procs, CollectionUUIDs(p) PROVE Inv'
  <1> DEFINE todo == {m \in Messages : proc[p].seen[m].version > 0}
             done == Scrolled
             new  == [proc[p] EXCEPT !.pc = "scan", !.todo = todo, !.done = done]
  <1>1. /\ proc[p].pc = "uuids" /\ SetProc(p, new)
        /\ UNCHANGED <<log, point, lock, now, budget, told, collection>>
    BY DEF CollectionUUIDs
  <1>2. todo \subseteq Messages /\ done \subseteq Messages
    BY DEF Scrolled
  <1> HIDE DEF todo, done
  <1>3. /\ new \in Process /\ new.pc = "scan"
        /\ new.seen = proc[p].seen /\ new.copy = proc[p].copy
    BY <1>2, Fields DEF Process, PC
  <1> HIDE DEF new
  <1>4. Sound(new)
    BY <1>1, <1>3, Fields DEF Sound
  <1> QED  BY <1>1, <1>3, <1>4, Fields, ProcessStep

LEMMA UUIDsFailStep == ASSUME Inv, NEW p \in Procs, UUIDsFail(p) PROVE Inv'
  <1> DEFINE todo == {m \in Messages : proc[p].seen[m].version > 0}
             new  == [proc[p] EXCEPT !.pc = "scan", !.todo = todo]
  <1>1. /\ proc[p].pc = "uuids" /\ SetProc(p, new)
        /\ UNCHANGED <<log, point, lock, now, told, collection>> /\ budget' \in Nat
    BY DEF UUIDsFail, Inv, TypeOK
  <1>2. todo \subseteq Messages
    OBVIOUS
  <1> HIDE DEF todo
  <1>3. /\ new \in Process /\ new.pc = "scan"
        /\ new.seen = proc[p].seen /\ new.copy = proc[p].copy
    BY <1>2, Fields DEF Process, PC
  <1> HIDE DEF new
  <1>4. Sound(new)
    BY <1>1, <1>3, Fields DEF Sound
  <1> QED  BY <1>1, <1>3, <1>4, Fields, ProcessStep

\* What the doctor writes: the line it has read, or what was there before.
LEMMA RepairedPoint ==
    ASSUME Inv, NEW p \in Procs, proc[p].pc = "scan", NEW m \in Messages
    PROVE  /\ PointOf(proc[p].seen[m]) \in Point
           /\ Merged(point[m], proc[p].seen[m]) \in Point
           /\ m \in Direct => /\ PointBehind(PointOf(proc[p].seen[m]), m)
                              /\ PointBehind(Merged(point[m], proc[p].seen[m]), m)
  <1>1. proc[p].seen[m] \in Line /\ point[m] \in Point
    BY Fields
  <1>2. m \in Direct => LineBehind(proc[p].seen[m], m) /\ PointBehind(point[m], m)
    BY Fields DEF Sound, Inv, StoreOK
  <1>3. m \in Direct => PointBehind(PointOf(proc[p].seen[m]), m)
    BY <1>1, <1>2, PointOfType DEF LineBehind, PointBehind
  <1>4. m \in Direct => PointBehind(Merged(point[m], proc[p].seen[m]), m)
    BY <1>1, <1>2, MergedType DEF LineBehind, PointBehind
  <1> QED  BY <1>1, <1>3, <1>4, PointOfType, MergedType

LEMMA ReplayStep ==
    ASSUME Inv, NEW p \in Procs, NEW m \in Messages, ReplayMissing(p, m)
    PROVE  Inv'
  <1> DEFINE new == [proc[p] EXCEPT !.todo = @ \ {m}]
  <1>1. /\ proc[p].pc = "scan" /\ SetProc(p, new)
        /\ point' = [point EXCEPT ![m] = PointOf(proc[p].seen[m])]
        /\ UNCHANGED <<log, lock, now, budget, told, collection>>
    BY DEF ReplayMissing
  <1>2. new \in Process /\ Sound(new)
    BY <1>1, LessToDo
  <1> HIDE DEF new
  <1>3. point' \in [Messages -> Point] /\ StoreOK'
    BY <1>1, RepairedPoint, OnePoint
  <1> QED  BY <1>1, <1>2, <1>3, Fields, MarksStay, QuietStep

LEMMA SyncStep ==
    ASSUME Inv, NEW p \in Procs, NEW m \in Messages, SyncPayload(p, m)
    PROVE  Inv'
  <1> DEFINE new == [proc[p] EXCEPT !.todo = @ \ {m}]
             w   == Merged(point[m], proc[p].seen[m])
  <1>1. /\ proc[p].pc = "scan" /\ SetProc(p, new)
        /\ point' = [point EXCEPT ![m] = w] \/ point' = point
        /\ UNCHANGED <<log, lock, now, budget, told, collection>>
    BY DEF SyncPayload
  <1>2. new \in Process /\ Sound(new)
    BY <1>1, LessToDo
  <1>3. w \in Point /\ (m \in Direct => PointBehind(w, m))
    BY <1>1, RepairedPoint
  <1> HIDE DEF new, w
  <1>4. point' \in [Messages -> Point] /\ StoreOK'
    BY <1>1, <1>3, OnePoint, StoreStays, Fields
  <1> QED  BY <1>1, <1>2, <1>4, Fields, MarksStay, QuietStep

LEMMA RescannedStep == ASSUME Inv, NEW p \in Procs, Rescanned(p) PROVE Inv'
  BY Ended, Fields DEF Rescanned

LEMMA SystemSyncStep == ASSUME Inv, NEW p \in Procs, SystemSync(p) PROVE Inv'
  <1>1. UNCHANGED <<log, point, lock, proc, now, budget, told>> /\ collection' \in BOOLEAN
    BY DEF SystemSync
  <1> QED  BY <1>1 DEF Inv, TypeOK, LogOK, StoreOK, ProcsOK, MarkedStaysInLog, Sound,
                       PointBehind, LineBehind, Extends

LEMMA FailsStep == ASSUME Inv, NEW p \in Procs, StoreFails(p) PROVE Inv'
  BY Ended, Fields DEF StoreFails

LEMMA CrashStep == ASSUME Inv, NEW p \in Procs, Crash(p) PROVE Inv'
  BY Ended, Fields DEF Crash

LEMMA TickStep == ASSUME Inv, Tick PROVE Inv'
  <1>1. now' = now + 1 /\ UNCHANGED <<log, point, lock, proc, budget, told, collection>> /\ now \in Nat
    BY DEF Tick, Inv, TypeOK
  <1>2. TypeOK'
    BY <1>1 DEF Inv, TypeOK
  <1>3. Grown
    BY <1>1, DirectIsMessage DEF Grown, Inv, TypeOK, Line
  <1>4. LogOK'
    <2>1. ASSUME NEW m \in Direct PROVE log[m] \in Line /\ log[m].stamp <= now
      BY DirectIsMessage DEF Inv, TypeOK, LogOK
    <2> QED  BY <1>1, <2>1 DEF Inv, LogOK, Line
  <1>5. StoreOK' /\ MarkedStaysInLog'
    BY <1>1, StoreStays, MarksStay
  <1>6. ASSUME NEW q \in Procs PROVE Sound(proc[q])'
    <2>1. PICK w \in Process : w = proc[q] /\ Sound(w)
      BY Fields
    <2>2. Sound(w)'
      BY <1>1, <1>2, <1>3, <2>1, SoundStays DEF Inv
    <2> QED  BY <1>1, <2>1, <2>2
  <1> QED  BY <1>2, <1>4, <1>5, <1>6 DEF Inv, ProcsOK

--------------------------------------------------------------------------------
(* The specification *)

LEMMA InvInit == Init => Inv
  <1> SUFFICES ASSUME Init PROVE Inv
    OBVIOUS
  <1>1. TypeOK
    BY NoLineType, IdleType, ConstantsOK DEF Init, TypeOK
  <1>2. \A m \in Direct : log[m] = NoLine /\ point[m] = NoPoint /\ told[m] = {}
    BY DirectIsMessage DEF Init
  <1>3. LogOK /\ StoreOK /\ MarkedStaysInLog
    <2>1. NoLine.stamp = 0 /\ NoLine.readers = {} /\ NoPoint.stamp = 0 /\ NoPoint.readers = {}
      BY DEF NoLine, NoPoint
    <2>2. now = 0
      BY DEF Init
    <2>3. LogOK
      BY <1>2, <2>1, <2>2 DEF LogOK
    <2>4. StoreOK
      BY <1>2, <2>1 DEF StoreOK, PointBehind
    <2>5. MarkedStaysInLog
      BY <1>2 DEF MarkedStaysInLog
    <2> QED  BY <2>3, <2>4, <2>5
  <1>4. ProcsOK
    <2>1. ASSUME NEW m \in Direct
          PROVE  PointBehind(Idle.copy[m], m) /\ LineBehind(Idle.seen[m], m)
      BY <1>2, IdleType, DirectIsMessage DEF PointBehind, LineBehind, NoLine, NoPoint
    <2>2. Sound(Idle)
      BY <2>1, IdleType DEF Sound
    <2> QED  BY <2>2 DEF Init, ProcsOK
  <1> QED  BY <1>1, <1>3, <1>4 DEF Inv

LEMMA InvNext == Inv /\ [Next]_vars => Inv'
  <1> SUFFICES ASSUME Inv, [Next]_vars PROVE Inv'
    OBVIOUS
  <1>1. ASSUME NEW p \in Procs, Continue(p) PROVE Inv'
    <2>1. CASE \/ UpsertSent(p) \/ Dismiss(p) \/ AppendCAS(p) \/ AppendConflict(p)
               \/ MirrorRead(p)
      BY <2>1, UpsertStep, DismissStep, AppendStep, ConflictStep, MirrorStep
    <2>2. CASE \/ FoldOnce(p) \/ MirrorArchived(p) \/ MergeJSONL(p) \/ Drop(p) \/ Ensure(p)
               \/ Rebuilt(p)
      BY <2>2, FoldStep, MirrorArchivedStep, MergeStep, DropStep, EnsureStep, RebuiltStep
    <2>3. CASE CollectionUUIDs(p) \/ Rescanned(p)
      BY <2>3, UUIDsStep, RescannedStep
    <2>4. ASSUME NEW m \in Messages,
                 \/ AlreadyRead(p, m) \/ AddReader(p, m) \/ AppendArchived(p, m)
                 \/ Insert(p, m) \/ ReplayMissing(p, m) \/ SyncPayload(p, m)
          PROVE  Inv'
      BY <2>4, AlreadyStep, AddStep, ArchiveStep, InsertStep, ReplayStep, SyncStep
    <2> QED  BY <1>1, <2>1, <2>2, <2>3, <2>4 DEF Continue
  <1>2. ASSUME NEW p \in Procs, Step(p) PROVE Inv'
    <2>1. ASSUME NEW m \in Messages, Send(p, m) PROVE Inv'
      BY <2>1, SendStep
    <2>2. ASSUME NEW r \in Readers \union {Anonymous}, Fetch(p, r) PROVE Inv'
      BY <2>2, FetchStep
    <2>3. CASE \/ ScrollStale(p) \/ ScrollAll(p) \/ Rescan(p) \/ SystemSync(p)
      BY <2>3, ScrollStaleStep, ScrollAllStep, RescanStep, SystemSyncStep
    <2>4. CASE \/ MergeUnreadable(p) \/ UUIDsFail(p) \/ StoreFails(p) \/ Crash(p)
      BY <2>4, UnreadableStep, UUIDsFailStep, FailsStep, CrashStep
    <2> QED  BY <1>1, <1>2, <2>1, <2>2, <2>3, <2>4 DEF Step
  <1>3. CASE UNCHANGED vars
    <2>1. UNCHANGED <<log, point, lock, proc, now, budget, told, collection>>
      BY <1>3 DEF vars
    <2> QED  BY <2>1 DEF Inv, TypeOK, LogOK, StoreOK, ProcsOK, MarkedStaysInLog, Sound,
                         PointBehind, LineBehind, Extends
  <1> QED  BY <1>2, <1>3, TickStep DEF Next

LEMMA InvHolds == Spec => []Inv
  BY InvInit, InvNext, PTL DEF Spec

\* Every reachable state of messages.go's and reembed's commands is well typed.
THEOREM TypeCorrect == Spec => []TypeOK
  <1>1. Inv => TypeOK
    BY DEF Inv
  <1> QED  BY <1>1, InvHolds, PTL

\* A direct message that MarkMessagesRead has reported as read for an agent stays
\* so in messages.jsonl, whatever other readers, archives, rebuilds and the
\* doctor do at the same time, and whichever of them is killed.
THEOREM MarksAreKept == Spec => []MarkedStaysInLog
  <1>1. Inv => MarkedStaysInLog
    BY DEF Inv
  <1> QED  BY <1>1, InvHolds, PTL

\* Neither the store nor a rebuild that is under way hides a direct message from
\* an agent the log does not hide it from.
THEOREM StoreNeverAhead == Spec => []StoreBehindLog
  <1>1. Inv => StoreBehindLog
    BY DEF Inv, StoreOK, ProcsOK, Sound, PointBehind, StoreBehindLog, LogAhead
  <1> QED  BY <1>1, InvHolds, PTL

\* mergeJSONLSource loses no mark on a direct message: comparing the time stamps
\* of the stored payload and of the line never prefers a payload with fewer.
THEOREM RebuildIsComplete == Spec => RebuildKeepsMarks
  <1> DEFINE Kept == \A p \in Procs : MergeJSONL(p) =>
                       \A m \in Direct : log[m].readers \subseteq proc'[p].copy[m].readers
  <1>1. Inv /\ [Next]_vars => [Kept]_vars
    <2> SUFFICES ASSUME Inv, NEW p \in Procs, MergeJSONL(p), NEW m \in Direct
                 PROVE  log[m].readers \subseteq proc'[p].copy[m].readers
      OBVIOUS
    <2> DEFINE w == IF Logged(m) /\ Newer(log[m], proc[p].copy[m])
                    THEN PointOf(log[m]) ELSE proc[p].copy[m]
    <2>1. proc'[p].copy[m] = w
      BY Fields, DirectIsMessage DEF MergeJSONL, SetProc, Inv, TypeOK, Process
    <2>2. log[m].readers \subseteq w.readers
      BY MergedCopy, DirectIsMessage
    <2> QED  BY <2>1, <2>2
  <1>2. RebuildKeepsMarks <=> [][Kept]_vars
    BY DEF RebuildKeepsMarks
  <1> QED  BY <1>1, <1>2, InvHolds, PTL DEF Spec

================================================================================
