---------------------------- MODULE TaskGates_proofs ----------------------------
(***************************************************************************)
(* Proofs about TaskGates: for every number of processes, agents and roles,*)
(* every window and every fault.                                           *)
(***************************************************************************)
EXTENDS TaskGates, TLAPS

\* One process holds the file lock, and what it has read is what the file has.
LockHeld ==
    /\ \A p, q \in Procs : run[p].pc = "save" /\ run[q].pc = "save" => p = q
    /\ \A p \in Procs : run[p].pc = "save" => run[p].file = file

\* What the handoff gate of p has found is true as long as the task has the
\* version that was checked.
CheckedHolds ==
    \A p \in Procs : /\ run[p].seen <= task.version
                     /\ run[p].seen = task.version => Independent(p)

\* Only a command that writes the task comes to writing it.
Writers == {"done", "ready_for_live", "blocked", "unblock", "approve", "reject"}
PlaceOK ==
    \A p \in Procs :
        run[p].pc \notin {"idle", "lock", "save"} \/ run[p].left > 0 => run[p].cmd.op \in Writers

GatesInv ==
    TypeOK /\ task.version > 0 /\ PlaceOK /\ AuditComplete /\ LockHeld /\ CheckedHolds

\* The step of one process changes its own record only.
LEMMA SetRunOther ==
    ASSUME NEW p \in Procs, NEW q \in Procs, NEW new,
           run \in [Procs -> Run], SetRun(p, new)
    PROVE  run'[q] = IF q = p THEN new ELSE run[q]
BY DEF SetRun

\* Typing of the record a step leaves.
LEMMA SetRunType ==
    ASSUME NEW p \in Procs, NEW new \in Run, run \in [Procs -> Run], SetRun(p, new)
    PROVE  run' \in [Procs -> Run]
BY DEF SetRun

\* A process that has just begun is well typed.
LEMMA FreshType ==
    ASSUME NEW pc \in PC, NEW c \in Commands \union {NoCommand}, NEW n \in 0 .. 4
    PROVE  Fresh(pc, c, n) \in Run
BY DEF Fresh, Run, NewTask, Task, NoFile, File, Statuses

LEMMA IdleType == Idle \in Run
BY FreshType DEF Idle, PC

\* Going on keeps everything but the place.
LEMMA AtType ==
    ASSUME NEW p \in Procs, NEW pc \in PC, run \in [Procs -> Run]
    PROVE  /\ At(p, pc) \in Run /\ At(p, pc).pc = pc
           /\ At(p, pc).seen = run[p].seen /\ At(p, pc).cmd = run[p].cmd
           /\ At(p, pc).file = run[p].file
BY DEF At, Run

LEMMA FirstGateType ==
    ASSUME NEW c \in Commands PROVE FirstGate(c.op) \in PC
BY DEF FirstGate, Commands, PC

\* What a write stores.
LEMMA PayloadType ==
    ASSUME NEW p \in Procs, NEW t \in Task, run \in [Procs -> Run], run[p].cmd.op \in Writers
    PROVE  Payload(p, t) \in Task
<1>1. run[p].cmd.op = "ready_for_live" => run[p].cmd.name \in Names
    BY DEF Run, Commands, NoCommand
<1>2. Agent[p] \in Readers
    BY DEF Readers
<1> QED
    BY <1>1, <1>2 DEF Payload, Task, Statuses, Writers

\* Every initial state satisfies the invariant.
LEMMA InitInv == Init => GatesInv
<1> SUFFICES ASSUME Init PROVE GatesInv
    OBVIOUS
<1>1. run \in [Procs -> Run] /\ \A p \in Procs : run[p] = Idle
    BY IdleType DEF Init
<1>2. unread \in [Kinds -> [Roles -> SUBSET Readers]]
    BY DEF Init
<1>3. task \in Task /\ task.version = 1
    BY DEF Init, Task, NewTask, Statuses
<1>4. file \in File /\ file.entries = 0 /\ skips = 0 /\ budget \in 0 .. Budget /\ now \in 1 .. MaxTime
    BY GatesOK DEF Init, NoFile, File
<1>5. TypeOK
    BY <1>1, <1>2, <1>3, <1>4 DEF TypeOK
<1>6. Idle.pc = "idle" /\ Idle.left = 0 /\ Idle.seen = 0
    BY DEF Idle, Fresh
<1>7. PlaceOK /\ LockHeld /\ CheckedHolds
    BY <1>1, <1>3, <1>6 DEF PlaceOK, LockHeld, CheckedHolds
<1> QED
    BY <1>3, <1>4, <1>5, <1>7 DEF GatesInv, AuditComplete

\* A step of p that changes only its own record, to one that holds no lock and has
\* checked nothing new, keeps the invariant.
LEMMA OwnStep ==
    ASSUME NEW p \in Procs, NEW new \in Run, GatesInv, SetRun(p, new),
           new.pc # "save",
           new.pc \notin {"idle", "lock"} \/ new.left > 0 => new.cmd.op \in Writers,
           new.seen = 0 \/ (new.seen = run[p].seen /\ new.cmd = run[p].cmd),
           budget' \in 0 .. Budget,
           UNCHANGED <<task, unread, file, now, skips>>
    PROVE  GatesInv'
<1>1. run' \in [Procs -> Run]
    BY SetRunType DEF GatesInv, TypeOK
<1>2. \A q \in Procs : run'[q] = IF q = p THEN new ELSE run[q]
    BY SetRunOther DEF GatesInv, TypeOK
<1>3. TypeOK'
    BY <1>1 DEF GatesInv, TypeOK
<1>4. PlaceOK' /\ LockHeld'
    BY <1>2 DEF GatesInv, PlaceOK, LockHeld
<1>5. task.version \in Nat /\ task.version > 0
    BY DEF GatesInv, TypeOK, Task
<1>6. CheckedHolds'
    BY <1>2, <1>5 DEF GatesInv, CheckedHolds, Independent
<1> QED
    BY <1>3, <1>4, <1>6 DEF GatesInv, AuditComplete

\* A message that arrives, is read or grows old touches no gate that was passed.
LEMMA MailStep ==
    ASSUME GatesInv, unread' \in [Kinds -> [Roles -> SUBSET Readers]],
           budget' \in 0 .. Budget, UNCHANGED <<task, file, run, now, skips>>
    PROVE  GatesInv'
<1>1. TypeOK'
    BY DEF GatesInv, TypeOK
<1>2. PlaceOK' /\ LockHeld' /\ CheckedHolds'
    BY DEF GatesInv, PlaceOK, LockHeld, CheckedHolds, Independent
<1> QED
    BY <1>1, <1>2 DEF GatesInv, AuditComplete

\* Beginning a command, with or without the gates.
LEMMA BeginInv ==
    ASSUME GatesInv, NEW p \in Procs, NEW c \in Commands, Begin(p, c) \/ BeginSkipping(p, c)
    PROVE  GatesInv'
<1>1. budget \in Nat /\ budget \in 0 .. Budget /\ Budget \in Nat
    BY GatesOK DEF GatesInv, TypeOK
<1>2. CASE Begin(p, c)
    <2> DEFINE new == Fresh(FirstGate(c.op), c, 0)
    <2>1. new \in Run
        BY FreshType, FirstGateType
    <2>2. new.pc = FirstGate(c.op) /\ new.seen = 0 /\ new.cmd = c /\ new.left = 0
        BY DEF Fresh
    <2>3. new.pc # "save" /\ (new.pc \notin {"idle", "lock"} => c.op \in Writers)
        BY <2>2 DEF FirstGate, Commands, Writers
    <2>4. SetRun(p, new) /\ UNCHANGED <<task, unread, file, now, skips>> /\ budget' \in 0 .. Budget
        BY <1>1, <1>2 DEF Begin
    <2> HIDE DEF new
    <2> QED
        BY <2>1, <2>2, <2>3, <2>4, OwnStep
<1>3. CASE BeginSkipping(p, c)
    <2> DEFINE n == Entries(p, c.op)
               new == Fresh(IF n = 0 THEN "update" ELSE "lock", c, n)
    <2>1. n \in 0 .. 4
        BY DEF Entries
    <2>2. new \in Run
        BY <2>1, FreshType DEF PC
    <2>3. new.pc \in {"update", "lock"} /\ new.seen = 0 /\ new.cmd = c
        BY DEF Fresh
    <2>4. c.op \in Writers
        BY <1>3 DEF BeginSkipping, Commands, Writers
    <2>5. SetRun(p, new) /\ UNCHANGED <<task, unread, file, now, skips>> /\ budget' \in 0 .. Budget
        BY <1>1, <1>3 DEF BeginSkipping
    <2> HIDE DEF new, n
    <2> QED
        BY <2>2, <2>3, <2>4, <2>5, OwnStep
<1> QED
    BY <1>2, <1>3

\* Passing a gate without learning anything about the handoff, or giving up.
LEMMA GoOn ==
    ASSUME GatesInv, NEW p \in Procs, NEW pc \in {"proof", "inbox", "gate", "update"},
           run[p].pc \in {"hooks", "proof", "inbox"},
           SetRun(p, At(p, pc)) \/ SetRun(p, Idle),
           budget' \in 0 .. Budget, UNCHANGED <<task, unread, file, now, skips>>
    PROVE  GatesInv'
<1>1. run \in [Procs -> Run] /\ run[p].cmd.op \in Writers
    BY DEF GatesInv, TypeOK, PlaceOK
<1>2. CASE SetRun(p, At(p, pc))
    <2>1. pc \in PC /\ pc \notin {"idle", "lock", "save"}
        BY DEF PC
    <2>2. /\ At(p, pc) \in Run /\ At(p, pc).pc = pc
          /\ At(p, pc).seen = run[p].seen /\ At(p, pc).cmd = run[p].cmd
        BY <1>1, <2>1, AtType
    <2> QED
        BY <1>1, <1>2, <2>1, <2>2, OwnStep
<1>3. CASE SetRun(p, Idle)
    <2>1. Idle.pc = "idle" /\ Idle.seen = 0 /\ Idle.left = 0
        BY DEF Idle, Fresh
    <2> QED
        BY <1>3, <2>1, IdleType, OwnStep
<1> QED
    BY <1>2, <1>3

\* The gates in front of the handoff.
LEMMA EarlyGatesInv ==
    ASSUME GatesInv, NEW p \in Procs,
           \/ HooksPass(p) \/ HooksReject(p) \/ CheckProof(p) \/ CheckInbox(p) \/ InboxDown(p)
    PROVE  GatesInv'
<1>1. budget \in Nat /\ budget \in 0 .. Budget /\ Budget \in Nat
    BY GatesOK DEF GatesInv, TypeOK
<1>2. CASE HooksPass(p)
    <2>1. SetRun(p, At(p, "proof")) /\ run[p].pc = "hooks" /\ budget' \in 0 .. Budget
        BY <1>1, <1>2 DEF HooksPass, Goto
    <2>2. UNCHANGED <<task, unread, file, now, skips>>
        BY <1>2 DEF HooksPass
    <2> QED
        BY <2>1, <2>2, GoOn
<1>3. CASE HooksReject(p)
    <2>1. SetRun(p, Idle) /\ run[p].pc = "hooks"
        BY <1>3 DEF HooksReject
    <2>2. budget' \in 0 .. Budget
        BY <1>1, <1>3 DEF HooksReject
    <2>3. UNCHANGED <<task, unread, file, now, skips>>
        BY <1>3 DEF HooksReject
    <2> QED
        BY <2>1, <2>2, <2>3, GoOn
<1>4. CASE CheckProof(p)
    <2> DEFINE pc == IF run[p].cmd.op = "done" THEN "inbox" ELSE "update"
    <2>1. pc \in {"proof", "inbox", "gate", "update"}
        OBVIOUS
    <2>2. SetRun(p, At(p, pc)) \/ SetRun(p, Idle)
        BY <1>4 DEF CheckProof, Goto
    <2>3. run[p].pc = "proof" /\ budget' \in 0 .. Budget
        BY <1>1, <1>4 DEF CheckProof
    <2>4. UNCHANGED <<task, unread, file, now, skips>>
        BY <1>4 DEF CheckProof
    <2> HIDE DEF pc
    <2> QED
        BY <2>1, <2>2, <2>3, <2>4, GoOn
<1>5. CASE CheckInbox(p)
    <2>1. SetRun(p, At(p, "gate")) \/ SetRun(p, Idle)
        BY <1>5 DEF CheckInbox, Goto
    <2>2. run[p].pc = "inbox" /\ budget' \in 0 .. Budget
        BY <1>1, <1>5 DEF CheckInbox
    <2>3. UNCHANGED <<task, unread, file, now, skips>>
        BY <1>5 DEF CheckInbox
    <2> QED
        BY <2>1, <2>2, <2>3, GoOn
<1>6. CASE InboxDown(p)
    <2>1. SetRun(p, At(p, "gate")) /\ run[p].pc = "inbox"
        BY <1>6 DEF InboxDown, Goto
    <2>2. budget' \in 0 .. Budget
        BY <1>1, <1>6 DEF InboxDown
    <2>3. UNCHANGED <<task, unread, file, now, skips>>
        BY <1>6 DEF InboxDown
    <2> QED
        BY <2>1, <2>2, <2>3, GoOn
<1> QED
    BY <1>2, <1>3, <1>4, <1>5, <1>6

\* A command that ends, or is killed.
LEMMA GiveUp ==
    ASSUME GatesInv, NEW p \in Procs, SetRun(p, Idle),
           budget' \in 0 .. Budget, UNCHANGED <<task, unread, file, now, skips>>
    PROVE  GatesInv'
<1>1. Idle.pc = "idle" /\ Idle.seen = 0 /\ Idle.left = 0
    BY DEF Idle, Fresh
<1> QED
    BY <1>1, IdleType, OwnStep

\* The gate of the handoff remembers the version whose handoff it has checked.
LEMMA CheckHandoffInv ==
    ASSUME GatesInv, NEW p \in Procs, CheckHandoff(p)
    PROVE  GatesInv'
<1>1. run \in [Procs -> Run] /\ run[p].cmd.op \in Writers /\ budget' \in 0 .. Budget
    BY DEF GatesInv, TypeOK, PlaceOK, CheckHandoff
<1>2. UNCHANGED <<task, unread, file, now, skips>>
    BY DEF CheckHandoff
<1>3. CASE HandoffAllows(p, task)
    <2> DEFINE at == At(p, "update")
               new == [at EXCEPT !.seen = task.version]
    <2>1. at \in Run /\ at.pc = "update" /\ at.cmd = run[p].cmd
        BY <1>1, AtType DEF PC
    <2>2. task.version \in Nat
        BY DEF GatesInv, TypeOK, Task
    <2> HIDE DEF at
    <2>3. new \in Run /\ new.pc = "update" /\ new.cmd = run[p].cmd /\ new.seen = task.version
        BY <2>1, <2>2 DEF Run
    <2>4. SetRun(p, new)
        BY <1>3 DEF CheckHandoff, at
    <2> HIDE DEF new
    <2>5. run' \in [Procs -> Run]
        BY <1>1, <2>3, <2>4, SetRunType
    <2>6. \A q \in Procs : run'[q] = IF q = p THEN new ELSE run[q]
        BY <1>1, <2>4, SetRunOther
    <2>7. TypeOK'
        BY <1>1, <1>2, <2>5 DEF GatesInv, TypeOK
    <2>8. PlaceOK' /\ LockHeld'
        BY <1>1, <1>2, <2>3, <2>6 DEF GatesInv, PlaceOK, LockHeld
    <2>9. Independent(p)
        BY <1>3 DEF HandoffAllows, Independent
    <2>10. CheckedHolds'
        BY <1>2, <2>2, <2>3, <2>6, <2>9 DEF GatesInv, CheckedHolds, Independent
    <2> QED
        BY <1>2, <2>7, <2>8, <2>10 DEF GatesInv, AuditComplete
<1>4. CASE ~HandoffAllows(p, task)
    BY <1>1, <1>2, <1>4, GiveUp DEF CheckHandoff
<1> QED
    BY <1>3, <1>4

\* The read of the transition.
LEMMA ReadTaskInv ==
    ASSUME GatesInv, NEW p \in Procs, ReadTask(p)
    PROVE  GatesInv'
<1>1. run \in [Procs -> Run] /\ run[p].cmd.op \in Writers /\ budget' \in 0 .. Budget /\ task \in Task
    BY DEF GatesInv, TypeOK, PlaceOK, ReadTask
<1>2. UNCHANGED <<task, unread, file, now, skips>>
    BY DEF ReadTask
<1>3. CASE Legal(run[p].cmd.op, task)
    <2> DEFINE at == At(p, "write")
               new == [at EXCEPT !.cur = task]
    <2>1. at \in Run /\ at.pc = "write" /\ at.cmd = run[p].cmd /\ at.seen = run[p].seen
        BY <1>1, AtType DEF PC
    <2> HIDE DEF at
    <2>2. /\ new \in Run /\ new.pc = "write" /\ new.cmd = run[p].cmd /\ new.seen = run[p].seen
        BY <1>1, <2>1 DEF Run
    <2>3. SetRun(p, new)
        BY <1>3 DEF ReadTask, at
    <2> HIDE DEF new
    <2> QED
        BY <1>1, <1>2, <2>2, <2>3, OwnStep
<1>4. CASE ~Legal(run[p].cmd.op, task)
    BY <1>1, <1>2, <1>4, GiveUp DEF ReadTask
<1> QED
    BY <1>3, <1>4

\* The write: no gate has seen the version it makes.
LEMMA WriteTaskInv ==
    ASSUME GatesInv, NEW p \in Procs, WriteTask(p)
    PROVE  GatesInv'
<1>1. run \in [Procs -> Run] /\ run[p].cmd.op \in Writers /\ task \in Task /\ task.version \in Nat
    BY DEF GatesInv, TypeOK, PlaceOK, WriteTask, Task
<1>2. UNCHANGED <<unread, file, now, budget, skips>> /\ SetRun(p, Idle)
    BY DEF WriteTask
<1>3. Idle.pc = "idle" /\ Idle.seen = 0 /\ Idle.left = 0
    BY DEF Idle, Fresh
<1>4. \A q \in Procs : run'[q] = IF q = p THEN Idle ELSE run[q]
    BY <1>1, <1>2, SetRunOther
<1>5. run' \in [Procs -> Run]
    BY <1>1, <1>2, IdleType, SetRunType
<1>6. task' \in Task /\ task'.version \in Nat /\ (task' = task \/ task'.version = task.version + 1)
    <2>1. CASE Unchanged(p)
        <3> DEFINE load == Payload(p, task)
        <3>1. load \in Task
            BY <1>1, PayloadType
        <3>2. run[p].cur.version = task.version
            BY <2>1 DEF Unchanged
        <3>3. task' = [load EXCEPT !.version = task.version + 1]
            BY <2>1, <3>2 DEF WriteTask
        <3> HIDE DEF load
        <3> QED
            BY <1>1, <3>1, <3>3 DEF Task
    <2>2. CASE ~Unchanged(p)
        BY <1>1, <2>2 DEF WriteTask
    <2> QED
        BY <2>1, <2>2
<1>7. TypeOK'
    BY <1>2, <1>5, <1>6 DEF GatesInv, TypeOK
<1>8. PlaceOK' /\ LockHeld'
    BY <1>1, <1>2, <1>3, <1>4 DEF GatesInv, PlaceOK, LockHeld
<1>9. \A q \in Procs : q # p => /\ run'[q].seen = run[q].seen /\ run'[q].cmd = run[q].cmd
                                /\ run[q].seen \in Nat
    BY <1>1, <1>4 DEF Run
<1>10. CheckedHolds'
    <2>1. run'[p].seen = 0 /\ 0 < task'.version
        BY <1>1, <1>3, <1>4, <1>6 DEF GatesInv, CheckedHolds
    <2> QED
        BY <1>1, <1>6, <1>9, <2>1 DEF GatesInv, CheckedHolds, Independent
<1> QED
    BY <1>1, <1>2, <1>6, <1>7, <1>8, <1>10 DEF GatesInv, AuditComplete

\* Whoever takes the lock sees the file as it is.
LEMMA LockStateInv ==
    ASSUME GatesInv, NEW p \in Procs, LockState(p)
    PROVE  GatesInv'
<1> DEFINE at == At(p, "save")
           new == [at EXCEPT !.file = file]
<1>1. run \in [Procs -> Run] /\ file \in File
    BY DEF GatesInv, TypeOK
<1>2. at \in Run /\ at.pc = "save" /\ at.cmd = run[p].cmd /\ at.seen = run[p].seen
    BY <1>1, AtType DEF PC
<1>3. SetRun(p, new) /\ UNCHANGED <<task, unread, file, now, budget, skips>>
    BY DEF LockState
<1>4. at.left = run[p].left
    BY <1>1 DEF At, Run
<1> HIDE DEF at
<1>5. /\ new \in Run /\ new.pc = "save" /\ new.cmd = run[p].cmd /\ new.seen = run[p].seen
      /\ new.file = file /\ new.left = run[p].left
    BY <1>1, <1>2, <1>4 DEF Run
<1> HIDE DEF new
<1>6. run' \in [Procs -> Run]
    BY <1>1, <1>3, <1>5, SetRunType
<1>7. \A q \in Procs : run'[q] = IF q = p THEN new ELSE run[q]
    BY <1>1, <1>3, SetRunOther
<1>8. \A q \in Procs : run[q].pc # "save"
    BY DEF LockState, StateLockFree
<1>9. TypeOK'
    BY <1>3, <1>6 DEF GatesInv, TypeOK
<1>10. PlaceOK'
    BY <1>3, <1>5, <1>7 DEF GatesInv, PlaceOK
<1>11. LockHeld'
    BY <1>3, <1>5, <1>7, <1>8 DEF LockHeld
<1>12. CheckedHolds'
    BY <1>3, <1>5, <1>7 DEF GatesInv, CheckedHolds, Independent
<1> QED
    BY <1>3, <1>9, <1>10, <1>11, <1>12 DEF GatesInv, AuditComplete

\* A full read is recorded and no entry is lost: the file is what was read.
LEMMA SaveProofInv ==
    ASSUME GatesInv, NEW p \in Procs, SaveProof(p)
    PROVE  GatesInv'
<1>1. run \in [Procs -> Run] /\ file \in File /\ run[p].file = file /\ now \in Nat
    BY DEF GatesInv, TypeOK, LockHeld, SaveProof
<1>2. SetRun(p, Idle) /\ UNCHANGED <<task, unread, now, budget, skips>>
    BY DEF SaveProof
<1>3. file' \in File /\ file'.entries = file.entries
    BY <1>1 DEF SaveProof, File
<1>4. Idle.pc = "idle" /\ Idle.seen = 0 /\ Idle.left = 0
    BY DEF Idle, Fresh
<1>5. run' \in [Procs -> Run]
    BY <1>1, <1>2, IdleType, SetRunType
<1>6. \A q \in Procs : run'[q] = IF q = p THEN Idle ELSE run[q]
    BY <1>1, <1>2, SetRunOther
<1>7. TypeOK'
    BY <1>2, <1>3, <1>5 DEF GatesInv, TypeOK
<1>8. \A q \in Procs : run'[q].pc # "save"
    BY <1>4, <1>6 DEF GatesInv, LockHeld, SaveProof
<1>9. PlaceOK' /\ LockHeld'
    BY <1>4, <1>6, <1>8 DEF GatesInv, PlaceOK, LockHeld
<1>10. task.version \in Nat
    BY DEF GatesInv, TypeOK, Task
<1>11. CheckedHolds'
    BY <1>2, <1>4, <1>6, <1>10 DEF GatesInv, CheckedHolds, Independent
<1> QED
    BY <1>2, <1>3, <1>7, <1>9, <1>11 DEF GatesInv, AuditComplete

\* An entry is added to all that were there.
LEMMA SaveEntryInv ==
    ASSUME GatesInv, NEW p \in Procs, SaveEntry(p)
    PROVE  GatesInv'
<1>1. /\ run \in [Procs -> Run] /\ file \in File /\ run[p].file = file /\ skips \in Nat
      /\ run[p].left \in 1 .. 4 /\ run[p].cmd.op \in Writers
      /\ run[p].cmd \in Commands \union {NoCommand}
    BY DEF GatesInv, TypeOK, LockHeld, PlaceOK, SaveEntry, Run
<1> DEFINE new == Fresh(IF run[p].left = 1 THEN "update" ELSE "lock",
                        run[p].cmd, run[p].left - 1)
<1>2. SetRun(p, new) /\ UNCHANGED <<task, unread, now, budget>> /\ skips' = skips + 1
    BY DEF SaveEntry
<1>3. new \in Run
    <2>1. run[p].left - 1 \in 0 .. 4
        BY <1>1
    <2> QED
        BY <1>1, <2>1, FreshType DEF PC
<1>4. new.pc # "save" /\ new.seen = 0 /\ new.cmd = run[p].cmd
    BY DEF Fresh
<1> HIDE DEF new
<1>5. file' \in File /\ file'.entries = file.entries + 1
    BY <1>1 DEF SaveEntry, File
<1>6. run' \in [Procs -> Run]
    BY <1>1, <1>2, <1>3, SetRunType
<1>7. \A q \in Procs : run'[q] = IF q = p THEN new ELSE run[q]
    BY <1>1, <1>2, SetRunOther
<1>8. TypeOK'
    BY <1>1, <1>2, <1>5, <1>6 DEF GatesInv, TypeOK
<1>9. \A q \in Procs : run'[q].pc # "save"
    BY <1>4, <1>7 DEF GatesInv, LockHeld, SaveEntry
<1>10. PlaceOK' /\ LockHeld'
    BY <1>1, <1>4, <1>7, <1>9 DEF GatesInv, PlaceOK, LockHeld
<1>11. task.version \in Nat
    BY DEF GatesInv, TypeOK, Task
<1>12. CheckedHolds'
    BY <1>2, <1>4, <1>7, <1>11 DEF GatesInv, CheckedHolds, Independent
<1>13. AuditComplete'
    BY <1>1, <1>2, <1>5 DEF GatesInv, AuditComplete
<1> QED
    BY <1>2, <1>8, <1>10, <1>12, <1>13 DEF GatesInv

\* What happens around the commands.
LEMMA EnvironmentInv ==
    ASSUME GatesInv,
           \/ \E k \in Kinds, r \in Roles : Tell(k, r) \/ AgeOut(k, r)
           \/ \E p \in Procs : ReadInbox(p) \/ Crash(p)
           \/ Tick
    PROVE  GatesInv'
<1>1. budget \in Nat /\ budget \in 0 .. Budget /\ Budget \in Nat
    BY GatesOK DEF GatesInv, TypeOK
<1>2. ASSUME NEW k \in Kinds, NEW r \in Roles, Tell(k, r) PROVE GatesInv'
    <2>1. [unread[k] EXCEPT ![r] = Readers] \in [Roles -> SUBSET Readers]
        BY DEF GatesInv, TypeOK
    <2>2. unread' \in [Kinds -> [Roles -> SUBSET Readers]]
        BY <1>2, <2>1 DEF Tell, GatesInv, TypeOK
    <2>3. UNCHANGED <<task, file, run, now, skips>> /\ budget' \in 0 .. Budget
        BY <1>1, <1>2 DEF Tell
    <2> QED
        BY <2>2, <2>3, MailStep
<1>3. ASSUME NEW k \in Kinds, NEW r \in Roles, AgeOut(k, r) PROVE GatesInv'
    <2>1. [unread[k] EXCEPT ![r] = {}] \in [Roles -> SUBSET Readers]
        BY DEF GatesInv, TypeOK
    <2>2. unread' \in [Kinds -> [Roles -> SUBSET Readers]]
        BY <1>3, <2>1 DEF AgeOut, GatesInv, TypeOK
    <2>3. UNCHANGED <<task, file, run, now, skips>> /\ budget' \in 0 .. Budget
        BY <1>1, <1>3 DEF AgeOut
    <2> QED
        BY <2>2, <2>3, MailStep
<1>4. ASSUME NEW p \in Procs, ReadInbox(p) PROVE GatesInv'
    <2>1. \A k \in Kinds : unread[k] \in [Roles -> SUBSET Readers]
        BY DEF GatesInv, TypeOK
    <2>2. \A k \in Kinds : \A x :
            [unread[k] EXCEPT ![ActorRole(p)] = @ \ x] \in [Roles -> SUBSET Readers]
        BY <2>1
    <2>3. unread' \in [Kinds -> [Roles -> SUBSET Readers]]
        BY <1>4, <2>2 DEF ReadInbox
    <2>4. UNCHANGED <<task, file, run, now, skips>> /\ budget' \in 0 .. Budget
        BY <1>1, <1>4 DEF ReadInbox
    <2> QED
        BY <2>3, <2>4, MailStep
<1>5. ASSUME NEW p \in Procs, Crash(p) PROVE GatesInv'
    <2>1. SetRun(p, Idle) /\ UNCHANGED <<task, unread, file, now, skips>>
        BY <1>5 DEF Crash
    <2>2. budget' \in 0 .. Budget
        BY <1>1, <1>5 DEF Crash
    <2> QED
        BY <2>1, <2>2, GiveUp
<1>6. CASE Tick
    <2>1. now' \in 1 .. MaxTime
        BY <1>6, GatesOK DEF Tick, GatesInv, TypeOK
    <2>2. TypeOK' /\ UNCHANGED <<task, file, run, skips>>
        BY <1>6, <2>1 DEF Tick, GatesInv, TypeOK
    <2> QED
        BY <2>2 DEF GatesInv, PlaceOK, LockHeld, CheckedHolds, Independent, AuditComplete
<1> QED
    BY <1>2, <1>3, <1>4, <1>5, <1>6

\* Every step keeps the invariant.
LEMMA NextInv == GatesInv /\ [Next]_vars => GatesInv'
<1> SUFFICES ASSUME GatesInv, [Next]_vars PROVE GatesInv'
    OBVIOUS
<1>1. ASSUME NEW p \in Procs, Step(p) PROVE GatesInv'
    BY <1>1, EarlyGatesInv, CheckHandoffInv, ReadTaskInv, WriteTaskInv,
       LockStateInv, SaveProofInv, SaveEntryInv DEF Step
<1>2. CASE UNCHANGED vars
    BY <1>2 DEF vars, GatesInv, TypeOK, PlaceOK, LockHeld, CheckedHolds, Independent, AuditComplete
<1> QED
    BY <1>1, <1>2, BeginInv, EnvironmentInv DEF Next

\* The invariant of the gates holds in every reachable state.
THEOREM Invariance == Spec => []GatesInv
BY InitInv, NextInv, PTL DEF Spec

\* Every reachable state is well typed.
THEOREM TypeCorrect == Spec => []TypeOK
<1>1. GatesInv => TypeOK
    BY DEF GatesInv
<1> QED
    BY <1>1, Invariance, PTL

\* The audit in state.json (projectstate.go, update) has an entry for every gate
\* that was skipped, however many commands skip gates and record reads at once.
THEOREM AuditIsComplete == Spec => []AuditComplete
<1>1. GatesInv => AuditComplete
    BY DEF GatesInv
<1> QED
    BY <1>1, Invariance, PTL

\* Whoever closes a task through the gates (task_status.go, runTaskDone) is neither
\* the runtime nor the role that handed it off, unless the task was written after
\* the gate had read it.
THEOREM CloserIsSeparate == Spec => SeparatedClose
<1> DEFINE Separated == \A p \in Procs :
             Closes(p) /\ run[p].seen = run[p].cur.version => Independent(p)
<1>1. GatesInv /\ [Next]_vars => [Separated]_vars
    <2> SUFFICES ASSUME GatesInv, [Next]_vars, NEW p \in Procs, Closes(p),
                        run[p].seen = run[p].cur.version
                 PROVE  Independent(p)
        OBVIOUS
    <2>1. run[p].cur.version = task.version
        BY DEF Closes, WriteTask, Unchanged
    <2> QED
        BY <2>1 DEF GatesInv, CheckedHolds
<1> QED
    BY <1>1, Invariance, PTL DEF SeparatedClose, Spec
================================================================================
