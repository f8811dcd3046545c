------------------------------- MODULE TaskGates -------------------------------
(***************************************************************************)
(* The gates in front of the end of a task: `gg task done' and the         *)
(* commands it waits for (cmd/task_status.go, cmd/task_ready_for_live.go,  *)
(* cmd/hydration_gate.go, internal/enforcement/, internal/projectstate/).  *)
(*                                                                         *)
(* Every command is a process.  `done' passes, in this order: the role of  *)
(* the caller, the pre-task-done hooks, the proof that the task was read   *)
(* in full, the caller's inbox, the handoff; then it reads the task again  *)
(* and writes it under the filter that nobody has written it in between.   *)
(* With GG_ENFORCEMENT=off each gate only leaves an entry in the audit.    *)
(*                                                                         *)
(* The store's task, the messages and <runtime>/state.json are shared.     *)
(* TaskClaims has leases and the event log, Inbox how messages are stored: *)
(* here a claim is not looked at, and of a message only who has to read it.*)
(***************************************************************************)
EXTENDS Integers

CONSTANTS
    Procs,          \* command lines, one per runtime
    Agent,          \* Agent[p]: the identity of p, NoAgent without GG_AGENT
    NoAgent,
    Role,           \* Role[p]: GG_ROLE of p, NoRole without it
    NoRole,
    Names,          \* roles given as --from and --verifier
    Implementing,   \* the roles that may not close
    Skippers,       \* processes that may run with GG_ENFORCEMENT=off
    Window,         \* ticks a full read of the task is good for
    MaxTime,        \* bound: the last tick
    Budget,         \* bound: commands that change the task before its end,
                    \* messages and faults
    Faults          \* what may happen besides, a subset of AllFaults

\* "hooks": a pre-task-done hook rejects; "inbox": the inbox cannot be read;
\* "crash": a command is killed; "age": a message passes out of
\* GG_INBOX_GATE_WINDOW.
AllFaults == {"hooks", "inbox", "crash", "age"}

\* Messages to other roles stand before no gate of this module.
Roles   == {Role[p] : p \in Procs} \ (Implementing \union {NoRole})
Readers == {Agent[p] : p \in Procs}

ASSUME GatesOK ==
    /\ NoRole \notin Names /\ Implementing \subseteq Names
    /\ \A p \in Procs : Role[p] \in Names \union {NoRole}
    /\ Skippers \subseteq Procs
    /\ Window \in Nat /\ MaxTime \in Nat \ {0} /\ Budget \in Nat
    /\ Faults \subseteq AllFaults

VARIABLES
    task,       \* the task: status, version, review and who handed it off
    unread,     \* unread[k][r]: who has yet to read a message of kind k to role r
    file,       \* state.json: the last full read of the task, the audit entries
    run,        \* run[p]: what p is doing
    now,        \* the clock
    budget,     \* auxiliary: what Budget leaves
    skips       \* auxiliary: audit entries that were appended

vars == <<task, unread, file, run, now, budget, skips>>

--------------------------------------------------------------------------------
(* Data *)

Statuses == {"in_progress", "blocked", "ready_for_live", "done"}
Task     == [status : Statuses, version : Nat, rejected : BOOLEAN,
             by : Names \union {NoRole}, agent : Readers \union {NoAgent}]

\* A message is about this task, or not.
Kinds == {"task", "other"}
File  == [proof : Nat, entries : Nat]

\* name is --verifier of a done and --from of a ready-for-live.
Commands ==
         [op : {"done", "ready_for_live"}, name : Names]
  \union [op : {"blocked", "unblock", "approve", "reject", "read"}, name : {NoRole}]
NoCommand == [op |-> "none", name |-> NoRole]

PC == {"idle", "hooks", "proof", "inbox", "gate", "update", "write", "lock", "save"}

Run == [pc : PC, cmd : Commands \union {NoCommand},
        cur : Task,             \* the task as it was read last
        seen : Nat,             \* auxiliary: the version whose handoff was
                                \* checked, 0 when none was
        file : File,            \* state.json as it was read under its lock
        left : 0 .. 4]          \* audit entries still to write

NewTask == [status |-> "in_progress", version |-> 1, rejected |-> FALSE,
            by |-> NoRole, agent |-> NoAgent]
NoFile  == [proof |-> 0, entries |-> 0]

\* A process at pc of command c, which has n audit entries to write.
Fresh(pc, c, n) == [pc |-> pc, cmd |-> c, cur |-> NewTask, seen |-> 0,
                    file |-> NoFile, left |-> n]
Idle == Fresh("idle", NoCommand, 0)

TypeOK ==
    /\ task \in Task
    /\ unread \in [Kinds -> [Roles -> SUBSET Readers]]
    /\ file \in File
    /\ run \in [Procs -> Run]
    /\ now \in 1 .. MaxTime
    /\ budget \in 0 .. Budget
    /\ skips \in Nat

--------------------------------------------------------------------------------
(* The gates *)

SetRun(p, q) == run' = [run EXCEPT ![p] = q]
At(p, pc)    == [run[p] EXCEPT !.pc = pc]
Goto(p, pc)  == SetRun(p, At(p, pc))

Tagged(p) == Agent[p] # NoAgent \/ Role[p] # NoRole

\* resolveActorRole: the role whose messages p has to read.
ActorRole(p) == IF Role[p] # NoRole THEN Role[p] ELSE Agent[p]

\* checkAgentLifecycleGate.
Judging == {"done", "approve", "reject"}
LifecycleAllows(p, op) == op \in Judging => Role[p] \notin Implementing

\* checkTaskHydrationGate: anybody's full read counts, if it is recent.
Hydrated(p) == Tagged(p) => file.proof # 0 /\ file.proof + Window >= now

\* A gate that looks up the reads of the role, where the inbox notes the agent.
MustRead_ByRole(p, k) == ActorRole(p) \in Roles /\ unread[k][ActorRole(p)] # {}

\* CheckInboxGate asks for what this agent has not read.
MustRead(p, k) == ActorRole(p) \in Roles /\ Agent[p] \in unread[k][ActorRole(p)]

\* assignmentResolved: a message about a task that is done or rejected is settled.
Resolved(k) == k = "task" /\ (task.status = "done" \/ task.rejected)

InboxBlocks(p) == \E k \in Kinds : MustRead(p, k) /\ ~Resolved(k)

\* A separation of roles only, which one runtime can play both.
HandoffAllows_RolesOnly(p, t) == t.status = "ready_for_live" /\ run[p].cmd.name # t.by

\* checkReadyForLiveGate with require_ready_for_live and verifier_separation.
HandoffAllows(p, t) ==
    /\ t.status = "ready_for_live"
    /\ run[p].cmd.name # t.by
    /\ NoAgent \notin {Agent[p], t.agent} => Agent[p] # t.agent

--------------------------------------------------------------------------------
(* Commands *)

\* The first gate of each operation.
FirstGate(op) ==
    CASE op = "done" -> "hooks"
      [] op \in {"ready_for_live", "blocked"} -> "proof"
      [] op \in {"unblock", "approve", "reject"} -> "update"
      [] op = "read" -> "lock"

\* Commands the bound does not count: an agent may retry.
Free == {"done", "read"}

Begin(p, c) ==
    /\ run[p] = Idle
    /\ c.op \notin Free => budget > 0
    /\ LifecycleAllows(p, c.op)
    /\ SetRun(p, Fresh(FirstGate(c.op), c, 0))
    /\ budget' = IF c.op \in Free THEN budget ELSE budget - 1
    /\ UNCHANGED <<task, unread, file, now, skips>>

\* GG_ENFORCEMENT=off with a rationale: the entries emitGuardSkipEvent appends, in place of the
\* gates for role, hooks and handoff, and for the proof when p is tagged.
Entries(p, op) ==
    (CASE op = "done" -> 3 [] op = "blocked" -> 0 [] OTHER -> 1)
        + (IF Tagged(p) /\ op \in {"done", "ready_for_live", "blocked"} THEN 1 ELSE 0)

BeginSkipping(p, c) ==
    /\ p \in Skippers
    /\ budget > 0
    /\ run[p] = Idle
    /\ c.op \notin {"unblock", "read"}
    /\ LET n == Entries(p, c.op)
       IN  SetRun(p, Fresh(IF n = 0 THEN "update" ELSE "lock", c, n))
    /\ budget' = budget - 1
    /\ UNCHANGED <<task, unread, file, now, skips>>

HooksPass(p) ==
    /\ run[p].pc = "hooks"
    /\ Goto(p, "proof")
    /\ UNCHANGED <<task, unread, file, now, budget, skips>>

\* The task stays as it is, and the broadcast about it goes to "all".
HooksReject(p) ==
    /\ "hooks" \in Faults /\ budget > 0
    /\ run[p].pc = "hooks"
    /\ SetRun(p, Idle)
    /\ budget' = budget - 1
    /\ UNCHANGED <<task, unread, file, now, skips>>

CheckProof(p) ==
    /\ run[p].pc = "proof"
    /\ IF ~Hydrated(p) THEN SetRun(p, Idle)
       ELSE Goto(p, IF run[p].cmd.op = "done" THEN "inbox" ELSE "update")
    /\ UNCHANGED <<task, unread, file, now, budget, skips>>

CheckInbox(p) ==
    /\ run[p].pc = "inbox"
    /\ IF InboxBlocks(p) THEN SetRun(p, Idle) ELSE Goto(p, "gate")
    /\ UNCHANGED <<task, unread, file, now, budget, skips>>

\* The gate fails open.
InboxDown(p) ==
    /\ "inbox" \in Faults /\ budget > 0
    /\ run[p].pc = "inbox"
    /\ Goto(p, "gate")
    /\ budget' = budget - 1
    /\ UNCHANGED <<task, unread, file, now, skips>>

CheckHandoff(p) ==
    /\ run[p].pc = "gate"
    /\ IF HandoffAllows(p, task)
       THEN SetRun(p, [At(p, "update") EXCEPT !.seen = task.version])
       ELSE SetRun(p, Idle)
    /\ UNCHANGED <<task, unread, file, now, budget, skips>>

--------------------------------------------------------------------------------
(* The transition: UpdateTaskStatus, SetReadyForLive, UpdateReviewStatus *)

Legal(op, t) ==
    /\ op \in {"done", "blocked"} => t.status # op
    /\ op = "ready_for_live" => t.status # "done"
    /\ op = "unblock" => t.status = "blocked"

ReadTask(p) ==
    /\ run[p].pc = "update"
    /\ IF Legal(run[p].cmd.op, task)
       THEN SetRun(p, [At(p, "write") EXCEPT !.cur = task])
       ELSE SetRun(p, Idle)
    /\ UNCHANGED <<task, unread, file, now, budget, skips>>

\* A filter on the status alone.
Unchanged_StatusOnly(p) == task.status = run[p].cur.status

\* taskCurrentMutationFilter.
Unchanged(p) == task.status = run[p].cur.status /\ task.version = run[p].cur.version

\* The fields each operation sets in the stored task t.
Payload(p, t) ==
    LET op == run[p].cmd.op
    IN  CASE op \in {"done", "blocked"} -> [t EXCEPT !.status = op]
          [] op = "unblock" -> [t EXCEPT !.status = "in_progress"]
          [] op \in {"approve", "reject"} -> [t EXCEPT !.rejected = (op = "reject")]
          [] op = "ready_for_live" ->
               [status |-> op, version |-> t.version, rejected |-> t.rejected,
                by |-> run[p].cmd.name, agent |-> Agent[p]]

\* What follows changes nothing here: the read-back only reports a conflict, and
\* the broadcast of the transition is addressed to "all", which GetInbox of a role
\* does not return.
WriteTask(p) ==
    /\ run[p].pc = "write"
    /\ task' = IF Unchanged(p)
               THEN [Payload(p, task) EXCEPT !.version = run[p].cur.version + 1]
               ELSE task
    /\ SetRun(p, Idle)
    /\ UNCHANGED <<unread, file, now, budget, skips>>

--------------------------------------------------------------------------------
(* state.json: Update reads and writes it under a file lock *)

\* The build for neither unix nor windows: a lock that excludes nobody.
StateLockFree_Never == TRUE

StateLockFree == \A p \in Procs : run[p].pc # "save"

\* RecordHydration of a `gg task get --full', or AppendBypass of a skipped gate.
LockState(p) ==
    /\ run[p].pc = "lock"
    /\ StateLockFree
    /\ SetRun(p, [At(p, "save") EXCEPT !.file = file])
    /\ UNCHANGED <<task, unread, file, now, budget, skips>>

SaveProof(p) ==
    /\ run[p].pc = "save"
    /\ run[p].cmd.op = "read"
    /\ file' = [run[p].file EXCEPT !.proof = now]
    /\ SetRun(p, Idle)
    /\ UNCHANGED <<task, unread, now, budget, skips>>

SaveEntry(p) ==
    /\ run[p].pc = "save"
    /\ run[p].left > 0
    /\ file' = [run[p].file EXCEPT !.entries = @ + 1]
    /\ skips' = skips + 1
    /\ SetRun(p, Fresh(IF run[p].left = 1 THEN "update" ELSE "lock",
                       run[p].cmd, run[p].left - 1))
    /\ UNCHANGED <<task, unread, now, budget>>

--------------------------------------------------------------------------------
(* Messages, kills and the clock *)

\* `gg tell r', or a message of somebody else that mentions @r.
Tell(k, r) ==
    /\ budget > 0
    /\ unread' = [unread EXCEPT ![k][r] = Readers]
    /\ budget' = budget - 1
    /\ UNCHANGED <<task, file, run, now, skips>>

\* `gg inbox --role r --include-agents' notes this agent in read_by; without an
\* agent it marks the messages read for everybody.
ReadInbox(p) ==
    /\ run[p] = Idle
    /\ ActorRole(p) \in Roles
    /\ LET readers == IF Agent[p] = NoAgent THEN Readers ELSE {Agent[p]}
       IN  unread' = [k \in Kinds |-> [unread[k] EXCEPT ![ActorRole(p)] = @ \ readers]]
    /\ UNCHANGED <<task, file, run, now, budget, skips>>

\* A command that is killed gives the file lock back.
Crash(p) ==
    /\ "crash" \in Faults /\ budget > 0
    /\ run[p] # Idle
    /\ SetRun(p, Idle)
    /\ budget' = budget - 1
    /\ UNCHANGED <<task, unread, file, now, skips>>

\* A message becomes too old for the gate.
AgeOut(k, r) ==
    /\ "age" \in Faults
    /\ unread' = [unread EXCEPT ![k][r] = {}]
    /\ UNCHANGED <<task, file, run, now, budget, skips>>

Tick ==
    /\ now < MaxTime
    /\ now' = now + 1
    /\ UNCHANGED <<task, unread, file, run, budget, skips>>

--------------------------------------------------------------------------------
(* The whole *)

Init ==
    /\ task = NewTask
    /\ unread = [k \in Kinds |-> [r \in Roles |-> {}]]
    /\ file = NoFile
    /\ run = [p \in Procs |-> Idle]
    /\ now = 1
    /\ budget = Budget
    /\ skips = 0

\* What a command does once it has begun.
Step(p) ==
    \/ HooksPass(p) \/ HooksReject(p) \/ CheckProof(p)
    \/ CheckInbox(p) \/ InboxDown(p) \/ CheckHandoff(p)
    \/ ReadTask(p) \/ WriteTask(p)
    \/ LockState(p) \/ SaveProof(p) \/ SaveEntry(p)

Next ==
    \/ \E p \in Procs :
         \/ \E c \in Commands : Begin(p, c) \/ BeginSkipping(p, c)
         \/ Step(p)
         \/ ReadInbox(p)
         \/ Crash(p)
    \/ \E k \in Kinds, r \in Roles : Tell(k, r) \/ AgeOut(k, r)
    \/ Tick

Spec == Init /\ [][Next]_vars

\* A verifier tries to close the task in its own role.
TryDone(p) == \E c \in Commands : c.op = "done" /\ c.name = Role[p] /\ Begin(p, c)

ReadInFull(p) == \E c \in Commands : c.op = "read" /\ Begin(p, c)

\* Commands that run go on, a command that waits for the file lock gets it, and
\* whoever may close the task keeps doing what the refusals ask for: read it in
\* full, read the inbox, try again.
FairSpec ==
    /\ Spec
    /\ \A p \in Procs :
         /\ WF_vars(Step(p)) /\ SF_vars(LockState(p))
         /\ LifecycleAllows(p, "done") =>
              SF_vars(ReadInbox(p)) /\ SF_vars(ReadInFull(p)) /\ SF_vars(TryDone(p))

--------------------------------------------------------------------------------
(* Properties *)

Closes(p) == WriteTask(p) /\ run[p].cmd.op = "done" /\ task' # task

Independent(p) ==
    /\ task.status = "ready_for_live"
    /\ task.by # run[p].cmd.name
    /\ task.agent = Agent[p] => Agent[p] = NoAgent

\* tasks.verifier_separation: whoever closes a task without skipping the gates is
\* not the runtime or the role that handed it off, unless the task was written
\* between the gate and the read of the transition (task_status.go:154, 170).
SeparatedClose ==
    [][\A p \in Procs :
         Closes(p) /\ run[p].seen = run[p].cur.version => Independent(p)]_vars

\* The audit is complete: of all the gates skipped side by side, and of the full
\* reads recorded in the same file, none has overwritten another
\* (projectstate.go: "append-only audit record of every GG_ENFORCEMENT=off guard
\* skip").
AuditComplete == file.entries = skips

\* p could be the independent verifier of the task that is handed off.
Closable(p) ==
    /\ task.status = "ready_for_live"
    /\ LifecycleAllows(p, "done")
    /\ task.by # Role[p]
    /\ task.agent # Agent[p]

\* The gates open: a task that was handed off does not wait for its review forever
\* while there is an agent of another role and runtime that may close it and does
\* what the refusals ask for.
GatesOpen == \A p \in Procs : []<>~Closable(p)

================================================================================
