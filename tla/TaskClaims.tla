------------------------------ MODULE TaskClaims -------------------------------
(***************************************************************************)
(* The life of one task: claimed with a lease, worked on, handed off,      *)
(* cancelled, and repaired (internal/store/task*.go, cmd/reconcile.go).    *)
(* Every gg command is a process of its own; the processes share           *)
(*                                                                         *)
(*   task   the task's point in the vector store, the live projection;     *)
(*   log    tasks.jsonl and task-events.jsonl.  Both are append-only, the  *)
(*          create line never changes and the events are only ever folded  *)
(*          from the left, so the fold so far stands for the files;        *)
(*   queued the task's entry in .gg/outbox/;                               *)
(*   now    the clock.                                                     *)
(*                                                                         *)
(* A command reads the task, decides, writes through a filter that repeats *)
(* what it read, reads back to learn whether the write matched, and then   *)
(* appends its event: four steps, and any other process may run between    *)
(* two of them.  Repairs (`gg reconcile --apply', the doctor's replays,    *)
(* the vector healing of a search) write by point id, without a filter.    *)
(* No step of the code relates two tasks.                                  *)
(***************************************************************************)
EXTENDS Integers

CONSTANTS
    Procs,      \* processes
    Owners,     \* agent names that claim
    NoOwner,    \* the owner field of an unclaimed task
    Texts,      \* summaries, block reasons, verify plans, review notes
    NoText,     \* such a field when it is empty
    Leases,     \* lease durations, in ticks
    MaxTime,    \* bound: the last tick
    Budget,     \* bound: commands started and processes killed, together
    Ops,        \* what commands run, a subset of AllOps
    Repairs,    \* what repairs run, a subset of AllRepairs
    Faults      \* what may go wrong, a subset of AllFaults

Leasing    == {"start", "unblock", "renew"}
Closing    == {"done", "blocked", "ready_for_live"}
AllOps     == Leasing \union Closing \union {"release", "reviewed", "cancel"}

\* "reconcile": gg reconcile --apply; "drain": outbox entries are replayed
\* (doctor phase 1, session-start); "rescan": tasks.jsonl is compared with the
\* store (doctor phase 2); "heal": degraded vectors are re-embedded.
AllRepairs == {"reconcile", "drain", "rescan", "heal"}

\* "store": the create's upsert fails, or there is no vector for it;
\* "crash": a process is killed.
AllFaults  == {"store", "crash"}

ASSUME ConstantsOK ==
    /\ NoOwner \notin Owners
    /\ NoText \notin Texts
    /\ Leases \subseteq Nat \ {0}
    /\ MaxTime \in Nat \ {0}
    /\ Budget \in Nat
    /\ Ops \subseteq AllOps
    /\ Repairs \subseteq AllRepairs
    /\ Faults \subseteq AllFaults

VARIABLES
    task,       \* the point of the task
    log,        \* the fold of its create line and events
    queued,     \* whether the outbox holds its create
    proc,       \* proc[p]: what process p is running
    now,        \* the current tick
    budget,     \* auxiliary: commands and kills that are left
    told        \* auxiliary: told[o] is the end of the lease that o's commands
                \* last confirmed, 0 when o has changed its claim since

vars == <<task, log, queued, proc, now, budget, told>>

--------------------------------------------------------------------------------
(* Data *)

Time     == Nat                              \* 0 is an empty timestamp
Statuses == {"pending", "in_progress", "blocked", "ready_for_live", "done"}

\* status "none": there is no such point.  text is the field that goes with
\* the status: done_summary, block_reason or ready_for_live_plan.
Task == [status : Statuses \union {"none"}, owner : Owners \union {NoOwner},
         claimed : Time, lease : Time, version : Nat,
         text : Texts \union {NoText}, review : Texts \union {NoText},
         degraded : BOOLEAN]

NoTask == [status |-> "none", owner |-> NoOwner, claimed |-> 0, lease |-> 0,
           version |-> 0, text |-> NoText, review |-> NoText, degraded |-> FALSE]

\* The fold while tasks.jsonl does not know the task.
NoLog  == [status |-> "none", owner |-> NoOwner, claimed |-> 0, lease |-> 0,
           cancelled |-> FALSE]

Projected ==
    {NoLog} \union
    {e \in [status : Statuses \union {"cancelled"}, owner : Owners \union {NoOwner},
            claimed : Time, lease : Time, cancelled : BOOLEAN] :
        e.status = "cancelled" => e.cancelled}

\* What CreateTask writes to tasks.jsonl: a pending task that nobody owns.
CreatedTask == [NoTask EXCEPT !.status = "pending", !.version = 1]
CreatedLog  == [NoLog EXCEPT !.status = "pending"]

\* ReplayBrainEntry: the create line with a zero vector.
ReplayedTask == [CreatedTask EXCEPT !.degraded = TRUE]

Commands ==
         [op : Leasing, owner : Owners, lease : Leases, text : {NoText}]
  \union [op : {"release"}, owner : Owners, lease : {0}, text : {NoText}]
  \union [op : Closing \union {"reviewed"}, owner : {NoOwner}, lease : {0}, text : Texts]
  \union [op : {"cancel", "lease_expired"}, owner : {NoOwner}, lease : {0}, text : {NoText}]

NoCommand == [op |-> "none", owner |-> NoOwner, lease |-> 0, text |-> NoText]

DriftKinds == {"cancelled_projection", "missing_projection", "projection_drift",
               "orphaned_lease", "stale_lease"}

PC == {"idle", "upsert", "write", "check", "log", "delete",
       "creates", "scroll", "apply", "project",
       "drain", "dequeue", "rescan", "heal"}

Process == [pc : PC, cmd : Commands \union {NoCommand},
            cur : Task,                      \* the task as it was read
            at : Time,                       \* the time it was read
            exp : Projected,                 \* the fold a reconcile has read
            todo : SUBSET DriftKinds]        \* the repairs it has left

Idle == [pc |-> "idle", cmd |-> NoCommand, cur |-> NoTask, at |-> 0,
         exp |-> NoLog, todo |-> {}]

TypeOK ==
    /\ task \in Task
    /\ log \in Projected
    /\ queued \in BOOLEAN
    /\ proc \in [Procs -> Process]
    /\ now \in Time
    /\ budget \in Nat
    /\ told \in [Owners -> Time]

--------------------------------------------------------------------------------
(* Reading *)

Exists(t)     == t.status # "none"
Projection(t) == [status |-> t.status, owner |-> t.owner,
                  claimed |-> t.claimed, lease |-> t.lease]

LeaseActive(t)    == t.lease > now
HeldByOther(o, t) == t.owner \notin {NoOwner, o} /\ LeaseActive(t)

\* Operations that start or unblock a task whoever holds it.
Legal_AnyLease(c, t) ==
    /\ c.op = "start" => t.status \in {"pending", "in_progress"}
    /\ c.op = "unblock" => t.status = "blocked"
    /\ c.op \in {"renew", "release"} => t.status = "in_progress" /\ t.owner = c.owner
    /\ c.op \in {"done", "blocked"} => t.status # c.op
    /\ c.op = "ready_for_live" => t.status # "done"

\* Whether the operation accepts the task it has read.
Legal(c, t) ==
    /\ c.op = "start" => t.status \in {"pending", "in_progress"}
    /\ c.op = "unblock" => t.status = "blocked"
    /\ c.op \in {"start", "unblock"} => ~HeldByOther(c.owner, t)
    /\ c.op \in {"renew", "release"} => t.status = "in_progress" /\ t.owner = c.owner
    /\ c.op \in {"done", "blocked"} => t.status # c.op
    /\ c.op = "ready_for_live" => t.status # "done"

--------------------------------------------------------------------------------
(* Writing *)

\* The filter without the task_version condition.
Matches_NoVersion(q, t) ==
    /\ t.status = q.cur.status
    /\ q.cmd.op \in Leasing \union {"release"} /\ q.cur.owner # NoOwner
         => t.owner = q.cur.owner

\* The filter of the write: the task is still as it was read.
Matches(q, t) ==
    /\ t.status = q.cur.status
    /\ t.version = q.cur.version
    /\ q.cmd.op \in Leasing \union {"release"} /\ q.cur.owner # NoOwner
         => t.owner = q.cur.owner

LeaseEnd(q) == q.at + q.cmd.lease

\* A write that does not count the version up.
NextVersion_Same(t) == t.version

\* taskVersionedPayload: every write carries the version it read plus one.
NextVersion(t) == t.version + 1

\* A release that gives the task up and keeps its lease.
Unclaimed_KeepsLease(t) == [t EXCEPT !.status = "pending", !.owner = NoOwner, !.claimed = 0]

Unclaimed(t) ==
    [t EXCEPT !.status = "pending", !.owner = NoOwner, !.claimed = 0, !.lease = 0]

\* The keys the operation sets on the stored task t, apart from task_version.
Payload(q, t) ==
    CASE q.cmd.op \in {"start", "unblock"} ->
           [t EXCEPT !.status = "in_progress", !.owner = q.cmd.owner,
                     !.claimed = q.at, !.lease = LeaseEnd(q), !.text = NoText]
      [] q.cmd.op = "renew"   -> [t EXCEPT !.lease = LeaseEnd(q)]
      [] q.cmd.op = "release" -> Unclaimed(t)
      [] q.cmd.op \in Closing -> [t EXCEPT !.status = q.cmd.op, !.text = q.cmd.text]
      [] OTHER                -> [t EXCEPT !.review = q.cmd.text]

\* A read-back that does not compare the lease.
Confirmed_AnyLease(q, t) ==
    /\ q.cmd.op \in Leasing => t.status = "in_progress" /\ t.owner = q.cmd.owner
    /\ q.cmd.op = "release" => t.status = "pending" /\ t.owner = NoOwner
    /\ q.cmd.op \in Closing => t.status = q.cmd.op /\ t.text = q.cmd.text
    /\ q.cmd.op = "reviewed" => t.review = q.cmd.text

\* What the operation must find when it reads the task back.
Confirmed(q, t) ==
    /\ q.cmd.op \in Leasing =>
         t.status = "in_progress" /\ t.owner = q.cmd.owner /\ t.lease = LeaseEnd(q)
    /\ q.cmd.op = "release" => t.status = "pending" /\ t.owner = NoOwner
    /\ q.cmd.op \in Closing => t.status = q.cmd.op /\ t.text = q.cmd.text
    /\ q.cmd.op = "reviewed" => t.review = q.cmd.text

\* foldTaskEvents: the projection e after the event of q, logged at time at.
\* Only a claim or a release takes a cancellation back.
Fold(e, q, at) ==
    CASE q.cmd.op \in {"start", "unblock"} ->
           [status |-> "in_progress", owner |-> q.cmd.owner, claimed |-> at,
            lease |-> LeaseEnd(q), cancelled |-> FALSE]
      [] q.cmd.op = "renew" ->
           [status |-> "in_progress", owner |-> q.cmd.owner, claimed |-> e.claimed,
            lease |-> LeaseEnd(q), cancelled |-> FALSE]
      [] q.cmd.op \in {"release", "lease_expired"} -> CreatedLog
      [] q.cmd.op \in Closing -> [e EXCEPT !.status = q.cmd.op]
      [] q.cmd.op = "cancel" -> [NoLog EXCEPT !.status = "cancelled", !.cancelled = TRUE]
      [] OTHER -> e

--------------------------------------------------------------------------------
(* Creating the task *)

SetProc(p, q) == proc' = [proc EXCEPT ![p] = q]

\* CreateTask: the line and its "created" event first, the point later.
Create(p) ==
    /\ log = NoLog
    /\ proc[p] = Idle
    /\ log' = CreatedLog
    /\ SetProc(p, [Idle EXCEPT !.pc = "upsert"])
    /\ UNCHANGED <<task, queued, now, budget, told>>

UpsertCreated(p) ==
    /\ proc[p].pc = "upsert"
    /\ task' = CreatedTask
    /\ SetProc(p, Idle)
    /\ UNCHANGED <<log, queued, now, budget, told>>

\* OutboxQueued: the command that called CreateTask writes the outbox entry.
UpsertFails(p) ==
    /\ "store" \in Faults
    /\ proc[p].pc = "upsert"
    /\ queued' = TRUE
    /\ SetProc(p, Idle)
    /\ UNCHANGED <<task, log, now, budget, told>>

--------------------------------------------------------------------------------
(* Commands on the task *)

\* GetTask, and the reasons to refuse.  A task that is not there, or that the
\* operation does not accept, ends the command and changes nothing.
Begin(p, c) ==
    /\ budget > 0
    /\ proc[p] = Idle
    /\ c.op \in Ops
    /\ Exists(task)
    /\ Legal(c, task)
    /\ SetProc(p, [Idle EXCEPT !.pc = IF c.op = "cancel" THEN "delete" ELSE "write",
                               !.cmd = c, !.cur = task, !.at = now])
    /\ budget' = budget - 1
    /\ UNCHANGED <<task, log, queued, now, told>>

\* The owner's claim is being changed: what it was told before is void.
Untold(q) ==
    told' = IF q.cmd.owner \in Owners THEN [told EXCEPT ![q.cmd.owner] = 0] ELSE told

\* setTaskPayloadByFilter, when the filter selects the task.
WriteMatches(p) ==
    /\ proc[p].pc = "write"
    /\ Matches(proc[p], task)
    /\ task' = [Payload(proc[p], task) EXCEPT !.version = NextVersion(proc[p].cur)]
    /\ Untold(proc[p])
    /\ SetProc(p, [proc[p] EXCEPT !.pc = "check"])
    /\ UNCHANGED <<log, queued, now, budget>>

\* When it selects nothing, the store writes nothing and reports no error.
WriteMisses(p) ==
    /\ proc[p].pc = "write"
    /\ ~Matches(proc[p], task)
    /\ SetProc(p, [proc[p] EXCEPT !.pc = "check"])
    /\ UNCHANGED <<task, log, queued, now, budget, told>>

\* The second GetTask decides whether the operation has succeeded.
ReadBack(p) ==
    /\ proc[p].pc = "check"
    /\ Exists(task)
    /\ Confirmed(proc[p], task)
    /\ told' = IF proc[p].cmd.op \in Leasing
               THEN [told EXCEPT ![proc[p].cmd.owner] = LeaseEnd(proc[p])] ELSE told
    /\ SetProc(p, [proc[p] EXCEPT !.pc = "log"])
    /\ UNCHANGED <<task, log, queued, now, budget>>

ReadBackFails(p) ==
    /\ proc[p].pc = "check"
    /\ ~Exists(task) \/ ~Confirmed(proc[p], task)
    /\ SetProc(p, Idle)
    /\ UNCHANGED <<task, log, queued, now, budget, told>>

\* CancelTask: the point is deleted by id, whatever it has become.
Delete(p) ==
    /\ proc[p].pc = "delete"
    /\ task' = NoTask
    /\ SetProc(p, [proc[p] EXCEPT !.pc = "log"])
    /\ UNCHANGED <<log, queued, now, budget, told>>

AppendTaskEvent(p) ==
    /\ proc[p].pc = "log"
    /\ log' = Fold(log, proc[p], now)
    /\ SetProc(p, Idle)
    /\ UNCHANGED <<task, queued, now, budget, told>>

\* Killed between two steps.
Crash(p) ==
    /\ "crash" \in Faults
    /\ budget > 0
    /\ proc[p] # Idle
    /\ budget' = budget - 1
    /\ SetProc(p, Idle)
    /\ UNCHANGED <<task, log, queued, now, told>>

Tick ==
    /\ now < MaxTime
    /\ now' = now + 1
    /\ UNCHANGED <<task, log, queued, proc, budget, told>>

--------------------------------------------------------------------------------
(* gg reconcile --apply *)

\* The event log is read first ...
ReadEvents(p) ==
    /\ "reconcile" \in Repairs
    /\ proc[p] = Idle
    /\ SetProc(p, [Idle EXCEPT !.pc = "creates", !.exp = log])
    /\ UNCHANGED <<task, log, queued, now, budget, told>>

\* ... then tasks.jsonl, which may know a task that had no event yet ...
ReadCreates(p) ==
    /\ proc[p].pc = "creates"
    /\ SetProc(p, [proc[p] EXCEPT
                     !.pc  = "scroll",
                     !.exp = IF @ = NoLog /\ log # NoLog THEN CreatedLog ELSE @])
    /\ UNCHANGED <<task, log, queued, now, budget, told>>

StaleLease(t)    == t.status = "in_progress" /\ t.owner # NoOwner /\ t.lease # 0
                    /\ ~LeaseActive(t)
OrphanedLease(t) == IF t.owner = NoOwner THEN t.claimed # 0 \/ t.lease # 0
                                         ELSE t.lease = 0

\* reconcileTaskDrift.
IsDrift(k, e, t) ==
    /\ e # NoLog
    /\ k = "cancelled_projection" <=> e.cancelled
    /\ k = "missing_projection" <=> ~e.cancelled /\ ~Exists(t)
    /\ k = "cancelled_projection" => Exists(t)
    /\ k = "projection_drift" => Projection(t) # Projection(e)
    /\ k = "stale_lease" => StaleLease(t)
    /\ k = "orphaned_lease" => OrphanedLease(t)

Drifts(e, t) == {k \in DriftKinds : IsDrift(k, e, t)}

\* ... then the store.
Scroll(p) ==
    /\ proc[p].pc = "scroll"
    /\ LET d == Drifts(proc[p].exp, task)
       IN  SetProc(p, IF d = {} THEN Idle
                      ELSE [proc[p] EXCEPT !.pc = "apply", !.cur = task,
                                           !.at = now, !.todo = d])
    /\ UNCHANGED <<task, log, queued, now, budget, told>>

\* SetTaskProjectionPayload: by id, and skipped when there is no point.
SetTaskProjection(f, v) ==
    task' = IF Exists(task)
            THEN [task EXCEPT !.status = f.status, !.owner = f.owner,
                              !.claimed = f.claimed, !.lease = f.lease, !.version = v]
            ELSE task

\* Back to the loop over the drifts, which ends with the last.
AfterRepair(p, k) ==
    SetProc(p, IF proc[p].todo = {k} THEN Idle ELSE [proc[p] EXCEPT !.todo = @ \ {k}])

ReplayMissing(p) ==
    /\ proc[p].pc = "apply"
    /\ "missing_projection" \in proc[p].todo
    /\ task' = ReplayedTask
    /\ SetProc(p, [proc[p] EXCEPT !.pc = "project"])
    /\ UNCHANGED <<log, queued, now, budget, told>>

ProjectReplayed(p) ==
    /\ proc[p].pc = "project"
    /\ SetTaskProjection(proc[p].exp, 1)
    /\ AfterRepair(p, "missing_projection")
    /\ UNCHANGED <<log, queued, now, budget, told>>

\* A repair that leaves the point of a cancelled task where it is.
CancelProjected_Skips(p) ==
    /\ proc[p].pc = "apply"
    /\ "cancelled_projection" \in proc[p].todo
    /\ SetProc(p, Idle)
    /\ UNCHANGED <<task, log, queued, now, budget, told>>

\* CancelTask, whose GetTask may fail: then the reconcile ends.
CancelProjected(p) ==
    /\ proc[p].pc = "apply"
    /\ "cancelled_projection" \in proc[p].todo
    /\ SetProc(p, IF Exists(task)
                  THEN [Idle EXCEPT !.pc = "delete", !.cmd = [NoCommand EXCEPT !.op = "cancel"]]
                  ELSE Idle)
    /\ UNCHANGED <<task, log, queued, now, budget, told>>

\* The drifts are sorted by kind: orphaned_lease, projection_drift, stale_lease.
SetFields(p, k) ==
    /\ proc[p].pc = "apply"
    /\ k \in proc[p].todo
    /\ k = "projection_drift" => "orphaned_lease" \notin proc[p].todo
    /\ SetTaskProjection(IF k = "projection_drift" THEN proc[p].exp ELSE Unclaimed(proc[p].cur),
                         NextVersion(proc[p].cur))
    /\ AfterRepair(p, k)
    /\ UNCHANGED <<log, queued, now, budget, told>>

\* The stale lease is released in the store and, in a second step, in the log.
ReleaseStale(p) ==
    /\ proc[p].pc = "apply"
    /\ proc[p].todo = {"stale_lease"}
    /\ SetTaskProjection(Unclaimed(proc[p].cur), NextVersion(proc[p].cur))
    /\ SetProc(p, [proc[p] EXCEPT !.pc = "log", !.cmd = [NoCommand EXCEPT !.op = "lease_expired"]])
    /\ UNCHANGED <<log, queued, now, budget, told>>

--------------------------------------------------------------------------------
(* Replays and healing *)

\* The doctor, session-start's drain and the healing of a search take the
\* reconcile lock (which a killed process gives back); gg reconcile does not.
LockFree == \A p \in Procs : proc[p].pc \notin {"drain", "dequeue", "rescan", "heal"}

\* replayBrainEntry finds the create line of a queued entry.
DrainRead(p) ==
    /\ "drain" \in Repairs
    /\ proc[p] = Idle /\ LockFree
    /\ queued
    /\ SetProc(p, [Idle EXCEPT !.pc = "drain"])
    /\ UNCHANGED <<task, log, queued, now, budget, told>>

DrainReplay(p) ==
    /\ proc[p].pc = "drain"
    /\ task' = ReplayedTask
    /\ SetProc(p, [proc[p] EXCEPT !.pc = "dequeue"])
    /\ UNCHANGED <<log, queued, now, budget, told>>

Dequeue(p) ==
    /\ proc[p].pc = "dequeue"
    /\ queued' = FALSE
    /\ SetProc(p, Idle)
    /\ UNCHANGED <<task, log, now, budget, told>>

\* Phase 2 of the doctor knows tasks.jsonl, not task-events.jsonl.
RescanRead(p) ==
    /\ "rescan" \in Repairs
    /\ proc[p] = Idle /\ LockFree
    /\ log # NoLog /\ ~Exists(task)
    /\ SetProc(p, [Idle EXCEPT !.pc = "rescan"])
    /\ UNCHANGED <<task, log, queued, now, budget, told>>

RescanReplay(p) ==
    /\ proc[p].pc = "rescan"
    /\ task' = ReplayedTask
    /\ SetProc(p, Idle)
    /\ UNCHANGED <<log, queued, now, budget, told>>

\* HealDegradedVectors scrolls the payloads, embeds them, ...
HealRead(p) ==
    /\ "heal" \in Repairs
    /\ proc[p] = Idle /\ LockFree
    /\ Exists(task) /\ task.degraded
    /\ SetProc(p, [Idle EXCEPT !.pc = "heal", !.cur = task])
    /\ UNCHANGED <<task, log, queued, now, budget, told>>

\* ... and upserts each payload as it was scrolled, without the marker.
HealUpsert(p) ==
    /\ proc[p].pc = "heal"
    /\ task' = [proc[p].cur EXCEPT !.degraded = FALSE]
    /\ SetProc(p, Idle)
    /\ UNCHANGED <<log, queued, now, budget, told>>

--------------------------------------------------------------------------------
(* The whole *)

Init ==
    /\ task = NoTask
    /\ log = NoLog
    /\ queued = FALSE
    /\ proc = [p \in Procs |-> Idle]
    /\ now = 1
    /\ budget = Budget
    /\ told = [o \in Owners |-> 0]

\* What a process does once it has begun.
Step(p) ==
    \/ UpsertCreated(p) \/ UpsertFails(p)
    \/ WriteMatches(p) \/ WriteMisses(p)
    \/ ReadBack(p) \/ ReadBackFails(p)
    \/ Delete(p) \/ AppendTaskEvent(p)
    \/ ReadCreates(p) \/ Scroll(p)
    \/ ReplayMissing(p) \/ ProjectReplayed(p) \/ CancelProjected(p)
    \/ \E k \in {"orphaned_lease", "projection_drift"} : SetFields(p, k)
    \/ ReleaseStale(p)
    \/ DrainReplay(p) \/ Dequeue(p) \/ RescanReplay(p) \/ HealUpsert(p)

StartRepair(p) == ReadEvents(p) \/ DrainRead(p) \/ RescanRead(p) \/ HealRead(p)

Next ==
    \/ \E p \in Procs :
         \/ Create(p)
         \/ \E c \in Commands : Begin(p, c)
         \/ Step(p)
         \/ StartRepair(p)
         \/ Crash(p)
    \/ Tick

Spec == Init /\ [][Next]_vars

\* A process that runs takes its next step unless it is killed, the clock goes
\* on, and somebody runs `gg reconcile --apply' again and again.
FairSpec ==
    /\ Spec
    /\ \A p \in Procs : WF_vars(Step(p)) /\ WF_vars(ReadEvents(p))
    /\ WF_vars(Tick)

--------------------------------------------------------------------------------
(* Properties *)

Holds(o) == told[o] > now

\* The point of claiming: two agents are never both told that they hold the
\* task until a time that has not come (cmd/task_claim.go: "Existing active
\* claims are refused unless the lease has expired.").
ExclusiveClaim ==
    \A o1, o2 \in Owners : Holds(o1) /\ Holds(o2) => o1 = o2

\* A claim that was confirmed is in the store, with the lease that was told,
\* until it runs out, its owner changes it, or the task is cancelled: whatever
\* other agents do to the status meanwhile.
ClaimIsStored ==
    \A o \in Owners :
        Holds(o) /\ Exists(task) => task.owner = o /\ task.lease = told[o]

\* No two writes start from the same state of the task: each one that changes
\* it moves the version past every version it has had, so that the filter of
\* any other command that has read it misses.
VersionAdvances ==
    [][Exists(task) /\ Exists(task') /\ task' # task => task'.version > task.version]_vars

\* The create may still put the task into the store.
Expected == log = NoLog \/ \E p \in Procs : proc[p].pc = "upsert"

Lifecycle == INSTANCE TaskLifecycle WITH expected <- Expected

\* However commands interleave and whatever is killed between two of their steps,
\* the task changes as if each had read, decided and written at once, and by the
\* clock of that moment: no command is applied to a task it would have refused.
ImplementsLifecycle == Lifecycle!Spec

\* Owner and lease come and go together, in the store, in the log and in every
\* copy a process has read, whatever repairs and kills are mixed in: `gg
\* reconcile' never meets the orphaned lease it looks for (reconcile.go:339).
NeverOrphaned ==
    /\ ~OrphanedLease(task)
    /\ ~OrphanedLease(log)
    /\ \A p \in Procs : ~OrphanedLease(proc[p].cur) /\ ~OrphanedLease(proc[p].exp)

Settled == Drifts(log, task) = {}

\* A drain, a rescan or a healing is under way.
DoctorAtWork == \E p \in Procs : proc[p].pc \in {"drain", "dequeue", "rescan", "heal"}

\* However commands and repairs were interleaved or killed: when from some time
\* on nothing but gg reconcile --apply repairs, running it again and again brings
\* the store and the event log together, and to a state with no expired lease.
\* A doctor that goes on may undo what the reconcile has done.
ReconcileSettles == <>[]~DoctorAtWork => <>[]Settled

================================================================================
