---------------------------- MODULE ClaimInvariant -----------------------------
(***************************************************************************)
(* Why a claim is exclusive while no repair runs: the inductive invariant  *)
(* that TaskClaims_proofs proves and that TLC checks on small instances.   *)
(***************************************************************************)
EXTENDS TaskClaims

\* Without repairs, these are the only points a process stops at.
CommandPC == {"idle", "upsert", "write", "check", "log", "delete"}

OnlyCommands == \A p \in Procs : proc[p].pc \in CommandPC

\* Nothing happens before the create, and nothing but the create until the
\* point is there.
NothingBefore ==
    log = NoLog => /\ task = NoTask
                   /\ \A p \in Procs : proc[p] = Idle
                   /\ \A o \in Owners : told[o] = 0

CreatorIsAlone ==
    \A p \in Procs : proc[p].pc = "upsert" =>
        /\ task = NoTask
        /\ \A q \in Procs \ {p} : proc[q] = Idle
        /\ \A o \in Owners : told[o] = 0

\* The version identifies the state of the task: a command that is about to
\* write and sees its version in the store sees exactly what it has read.
VersionIdentifies ==
    \A p \in Procs : proc[p].pc = "write" /\ Exists(task) =>
        /\ proc[p].cur.version <= task.version
        /\ proc[p].cur.version = task.version => proc[p].cur = task

\* What was legal when it was read stays legal: leases only run out.
StillLegal ==
    \A p \in Procs : proc[p].pc = "write" =>
        Exists(proc[p].cur) /\ Legal(proc[p].cmd, proc[p].cur)

\* A command about to write is one that writes, and has read in the past.
AtWork ==
    \A p \in Procs :
        /\ proc[p].at <= now
        /\ proc[p].pc = "write" => proc[p].cmd.op \in AllOps \ {"cancel"}

\* What makes a claim exclusive ...
ClaimCore ==
    /\ OnlyCommands
    /\ NothingBefore
    /\ CreatorIsAlone
    /\ VersionIdentifies
    /\ StillLegal
    /\ ClaimIsStored
    /\ ExclusiveClaim

\* ... and, with AtWork, each command one step of TaskLifecycle.
ClaimInv == ClaimCore /\ AtWork

\* A reconcile that writes from the log has read a live task there; replaying
\* a task, or cancelling it, is the whole of a reconcile's repairs.
WellFormed(q) ==
    /\ q.pc \in {"apply", "project"} /\ "cancelled_projection" \notin q.todo
         => q.exp.status \in Statuses
    /\ q.pc = "project" => q.todo = {"missing_projection"}
    /\ \A k \in {"missing_projection", "cancelled_projection"} :
         q.pc = "apply" /\ k \in q.todo => q.todo = {k}

RepairsWellFormed == \A p \in Procs : WellFormed(proc[p])

\* A renewal is written by the owner it has read.  With it, the pairing of
\* owner and lease is inductive whatever repairs run.
RenewerOwns ==
    \A p \in Procs :
        proc[p].pc = "write" /\ proc[p].cmd.op = "renew"
            => proc[p].cur.owner = proc[p].cmd.owner

PairInv == RenewerOwns /\ NeverOrphaned

================================================================================
