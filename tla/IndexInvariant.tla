----------------------------- MODULE IndexInvariant -----------------------------
(***************************************************************************)
(* What makes the safety properties of CodeIndex inductive: where the lock *)
(* files come from, and what the graph holds at each point of a run.       *)
(***************************************************************************)
EXTENDS CodeIndex

\* What the graph of a tree is.
ProjectionOf(tree) == [f \in Sources |-> NodeOf(tree, f)]

\* The graph is that of the recorded tree.
Current == state.sha # NoCommit => graph = ProjectionOf(state.tree)

\* Where a process is past its lock.
Locked == {"watch", "plan", "release"} \union Working

\* A lock file that names a process was created by it, and the process has not
\* come to its deferred removal yet.
HoldersOK ==
    \A k \in {"index", "watch"}, p \in Procs :
        lock[k] = p => k = LockName(p) /\ proc[p].pc \in {"stamp"} \union Locked

\* The graph without the nodes of some files.
Missing(files) == [f \in Sources |-> IF f \in files THEN NoNode ELSE NodeOf(work, f)]

\* A run that renews single files builds on the others: on those of the recorded
\* run, unless an entry tells that a later one was cut short.
BuildsOnGood(w) ==
    \/ w.kind = "full"
    \/ IF w.pc \in {"invalidate", "intent"} THEN ~intent ELSE ~w.owed

\* What the graph is at each point of a run that renews files.
Renewing(w) ==
    /\ w.pc = "invalidate" =>
          \A f \in Sources \ w.todo : graph[f] = Missing(w.files)[f]
    /\ w.pc = "intent" => w.kind = "full" \/ graph = Missing(w.files)
    /\ w.pc = "scan"  => graph = Missing(w.files)
    /\ w.pc = "store" => w.seen = work /\ graph = Missing(w.todo)
    /\ w.pc = "state" => graph = ProjectionOf(work)
    /\ w.pc = "clean" => graph = ProjectionOf(state.tree)

\* What a run can rely on, by the kind that was decided on.
RunOK(w) ==
    \/ /\ w.kind = "full"
       /\ w.pc # "invalidate"
       /\ w.files = Sources
       /\ IF w.pc = "intent" THEN intent \/ Current ELSE intent
       /\ Renewing(w)
    \/ /\ w.kind = "changed"
       /\ w.pc # "sweep"
       /\ IF w.pc \in {"invalidate", "intent"} THEN state.tree # work ELSE intent
       /\ w.pc = "invalidate" => w.todo \subseteq w.files
       /\ w.pc = "invalidate" /\ w.todo = w.files => intent \/ Current
       /\ BuildsOnGood(w) => Renewing(w)
    \/ /\ w.kind = "advance"
       /\ w.pc = "state"
       /\ Matches
       /\ intent \/ Current
    \/ /\ w.kind = "empty"
       /\ ~HasModules(work)
       /\ state.tree # work
       /\ \/ w.pc = "sweep" /\ (intent \/ Current)
          \/ w.pc = "state" /\ graph = ProjectionOf(work)

\* One run at a time touches the graph, the tree stands still under it, and
\* between runs the graph is that of the recorded tree, or an entry tells that it
\* may not be.
RunsOK ==
    ~unsure =>
        /\ \A p, q \in Procs : Busy(p) /\ Busy(q) => p = q
        /\ \A p \in Procs : Busy(p) => RunOK(proc[p])
        /\ (\A p \in Procs : ~Busy(p)) => intent \/ Current

\* The inductive invariant of the index runs.
IndexInv == HoldersOK /\ RunsOK

================================================================================
