------------------------------- MODULE CodeIndex -------------------------------
(***************************************************************************)
(* The code graph and what keeps it up to date: gg index, gg index         *)
(* --changed (the git hooks run it) and gg index --watch                   *)
(* (cmd/index.go, cmd/index_lock.go, cmd/index_watch.go), for one          *)
(* language.  Every command is a process of its own; the processes share   *)
(*                                                                         *)
(*   work, head  the working tree and the commit it was checked out from,  *)
(*               which belong to the user;                                 *)
(*   graph       what .gg/graph.db holds of each source file;              *)
(*   state       .gg/index-state.json;                                     *)
(*   intent      whether .gg/outbox/ has an entry of an index run;         *)
(*   lock        .gg/index.lock and .gg/index-watch.lock.                  *)
(*                                                                         *)
(* A run decides from state and tree what to do, takes the old nodes away, *)
(* scans the tree, stores the new nodes and records in `state' the tree as *)
(* it is by then.                                                          *)
(***************************************************************************)
EXTENDS Integers

CONSTANTS
    Procs,      \* processes
    Hooks,      \* those of them that git hooks start, the others being started by hand
    Sources,    \* the source files of the language
    Manifest,   \* the file that makes a directory a module: go.mod, ...
    Versions,   \* contents of a file
    Absent,     \* the content of a file that is not there
    Commits,    \* commits
    NoCommit,   \* no commit: nothing was indexed yet
    Tree,       \* Tree[c]: the files of commit c
    Ancestors,  \* Ancestors[c]: the ancestors of c, and c
    Threshold,  \* failures that open the circuit breaker
    Budget,     \* bound: edits, commands and faults, together
    Jobs,       \* what processes run, a subset of AllJobs
    Faults      \* what may go wrong, a subset of AllFaults

AllJobs == {"full", "changed", "watch"}

\* "fail": a step of a run returns an error; "crash": a process is killed;
\* "reuse": the system gives its pid to another process.
AllFaults == {"fail", "crash", "reuse"}

Files   == Sources \union {Manifest}
Content == Versions \union {Absent}
Trees   == [Files -> Content]

ASSUME ConstantsOK ==
    /\ {"none", "empty", "left", "reused", "expired"} \intersect Procs = {}
    /\ Hooks \subseteq Procs
    /\ Manifest \notin Sources
    /\ Absent \notin Versions
    /\ NoCommit \notin Commits
    /\ Tree \in [Commits -> Trees]
    /\ Ancestors \in [Commits -> SUBSET Commits]
    /\ Threshold \in Nat \ {0}
    /\ Budget \in Nat
    /\ Jobs \subseteq AllJobs
    /\ Faults \subseteq AllFaults

VARIABLES
    work,       \* the working tree
    head,       \* the commit that is checked out
    graph,      \* graph[f]: what the nodes of f were made from
    state,      \* the commit and the tree of the last recorded run
    intent,     \* an index entry waits in the outbox
    lock,       \* the two lock files
    proc,       \* proc[p]: what process p is running
    budget,     \* auxiliary: edits, commands and faults that are left
    unsure      \* auxiliary: what the graph was made from can no longer be told

vars == <<work, head, graph, state, intent, lock, proc, budget, unsure>>

--------------------------------------------------------------------------------
(* Data *)

\* The nodes of a file tell its content and the module it belongs to.
Node   == Content \X Content
NoNode == <<Absent, Absent>>

HasModules(tree) == tree[Manifest] # Absent

NodeOf(tree, f) == IF tree[f] # Absent /\ HasModules(tree)
                   THEN <<tree[f], tree[Manifest]>>
                   ELSE NoNode

\* The sha and the fingerprint of the delta to it, which give the tree.
State   == [sha : Commits \union {NoCommit}, tree : Trees]
NoState == [sha |-> NoCommit, tree |-> [f \in Files |-> Absent]]

\* The file of a lock: none, the one p has created, or one of a killed process --
\* without a pid yet; with a pid nobody has; with one that runs again, of an
\* unrelated process; and, of index.lock only, that one older than 15 minutes.  A
\* run of its own ends by its 10-minute deadline, so its lock is never that old.
LockFile == {"none", "empty", "left", "reused", "expired"} \union Procs

Acquiring == {"look", "remove", "create", "stamp"}
Working   == {"invalidate", "intent", "sweep", "scan", "store", "state", "clean"}
PC        == {"idle", "watch", "plan", "release"} \union Acquiring \union Working

Kinds == {"none", "full", "changed", "advance", "empty"}

Process == [pc : PC, job : AllJobs \union {"none"},
            full    : BOOLEAN,              \* a full run is asked for
            kind    : Kinds,                \* the run that was decided on
            sha     : Commits \union {NoCommit},
            files   : SUBSET Sources,       \* the files a run renews
            todo    : SUBSET Sources,
            owed    : BOOLEAN,              \* an earlier run has left an entry
            seen    : Trees,                \* the tree the indexer scanned
            keys    : SUBSET Files,         \* the change set of the debouncer
            breaker : {"closed", "open", "half_open"},
            fails   : 0..Threshold]

Idle == [pc |-> "idle", job |-> "none", full |-> FALSE, kind |-> "none",
         sha |-> NoCommit, files |-> {}, todo |-> {}, owed |-> FALSE,
         seen |-> NoState.tree, keys |-> {}, breaker |-> "closed", fails |-> 0]

TypeOK ==
    /\ work \in Trees
    /\ head \in Commits
    /\ graph \in [Sources -> Node]
    /\ state \in State
    /\ intent \in BOOLEAN
    /\ lock \in [{"index", "watch"} -> LockFile]
    /\ proc \in [Procs -> Process]
    /\ budget \in Nat
    /\ unsure \in BOOLEAN

SetProc(p, new) == proc' = [proc EXCEPT ![p] = new]
Goto(p, pc)     == SetProc(p, [proc[p] EXCEPT !.pc = pc])
Spend           == budget > 0 /\ budget' = budget - 1

LockName(p)    == IF proc[p].job = "watch" THEN "watch" ELSE "index"
Busy(p)        == proc[p].pc \in Working
Delta(c, tree) == {f \in Files : tree[f] # Tree[c][f]}

\* The comparison of the two fingerprints, by every reader of `state'.
Matches == state.sha # NoCommit /\ state.tree = work

--------------------------------------------------------------------------------
(* The user *)

\* A change of the tree under a run is taken in by some of its reads only.
NewTree(tree) ==
    /\ work' = tree
    /\ unsure' = (unsure \/ \E p \in Procs : Busy(p) /\ tree # work)

Edit(f, c) ==
    /\ Spend
    /\ c # work[f]
    /\ NewTree([work EXCEPT ![f] = c])
    /\ UNCHANGED <<head, graph, state, intent, lock, proc>>

\* A commit of everything, a branch switch, a reset.
Checkout(c) ==
    /\ Spend
    /\ c # head
    /\ head' = c
    /\ NewTree(Tree[c])
    /\ UNCHANGED <<graph, state, intent, lock, proc>>

--------------------------------------------------------------------------------
(* The locks *)

\* The age of index.lock left out of account.
Held_Ageless(k) ==
    \/ lock[k] \in Procs /\ proc[lock[k]].pc # "stamp"
    \/ lock[k] \in {"reused", "expired"}

\* A lock file holds off others while its pid runs, whoever has it.  Before its
\* pid is in it the file is empty, and an empty file is none.
Held(k) ==
    \/ lock[k] \in Procs /\ proc[lock[k]].pc # "stamp"
    \/ lock[k] = "reused"

Start(p, job) ==
    /\ job \in Jobs
    /\ proc[p] = Idle
    /\ Spend

\* A watcher looks at its own lock only; a one-shot run then at the other one.
Look(p, job) ==
    /\ p \notin Hooks
    /\ Start(p, job)
    /\ ~Held("watch")
    /\ SetProc(p, [Idle EXCEPT !.pc = IF job = "watch" THEN "remove" ELSE "look",
                               !.job = job, !.full = (job = "full")])
    /\ UNCHANGED <<work, head, graph, state, intent, lock, unsure>>

\* Also of a run that a git hook starts (for its others see Hook).
Skip(p, job) ==
    /\ Start(p, job)
    /\ Held("watch")
    /\ UNCHANGED <<work, head, graph, state, intent, lock, proc, unsure>>

LookIndex(p) ==
    /\ proc[p].pc = "look"
    /\ ~Held("index")
    /\ Goto(p, "remove")
    /\ UNCHANGED <<work, head, graph, state, intent, lock, budget, unsure>>

SkipIndex(p) ==
    /\ proc[p].pc = "look"
    /\ Held("index")
    /\ SetProc(p, Idle)
    /\ UNCHANGED <<work, head, graph, state, intent, lock, budget, unsure>>

\* A lock that was judged free is removed, whatever it is by now ...
RemoveStale(p) ==
    /\ proc[p].pc = "remove"
    /\ lock' = [lock EXCEPT ![LockName(p)] = "none"]
    /\ Goto(p, "create")
    /\ UNCHANGED <<work, head, graph, state, intent, budget, unsure>>

\* ... and created with O_EXCL ...
CreateLock(p) ==
    /\ proc[p].pc = "create"
    /\ lock[LockName(p)] = "none"
    /\ lock' = [lock EXCEPT ![LockName(p)] = p]
    /\ Goto(p, "stamp")
    /\ UNCHANGED <<work, head, graph, state, intent, budget, unsure>>

CreateLoses(p) ==
    /\ proc[p].pc = "create"
    /\ lock[LockName(p)] # "none"
    /\ SetProc(p, Idle)
    /\ UNCHANGED <<work, head, graph, state, intent, lock, budget, unsure>>

\* ... before the pid is written into it.
StampLock(p) ==
    /\ proc[p].pc = "stamp"
    /\ Goto(p, IF proc[p].job = "watch" THEN "watch" ELSE "plan")
    /\ UNCHANGED <<work, head, graph, state, intent, lock, budget, unsure>>

\* The deferred removal, of whatever file is there.
Release(p) ==
    /\ proc[p].pc = "release"
    /\ lock' = [lock EXCEPT ![LockName(p)] = "none"]
    /\ SetProc(p, Idle)
    /\ UNCHANGED <<work, head, graph, state, intent, budget, unsure>>

--------------------------------------------------------------------------------
(* What to do *)

\* The state cannot be built upon: none, or one of another line of history.
NoBase == state.sha = NoCommit \/ state.sha \notin Ancestors[head]

\* The recorded tree has changes of its own, which a diff to its commit misses.
WasDirty_Never == FALSE
WasDirty == ~NoBase /\ state.tree # Tree[state.sha]

ModuleChange == ~NoBase /\ Manifest \in Delta(state.sha, work)

NeedsFull == NoBase \/ (~Matches /\ (WasDirty \/ ModuleChange))

\* The run takes its base commit and enters the part that touches the graph.  A
\* second run in there makes both unsure.
Decide(p, new) ==
    /\ SetProc(p, [new EXCEPT !.sha = head])
    /\ unsure' = (unsure \/ \E q \in Procs \ {p} : Busy(q))
    /\ UNCHANGED <<work, head, graph, state, intent, lock, budget>>

\* runFullIndex, which fails when there is no module (see Fail).  runChangedIndex
\* looks for modules itself when a manifest changed.
PlanFull(p) ==
    /\ proc[p].pc = "plan"
    /\ proc[p].full \/ NeedsFull
    /\ HasModules(work)
    /\ Decide(p, [proc[p] EXCEPT !.pc = "intent", !.kind = "full", !.files = Sources])

PlanAdvance(p) ==
    /\ proc[p].pc = "plan"
    /\ ~proc[p].full
    /\ ~NoBase
    /\ Matches
    /\ Decide(p, [proc[p] EXCEPT !.pc = "state", !.kind = "advance"])

Empties == ~Matches /\ ~WasDirty /\ ModuleChange /\ ~HasModules(work)

PlanEmpty(p) ==
    /\ proc[p].pc = "plan"
    /\ ~proc[p].full
    /\ Empties
    /\ Decide(p, [proc[p] EXCEPT !.pc = "sweep", !.kind = "empty"])

\* The changed files and those that import one of them.
PlanChanged(p) ==
    /\ proc[p].pc = "plan"
    /\ ~proc[p].full
    /\ ~NeedsFull
    /\ ~Matches
    /\ \E importers \in SUBSET {f \in Sources : graph[f] # NoNode} :
        LET files == Delta(state.sha, work) \union importers IN
        Decide(p, [proc[p] EXCEPT !.pc = "invalidate", !.kind = "changed",
                                  !.files = files, !.todo = files])

--------------------------------------------------------------------------------
(* The run *)

\* One file less to do.
Done(p, f, next) ==
    LET rest == proc[p].todo \ {f} IN
    SetProc(p, [proc[p] EXCEPT !.todo = rest, !.pc = IF rest = {} THEN next ELSE @])

\* A run that renews single files takes their nodes away first ...
Invalidate(p) ==
    /\ proc[p].pc = "invalidate"
    /\ \E f \in proc[p].todo :
        /\ graph' = [graph EXCEPT ![f] = NoNode]
        /\ Done(p, f, "intent")
    /\ UNCHANGED <<work, head, state, intent, lock, budget, unsure>>

\* ... and then writes down what it is about to do; a full run does it first.
WriteIntent(p) ==
    /\ proc[p].pc = "intent"
    /\ intent' = TRUE
    /\ SetProc(p, [proc[p] EXCEPT !.owed = intent,
                     !.pc = IF proc[p].kind = "full" THEN "sweep" ELSE "scan"])
    /\ UNCHANGED <<work, head, graph, state, lock, budget, unsure>>

AfterSweep(p) == Goto(p, IF proc[p].kind = "full" THEN "scan" ELSE "state")

\* Only the nodes of the present files are swept.
SweepProjectLang_PresentOnly(p) ==
    /\ proc[p].pc = "sweep"
    /\ graph' = [f \in Sources |-> IF work[f] = Absent THEN graph[f] ELSE NoNode]
    /\ AfterSweep(p)
    /\ UNCHANGED <<work, head, state, intent, lock, budget, unsure>>

SweepProjectLang(p) ==
    /\ proc[p].pc = "sweep"
    /\ graph' = [f \in Sources |-> NoNode]
    /\ AfterSweep(p)
    /\ UNCHANGED <<work, head, state, intent, lock, budget, unsure>>

\* A warning, and the run goes on without an entry.
IntentFails(p) ==
    /\ "fail" \in Faults
    /\ Spend
    /\ proc[p].pc = "intent"
    /\ unsure' = TRUE
    /\ SetProc(p, [proc[p] EXCEPT !.owed = intent,
                     !.pc = IF proc[p].kind = "full" THEN "sweep" ELSE "scan"])
    /\ UNCHANGED <<work, head, graph, state, intent, lock>>

\* A full run goes on without the sweep: nodes of deleted files stay.
SweepFails(p) ==
    /\ "fail" \in Faults
    /\ Spend
    /\ proc[p].pc = "sweep"
    /\ proc[p].kind = "full"
    /\ unsure' = TRUE
    /\ AfterSweep(p)
    /\ UNCHANGED <<work, head, graph, state, intent, lock>>

\* The indexer reads the whole tree ...
Scan(p) ==
    /\ proc[p].pc = "scan"
    /\ HasModules(work)
    /\ SetProc(p, [proc[p] EXCEPT !.pc = "store", !.seen = work, !.todo = proc[p].files])
    /\ UNCHANGED <<work, head, graph, state, intent, lock, budget, unsure>>

\* ... and the nodes of the files in question are stored.
Store(p) ==
    /\ proc[p].pc = "store"
    /\ \E f \in proc[p].todo :
        /\ graph' = [graph EXCEPT ![f] = IF proc[p].seen[f] = Absent THEN @
                                          ELSE NodeOf(proc[p].seen, f)]
        /\ Done(p, f, "state")
    /\ UNCHANGED <<work, head, state, intent, lock, budget, unsure>>

\* What a finished run leaves of its process: a watcher goes on watching, its
\* breaker closed and its change set forgotten.
Finish(p) ==
    SetProc(p, IF proc[p].job = "watch"
               THEN [Idle EXCEPT !.pc = "watch", !.job = "watch"]
               ELSE [Idle EXCEPT !.pc = "release", !.job = proc[p].job])

\* Nodes are gone and no entry tells so yet.
Untold(p) ==
    \/ /\ proc[p].kind = "changed"
       /\ \/ proc[p].pc = "intent"
          \/ proc[p].pc = "invalidate" /\ proc[p].todo # proc[p].files
    \/ proc[p].kind = "empty" /\ proc[p].pc = "state"

\* The tree is read once more: this is what the state says was indexed.
WriteState(p) ==
    /\ proc[p].pc = "state"
    /\ state' = [sha |-> proc[p].sha, tree |-> work]
    /\ IF proc[p].kind \in {"full", "changed"} THEN Goto(p, "clean") ELSE Finish(p)
    /\ UNCHANGED <<work, head, graph, intent, lock, budget, unsure>>

\* A warning, and the run counts as a success.
StateFails(p) ==
    /\ "fail" \in Faults
    /\ Spend
    /\ proc[p].pc = "state"
    /\ unsure' = (unsure \/ Untold(p))
    /\ Finish(p)
    /\ UNCHANGED <<work, head, graph, state, intent, lock>>

\* sweepIndexOutbox: the entries of earlier runs go as well, also when this run
\* renewed a few files and the earlier one had emptied the graph.
CleanOutbox(p) ==
    /\ proc[p].pc = "clean"
    /\ intent' = FALSE
    /\ unsure' = (unsure \/ (proc[p].kind = "changed" /\ proc[p].owed))
    /\ Finish(p)
    /\ UNCHANGED <<work, head, graph, state, lock, budget>>

--------------------------------------------------------------------------------
(* A run that is cut short *)

\* The deadline of a run taken for a Ctrl-C: the probe is never settled.
Failed_Unsettled(p) ==
    SetProc(p, IF proc[p].job = "watch"
               THEN [Idle EXCEPT !.pc = "watch", !.job = "watch",
                         !.breaker = IF proc[p].breaker = "half_open" THEN "half_open" ELSE "open",
                         !.fails = Threshold]
               ELSE [Idle EXCEPT !.pc = "release", !.job = proc[p].job])

\* Past the threshold one failure is as good as another.
Failures(n) == IF n = Threshold THEN n ELSE n + 1

\* RecordFailure, after which the change set must settle anew.
Failed(p) ==
    LET w     == proc[p]
        opens == w.breaker = "half_open" \/ w.fails + 1 >= Threshold IN
    SetProc(p, IF w.job = "watch"
               THEN [Idle EXCEPT !.pc = "watch", !.job = "watch",
                         !.breaker = IF opens THEN "open" ELSE "closed",
                         !.fails = Failures(w.fails)]
               ELSE [Idle EXCEPT !.pc = "release", !.job = w.job])

\* An error of a step, the deadline of the run included.
Fail(p) ==
    /\ "fail" \in Faults
    /\ Spend
    /\ proc[p].pc = "plan" \/ proc[p].pc \in Working \ {"state", "clean"}
    /\ unsure' = (unsure \/ Untold(p))
    /\ Failed(p)
    /\ UNCHANGED <<work, head, graph, state, intent, lock>>

NoModules(p) ==
    /\ ~HasModules(work)
    /\ \/ proc[p].pc = "scan"
       \/ proc[p].pc = "plan" /\ (proc[p].full \/ (NeedsFull /\ ~Empties))
    /\ Failed(p)
    /\ UNCHANGED <<work, head, graph, state, intent, lock, budget, unsure>>

\* Ctrl-C ends a watcher.
Cancel(p) ==
    /\ proc[p].job = "watch"
    /\ proc[p].pc \in {"watch", "plan"} \union Working
    /\ Spend
    /\ unsure' = (unsure \/ Untold(p))
    /\ SetProc(p, [Idle EXCEPT !.pc = "release", !.job = "watch"])
    /\ UNCHANGED <<work, head, graph, state, intent, lock>>

\* A killed process leaves its lock, which names nobody who runs ...
Crash(p) ==
    /\ "crash" \in Faults
    /\ Spend
    /\ proc[p].pc # "idle"
    /\ unsure' = (unsure \/ Untold(p))
    /\ lock' = [k \in DOMAIN lock |->
                   IF lock[k] # p THEN lock[k]
                   ELSE IF proc[p].pc = "stamp" THEN "empty" ELSE "left"]
    /\ SetProc(p, Idle)
    /\ UNCHANGED <<work, head, graph, state, intent>>

\* ... until another process is given its pid (a file that is past its age by then
\* stays one nobody heeds) ...
ReusePid(k) ==
    /\ "reuse" \in Faults
    /\ Spend
    /\ lock[k] = "left"
    /\ lock' = [lock EXCEPT ![k] = "reused"]
    /\ UNCHANGED <<work, head, graph, state, intent, proc, unsure>>

\* ... which ends some day, or never ...
FreePid(k) ==
    /\ lock[k] = "reused"
    /\ lock' = [lock EXCEPT ![k] = "left"]
    /\ UNCHANGED <<work, head, graph, state, intent, proc, budget, unsure>>

\* ... but indexLockStaleAfter passes; the lock of a watcher has no age.
Expire ==
    /\ lock["index"] = "reused"
    /\ lock' = [lock EXCEPT !["index"] = "expired"]
    /\ UNCHANGED <<work, head, graph, state, intent, proc, budget, unsure>>

--------------------------------------------------------------------------------
(* The watcher *)

\* indexWatchNeedsRun.
NeedsRun == NoBase \/ ~Matches

\* coalesceKeys; the manifest stands for the key of a full run.
ChangeSet == IF NeedsFull THEN {Manifest} ELSE Delta(state.sha, work)

TickQuiet(p) ==
    /\ proc[p].pc = "watch"
    /\ ~NeedsRun
    /\ SetProc(p, [proc[p] EXCEPT !.keys = {}])
    /\ UNCHANGED <<work, head, graph, state, intent, lock, budget, unsure>>

\* Another set than at the last tick: the window begins anew.
TickCoalesce(p) ==
    /\ proc[p].pc = "watch"
    /\ NeedsRun
    /\ proc[p].keys # ChangeSet
    /\ SetProc(p, [proc[p] EXCEPT !.keys = ChangeSet])
    /\ UNCHANGED <<work, head, graph, state, intent, lock, budget, unsure>>

\* The window has passed, and the cooldown if the breaker is open: then this
\* run is the probe, and no other may start before it has settled.
TickRun(p) ==
    /\ proc[p].pc = "watch"
    /\ NeedsRun
    /\ proc[p].keys = ChangeSet
    /\ proc[p].breaker # "half_open"
    /\ SetProc(p, [proc[p] EXCEPT !.pc = "plan", !.full = NeedsFull,
                      !.breaker = IF @ = "open" THEN "half_open" ELSE @])
    /\ UNCHANGED <<work, head, graph, state, intent, lock, budget, unsure>>

--------------------------------------------------------------------------------
(* The git hooks *)

\* gg index --changed at every commit, push and merge.  Not charged to the budget;
\* where there is nothing to do, or a watcher's lock makes it skip, see Look and Skip.
Hook(p) ==
    /\ p \in Hooks
    /\ proc[p] = Idle
    /\ NeedsRun
    /\ ~Held("watch")
    /\ SetProc(p, [Idle EXCEPT !.pc = "look", !.job = "changed"])
    /\ UNCHANGED <<work, head, graph, state, intent, lock, budget, unsure>>

--------------------------------------------------------------------------------
\* A project that was never indexed, or one that is up to date.
Init ==
    /\ head \in Commits
    /\ work = Tree[head]
    /\ \/ state = NoState /\ graph = [f \in Sources |-> NoNode]
       \/ /\ state = [sha |-> head, tree |-> work]
          /\ graph = [f \in Sources |-> NodeOf(work, f)]
    /\ intent = FALSE
    /\ lock = [k \in {"index", "watch"} |-> "none"]
    /\ proc = [p \in Procs |-> Idle]
    /\ budget = Budget
    /\ unsure = FALSE

Run(p) ==
    \/ PlanFull(p) \/ PlanAdvance(p) \/ PlanEmpty(p) \/ PlanChanged(p) \/ NoModules(p)
    \/ Invalidate(p) \/ WriteIntent(p) \/ SweepProjectLang(p) \/ Scan(p) \/ Store(p)
    \/ WriteState(p) \/ CleanOutbox(p)

\* What a process does by itself, whatever it is running.
Continue(p) ==
    \/ LookIndex(p) \/ SkipIndex(p) \/ RemoveStale(p) \/ CreateLock(p) \/ CreateLoses(p)
    \/ StampLock(p) \/ Release(p)
    \/ Run(p)
    \/ TickQuiet(p) \/ TickCoalesce(p) \/ TickRun(p)

GoesWrong(p) ==
    \/ IntentFails(p) \/ SweepFails(p) \/ StateFails(p) \/ Fail(p)
    \/ Cancel(p) \/ Crash(p)

Next ==
    \/ \E f \in Files, c \in Content : Edit(f, c)
    \/ \E c \in Commits : Checkout(c)
    \/ \E p \in Procs :
        \/ \E job \in AllJobs : Look(p, job) \/ Skip(p, job)
        \/ Hook(p)
        \/ Continue(p)
        \/ GoesWrong(p)
    \/ \E k \in {"index", "watch"} : ReusePid(k) \/ FreePid(k)
    \/ Expire

Spec == Init /\ [][Next]_vars

\* Processes are scheduled; the window and the cooldown pass, and so do the 15
\* minutes; and there is always another git operation.
Fairness ==
    /\ \A p \in Procs : WF_vars(Continue(p))
    /\ WF_vars(\E p \in Procs : Hook(p))
    /\ WF_vars(Expire)

FairSpec == Spec /\ Fairness

--------------------------------------------------------------------------------
(* Properties *)

Projection == [f \in Sources |-> NodeOf(work, f)]

\* What gg index status calls ready.
Ready ==
    /\ ~NoBase
    /\ Matches
    /\ ~intent
    /\ \E f \in Sources : graph[f] # NoNode

\* When the status is ready, also in the middle of runs, after kills, errors,
\* branch switches and reverted edits, the graph is that of the working tree --
\* unless the tree changed under a run, two runs overlapped, a sweep failed, a
\* run without an entry was cut short, an entry could not be written, or a partial
\* run swept another's entry.
ReadyIsTrue == (~unsure /\ Ready) => graph = Projection

\* With the git hooks firing again and again, the state comes to be that of the
\* tree and built on the present commit, although runs are killed and leave locks
\* whose pids are given to other processes, and although a run that finds a lock
\* held steps aside and does not come back.  A watcher's lock with such a pid is
\* honoured as long as that process runs, and then nothing is promised; nor is it
\* without a module, when every run fails.
HooksCatchUp ==
    (<>[](lock["watch"] # "reused")) => <>[](~NeedsRun \/ ~HasModules(work))

\* While a watcher stays, every burst of edits comes to an end in which the
\* state is that of the tree, in spite of errors that trip the breaker and of
\* one-shot runs beside it.  Without a module every run fails.
WatcherCatchesUp ==
    \A p \in Procs :
        (<>[](proc[p].job = "watch" /\ proc[p].pc # "release"))
            => <>[](Matches \/ ~HasModules(work))

================================================================================
