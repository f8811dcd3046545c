---------------------------- MODULE CodeIndex_proofs ----------------------------
(***************************************************************************)
(* Proofs about CodeIndex, from the inductive invariant of IndexInvariant: *)
(* for every number of processes, files, commits and versions, and every   *)
(* fault, a ready status is true, and what makes a run step aside.         *)
(***************************************************************************)
EXTENDS IndexInvariant, TLAPS

Inv == TypeOK /\ IndexInv

--------------------------------------------------------------------------------
(* Data *)

LEMMA IdleType ==
    /\ Idle \in Process /\ Idle.pc = "idle" /\ Idle.job = "none" /\ Idle.keys = {}
    /\ NoState \in State
  <1>1. NoState \in State /\ NoState.tree \in Trees
    BY DEF NoState, State, Trees, Content
  <1> QED  BY <1>1, ConstantsOK DEF Idle, Process, PC, Kinds

LEMMA NodeType ==
    ASSUME NEW tree \in Trees, NEW f \in Sources
    PROVE  /\ NodeOf(tree, f) \in Node /\ NoNode \in Node
           /\ tree[f] = Absent \/ ~HasModules(tree) => NodeOf(tree, f) = NoNode
  BY DEF NodeOf, NoNode, Node, Trees, Files, Content

\* A process, seen through its fields.
LEMMA Fields ==
    ASSUME TypeOK, NEW p \in Procs
    PROVE  /\ proc[p] \in Process
           /\ proc[p].pc \in PC /\ proc[p].job \in AllJobs \union {"none"}
           /\ proc[p].full \in BOOLEAN /\ proc[p].kind \in Kinds
           /\ proc[p].sha \in Commits \union {NoCommit}
           /\ proc[p].files \subseteq Sources /\ proc[p].todo \subseteq Sources
           /\ proc[p].owed \in BOOLEAN /\ proc[p].seen \in Trees
           /\ proc[p].keys \subseteq Files /\ proc[p].fails \in 0..Threshold
           /\ proc[p].breaker \in {"closed", "open", "half_open"}
  BY DEF TypeOK, Process

\* The rest of the state.
LEMMA Shared ==
    ASSUME TypeOK
    PROVE  /\ work \in Trees /\ head \in Commits /\ graph \in [Sources -> Node]
           /\ state \in State /\ state.tree \in Trees /\ intent \in BOOLEAN
           /\ lock \in [{"index", "watch"} -> LockFile]
           /\ budget \in Nat /\ unsure \in BOOLEAN
  BY DEF TypeOK, State

LEMMA Around ==
    ASSUME TypeOK, NEW p \in Procs, NEW new \in Process, SetProc(p, new)
    PROVE  /\ proc' \in [Procs -> Process] /\ proc'[p] = new
           /\ \A q \in Procs \ {p} : proc'[q] = proc[q]
  BY DEF TypeOK, SetProc

--------------------------------------------------------------------------------
(* What a step of one process leaves true *)

\* The lock files afterwards: as before, or gone, or its own.
Holds(p, new) ==
    \A k \in {"index", "watch"} :
        /\ \A q \in Procs \ {p} : lock'[k] = q => lock[k] = q
        /\ lock'[k] = p => /\ k = IF new.job = "watch" THEN "watch" ELSE "index"
                           /\ new.pc \in {"stamp"} \union Locked

LEMMA KeepsLock ==
    ASSUME Inv, NEW p \in Procs, NEW new \in Process, lock' = lock,
           \/ new.job = proc[p].job /\ new.pc \in {"stamp"} \union Locked
           \/ proc[p].pc \notin {"stamp"} \union Locked
    PROVE  Holds(p, new)
  BY DEF Inv, IndexInv, HoldersOK, Holds, LockName

LEMMA HoldersStay ==
    ASSUME Inv, NEW p \in Procs, NEW new \in Process, SetProc(p, new), Holds(p, new)
    PROVE  HoldersOK'
  <1>1. TypeOK /\ HoldersOK
    BY DEF Inv, IndexInv
  <1>2. proc'[p] = new /\ \A q \in Procs \ {p} : proc'[q] = proc[q]
    BY <1>1, Around
  <1>3. ASSUME NEW k \in {"index", "watch"}, NEW q \in Procs, lock'[k] = q
        PROVE  /\ k = IF proc'[q].job = "watch" THEN "watch" ELSE "index"
               /\ proc'[q].pc \in {"stamp"} \union Locked
    BY <1>1, <1>2, <1>3 DEF HoldersOK, Holds, LockName
  <1> QED  BY <1>3 DEF HoldersOK, LockName

\* A process outside its run stays outside.
LEMMA AsideRuns ==
    ASSUME Inv, NEW p \in Procs, NEW new \in Process, SetProc(p, new), ~Busy(p),
           new.pc \notin Working, UNCHANGED <<work, graph, state, intent, unsure>>
    PROVE  RunsOK'
  <1>1. TypeOK /\ RunsOK
    BY DEF Inv, IndexInv
  <1>2. proc'[p] = new /\ \A q \in Procs \ {p} : proc'[q] = proc[q]
    BY <1>1, Around
  <1>3. \A q \in Procs : Busy(q)' <=> Busy(q)
    BY <1>2 DEF Busy
  <1>4. Current' <=> Current
    BY DEF Current, ProjectionOf, NodeOf, HasModules
  <1>5. ASSUME NEW q \in Procs, Busy(q), RunOK(proc[q]) PROVE RunOK(proc[q])'
    <2>1. q # p /\ proc'[q] = proc[q]
      BY <1>2, <1>5
    <2>2. HasModules(work)' = HasModules(work) /\ Matches' = Matches
      BY DEF HasModules, Matches
    <2>3. ProjectionOf(work)' = ProjectionOf(work)
      BY DEF ProjectionOf, NodeOf, HasModules
    <2>4. Renewing(proc[q])' = Renewing(proc[q])
      BY <2>1 DEF Renewing, Missing, ProjectionOf, NodeOf, HasModules
    <2>5. BuildsOnGood(proc[q])' = BuildsOnGood(proc[q])
      BY <2>1 DEF BuildsOnGood
    <2> QED  BY <1>4, <1>5, <2>1, <2>2, <2>3, <2>4, <2>5 DEF RunOK
  <1> QED  BY <1>1, <1>3, <1>4, <1>5 DEF RunsOK

\* It enters a run.
LEMMA BeginRuns ==
    ASSUME Inv, NEW p \in Procs, NEW new \in Process, SetProc(p, new), ~Busy(p),
           UNCHANGED <<work, graph, state, intent>>,
           unsure' = (unsure \/ \E q \in Procs \ {p} : Busy(q)),
           intent \/ Current => RunOK(new)
    PROVE  RunsOK'
  <1>1. TypeOK /\ RunsOK
    BY DEF Inv, IndexInv
  <1>2. proc'[p] = new /\ \A q \in Procs \ {p} : proc'[q] = proc[q]
    BY <1>1, Around
  <1>3. SUFFICES ASSUME ~unsure' PROVE RunsOK'
    BY DEF RunsOK
  <1>4. ~unsure /\ \A q \in Procs : ~Busy(q)
    BY <1>3
  <1>5. \A q \in Procs : Busy(q)' => q = p
    BY <1>2, <1>4 DEF Busy
  <1>6. RunOK(new)
    BY <1>1, <1>4 DEF RunsOK
  <1>7. RunOK(new)'
    <2>1. HasModules(work)' = HasModules(work) /\ Matches' = Matches /\ Current' = Current
      BY DEF HasModules, Matches, Current, ProjectionOf, NodeOf
    <2>2. ProjectionOf(work)' = ProjectionOf(work)
      BY DEF ProjectionOf, NodeOf, HasModules
    <2>3. Renewing(new)' = Renewing(new)
      BY DEF Renewing, Missing, ProjectionOf, NodeOf, HasModules
    <2>4. BuildsOnGood(new)' = BuildsOnGood(new)
      BY DEF BuildsOnGood
    <2> QED  BY <1>6, <2>1, <2>2, <2>3, <2>4 DEF RunOK
  <1>8. (\A q \in Procs : ~Busy(q))' => (intent \/ Current)'
    BY <1>1, <1>4 DEF RunsOK, Current, ProjectionOf, NodeOf, HasModules
  <1> QED  BY <1>2, <1>5, <1>7, <1>8 DEF RunsOK

\* It goes on with its run.
LEMMA WorkRuns ==
    ASSUME Inv, NEW p \in Procs, NEW new \in Process, SetProc(p, new), Busy(p),
           new.pc \in Working, unsure' = unsure, ~unsure => RunOK(new)'
    PROVE  RunsOK'
  <1>1. TypeOK /\ RunsOK
    BY DEF Inv, IndexInv
  <1>2. proc'[p] = new /\ \A q \in Procs \ {p} : proc'[q] = proc[q]
    BY <1>1, Around
  <1>3. SUFFICES ASSUME ~unsure' PROVE RunsOK'
    BY DEF RunsOK
  <1>4. \A q \in Procs : Busy(q) => q = p
    BY <1>1, <1>3 DEF RunsOK
  <1>5. Busy(p)' /\ \A q \in Procs : Busy(q)' => q = p
    BY <1>2, <1>4 DEF Busy
  <1>6. RunOK(proc[p])'
    BY <1>2, <1>3
  <1> QED  BY <1>5, <1>6 DEF RunsOK

\* It comes to the end of its run, or the run is cut short.
LEMMA EndRuns ==
    ASSUME Inv, NEW p \in Procs, NEW new \in Process, SetProc(p, new), Busy(p),
           new.pc \notin Working,
           ~unsure' => ~unsure /\ (intent' \/ Current')
    PROVE  RunsOK'
  <1>1. TypeOK /\ RunsOK
    BY DEF Inv, IndexInv
  <1>2. proc'[p] = new /\ \A q \in Procs \ {p} : proc'[q] = proc[q]
    BY <1>1, Around
  <1>3. SUFFICES ASSUME ~unsure' PROVE RunsOK'
    BY DEF RunsOK
  <1>4. \A q \in Procs : Busy(q) => q = p
    BY <1>1, <1>3 DEF RunsOK
  <1>5. \A q \in Procs : ~Busy(q)'
    BY <1>2, <1>4 DEF Busy
  <1> QED  BY <1>3, <1>5 DEF RunsOK

\* All of it together.
LEMMA OneStep ==
    ASSUME Inv, NEW p \in Procs, NEW new \in Process, SetProc(p, new), Holds(p, new),
           RunsOK', work' \in Trees, head' \in Commits, graph' \in [Sources -> Node],
           state' \in State, intent' \in BOOLEAN,
           lock' \in [{"index", "watch"} -> LockFile], budget' \in Nat,
           unsure' \in BOOLEAN
    PROVE  Inv'
  <1>1. TypeOK
    BY DEF Inv
  <1>2. TypeOK'
    BY <1>1, Around DEF TypeOK
  <1> QED  BY <1>2, HoldersStay DEF Inv, IndexInv

\* A step that changes nothing but the process, its lock and the budget.
LEMMA Aside ==
    ASSUME Inv, NEW p \in Procs, NEW new \in Process, SetProc(p, new), Holds(p, new),
           ~Busy(p), new.pc \notin Working,
           UNCHANGED <<work, head, graph, state, intent, unsure>>,
           lock' \in [{"index", "watch"} -> LockFile], budget' \in Nat
    PROVE  Inv'
  <1>1. /\ work' \in Trees /\ head' \in Commits /\ graph' \in [Sources -> Node]
        /\ state' \in State /\ intent' \in BOOLEAN /\ unsure' \in BOOLEAN
    BY Shared DEF Inv
  <1>2. RunsOK'
    BY AsideRuns
  <1> QED  BY <1>1, <1>2, OneStep

--------------------------------------------------------------------------------
(* The user *)

LEMMA UserStep ==
    ASSUME Inv, NEW tree \in Trees, NewTree(tree), head' \in Commits, budget' \in Nat,
           UNCHANGED <<graph, state, intent, lock, proc>>
    PROVE  Inv'
  <1>1. TypeOK /\ HoldersOK /\ RunsOK
    BY DEF Inv, IndexInv
  <1>2. TypeOK'
    BY <1>1 DEF TypeOK, NewTree
  <1>3. HoldersOK'
    BY <1>1 DEF HoldersOK, LockName
  <1>4. RunsOK'
    <2>1. SUFFICES ASSUME ~unsure' PROVE RunsOK'
      BY DEF RunsOK
    <2>2. ~unsure /\ ((\A p \in Procs : ~Busy(p)) \/ work' = work)
      BY <2>1 DEF NewTree
    <2>3. CASE \A p \in Procs : ~Busy(p)
      <3>1. \A p \in Procs : ~Busy(p)'
        BY <2>3 DEF Busy
      <3>2. intent' \/ Current'
        BY <1>1, <2>2, <2>3 DEF RunsOK, Current, ProjectionOf, NodeOf, HasModules
      <3> QED  BY <3>1, <3>2 DEF RunsOK
    <2>4. CASE work' = work
      BY <1>1, <2>2, <2>4 DEF RunsOK, Busy, RunOK, Renewing, BuildsOnGood, Missing, Matches,
                              Current, ProjectionOf, NodeOf, HasModules
    <2> QED  BY <2>2, <2>3, <2>4
  <1> QED  BY <1>2, <1>3, <1>4 DEF Inv, IndexInv

LEMMA EditStep ==
    ASSUME Inv, NEW f \in Files, NEW c \in Content, Edit(f, c)
    PROVE  Inv'
  <1>1. [work EXCEPT ![f] = c] \in Trees
    BY Shared DEF Inv, Trees
  <1> QED  BY <1>1, UserStep, Shared DEF Inv, Edit, Spend

LEMMA CheckoutStep == ASSUME Inv, NEW c \in Commits, Checkout(c) PROVE Inv'
  BY ConstantsOK, UserStep, Shared DEF Inv, Checkout, Spend

--------------------------------------------------------------------------------
(* The locks *)

LEMMA LookStep == ASSUME Inv, NEW p \in Procs, NEW job \in AllJobs, Look(p, job) PROVE Inv'
  <1> DEFINE full == (job = "full")
             pc   == IF job = "watch" THEN "remove" ELSE "look"
             new  == [Idle EXCEPT !.pc = pc, !.job = job, !.full = full]
  <1>1. /\ SetProc(p, new) /\ proc[p] = Idle /\ budget' \in Nat
        /\ UNCHANGED <<work, head, graph, state, intent, lock, unsure>>
    BY Shared DEF Inv, Look, Start, Spend
  <1>2. full \in BOOLEAN /\ pc \in {"look", "remove"}
    OBVIOUS
  <1> HIDE DEF full, pc
  <1>3. new \in Process /\ new.pc \in {"look", "remove"}
    BY <1>2, IdleType DEF Process, PC, Acquiring
  <1> HIDE DEF new
  <1>4. ~Busy(p) /\ new.pc \notin Working /\ proc[p].pc \notin {"stamp"} \union Locked
    BY <1>1, <1>3, IdleType DEF Busy, Working, Locked
  <1> QED  BY <1>1, <1>3, <1>4, KeepsLock, Shared, Aside DEF Inv

LEMMA HookStep == ASSUME Inv, NEW p \in Procs, Hook(p) PROVE Inv'
  <1> DEFINE new  == [Idle EXCEPT !.pc = "look", !.job = "changed"]
  <1>1. /\ SetProc(p, new) /\ proc[p] = Idle
        /\ UNCHANGED <<work, head, graph, state, intent, lock, budget, unsure>>
    BY DEF Hook
  <1>2. new \in Process /\ new.pc = "look"
    BY IdleType DEF Process, PC, Acquiring, AllJobs
  <1> HIDE DEF new
  <1>3. ~Busy(p) /\ new.pc \notin Working /\ proc[p].pc \notin {"stamp"} \union Locked
    BY <1>1, <1>2, IdleType DEF Busy, Working, Locked
  <1> QED  BY <1>1, <1>2, <1>3, KeepsLock, Shared, Aside DEF Inv

LEMMA SkipStep == ASSUME Inv, NEW p \in Procs, NEW job \in AllJobs, Skip(p, job) PROVE Inv'
  <1>1. /\ UNCHANGED <<work, head, graph, state, intent, lock, proc, unsure>>
        /\ budget' \in Nat
    BY Shared DEF Inv, Skip, Start, Spend
  <1> QED  BY <1>1 DEF Inv, IndexInv, TypeOK, HoldersOK, LockName, RunsOK, Busy, RunOK, Renewing,
                       BuildsOnGood, Missing, Matches, Current, ProjectionOf, NodeOf, HasModules

LEMMA GotoType ==
    ASSUME Inv, NEW p \in Procs, NEW pc \in PC
    PROVE  LET new == [proc[p] EXCEPT !.pc = pc]
           IN  new \in Process /\ new.pc = pc /\ new.job = proc[p].job
  BY Fields DEF Inv, Process

\* What a lock file is besides a process.
Ownerless == {"none", "empty", "left", "reused", "expired"}

LEMMA LockNames ==
    ASSUME NEW p \in Procs
    PROVE  /\ LockName(p) \in {"index", "watch"} /\ p \in LockFile
           /\ \A file \in Ownerless : file \notin Procs /\ file \in LockFile
  BY ConstantsOK DEF LockName, LockFile, Ownerless

LEMMA LookIndexStep == ASSUME Inv, NEW p \in Procs, LookIndex(p) PROVE Inv'
  <1> DEFINE new == [proc[p] EXCEPT !.pc = "remove"]
  <1>1. /\ SetProc(p, new) /\ proc[p].pc = "look"
        /\ UNCHANGED <<work, head, graph, state, intent, lock, budget, unsure>>
    BY DEF LookIndex, Goto
  <1>2. new \in Process /\ new.pc = "remove"
    BY GotoType DEF PC, Acquiring
  <1> HIDE DEF new
  <1>3. ~Busy(p) /\ new.pc \notin Working /\ proc[p].pc \notin {"stamp"} \union Locked
    BY <1>1, <1>2 DEF Busy, Working, Locked
  <1> QED  BY <1>1, <1>2, <1>3, KeepsLock, Shared, Aside DEF Inv

LEMMA SkipIndexStep == ASSUME Inv, NEW p \in Procs, SkipIndex(p) PROVE Inv'
  <1>1. /\ SetProc(p, Idle) /\ proc[p].pc = "look"
        /\ UNCHANGED <<work, head, graph, state, intent, lock, budget, unsure>>
    BY DEF SkipIndex
  <1>2. ~Busy(p) /\ Idle.pc \notin Working /\ proc[p].pc \notin {"stamp"} \union Locked
    BY <1>1, IdleType DEF Busy, Working, Locked
  <1> QED  BY <1>1, <1>2, IdleType, KeepsLock, Shared, Aside DEF Inv

LEMMA RemoveStep == ASSUME Inv, NEW p \in Procs, RemoveStale(p) PROVE Inv'
  <1> DEFINE new == [proc[p] EXCEPT !.pc = "create"]
  <1>1. /\ SetProc(p, new) /\ proc[p].pc = "remove"
        /\ lock' = [lock EXCEPT ![LockName(p)] = "none"]
        /\ UNCHANGED <<work, head, graph, state, intent, budget, unsure>>
    BY DEF RemoveStale, Goto
  <1>2. new \in Process /\ new.pc = "create"
    BY GotoType DEF PC, Acquiring
  <1> HIDE DEF new
  <1>3. ~Busy(p) /\ new.pc \notin Working /\ proc[p].pc \notin {"stamp"} \union Locked
    BY <1>1, <1>2 DEF Busy, Working, Locked
  <1>4. /\ lock' \in [{"index", "watch"} -> LockFile]
        /\ \A k \in {"index", "watch"} : lock'[k] = lock[k] \/ lock'[k] \notin Procs
    BY <1>1, Shared, LockNames DEF Inv, Ownerless
  <1>5. Holds(p, new)
    BY <1>3, <1>4 DEF Inv, IndexInv, HoldersOK, Holds
  <1> QED  BY <1>1, <1>2, <1>3, <1>4, <1>5, Shared, Aside DEF Inv

LEMMA CreateStep == ASSUME Inv, NEW p \in Procs, CreateLock(p) PROVE Inv'
  <1> DEFINE new == [proc[p] EXCEPT !.pc = "stamp"]
  <1>1. /\ SetProc(p, new) /\ proc[p].pc = "create"
        /\ lock' = [lock EXCEPT ![LockName(p)] = p]
        /\ UNCHANGED <<work, head, graph, state, intent, budget, unsure>>
    BY DEF CreateLock, Goto
  <1>2. new \in Process /\ new.pc = "stamp" /\ new.job = proc[p].job
    BY GotoType DEF PC, Acquiring
  <1> HIDE DEF new
  <1>3. ~Busy(p) /\ new.pc \notin Working /\ proc[p].pc \notin {"stamp"} \union Locked
    BY <1>1, <1>2 DEF Busy, Working, Locked
  <1>4. /\ lock' \in [{"index", "watch"} -> LockFile]
        /\ \A k \in {"index", "watch"} :
              lock'[k] = lock[k] \/ (k = LockName(p) /\ lock'[k] = p)
    BY <1>1, Shared, LockNames DEF Inv, Ownerless
  <1>5. Holds(p, new)
    BY <1>2, <1>3, <1>4 DEF Inv, IndexInv, HoldersOK, Holds, LockName
  <1> QED  BY <1>1, <1>2, <1>3, <1>4, <1>5, Shared, Aside DEF Inv

LEMMA LosesStep == ASSUME Inv, NEW p \in Procs, CreateLoses(p) PROVE Inv'
  <1>1. /\ SetProc(p, Idle) /\ proc[p].pc = "create"
        /\ UNCHANGED <<work, head, graph, state, intent, lock, budget, unsure>>
    BY DEF CreateLoses
  <1>2. ~Busy(p) /\ Idle.pc \notin Working /\ proc[p].pc \notin {"stamp"} \union Locked
    BY <1>1, IdleType DEF Busy, Working, Locked
  <1> QED  BY <1>1, <1>2, IdleType, KeepsLock, Shared, Aside DEF Inv

LEMMA StampStep == ASSUME Inv, NEW p \in Procs, StampLock(p) PROVE Inv'
  <1> DEFINE pc  == IF proc[p].job = "watch" THEN "watch" ELSE "plan"
             new == [proc[p] EXCEPT !.pc = pc]
  <1>1. /\ SetProc(p, new) /\ proc[p].pc = "stamp"
        /\ UNCHANGED <<work, head, graph, state, intent, lock, budget, unsure>>
    BY DEF StampLock, Goto
  <1>2. pc \in PC /\ pc \in Locked /\ pc \notin Working
    BY DEF PC, Locked, Working
  <1> HIDE DEF pc
  <1>3. new \in Process /\ new.pc = pc /\ new.job = proc[p].job
    BY <1>2, GotoType
  <1> HIDE DEF new
  <1>4. ~Busy(p)
    BY <1>1 DEF Busy, Working
  <1> QED  BY <1>1, <1>2, <1>3, <1>4, KeepsLock, Shared, Aside DEF Inv

LEMMA ReleaseStep == ASSUME Inv, NEW p \in Procs, Release(p) PROVE Inv'
  <1>1. /\ SetProc(p, Idle) /\ proc[p].pc = "release"
        /\ lock' = [lock EXCEPT ![LockName(p)] = "none"]
        /\ UNCHANGED <<work, head, graph, state, intent, budget, unsure>>
    BY DEF Release
  <1>2. ~Busy(p) /\ Idle.pc \notin Working
    BY <1>1, IdleType DEF Busy, Working
  <1>3. /\ lock' \in [{"index", "watch"} -> LockFile]
        /\ \A k \in {"index", "watch"} :
              lock'[k] \notin Procs \/ (lock'[k] = lock[k] /\ k # LockName(p))
    BY <1>1, Shared, LockNames DEF Inv, Ownerless
  <1>4. Holds(p, Idle)
    BY <1>3 DEF Inv, IndexInv, HoldersOK, Holds
  <1> QED  BY <1>1, <1>2, <1>3, <1>4, IdleType, Shared, Aside DEF Inv

--------------------------------------------------------------------------------
(* What to do *)

\* A run is decided on.
LEMMA DecideStep ==
    ASSUME Inv, NEW p \in Procs, NEW new \in Process, Decide(p, new), proc[p].pc = "plan",
           new.pc \in Working, new.job = proc[p].job,
           intent \/ Current => RunOK([new EXCEPT !.sha = head])
    PROVE  Inv'
  <1> DEFINE w == [new EXCEPT !.sha = head]
  <1>1. /\ SetProc(p, w) /\ UNCHANGED <<work, head, graph, state, intent, lock, budget>>
        /\ unsure' = (unsure \/ \E q \in Procs \ {p} : Busy(q))
    BY DEF Decide
  <1>2. w \in Process /\ w.pc = new.pc /\ w.job = new.job
    BY Shared DEF Inv, Process
  <1>3. PICK next \in Process : next = w
    BY <1>2
  <1>4. ~Busy(p) /\ next.pc \in Working /\ next.pc \in Locked
    BY <1>2, <1>3 DEF Busy, Working, Locked
  <1>5. (intent \/ Current => RunOK(next)) /\ SetProc(p, next) /\ next.job = proc[p].job
    BY <1>1, <1>2, <1>3
  <1> HIDE DEF w
  <1>6. RunsOK'
    BY <1>1, <1>4, <1>5, BeginRuns
  <1>7. Holds(p, next)
    BY <1>1, <1>4, <1>5, KeepsLock
  <1>8. /\ work' \in Trees /\ head' \in Commits /\ graph' \in [Sources -> Node]
        /\ state' \in State /\ intent' \in BOOLEAN /\ unsure' \in BOOLEAN
        /\ lock' \in [{"index", "watch"} -> LockFile] /\ budget' \in Nat
    BY <1>1, Shared DEF Inv
  <1> QED  BY <1>5, <1>6, <1>7, <1>8, OneStep

LEMMA PlanFullStep == ASSUME Inv, NEW p \in Procs, PlanFull(p) PROVE Inv'
  <1> DEFINE new == [proc[p] EXCEPT !.pc = "intent", !.kind = "full", !.files = Sources]
             w   == [new EXCEPT !.sha = head]
  <1>1. Decide(p, new) /\ proc[p].pc = "plan"
    BY DEF PlanFull
  <1>2. new \in Process /\ new.pc = "intent" /\ new.job = proc[p].job
    <2>1. "intent" \in PC /\ "full" \in Kinds
      BY DEF PC, Kinds, Working
    <2> QED  BY <2>1, Fields DEF Inv, Process
  <1>3. w.kind = "full" /\ w.pc = "intent" /\ w.files = Sources
    BY Fields DEF Inv, Process
  <1> HIDE DEF w
  <1>4. intent \/ Current => RunOK(w)
    BY <1>3 DEF RunOK, Renewing
  <1> USE DEF w
  <1> HIDE DEF new
  <1> QED  BY <1>1, <1>2, <1>4, DecideStep DEF Working

LEMMA PlanAdvanceStep == ASSUME Inv, NEW p \in Procs, PlanAdvance(p) PROVE Inv'
  <1> DEFINE new == [proc[p] EXCEPT !.pc = "state", !.kind = "advance"]
             w   == [new EXCEPT !.sha = head]
  <1>1. Decide(p, new) /\ proc[p].pc = "plan" /\ Matches
    BY DEF PlanAdvance
  <1>2. new \in Process /\ new.pc = "state" /\ new.job = proc[p].job
    BY Fields DEF Inv, Process, PC, Kinds, Working
  <1>3. w.kind = "advance" /\ w.pc = "state"
    BY Fields DEF Inv, Process
  <1> HIDE DEF w
  <1>4. intent \/ Current => RunOK(w)
    BY <1>1, <1>3 DEF RunOK
  <1> USE DEF w
  <1> HIDE DEF new
  <1> QED  BY <1>1, <1>2, <1>4, DecideStep DEF Working

LEMMA PlanEmptyStep == ASSUME Inv, NEW p \in Procs, PlanEmpty(p) PROVE Inv'
  <1> DEFINE new == [proc[p] EXCEPT !.pc = "sweep", !.kind = "empty"]
             w   == [new EXCEPT !.sha = head]
  <1>1. /\ Decide(p, new) /\ proc[p].pc = "plan"
        /\ ~HasModules(work) /\ state.tree # work
    BY DEF PlanEmpty, Empties, ModuleChange, NoBase, Matches
  <1>2. new \in Process /\ new.pc = "sweep" /\ new.job = proc[p].job
    BY Fields DEF Inv, Process, PC, Kinds, Working
  <1>3. w.kind = "empty" /\ w.pc = "sweep"
    BY Fields DEF Inv, Process
  <1> HIDE DEF w
  <1>4. intent \/ Current => RunOK(w)
    BY <1>1, <1>3 DEF RunOK
  <1> USE DEF w
  <1> HIDE DEF new
  <1> QED  BY <1>1, <1>2, <1>4, DecideStep DEF Working

\* Outside the delta to the recorded commit a clean recorded tree is the present one.
LEMMA DeltaSuffices ==
    ASSUME Inv, ~NoBase, ~WasDirty, ~ModuleChange
    PROVE  /\ Delta(state.sha, work) \subseteq Sources
           /\ \A f \in Sources \ Delta(state.sha, work) :
                 NodeOf(state.tree, f) = NodeOf(work, f)
  <1>1. state.tree = Tree[state.sha] /\ Manifest \notin Delta(state.sha, work)
    BY DEF WasDirty, ModuleChange
  <1>2. Manifest \in Files
    BY DEF Files
  <1>3. work[Manifest] = state.tree[Manifest]
    BY <1>1, <1>2 DEF Delta
  <1>4. ASSUME NEW f \in Sources \ Delta(state.sha, work) PROVE work[f] = state.tree[f]
    BY <1>1 DEF Delta, Files
  <1>5. Delta(state.sha, work) \subseteq Sources
    BY <1>1 DEF Delta, Files
  <1> QED  BY <1>3, <1>4, <1>5 DEF NodeOf, HasModules

LEMMA PlanChangedStep == ASSUME Inv, NEW p \in Procs, PlanChanged(p) PROVE Inv'
  <1>1. PICK importers \in SUBSET {f \in Sources : graph[f] # NoNode} :
          LET files == Delta(state.sha, work) \union importers IN
          Decide(p, [proc[p] EXCEPT !.pc = "invalidate", !.kind = "changed",
                                    !.files = files, !.todo = files])
    BY DEF PlanChanged
  <1>2. proc[p].pc = "plan" /\ ~NoBase /\ ~Matches /\ ~WasDirty /\ ~ModuleChange
    BY DEF PlanChanged, NeedsFull
  <1> DEFINE files == Delta(state.sha, work) \union importers
             new   == [proc[p] EXCEPT !.pc = "invalidate", !.kind = "changed",
                                      !.files = files, !.todo = files]
             w     == [new EXCEPT !.sha = head]
  <1>3. Decide(p, new)
    BY <1>1
  <1>4. /\ files \subseteq Sources
        /\ \A f \in Sources \ files : NodeOf(state.tree, f) = NodeOf(work, f)
    BY <1>2, DeltaSuffices
  <1>5. state.sha # NoCommit /\ state.tree # work
    BY <1>2 DEF NoBase, Matches
  <1> HIDE DEF files
  <1>6. new \in Process /\ new.pc = "invalidate" /\ new.job = proc[p].job
    <2>1. proc[p] \in Process
      BY Fields DEF Inv
    <2>2. "invalidate" \in PC /\ "changed" \in Kinds
      BY DEF PC, Kinds, Working
    <2> QED  BY <1>4, <2>1, <2>2 DEF Process
  <1>7. w.kind = "changed" /\ w.pc = "invalidate" /\ w.files = files /\ w.todo = files
    BY Fields DEF Inv, Process
  <1> HIDE DEF w
  <1>8. ASSUME intent \/ Current PROVE RunOK(w)
    <2>1. ASSUME ~intent PROVE Renewing(w)
      <3>1. graph = ProjectionOf(state.tree)
        BY <1>5, <1>8, <2>1 DEF Current
      <3>2. \A f \in Sources \ files : graph[f] = Missing(files)[f]
        BY <1>4, <3>1 DEF ProjectionOf, Missing
      <3> QED  BY <1>7, <3>2 DEF Renewing
    <2> QED  BY <1>5, <1>7, <1>8, <2>1 DEF RunOK, BuildsOnGood
  <1> USE DEF w
  <1> HIDE DEF new
  <1> QED  BY <1>2, <1>3, <1>6, <1>8, DecideStep DEF Working

--------------------------------------------------------------------------------
(* The run *)

\* A step inside a run.
LEMMA InsideStep ==
    ASSUME Inv, NEW p \in Procs, NEW new \in Process, SetProc(p, new), Busy(p),
           new.pc \in Working, new.job = proc[p].job,
           UNCHANGED <<work, head, lock, budget, unsure>>,
           ~unsure => RunOK(new)',
           graph' \in [Sources -> Node], state' \in State, intent' \in BOOLEAN
    PROVE  Inv'
  <1>1. /\ work' \in Trees /\ head' \in Commits /\ unsure' \in BOOLEAN
        /\ lock' \in [{"index", "watch"} -> LockFile] /\ budget' \in Nat
    BY Shared DEF Inv
  <1>2. RunsOK'
    BY WorkRuns
  <1>3. Holds(p, new)
    BY KeepsLock DEF Locked
  <1> QED  BY <1>1, <1>2, <1>3, OneStep

\* The run a process is in, while the state is sure.
LEMMA ItsRun ==
    ASSUME Inv, NEW p \in Procs, Busy(p), ~unsure
    PROVE  RunOK(proc[p])
  BY DEF Inv, IndexInv, RunsOK

\* One file less to do.
LEMMA DoneStep ==
    ASSUME Inv, NEW p \in Procs, NEW f, NEW next \in PC, Done(p, f, next)
    PROVE  LET rest == proc[p].todo \ {f}
           IN  \E new \in Process :
                  /\ SetProc(p, new)
                  /\ new.todo = rest /\ new.pc = IF rest = {} THEN next ELSE proc[p].pc
                  /\ new.job = proc[p].job /\ new.kind = proc[p].kind
                  /\ new.files = proc[p].files /\ new.owed = proc[p].owed
                  /\ new.seen = proc[p].seen
  <1> DEFINE rest == proc[p].todo \ {f}
             pc   == IF rest = {} THEN next ELSE proc[p].pc
             new  == [proc[p] EXCEPT !.todo = rest, !.pc = pc]
  <1>1. SetProc(p, new)
    BY Fields DEF Inv, Done, Process
  <1>2. rest \subseteq Sources /\ pc \in PC
    BY Fields DEF Inv
  <1> HIDE DEF rest, pc
  <1>3. /\ new \in Process /\ new.todo = rest /\ new.pc = pc
        /\ new.job = proc[p].job /\ new.kind = proc[p].kind
        /\ new.files = proc[p].files /\ new.owed = proc[p].owed /\ new.seen = proc[p].seen
    BY <1>2, Fields DEF Inv, Process
  <1> HIDE DEF new
  <1> USE DEF rest, pc
  <1> QED  BY <1>1, <1>3

LEMMA InvalidateStep == ASSUME Inv, NEW p \in Procs, Invalidate(p) PROVE Inv'
  <1>1. PICK f \in proc[p].todo : graph' = [graph EXCEPT ![f] = NoNode] /\ Done(p, f, "intent")
    BY DEF Invalidate
  <1>2. proc[p].pc = "invalidate" /\ UNCHANGED <<work, head, state, intent, lock, budget, unsure>>
    BY DEF Invalidate
  <1>3. "intent" \in PC /\ f \in Sources /\ Busy(p)
    BY <1>2, Fields DEF Inv, PC, Working, Busy
  <1>4. PICK new \in Process :
          /\ SetProc(p, new) /\ new.todo = proc[p].todo \ {f}
          /\ new.pc = IF new.todo = {} THEN "intent" ELSE "invalidate"
          /\ new.job = proc[p].job /\ new.kind = proc[p].kind
          /\ new.files = proc[p].files /\ new.owed = proc[p].owed
    BY <1>1, <1>2, <1>3, DoneStep
  <1>5. graph' \in [Sources -> Node] /\ graph'[f] = NoNode
        /\ \A g \in Sources \ {f} : graph'[g] = graph[g]
    <2>1. NoNode \in Node
      BY DEF NoNode, Node, Content
    <2> QED  BY <1>1, <1>3, <2>1, Shared DEF Inv
  <1>6. ASSUME ~unsure PROVE RunOK(new)'
    <2>1. RunOK(proc[p])
      BY <1>3, <1>6, ItsRun
    <2>2. /\ proc[p].kind = "changed" /\ state.tree # work
          /\ proc[p].todo \subseteq proc[p].files
          /\ BuildsOnGood(proc[p]) => Renewing(proc[p])
      BY <1>2, <2>1 DEF RunOK
    <2>3. /\ new.kind = "changed" /\ state'.tree # work' /\ new.pc \in {"invalidate", "intent"}
          /\ new.todo \subseteq new.files /\ new.todo # new.files
      BY <1>2, <1>4, <2>2
    <2>4. ASSUME BuildsOnGood(new)' PROVE Renewing(new)'
      <3>1. BuildsOnGood(proc[p])
        BY <1>2, <2>2, <2>3, <2>4 DEF BuildsOnGood
      <3>2. \A g \in Sources \ proc[p].todo : graph[g] = Missing(proc[p].files)[g]
        BY <1>2, <2>2, <3>1 DEF Renewing
      <3>3. \A g \in Sources \ new.todo : graph'[g] = Missing(new.files)'[g]
        <4>1. Missing(new.files)' = Missing(proc[p].files)
          BY <1>2, <1>4 DEF Missing, NodeOf, HasModules
        <4>2. f \in proc[p].files => Missing(proc[p].files)[f] = NoNode
          BY <1>3 DEF Missing
        <4> QED  BY <1>4, <1>5, <2>2, <3>2, <4>1, <4>2
      <3>4. new.todo = {} => graph' = Missing(new.files)'
        BY <1>5, <3>3 DEF Missing
      <3> QED  BY <1>4, <3>3, <3>4 DEF Renewing
    <2> QED  BY <1>4, <2>3, <2>4 DEF RunOK
  <1>7. state' \in State /\ intent' \in BOOLEAN /\ new.pc \in Working
    BY <1>2, <1>4, Shared DEF Inv, Working
  <1> QED  BY <1>2, <1>3, <1>4, <1>5, <1>6, <1>7, InsideStep

LEMMA IntentStep == ASSUME Inv, NEW p \in Procs, WriteIntent(p) PROVE Inv'
  <1> DEFINE pc  == IF proc[p].kind = "full" THEN "sweep" ELSE "scan"
             new == [proc[p] EXCEPT !.owed = intent, !.pc = pc]
  <1>1. /\ proc[p].pc = "intent" /\ intent' = TRUE /\ SetProc(p, new)
        /\ UNCHANGED <<work, head, graph, state, lock, budget, unsure>>
    BY DEF WriteIntent
  <1>2. pc \in PC /\ intent \in BOOLEAN /\ pc \in {"sweep", "scan"} /\ pc \in Working
    BY Shared DEF Inv, PC, Working
  <1>3. /\ new \in Process /\ new.pc = pc /\ new.owed = intent /\ new.job = proc[p].job
        /\ new.kind = proc[p].kind /\ new.files = proc[p].files
    BY <1>2, Fields DEF Inv, Process
  <1> HIDE DEF new
  <1>4. Busy(p)
    BY <1>1 DEF Busy, Working
  <1>5. PICK next \in Process :
          /\ SetProc(p, next) /\ next.pc \in Working /\ next.owed = intent
          /\ next.pc = IF next.kind = "full" THEN "sweep" ELSE "scan"
          /\ next.job = proc[p].job /\ next.kind = proc[p].kind /\ next.files = proc[p].files
    BY <1>1, <1>2, <1>3
  <1>6. ASSUME ~unsure PROVE RunOK(next)'
    <2>1. RunOK(proc[p])
      BY <1>4, <1>6, ItsRun
    <2>2. CASE proc[p].kind = "full"
      BY <1>1, <1>5, <2>1, <2>2 DEF RunOK, Renewing
    <2>3. CASE proc[p].kind # "full"
      <3>1. proc[p].kind = "changed" /\ (~intent => Renewing(proc[p]))
        BY <1>1, <2>1, <2>3 DEF RunOK, BuildsOnGood
      <3>2. ~intent => graph = Missing(proc[p].files)
        BY <1>1, <3>1 DEF Renewing
      <3>3. Missing(next.files)' = Missing(proc[p].files)
        BY <1>1, <1>5 DEF Missing, NodeOf, HasModules
      <3> QED  BY <1>1, <1>5, <3>1, <3>2, <3>3 DEF RunOK, Renewing, BuildsOnGood
    <2> QED  BY <2>2, <2>3
  <1>7. graph' \in [Sources -> Node] /\ state' \in State /\ intent' \in BOOLEAN
    BY <1>1, Shared DEF Inv
  <1> QED  BY <1>1, <1>4, <1>5, <1>6, <1>7, InsideStep

LEMMA IntentFailsStep == ASSUME Inv, NEW p \in Procs, IntentFails(p) PROVE Inv'
  <1> DEFINE pc  == IF proc[p].kind = "full" THEN "sweep" ELSE "scan"
             new == [proc[p] EXCEPT !.owed = intent, !.pc = pc]
  <1>1. /\ proc[p].pc = "intent" /\ SetProc(p, new) /\ unsure' = TRUE /\ budget' \in Nat
        /\ UNCHANGED <<work, head, graph, state, intent, lock>>
    BY Shared DEF Inv, IntentFails, Spend
  <1>2. pc \in PC /\ intent \in BOOLEAN /\ pc \in Working
    BY Shared DEF Inv, PC, Working
  <1>3. new \in Process /\ new.pc \in Working /\ new.job = proc[p].job
    BY <1>2, Fields DEF Inv, Process
  <1> HIDE DEF new
  <1>4. RunsOK'
    BY <1>1 DEF RunsOK
  <1>5. Holds(p, new)
    <2>1. proc[p].pc \in Locked /\ new.pc \in Locked
      BY <1>1, <1>3 DEF Locked, Working
    <2> QED  BY <1>1, <1>3, <2>1, KeepsLock
  <1> QED  BY <1>1, <1>3, <1>4, <1>5, Shared, OneStep DEF Inv

\* The run after its sweep.
LEMMA AfterSweepStep ==
    ASSUME Inv, NEW p \in Procs, AfterSweep(p)
    PROVE  \E new \in Process :
              /\ SetProc(p, new) /\ new.pc = IF new.kind = "full" THEN "scan" ELSE "state"
              /\ new.job = proc[p].job /\ new.kind = proc[p].kind
              /\ new.files = proc[p].files /\ new.pc \in Working
  <1> DEFINE pc  == IF proc[p].kind = "full" THEN "scan" ELSE "state"
             new == [proc[p] EXCEPT !.pc = pc]
  <1>1. SetProc(p, new)
    BY DEF AfterSweep, Goto
  <1>2. pc \in PC /\ pc \in Working
    BY DEF PC, Working
  <1>3. /\ new \in Process /\ new.pc = pc /\ new.job = proc[p].job
        /\ new.kind = proc[p].kind /\ new.files = proc[p].files
    BY <1>2, Fields DEF Inv, Process
  <1> HIDE DEF new
  <1> QED  BY <1>1, <1>2, <1>3

LEMMA SweepStep == ASSUME Inv, NEW p \in Procs, SweepProjectLang(p) PROVE Inv'
  <1>1. /\ proc[p].pc = "sweep" /\ graph' = [f \in Sources |-> NoNode] /\ AfterSweep(p)
        /\ UNCHANGED <<work, head, state, intent, lock, budget, unsure>>
    BY DEF SweepProjectLang
  <1>2. PICK new \in Process :
          /\ SetProc(p, new) /\ new.pc = IF new.kind = "full" THEN "scan" ELSE "state"
          /\ new.job = proc[p].job /\ new.kind = proc[p].kind
          /\ new.files = proc[p].files /\ new.pc \in Working
    BY <1>1, AfterSweepStep
  <1>3. Busy(p)
    BY <1>1 DEF Busy, Working
  <1>4. ASSUME ~unsure PROVE RunOK(new)'
    <2>1. RunOK(proc[p])
      BY <1>3, <1>4, ItsRun
    <2>2. CASE proc[p].kind = "full"
      <3>1. proc[p].files = Sources /\ intent
        BY <1>1, <2>1, <2>2 DEF RunOK
      <3>2. graph' = Missing(new.files)'
        BY <1>1, <1>2, <3>1 DEF Missing
      <3> QED  BY <1>1, <1>2, <2>2, <3>1, <3>2 DEF RunOK, Renewing
    <2>3. CASE proc[p].kind # "full"
      <3>1. proc[p].kind = "empty" /\ ~HasModules(work) /\ state.tree # work
        BY <1>1, <2>1, <2>3 DEF RunOK
      <3>2. ~HasModules(work')
        BY <1>1, <3>1 DEF HasModules
      <3>3. graph' = ProjectionOf(work')
        BY <1>1, <3>2 DEF ProjectionOf, NodeOf
      <3> QED  BY <1>1, <1>2, <3>1, <3>2, <3>3 DEF RunOK
    <2> QED  BY <2>2, <2>3
  <1>5. graph' \in [Sources -> Node] /\ state' \in State /\ intent' \in BOOLEAN
    <2>1. NoNode \in Node
      BY DEF NoNode, Node, Content
    <2> QED  BY <1>1, <2>1, Shared DEF Inv
  <1> QED  BY <1>1, <1>2, <1>3, <1>4, <1>5, InsideStep

LEMMA SweepFailsStep == ASSUME Inv, NEW p \in Procs, SweepFails(p) PROVE Inv'
  <1>1. /\ proc[p].pc = "sweep" /\ AfterSweep(p) /\ unsure' = TRUE /\ budget' \in Nat
        /\ UNCHANGED <<work, head, graph, state, intent, lock>>
    BY Shared DEF Inv, SweepFails, Spend
  <1>2. PICK new \in Process : /\ SetProc(p, new) /\ new.pc \in Working
                               /\ new.job = proc[p].job
    BY <1>1, AfterSweepStep
  <1>3. RunsOK'
    BY <1>1 DEF RunsOK
  <1>4. Holds(p, new)
    BY <1>1, <1>2, KeepsLock DEF Locked
  <1> QED  BY <1>1, <1>2, <1>3, <1>4, Shared, OneStep DEF Inv

LEMMA ScanStep == ASSUME Inv, NEW p \in Procs, Scan(p) PROVE Inv'
  <1> DEFINE files == proc[p].files
             new   == [proc[p] EXCEPT !.pc = "store", !.seen = work, !.todo = files]
  <1>1. /\ proc[p].pc = "scan" /\ SetProc(p, new)
        /\ UNCHANGED <<work, head, graph, state, intent, lock, budget, unsure>>
    BY DEF Scan
  <1>2. /\ new \in Process /\ new.pc = "store" /\ new.seen = work /\ new.todo = files
        /\ new.job = proc[p].job /\ new.kind = proc[p].kind /\ new.files = files
        /\ new.owed = proc[p].owed
    BY Fields, Shared DEF Inv, Process, PC, Working
  <1> HIDE DEF new
  <1>3. Busy(p)
    BY <1>1 DEF Busy, Working
  <1>4. PICK next \in Process :
          /\ SetProc(p, next) /\ next.pc = "store" /\ next.seen = work
          /\ next.todo = proc[p].files /\ next.owed = proc[p].owed
          /\ next.job = proc[p].job /\ next.kind = proc[p].kind /\ next.files = proc[p].files
    BY <1>1, <1>2
  <1>5. ASSUME ~unsure PROVE RunOK(next)'
    <2>1. RunOK(proc[p])
      BY <1>3, <1>5, ItsRun
    <2>2. /\ proc[p].kind \in {"full", "changed"} /\ intent
          /\ proc[p].kind = "full" => proc[p].files = Sources
          /\ BuildsOnGood(proc[p]) => Renewing(proc[p])
      BY <1>1, <2>1 DEF RunOK
    <2>3. Missing(next.todo)' = Missing(proc[p].files)
      BY <1>1, <1>4 DEF Missing, NodeOf, HasModules
    <2>4. BuildsOnGood(next)' => Renewing(next)'
      BY <1>1, <1>4, <2>2, <2>3 DEF BuildsOnGood, Renewing
    <2>5. next.kind = "full" => BuildsOnGood(next)'
      BY DEF BuildsOnGood
    <2> QED  BY <1>1, <1>4, <2>2, <2>4, <2>5 DEF RunOK
  <1>6. graph' \in [Sources -> Node] /\ state' \in State /\ intent' \in BOOLEAN
        /\ next.pc \in Working
    BY <1>1, <1>4, Shared DEF Inv, Working
  <1> QED  BY <1>1, <1>3, <1>4, <1>5, <1>6, InsideStep

LEMMA StoreStep == ASSUME Inv, NEW p \in Procs, Store(p) PROVE Inv'
  <1>1. PICK f \in proc[p].todo :
          /\ graph' = [graph EXCEPT ![f] = IF proc[p].seen[f] = Absent THEN @
                                            ELSE NodeOf(proc[p].seen, f)]
          /\ Done(p, f, "state")
    BY DEF Store
  <1>2. proc[p].pc = "store" /\ UNCHANGED <<work, head, state, intent, lock, budget, unsure>>
    BY DEF Store
  <1>3. "state" \in PC /\ f \in Sources /\ Busy(p)
    BY <1>2, Fields DEF Inv, PC, Working, Busy
  <1>4. PICK new \in Process :
          /\ SetProc(p, new) /\ new.todo = proc[p].todo \ {f}
          /\ new.pc = IF new.todo = {} THEN "state" ELSE "store"
          /\ new.job = proc[p].job /\ new.kind = proc[p].kind /\ new.seen = proc[p].seen
          /\ new.files = proc[p].files /\ new.owed = proc[p].owed
    BY <1>1, <1>2, <1>3, DoneStep
  <1>5. /\ graph' \in [Sources -> Node]
        /\ graph'[f] = IF proc[p].seen[f] = Absent THEN graph[f] ELSE NodeOf(proc[p].seen, f)
        /\ \A g \in Sources \ {f} : graph'[g] = graph[g]
    <2>1. graph[f] \in Node /\ NodeOf(proc[p].seen, f) \in Node
      BY <1>3, Fields, Shared, NodeType DEF Inv
    <2> QED  BY <1>1, <1>3, <2>1, Shared DEF Inv
  <1>6. ASSUME ~unsure PROVE RunOK(new)'
    <2>1. RunOK(proc[p])
      BY <1>3, <1>6, ItsRun
    <2>2. /\ proc[p].kind \in {"full", "changed"} /\ intent
          /\ proc[p].kind = "full" => proc[p].files = Sources
          /\ BuildsOnGood(proc[p]) => Renewing(proc[p])
      BY <1>2, <2>1 DEF RunOK
    <2>3. ASSUME BuildsOnGood(new)' PROVE Renewing(new)'
      <3>1. BuildsOnGood(proc[p])
        BY <1>2, <1>4, <2>3 DEF BuildsOnGood
      <3>2. proc[p].seen = work /\ graph = Missing(proc[p].todo)
        BY <1>2, <2>2, <3>1 DEF Renewing
      <3>3. graph'[f] = NodeOf(work, f)
        <4>1. graph[f] = NoNode
          BY <1>3, <3>2 DEF Missing
        <4>2. work[f] = Absent => NodeOf(work, f) = NoNode
          BY DEF NodeOf
        <4> QED  BY <1>5, <3>2, <4>1, <4>2
      <3>4. \A g \in Sources \ {f} :
               graph[g] = IF g \in proc[p].todo THEN NoNode ELSE NodeOf(work, g)
        BY <3>2 DEF Missing
      <3>5. \A g \in Sources :
               graph'[g] = IF g \in new.todo THEN NoNode ELSE NodeOf(work, g)
        BY <1>4, <1>5, <3>3, <3>4
      <3>6. graph' = Missing(new.todo)'
        BY <1>2, <1>5, <3>5 DEF Missing, NodeOf, HasModules
      <3>7. new.todo = {} => graph' = ProjectionOf(work')
        BY <3>6 DEF Missing, ProjectionOf
      <3> QED  BY <1>2, <1>4, <3>2, <3>6, <3>7 DEF Renewing
    <2>4. new.kind = "full" => BuildsOnGood(new)'
      BY DEF BuildsOnGood
    <2> QED  BY <1>2, <1>4, <2>2, <2>3, <2>4 DEF RunOK
  <1>7. state' \in State /\ intent' \in BOOLEAN /\ new.pc \in Working
    BY <1>2, <1>4, Shared DEF Inv, Working
  <1> QED  BY <1>2, <1>3, <1>4, <1>5, <1>6, <1>7, InsideStep

--------------------------------------------------------------------------------
(* The end of a run *)

\* Where a process goes when its run is over.
Leaves(p, new) == /\ SetProc(p, new) /\ new.job = proc[p].job
                  /\ new.pc \in {"watch", "release"}

LEMMA FinishStep ==
    ASSUME Inv, NEW p \in Procs, Finish(p)
    PROVE  \E new \in Process : Leaves(p, new)
  <1> DEFINE job  == proc[p].job
             idle == [Idle EXCEPT !.pc = "release", !.job = job]
             stay == [Idle EXCEPT !.pc = "watch", !.job = "watch"]
  <1>1. SetProc(p, IF job = "watch" THEN stay ELSE idle)
    BY DEF Finish
  <1>2. /\ idle \in Process /\ idle.pc = "release" /\ idle.job = job
        /\ stay \in Process /\ stay.pc = "watch" /\ stay.job = "watch"
    BY IdleType, Fields DEF Inv, Process, PC, AllJobs
  <1> HIDE DEF idle, stay
  <1> QED  BY <1>1, <1>2 DEF Leaves

LEMMA FailedStep ==
    ASSUME Inv, NEW p \in Procs, Failed(p)
    PROVE  \E new \in Process : Leaves(p, new)
  <1> DEFINE job     == proc[p].job
             opens   == proc[p].breaker = "half_open" \/ proc[p].fails + 1 >= Threshold
             breaker == IF opens THEN "open" ELSE "closed"
             fails   == Failures(proc[p].fails)
             idle == [Idle EXCEPT !.pc = "release", !.job = job]
             stay == [Idle EXCEPT !.pc = "watch", !.job = "watch", !.breaker = breaker,
                                  !.fails = fails]
  <1>1. SetProc(p, IF job = "watch" THEN stay ELSE idle)
    BY DEF Failed
  <1>2. breaker \in {"closed", "open", "half_open"} /\ fails \in 0..Threshold
    BY Fields, ConstantsOK DEF Inv, Failures
  <1> HIDE DEF breaker, fails
  <1>3. /\ idle \in Process /\ idle.pc = "release" /\ idle.job = job
        /\ stay \in Process /\ stay.pc = "watch" /\ stay.job = "watch"
    BY <1>2, IdleType, Fields DEF Inv, Process, PC, AllJobs
  <1> HIDE DEF idle, stay
  <1> QED  BY <1>1, <1>3 DEF Leaves

LEMMA LeaveStep ==
    ASSUME Inv, NEW p \in Procs, NEW new \in Process, Leaves(p, new), Busy(p),
           UNCHANGED <<work, head, lock>>,
           ~unsure' => ~unsure /\ (intent' \/ Current'),
           graph' \in [Sources -> Node], state' \in State, intent' \in BOOLEAN,
           budget' \in Nat, unsure' \in BOOLEAN
    PROVE  Inv'
  <1>1. /\ work' \in Trees /\ head' \in Commits
        /\ lock' \in [{"index", "watch"} -> LockFile]
    BY Shared DEF Inv
  <1>2. new.pc \notin Working /\ new.pc \in Locked
    BY DEF Leaves, Working, Locked
  <1>3. RunsOK'
    BY <1>2, EndRuns DEF Leaves
  <1>4. Holds(p, new)
    BY <1>2, KeepsLock DEF Leaves
  <1> QED  BY <1>1, <1>3, <1>4, OneStep DEF Leaves

\* A run that is cut short has left an entry, or has touched nothing.
LEMMA CutShort ==
    ASSUME Inv, NEW p \in Procs, Busy(p), ~unsure, ~Untold(p)
    PROVE  intent \/ Current
  <1>1. RunOK(proc[p])
    BY ItsRun
  <1>2. CASE proc[p].kind = "full"
    BY <1>1, <1>2 DEF RunOK
  <1>3. CASE proc[p].kind = "changed"
    BY <1>1, <1>3 DEF RunOK, Untold
  <1>4. CASE proc[p].kind = "advance"
    BY <1>1, <1>4 DEF RunOK
  <1>5. CASE proc[p].kind = "empty"
    BY <1>1, <1>5 DEF RunOK, Untold
  <1> QED  BY <1>1, <1>2, <1>3, <1>4, <1>5 DEF RunOK

\* Cut short, by whatever it is.
LEMMA CutStep ==
    ASSUME Inv, NEW p \in Procs, NEW new \in Process, Leaves(p, new),
           UNCHANGED <<work, head, graph, state, intent, lock>>,
           unsure' = (unsure \/ Untold(p)), budget' \in Nat,
           proc[p].pc \in Locked
    PROVE  Inv'
  <1>1. /\ graph' \in [Sources -> Node] /\ state' \in State /\ intent' \in BOOLEAN
        /\ unsure' \in BOOLEAN /\ lock' \in [{"index", "watch"} -> LockFile]
    BY Shared DEF Inv
  <1>2. CASE Busy(p)
    <2>1. ASSUME ~unsure' PROVE ~unsure /\ (intent' \/ Current')
      <3>1. ~unsure /\ (intent \/ Current)
        BY <1>2, <2>1, CutShort
      <3> QED  BY <3>1 DEF Current, ProjectionOf, NodeOf, HasModules
    <2> QED  BY <1>1, <1>2, <2>1, LeaveStep
  <1>3. CASE ~Busy(p) /\ ~Untold(p)
    <2>1. unsure' = unsure
      BY <1>3, Shared DEF Inv
    <2>2. new.pc \notin Working /\ new.pc \in Locked /\ SetProc(p, new) /\ new.job = proc[p].job
      BY DEF Leaves, Working, Locked
    <2>3. Holds(p, new)
      BY <2>2, KeepsLock
    <2> QED  BY <1>1, <1>3, <2>1, <2>2, <2>3, Aside
  <1>4. ~Busy(p) => ~Untold(p)
    BY DEF Busy, Untold, Working
  <1> QED  BY <1>2, <1>3, <1>4

LEMMA WriteStateStep == ASSUME Inv, NEW p \in Procs, WriteState(p) PROVE Inv'
  <1> DEFINE st == [sha |-> proc[p].sha, tree |-> work]
  <1>1. /\ proc[p].pc = "state" /\ state' = st
        /\ UNCHANGED <<work, head, graph, intent, lock, budget, unsure>>
        /\ IF proc[p].kind \in {"full", "changed"} THEN Goto(p, "clean") ELSE Finish(p)
    BY DEF WriteState
  <1>2. st \in State /\ st.tree = work
    BY Fields, Shared DEF Inv, State
  <1> HIDE DEF st
  <1>3. /\ graph' \in [Sources -> Node] /\ state' \in State /\ intent' \in BOOLEAN
        /\ budget' \in Nat /\ unsure' \in BOOLEAN /\ Busy(p)
    BY <1>1, <1>2, Shared DEF Inv, Busy, Working
  <1>4. CASE proc[p].kind \in {"full", "changed"}
    <2>1. PICK new \in Process :
            /\ SetProc(p, new) /\ new.pc = "clean"
            /\ new.job = proc[p].job /\ new.kind = proc[p].kind
            /\ new.files = proc[p].files /\ new.owed = proc[p].owed
      <3> DEFINE n == [proc[p] EXCEPT !.pc = "clean"]
      <3>1. /\ n \in Process /\ SetProc(p, n) /\ n.pc = "clean"
            /\ n.job = proc[p].job /\ n.kind = proc[p].kind
            /\ n.files = proc[p].files /\ n.owed = proc[p].owed
        BY <1>1, <1>4, Fields DEF Inv, Process, PC, Working, Goto
      <3> HIDE DEF n
      <3> QED  BY <3>1
    <2>2. ASSUME ~unsure PROVE RunOK(new)'
      <3>1. RunOK(proc[p])
        BY <1>3, <2>2, ItsRun
      <3>2. /\ intent
            /\ proc[p].kind = "full" => proc[p].files = Sources
            /\ BuildsOnGood(proc[p]) => Renewing(proc[p])
        BY <1>1, <1>4, <3>1 DEF RunOK
      <3>3. BuildsOnGood(new)' => graph' = ProjectionOf(state'.tree)
        BY <1>1, <1>2, <2>1, <3>2 DEF BuildsOnGood, Renewing, ProjectionOf, NodeOf, HasModules
      <3>4. new.kind = "full" => BuildsOnGood(new)'
        BY DEF BuildsOnGood
      <3> QED  BY <1>1, <1>4, <2>1, <3>2, <3>3, <3>4 DEF RunOK, Renewing
    <2>3. new.pc \in Working
      BY <2>1 DEF Working
    <2> QED  BY <1>1, <1>3, <2>1, <2>2, <2>3, InsideStep
  <1>5. CASE proc[p].kind \notin {"full", "changed"}
    <2>1. PICK new \in Process : Leaves(p, new)
      BY <1>1, <1>5, FinishStep
    <2>2. ASSUME ~unsure' PROVE ~unsure /\ (intent' \/ Current')
      <3>1. ~unsure /\ RunOK(proc[p])
        BY <1>1, <1>3, <2>2, ItsRun
      <3>2. intent \/ graph = ProjectionOf(work)
        BY <1>1, <1>5, <3>1 DEF RunOK, Current, Matches
      <3> QED  BY <1>1, <1>2, <3>1, <3>2 DEF Current, ProjectionOf, NodeOf, HasModules
    <2> QED  BY <1>1, <1>3, <2>1, <2>2, LeaveStep
  <1> QED  BY <1>4, <1>5

LEMMA CleanStep == ASSUME Inv, NEW p \in Procs, CleanOutbox(p) PROVE Inv'
  <1>1. /\ proc[p].pc = "clean" /\ intent' = FALSE /\ Finish(p)
        /\ unsure' = (unsure \/ (proc[p].kind = "changed" /\ proc[p].owed))
        /\ UNCHANGED <<work, head, graph, state, lock, budget>>
    BY DEF CleanOutbox
  <1>2. Busy(p)
    BY <1>1 DEF Busy, Working
  <1>3. PICK new \in Process : Leaves(p, new)
    BY <1>1, FinishStep
  <1>4. ASSUME ~unsure' PROVE ~unsure /\ (intent' \/ Current')
    <2>1. ~unsure /\ RunOK(proc[p]) /\ ~(proc[p].kind = "changed" /\ proc[p].owed)
      BY <1>1, <1>2, <1>4, ItsRun
    <2>2. Renewing(proc[p])
      BY <1>1, <2>1, Fields DEF Inv, RunOK, BuildsOnGood
    <2>3. graph = ProjectionOf(state.tree)
      BY <1>1, <2>2 DEF Renewing
    <2> QED  BY <1>1, <2>1, <2>3 DEF Current, ProjectionOf, NodeOf, HasModules
  <1>5. /\ graph' \in [Sources -> Node] /\ state' \in State /\ intent' \in BOOLEAN
        /\ budget' \in Nat /\ unsure' \in BOOLEAN
    BY <1>1, Shared, Fields DEF Inv
  <1> QED  BY <1>1, <1>2, <1>3, <1>4, <1>5, LeaveStep

LEMMA StateFailsStep == ASSUME Inv, NEW p \in Procs, StateFails(p) PROVE Inv'
  <1>1. /\ proc[p].pc = "state" /\ Finish(p) /\ unsure' = (unsure \/ Untold(p))
        /\ budget' \in Nat /\ UNCHANGED <<work, head, graph, state, intent, lock>>
    BY Shared DEF Inv, StateFails, Spend
  <1> QED  BY <1>1, FinishStep, CutStep DEF Locked, Working

LEMMA FailStep == ASSUME Inv, NEW p \in Procs, Fail(p) PROVE Inv'
  <1>1. /\ proc[p].pc \in Locked /\ Failed(p) /\ unsure' = (unsure \/ Untold(p))
        /\ budget' \in Nat /\ UNCHANGED <<work, head, graph, state, intent, lock>>
    BY Shared DEF Inv, Fail, Spend, Locked
  <1> QED  BY <1>1, FailedStep, CutStep

LEMMA NoModulesStep == ASSUME Inv, NEW p \in Procs, NoModules(p) PROVE Inv'
  <1>1. /\ proc[p].pc \in {"scan", "plan"} /\ Failed(p)
        /\ UNCHANGED <<work, head, graph, state, intent, lock, budget, unsure>>
    BY DEF NoModules
  <1>2. ~Untold(p) /\ proc[p].pc \in Locked
    BY <1>1 DEF Untold, Locked, Working
  <1>3. unsure' = (unsure \/ Untold(p)) /\ budget' \in Nat
    BY <1>1, <1>2, Shared DEF Inv
  <1> QED  BY <1>1, <1>2, <1>3, FailedStep, CutStep

LEMMA CancelStep == ASSUME Inv, NEW p \in Procs, Cancel(p) PROVE Inv'
  <1> DEFINE new == [Idle EXCEPT !.pc = "release", !.job = "watch"]
  <1>1. /\ proc[p].job = "watch" /\ proc[p].pc \in Locked /\ SetProc(p, new)
        /\ unsure' = (unsure \/ Untold(p)) /\ budget' \in Nat
        /\ UNCHANGED <<work, head, graph, state, intent, lock>>
    BY Shared DEF Inv, Cancel, Spend, Locked
  <1>2. new \in Process /\ new.pc = "release" /\ new.job = "watch"
    BY IdleType DEF Process, PC, AllJobs
  <1> HIDE DEF new
  <1>3. Leaves(p, new)
    BY <1>1, <1>2 DEF Leaves
  <1> QED  BY <1>1, <1>2, <1>3, CutStep

LEMMA CrashStep == ASSUME Inv, NEW p \in Procs, Crash(p) PROVE Inv'
  <1>1. /\ SetProc(p, Idle) /\ unsure' = (unsure \/ Untold(p)) /\ budget' \in Nat
        /\ lock' = [k \in DOMAIN lock |->
                      IF lock[k] # p THEN lock[k]
                      ELSE IF proc[p].pc = "stamp" THEN "empty" ELSE "left"]
        /\ UNCHANGED <<work, head, graph, state, intent>>
    BY Shared DEF Inv, Crash, Spend
  <1>2. Idle.pc \notin Working
    BY IdleType DEF Working
  <1>3. /\ lock' \in [{"index", "watch"} -> LockFile]
        /\ \A k \in {"index", "watch"} :
              lock'[k] \notin Procs \/ (lock'[k] = lock[k] /\ lock'[k] # p)
    BY <1>1, Shared, LockNames DEF Inv, Ownerless
  <1>4. Holds(p, Idle)
    BY <1>3 DEF Holds
  <1>5. /\ work' \in Trees /\ head' \in Commits /\ graph' \in [Sources -> Node]
        /\ state' \in State /\ intent' \in BOOLEAN /\ unsure' \in BOOLEAN
    BY <1>1, Shared DEF Inv
  <1>6. CASE Busy(p)
    <2>1. ASSUME ~unsure' PROVE ~unsure /\ (intent' \/ Current')
      <3>1. ~unsure /\ (intent \/ Current)
        BY <1>1, <1>6, <2>1, CutShort
      <3> QED  BY <1>1, <3>1 DEF Current, ProjectionOf, NodeOf, HasModules
    <2>2. RunsOK'
      BY <1>1, <1>2, <1>6, <2>1, IdleType, EndRuns
    <2> QED  BY <1>1, <1>3, <1>4, <1>5, <2>2, IdleType, OneStep
  <1>7. CASE ~Busy(p)
    <2>1. unsure' = unsure
      BY <1>1, <1>7, Shared DEF Inv, Busy, Untold, Working
    <2> QED  BY <1>1, <1>2, <1>3, <1>4, <1>7, <2>1, IdleType, Aside
  <1> QED  BY <1>6, <1>7

\* The system gives pids away and takes them back, and time passes.
LEMMA PidStep ==
    ASSUME Inv, NEW k \in {"index", "watch"}, ReusePid(k) \/ FreePid(k) \/ Expire
    PROVE  Inv'
  <1>0. budget \in Nat /\ lock \in [{"index", "watch"} -> LockFile]
    BY Shared DEF Inv
  <1>1. /\ UNCHANGED <<work, head, graph, state, intent, proc, unsure>>
        /\ budget' \in Nat
    BY <1>0 DEF ReusePid, FreePid, Expire, Spend
  <1>2. PICK name \in {"index", "watch"}, file \in Ownerless :
           lock' = [lock EXCEPT ![name] = file]
    BY DEF ReusePid, FreePid, Expire, Ownerless
  <1>3. file \notin Procs /\ file \in LockFile
    BY ConstantsOK DEF Ownerless, LockFile
  <1>4. /\ lock' \in [{"index", "watch"} -> LockFile]
        /\ \A n \in {"index", "watch"} : lock'[n] = lock[n] \/ lock'[n] \notin Procs
    BY <1>0, <1>2, <1>3
  <1>5. TypeOK'
    BY <1>1, <1>4 DEF Inv, TypeOK
  <1>6. HoldersOK'
    BY <1>1, <1>4 DEF Inv, IndexInv, HoldersOK, LockName
  <1>7. RunsOK'
    BY <1>1 DEF Inv, IndexInv, RunsOK, Busy, RunOK, Renewing, BuildsOnGood, Missing, Matches,
                Current, ProjectionOf, NodeOf, HasModules
  <1> QED  BY <1>5, <1>6, <1>7 DEF Inv, IndexInv

--------------------------------------------------------------------------------
(* The watcher *)

LEMMA TickStep ==
    ASSUME Inv, NEW p \in Procs, TickQuiet(p) \/ TickCoalesce(p) \/ TickRun(p)
    PROVE  Inv'
  <1>0. TypeOK /\ proc[p].pc = "watch"
    BY DEF Inv, TickQuiet, TickCoalesce, TickRun
  <1>1. /\ proc[p].pc = "watch"
        /\ UNCHANGED <<work, head, graph, state, intent, lock, budget, unsure>>
    BY <1>0 DEF TickQuiet, TickCoalesce, TickRun
  <1>2. PICK new \in Process : /\ SetProc(p, new) /\ new.pc \in {"watch", "plan"}
                               /\ new.job = proc[p].job
    <2>1. CASE TickQuiet(p)
      <3> DEFINE n == [proc[p] EXCEPT !.keys = {}]
      <3>1. n \in Process /\ n.pc = proc[p].pc /\ n.job = proc[p].job
        BY <1>0, Fields DEF Process
      <3>2. SetProc(p, n)
        BY <2>1 DEF TickQuiet
      <3> HIDE DEF n
      <3> QED  BY <1>0, <3>1, <3>2
    <2>2. CASE TickCoalesce(p)
      <3> DEFINE set == ChangeSet
                 n   == [proc[p] EXCEPT !.keys = set]
      <3>1. set \subseteq Files
        BY DEF ChangeSet, Delta, Files
      <3>2. SetProc(p, n)
        BY <2>2 DEF TickCoalesce
      <3> HIDE DEF set
      <3>3. n \in Process /\ n.pc = proc[p].pc /\ n.job = proc[p].job
        BY <1>0, <3>1, Fields DEF Process
      <3> HIDE DEF n
      <3> QED  BY <1>0, <3>2, <3>3
    <2>3. CASE TickRun(p)
      <3> DEFINE full    == NeedsFull
                 breaker == IF proc[p].breaker = "open" THEN "half_open" ELSE proc[p].breaker
                 n == [proc[p] EXCEPT !.pc = "plan", !.full = full, !.breaker = breaker]
      <3>1. full \in BOOLEAN /\ breaker \in {"closed", "open", "half_open"}
        BY <1>0, Fields DEF NeedsFull
      <3>2. SetProc(p, n)
        BY <1>0, <2>3, Fields DEF TickRun, Process
      <3> HIDE DEF full, breaker
      <3>3. n \in Process /\ n.pc = "plan" /\ n.job = proc[p].job
        BY <1>0, <3>1, Fields DEF Process, PC
      <3> HIDE DEF n
      <3> QED  BY <3>2, <3>3
    <2> QED  BY <2>1, <2>2, <2>3
  <1>3. new.pc \notin Working /\ new.pc \in Locked /\ ~Busy(p)
    BY <1>1, <1>2 DEF Working, Locked, Busy
  <1> QED  BY <1>0, <1>1, <1>2, <1>3, KeepsLock, Shared, Aside

--------------------------------------------------------------------------------
(* The specification *)

LEMMA InvInit == Init => Inv
  <1> SUFFICES ASSUME Init PROVE Inv
    OBVIOUS
  <1>1. work \in Trees /\ head \in Commits
    BY ConstantsOK DEF Init
  <1>2. graph \in [Sources -> Node] /\ state \in State /\ Current
    <2>1. CASE state = NoState /\ graph = [f \in Sources |-> NoNode]
      <3>1. NoNode \in Node /\ state.sha = NoCommit
        BY <2>1 DEF NoNode, Node, Content, NoState
      <3> QED  BY <2>1, <3>1, IdleType DEF Current
    <2>2. CASE state = [sha |-> head, tree |-> work]
               /\ graph = [f \in Sources |-> NodeOf(work, f)]
      BY <1>1, <2>2, NodeType DEF State, Current, ProjectionOf
    <2> QED  BY <2>1, <2>2 DEF Init
  <1>3. TypeOK
    BY <1>1, <1>2, IdleType, ConstantsOK DEF Init, TypeOK, LockFile
  <1>4. HoldersOK
    BY ConstantsOK DEF Init, HoldersOK
  <1>5. \A p \in Procs : ~Busy(p)
    BY IdleType DEF Init, Busy, Working
  <1> QED  BY <1>2, <1>3, <1>4, <1>5 DEF Inv, IndexInv, RunsOK

LEMMA InvNext == Inv /\ [Next]_vars => Inv'
  <1> SUFFICES ASSUME Inv, [Next]_vars PROVE Inv'
    OBVIOUS
  <1>1. ASSUME NEW p \in Procs, Run(p) PROVE Inv'
    <2>1. CASE \/ PlanFull(p) \/ PlanAdvance(p) \/ PlanEmpty(p) \/ PlanChanged(p)
               \/ NoModules(p)
      BY <2>1, PlanFullStep, PlanAdvanceStep, PlanEmptyStep, PlanChangedStep, NoModulesStep
    <2>2. CASE \/ Invalidate(p) \/ WriteIntent(p) \/ SweepProjectLang(p) \/ Scan(p)
               \/ Store(p) \/ WriteState(p) \/ CleanOutbox(p)
      BY <2>2, InvalidateStep, IntentStep, SweepStep, ScanStep, StoreStep, WriteStateStep,
         CleanStep
    <2> QED  BY <1>1, <2>1, <2>2 DEF Run
  <1>2. ASSUME NEW p \in Procs, Continue(p) PROVE Inv'
    <2>1. CASE \/ LookIndex(p) \/ SkipIndex(p) \/ RemoveStale(p) \/ CreateLock(p)
               \/ CreateLoses(p) \/ StampLock(p) \/ Release(p)
      BY <2>1, LookIndexStep, SkipIndexStep, RemoveStep, CreateStep, LosesStep, StampStep, ReleaseStep
    <2>2. CASE TickQuiet(p) \/ TickCoalesce(p) \/ TickRun(p)
      BY <2>2, TickStep
    <2> QED  BY <1>1, <1>2, <2>1, <2>2 DEF Continue
  <1>3. ASSUME NEW p \in Procs, GoesWrong(p) PROVE Inv'
    BY <1>3, IntentFailsStep, SweepFailsStep, StateFailsStep, FailStep, CancelStep, CrashStep DEF GoesWrong
  <1>4. CASE UNCHANGED vars
    <2>1. UNCHANGED <<work, head, graph, state, intent, lock, proc, budget, unsure>>
      BY <1>4 DEF vars
    <2> QED  BY <2>1 DEF Inv, IndexInv, TypeOK, HoldersOK, LockName, RunsOK, Busy, RunOK,
                         Renewing, BuildsOnGood, Missing, Matches, Current, ProjectionOf,
                         NodeOf, HasModules
  <1> QED  BY <1>2, <1>3, <1>4, EditStep, CheckoutStep, LookStep, SkipStep, HookStep, PidStep
           DEF Next

LEMMA InvHolds == Spec => []Inv
  BY InvInit, InvNext, PTL DEF Spec

\* Every reachable state of gg index, --changed and --watch is well typed.
THEOREM TypeCorrect == Spec => []TypeOK
  <1>1. Inv => TypeOK
    BY DEF Inv
  <1> QED  BY <1>1, InvHolds, PTL

\* A lock file that names a process is its own, and while nothing has made the
\* state unsure, graph, recorded tree and outbox entry fit together at each
\* point of each run.
THEOREM Invariance == Spec => []IndexInv
  <1>1. Inv => IndexInv
    BY DEF Inv
  <1> QED  BY <1>1, InvHolds, PTL

\* What gg index status calls ready is the graph of the working tree, outside the
\* six exceptions that make it unsure.
THEOREM ReadyIsRight == Spec => []ReadyIsTrue
  <1>1. Inv => ReadyIsTrue
    <2> SUFFICES ASSUME Inv, ~unsure, Ready PROVE graph = Projection
      BY DEF ReadyIsTrue
    <2>1. state.sha # NoCommit /\ state.tree = work /\ ~intent
      BY DEF Ready, NoBase, Matches
    <2>2. Current => graph = Projection
      BY <2>1 DEF Current, ProjectionOf, Projection
    <2>3. CASE \A p \in Procs : ~Busy(p)
      BY <2>1, <2>2, <2>3 DEF Inv, IndexInv, RunsOK
    <2>4. ASSUME NEW p \in Procs, Busy(p) PROVE graph = Projection
      <3>1. RunOK(proc[p])
        BY <2>4, ItsRun
      <3> QED  BY <2>1, <2>2, <3>1 DEF RunOK
    <2> QED  BY <2>3, <2>4
  <1> QED  BY <1>1, InvHolds, PTL

\* What may hold a run off: the file of a process that has created this very lock
\* and has not come to its deferred removal, or the one of a killed process whose
\* pid was given to another.
Justified(k) ==
    \/ \E q \in Procs : lock[k] = q /\ LockName(q) = k /\ proc[q].pc \in Locked
    \/ lock[k] = "reused"

\* What holds up a run that steps aside (index_lock.go): at the watch lock a
\* watcher, at index.lock a one-shot run, each past its own lock, or a file whose
\* pid runs again - but no empty file, none whose pid is gone, and no index.lock
\* that is older than 15 minutes.
THEOREM SkipsAreJustified ==
    Spec => [][\A p \in Procs :
                  /\ \A job \in AllJobs : Skip(p, job) => Justified("watch")
                  /\ SkipIndex(p) => Justified("index")]_vars
  <1>1. ASSUME Inv, NEW k \in {"index", "watch"}, Held(k) PROVE Justified(k)
    <2>1. CASE lock[k] = "reused"
      BY <2>1 DEF Justified
    <2>2. CASE lock[k] \in Procs /\ proc[lock[k]].pc # "stamp"
      <3>1. k = LockName(lock[k]) /\ proc[lock[k]].pc \in Locked
        BY <1>1, <2>2 DEF Inv, IndexInv, HoldersOK
      <3> QED  BY <2>2, <3>1 DEF Justified
    <2> QED  BY <1>1, <2>1, <2>2 DEF Held
  <1>2. Inv => [\A p \in Procs :
                   /\ \A job \in AllJobs : Skip(p, job) => Justified("watch")
                   /\ SkipIndex(p) => Justified("index")]_vars
    BY <1>1 DEF Skip, SkipIndex
  <1> QED  BY <1>2, InvHolds, PTL

================================================================================
