--------------------------- MODULE EmbedSpace_proofs ----------------------------
(***************************************************************************)
(* Proofs about EmbedSpace: one model behind all vectors and all searches, *)
(* for every number of processes, records and models, every override and   *)
(* every fault.                                                            *)
(***************************************************************************)
EXTENDS EmbedSpace, TLAPS

\* What a process remembers, whatever the others do.
Sound(q) ==
    /\ q.pc # "idle" => q.op \in AllOps /\ q.model \in Models
    /\ q.pc \in {"scan", "drop", "fill", "meta", "config"} =>
          q.op = "reembed" /\ q.dim = Dim[q.model]
    /\ q.pc \in {"size", "wipe", "restamp", "seed", "match", "missing"} => q.op = "import"
    /\ q.pc \in {"check", "stamp", "ready"} => q.op \in {"record", "search", "mcp", "serve"}
    /\ q.pc = "upsert" => q.op = "record"
    /\ q.pc \in {"answered", "heal"} => q.op = "search"
    /\ q.pc \in {"check", "stamp", "wipe", "restamp"} => q.dim # 0
    /\ q.pc = "broken" => q.op = "serve"
    /\ q.pc = "ready" => q.basis = NoMeta \/ q.basis.model = q.model
    /\ q.pc = "check" /\ q.op \in {"record", "search"} /\ q.env = NoModel =>
          q.basis = NoMeta \/ (q.model = q.basis.model /\ q.dim = q.basis.dim)

ProcsOK == \A p \in Procs : Sound(proc[p])

\* A rebuild beside which nobody has written since the drop: all vectors are its own.
AloneOK ==
    \A p \in Procs : Rebuilding(p) /\ p \notin disturbed =>
        /\ \A q \in Procs \ {p} : ~Writing(q)
        /\ InSpace(proc[p].model)

\* The model of meta, or of a rebuild under way.
SpaceOK ==
    ~unsure =>
        /\ meta # NoMeta => meta.dim = Dim[meta.model]
        /\ \A r \in Records : point[r].vec \in Models =>
              \/ point[r].vec = meta.model
              \/ \E p \in Procs : Rebuilding(p) /\ point[r].vec = proc[p].model

\* A command that may still write a vector holds the model of meta.
Holds(q) ==
    /\ q.op \in {"record", "search"} /\ q.checked
          /\ q.pc \in {"ready", "upsert", "answered", "heal"}
    \/ q.pc \in {"seed", "match", "missing"}

WritersOK ==
    ~unsure => \A p \in Procs : Holds(proc[p]) => proc[p].model = meta.model

Inv == TypeOK /\ ProcsOK /\ AloneOK /\ SpaceOK /\ WritersOK

--------------------------------------------------------------------------------
(* Data *)

LEMMA Values ==
    /\ NoModel \notin Models /\ Absent \notin Models /\ Zero \notin Models
    /\ Trusted \notin Models
    /\ \A m \in Models : Dim[m] \in Nat \ {0}
    /\ Fallback \in Nat \ {0}
  BY ConstantsOK

LEMMA MetaType ==
    /\ NoMeta \notin Meta
    /\ \A m \in Meta : m.model \in Models /\ m.dim \in Nat \ {0}
    /\ \A m \in Models, d \in Nat \ {0} : [model |-> m, dim |-> d] \in Meta
  BY Values DEF Meta, NoMeta

LEMMA PointType ==
    /\ NoPoint \in Point
    /\ \A m \in Models, b \in BOOLEAN : [vec |-> m, marked |-> b] \in Point
    /\ \A b \in BOOLEAN : [vec |-> Zero, marked |-> b] \in Point
  BY DEF Point, NoPoint

LEMMA IdleType == Idle \in Process /\ Sound(Idle) /\ Idle.pc = "idle" /\ Idle.op = "none"
  BY DEF Idle, Process, PC, Sound

LEMMA EffectiveType ==
    ASSUME TypeOK, NEW env \in Overrides
    PROVE  EffectiveModel(env) \in Models /\ Aligned(env) \in Models
  BY ConstantsOK, MetaType DEF TypeOK, EffectiveModel, Aligned

--------------------------------------------------------------------------------
(* Every step of a process leaves it with sound values *)

\* p goes on as new, the others stay as they are.
Becomes(p, new) ==
    /\ new \in Process
    /\ Sound(new)
    /\ proc' \in [Procs -> Process]
    /\ proc'[p] = new
    /\ \A q \in Procs \ {p} : proc'[q] = proc[q]

LEMMA SetProc ==
    ASSUME TypeOK, NEW p \in Procs, NEW new \in Process, Sound(new),
           proc' = [proc EXCEPT ![p] = new]
    PROVE  Becomes(p, new)
  BY DEF TypeOK, Becomes

LEMMA EndType ==
    ASSUME TypeOK, NEW p \in Procs, End(p)
    PROVE  Becomes(p, Idle) /\ disturbed' = disturbed \ {p}
  BY SetProc, IdleType DEF End

--------------------------------------------------------------------------------
(* Steps that leave meta alone *)

\* The variables that no part of the invariant but TypeOK mentions.
RestOK ==
    /\ config \in Models
    /\ logged \in SUBSET Records
    /\ queued \in SUBSET Records
    /\ budget \in Nat
    /\ disturbed \in SUBSET Procs

\* The vectors after a step of p: as before, or written by p, which may.
MayWrite(p) ==
    /\ point' \in [Records -> Point]
    /\ \A r \in Records : point'[r].vec \in Models =>
          \/ point'[r].vec = point[r].vec
          \/ /\ point'[r].vec = proc[p].model
             /\ Writing(p)
             /\ Rebuilding(p) \/ Holds(proc[p]) \/ unsure'

\* p goes on with the same command, in or out of the rebuild as before.
GoesOn(p, new) ==
    /\ new.op = proc[p].op
    /\ new.model = proc[p].model
    /\ new.pc \in {"fill", "meta"} <=> proc[p].pc \in {"fill", "meta"}
    /\ disturbed' = disturbed

\* p has ended its rebuild, or the whole command; if it was moving the vectors
\* to another model this is noted.
Leaves(p, new) ==
    /\ new.op \in {"none", "reembed"}
    /\ new.pc \notin {"fill", "meta"}
    /\ disturbed' = disturbed \ {p}
    /\ unsure' \/ ~Migrating(p)

\* p starts a command, beside rebuilds that learn about it if it may write.
Enters(p, new) ==
    /\ proc[p].pc = "idle"
    /\ new.pc \notin {"fill", "meta"}
    /\ disturbed \subseteq disturbed'
    /\ new.op \in {"record", "search", "import"} => Disturb(p)

\* A step of one process that leaves meta alone keeps the invariant.
LEMMA SameMeta ==
    ASSUME Inv, NEW p \in Procs, NEW new, Becomes(p, new),
           GoesOn(p, new) \/ Leaves(p, new) \/ Enters(p, new),
           Holds(new) => \/ Holds(proc[p]) /\ new.model = proc[p].model
                         \/ new.model = meta.model
                         \/ unsure',
           MayWrite(p), meta' = meta, unsure' \in BOOLEAN, unsure => unsure', RestOK'
    PROVE  Inv'
  <1>1. /\ TypeOK /\ ProcsOK /\ AloneOK /\ SpaceOK /\ WritersOK
    BY DEF Inv
  <1>2. /\ proc'[p] = new
        /\ \A q \in Procs : q # p => proc'[q] = proc[q]
    BY DEF Becomes
  <1>3. TypeOK' /\ ProcsOK'
    BY <1>1, <1>2 DEF Becomes, RestOK, MayWrite, TypeOK, ProcsOK
  <1>4. AloneOK'
    <2> SUFFICES ASSUME NEW a \in Procs, Rebuilding(a)', a \notin disturbed'
                 PROVE  /\ \A q \in Procs \ {a} : ~Writing(q)'
                        /\ InSpace(proc[a].model)'
      BY DEF AloneOK
    <2>1. Rebuilding(a) /\ a \notin disturbed /\ proc'[a].model = proc[a].model
      BY <1>2, IdleType DEF GoesOn, Leaves, Enters, Rebuilding
    <2>2. /\ \A q \in Procs \ {a} : ~Writing(q)
          /\ InSpace(proc[a].model)
      BY <1>1, <2>1 DEF AloneOK
    <2>3. ASSUME NEW q \in Procs \ {a}, Writing(q)' PROVE FALSE
      <3>1. q # p => Writing(q)
        BY <1>2, <2>3 DEF Writing, Rebuilding
      <3>2. GoesOn(p, new) /\ q = p => Writing(q)
        BY <1>2, <2>3 DEF Writing, Rebuilding, GoesOn
      <3>3. ~(Leaves(p, new) /\ q = p)
        BY <1>2, <2>3, IdleType DEF Writing, Rebuilding, Leaves
      <3>4. Enters(p, new) /\ q = p => a \in disturbed'
        BY <1>2, <2>1, <2>3 DEF Writing, Rebuilding, Enters, Disturb
      <3> QED  BY <2>1, <2>2, <3>1, <3>2, <3>3, <3>4
    <2>4. Writing(p) => p = a
      BY <2>2
    <2>5. InSpace(proc[a].model)'
      BY <2>1, <2>2, <2>4 DEF InSpace, MayWrite
    <2> QED  BY <2>3, <2>5
  <1>5. SpaceOK'
    <2> SUFFICES ASSUME ~unsure'
                 PROVE  /\ meta # NoMeta => meta.dim = Dim[meta.model]
                        /\ \A r \in Records : point'[r].vec \in Models =>
                              \/ point'[r].vec = meta.model
                              \/ \E q \in Procs : Rebuilding(q)' /\ point'[r].vec = proc'[q].model
      BY DEF SpaceOK
    <2>1. ~unsure
      OBVIOUS
    <2>2. ASSUME NEW q \in Procs, Rebuilding(q), proc[q].model # meta.model
          PROVE  Rebuilding(q)' /\ proc'[q].model = proc[q].model
      BY <1>2, <2>2 DEF GoesOn, Leaves, Enters, Rebuilding, Migrating
    <2>3. ASSUME NEW r \in Records, point'[r].vec \in Models
          PROVE  \/ point'[r].vec = meta.model
                 \/ \E q \in Procs : Rebuilding(q) /\ point'[r].vec = proc[q].model
      BY <1>1, <2>1, <2>3 DEF SpaceOK, WritersOK, MayWrite
    <2>4. meta # NoMeta => meta.dim = Dim[meta.model]
      BY <1>1, <2>1 DEF SpaceOK
    <2> QED  BY <2>2, <2>3, <2>4
  <1>6. WritersOK'
    <2> SUFFICES ASSUME ~unsure', NEW q \in Procs, Holds(proc'[q])
                 PROVE  proc'[q].model = meta.model
      BY DEF WritersOK, Holds
    <2>1. CASE q # p
      BY <1>1, <1>2, <2>1 DEF WritersOK
    <2>2. CASE q = p
      BY <1>1, <1>2, <2>2 DEF WritersOK
    <2> QED  BY <2>1, <2>2
  <1> QED  BY <1>3, <1>4, <1>5, <1>6 DEF Inv

\* The others write.
LEMMA Aside ==
    ASSUME Inv, proc' = proc, meta' = meta, unsure' = unsure, disturbed' = disturbed, RestOK',
           point' \in [Records -> Point],
           \A r \in Records : point'[r].vec \in Models => point'[r].vec = point[r].vec
    PROVE  Inv'
  <1>1. /\ TypeOK /\ ProcsOK /\ AloneOK /\ SpaceOK /\ WritersOK
    BY DEF Inv
  <1>2. TypeOK' /\ ProcsOK' /\ WritersOK'
    BY <1>1 DEF TypeOK, RestOK, ProcsOK, WritersOK
  <1>3. AloneOK'
    BY <1>1 DEF AloneOK, Rebuilding, Writing, InSpace
  <1>4. SpaceOK'
    BY <1>1 DEF SpaceOK, Rebuilding
  <1> QED  BY <1>2, <1>3, <1>4 DEF Inv

\* Steps that write no vector, or one.
LEMMA WritesNone ==
    ASSUME TypeOK, NEW p \in Procs, UNCHANGED point
    PROVE  MayWrite(p)
  BY DEF MayWrite, TypeOK

LEMMA WritesOne ==
    ASSUME TypeOK, NEW p \in Procs, NEW r \in Records, NEW b \in BOOLEAN,
           point' = [point EXCEPT ![r] = [vec |-> proc[p].model, marked |-> b]],
           proc[p].model \in Models, Writing(p), Rebuilding(p) \/ Holds(proc[p]) \/ unsure'
    PROVE  MayWrite(p)
  <1>1. [vec |-> proc[p].model, marked |-> b] \in Point
    BY PointType
  <1> QED  BY <1>1 DEF MayWrite, TypeOK

\* A command ends.
LEMMA Ending ==
    ASSUME Inv, NEW p \in Procs, End(p), meta' = meta, MayWrite(p),
           (unsure' = unsure /\ ~Migrating(p)) \/ unsure' = TRUE,
           config' \in Models, logged' \in SUBSET Records, queued' \in SUBSET Records,
           budget' \in Nat
    PROVE  Inv'
  <1>1. TypeOK
    BY DEF Inv
  <1>2. Becomes(p, Idle) /\ disturbed' = disturbed \ {p}
    BY <1>1, EndType
  <1>3. RestOK' /\ unsure' \in BOOLEAN /\ (unsure => unsure')
    BY <1>1, <1>2 DEF RestOK, TypeOK
  <1>4. ~Holds(Idle)
    BY IdleType DEF Holds
  <1>5. Leaves(p, Idle)
    BY <1>2, IdleType DEF Leaves
  <1> QED  BY <1>2, <1>3, <1>4, <1>5, SameMeta

\* A command goes on.
LEMMA GoingOn ==
    ASSUME Inv, NEW p \in Procs, NEW new \in Process, proc' = [proc EXCEPT ![p] = new],
           Sound(new), GoesOn(p, new), meta' = meta, MayWrite(p),
           unsure' = unsure \/ unsure' = TRUE,
           Holds(new) => Holds(proc[p]) \/ new.model = meta.model \/ unsure',
           config' = config, logged' \in SUBSET Records, queued' = queued, budget' \in Nat
    PROVE  Inv'
  <1>1. TypeOK
    BY DEF Inv
  <1>2. Becomes(p, new)
    BY <1>1, SetProc
  <1>3. RestOK' /\ unsure' \in BOOLEAN /\ (unsure => unsure')
    BY <1>1 DEF RestOK, TypeOK, GoesOn
  <1>4. Holds(new) => \/ Holds(proc[p]) /\ new.model = proc[p].model
                      \/ new.model = meta.model
                      \/ unsure'
    BY DEF GoesOn
  <1> QED  BY <1>2, <1>3, <1>4, SameMeta

--------------------------------------------------------------------------------
(* The steps of a command *)

\* A command starts.
LEMMA StartStep ==
    ASSUME Inv, NEW p \in Procs, NEW new \in Process,
           proc[p].pc = "idle", proc' = [proc EXCEPT ![p] = new], Sound(new),
           new.pc \notin {"fill", "meta"}, ~Holds(new),
           \/ new.op \in {"record", "search", "import"} /\ Disturb(p)
           \/ new.op \notin {"record", "search", "import"} /\ disturbed' = disturbed,
           UNCHANGED <<config, meta, point, logged, queued, unsure>>, budget' \in Nat
    PROVE  Inv'
  <1>1. TypeOK
    BY DEF Inv
  <1>2. Becomes(p, new)
    BY <1>1, SetProc
  <1>3. RestOK' /\ unsure' \in BOOLEAN
    BY <1>1 DEF RestOK, TypeOK, Disturb
  <1>4. Enters(p, new)
    BY DEF Enters, Disturb
  <1>5. MayWrite(p)
    BY <1>1 DEF MayWrite, TypeOK
  <1> QED  BY <1>2, <1>3, <1>4, <1>5, SameMeta

LEMMA ResolveStep ==
    ASSUME Inv, NEW p \in Procs, NEW env \in Overrides, NEW op \in AllOps, Resolve(p, op, env)
    PROVE  Inv'
  <1> DEFINE start == [Idle EXCEPT !.op = op, !.env = env, !.model = Aligned(env), !.basis = meta]
             dim   == IF meta # NoMeta THEN meta.dim ELSE Dim[Aligned(env)]
             check == [start EXCEPT !.pc = "check", !.dim = dim]
             ready == [start EXCEPT !.pc = "ready", !.dim = Fallback]
  <1>1. TypeOK /\ op \in {"record", "search"} /\ proc[p].pc = "idle" /\ Disturb(p)
        /\ UNCHANGED <<config, meta, point, logged, queued, unsure>> /\ budget' \in Nat
    BY DEF Inv, TypeOK, Resolve, Spend, Fault
  <1>2. Aligned(env) \in Models /\ env \in Models \union {NoModel} /\ meta \in Meta \union {NoMeta}
    BY <1>1, EffectiveType, ConstantsOK DEF TypeOK
  <1>3. CASE proc' = [proc EXCEPT ![p] = check]
    <2>1. dim \in Nat \ {0}
      BY <1>2, MetaType, Values
    <2>2. meta # NoMeta /\ env = NoModel => Aligned(env) = meta.model
      BY DEF Aligned
    <2>3. check \in Process /\ Sound(check) /\ check.op = op /\ check.pc = "check"
      BY <1>1, <1>2, <2>1, <2>2 DEF Idle, Process, PC, Sound, AllOps
    <2>4. ~Holds(check)
      BY <2>3 DEF Holds
    <2> HIDE DEF check
    <2> QED  BY <1>1, <1>3, <2>3, <2>4, StartStep
  <1>4. CASE meta = NoMeta /\ proc' = [proc EXCEPT ![p] = ready]
    <2>1. ready \in Process /\ Sound(ready) /\ ready.op = op /\ ready.pc = "ready" /\ ~ready.checked
      BY <1>1, <1>2, <1>4, Values DEF Idle, Process, PC, Sound, AllOps
    <2>2. ~Holds(ready)
      BY <2>1 DEF Holds
    <2> HIDE DEF ready
    <2> QED  BY <1>1, <1>4, <2>1, <2>2, StartStep
  <1> QED  BY <1>3, <1>4 DEF Resolve

LEMMA ResolveUnalignedStep ==
    ASSUME Inv, NEW p \in Procs, NEW env \in Overrides, NEW op \in AllOps,
           ResolveUnaligned(p, op, env)
    PROVE  Inv'
  <1>1. /\ TypeOK /\ op \in {"mcp", "serve"} /\ proc[p].pc = "idle"
        /\ UNCHANGED <<config, meta, point, logged, queued, disturbed, unsure>> /\ budget' \in Nat
    BY DEF Inv, TypeOK, ResolveUnaligned, Spend
  <1>2. EffectiveModel(env) \in Models /\ env \in Models \union {NoModel}
        /\ meta \in Meta \union {NoMeta}
    BY <1>1, EffectiveType, ConstantsOK DEF TypeOK
  <1>3. PICK dim \in IF meta # NoMeta THEN {meta.dim}
                     ELSE {Dim[EffectiveModel(env)]} \union
                          (IF "embedder" \in Faults THEN {Fallback} ELSE {}) :
          proc' = [proc EXCEPT ![p] = [Idle EXCEPT
                    !.pc = IF op = "mcp" /\ meta = NoMeta THEN "ready" ELSE "check",
                    !.op = op, !.env = env, !.model = EffectiveModel(env),
                    !.basis = meta, !.dim = dim]]
    BY DEF ResolveUnaligned
  <1>4. dim \in Nat \ {0}
    BY <1>2, <1>3, MetaType, Values
  <1> DEFINE new == [Idle EXCEPT !.pc = IF op = "mcp" /\ meta = NoMeta THEN "ready" ELSE "check",
                                 !.op = op, !.env = env, !.model = EffectiveModel(env),
                                 !.basis = meta, !.dim = dim]
  <1>5. new \in Process /\ Sound(new) /\ new.op = op /\ new.pc \in {"ready", "check"}
    BY <1>1, <1>2, <1>4 DEF Idle, Process, PC, Sound, AllOps
  <1>6. ~Holds(new)
    BY <1>1, <1>5 DEF Holds
  <1>7. proc' = [proc EXCEPT ![p] = new]
    BY <1>3
  <1> HIDE DEF new
  <1> QED  BY <1>1, <1>5, <1>6, <1>7, StartStep

LEMMA StartImportStep ==
    ASSUME Inv, NEW p \in Procs, NEW env \in Overrides,
           NEW snapshot \in Models \union {NoModel, Trusted}, StartImport(p, env, snapshot)
    PROVE  Inv'
  <1> DEFINE new == [Idle EXCEPT !.pc = "size", !.op = "import",
                                 !.model = EffectiveModel(env), !.snapshot = snapshot]
  <1>1. /\ TypeOK /\ proc[p].pc = "idle" /\ Disturb(p) /\ proc' = [proc EXCEPT ![p] = new]
        /\ UNCHANGED <<config, meta, point, logged, queued, unsure>> /\ budget' \in Nat
    BY DEF Inv, TypeOK, StartImport, Spend
  <1>2. EffectiveModel(env) \in Models
    BY <1>1, EffectiveType
  <1>3. new \in Process /\ Sound(new) /\ new.op = "import" /\ new.pc = "size"
    BY <1>2 DEF Idle, Process, PC, Sound, AllOps
  <1>4. ~Holds(new)
    BY <1>3 DEF Holds
  <1> HIDE DEF new
  <1> QED  BY <1>1, <1>3, <1>4, StartStep

LEMMA ProbeStep ==
    ASSUME Inv, NEW p \in Procs, NEW env \in Overrides, Probe(p, env)
    PROVE  Inv'
  <1> DEFINE new == [Idle EXCEPT !.pc = "scan", !.op = "reembed", !.model = EffectiveModel(env),
                                 !.dim = Dim[EffectiveModel(env)]]
  <1>1. /\ TypeOK /\ proc[p].pc = "idle" /\ proc' = [proc EXCEPT ![p] = new]
        /\ UNCHANGED <<config, meta, point, logged, queued, disturbed, unsure>> /\ budget' \in Nat
    BY DEF Inv, TypeOK, Probe, Spend
  <1>2. EffectiveModel(env) \in Models /\ Dim[EffectiveModel(env)] \in Nat
    BY <1>1, EffectiveType, Values
  <1>3. new \in Process /\ Sound(new) /\ new.op = "reembed" /\ new.pc = "scan"
    BY <1>2 DEF Idle, Process, PC, Sound, AllOps
  <1>4. ~Holds(new)
    BY <1>3 DEF Holds
  <1> HIDE DEF new
  <1> QED  BY <1>1, <1>3, <1>4, StartStep

LEMMA EndSteps ==
    ASSUME Inv, NEW p \in Procs,
           \/ Abort(p) \/ HealStops(p) \/ QueryFails(p) \/ ImportEnds(p) \/ Quit(p)
           \/ UpdateConfig(p) \/ FillAborts(p) \/ Crash(p)
    PROVE  Inv'
  <1>1. TypeOK /\ Sound(proc[p]) /\ proc[p] \in Process
    BY DEF Inv, TypeOK, ProcsOK
  <1>2. /\ End(p) /\ UNCHANGED <<meta, point, logged, queued>>
        /\ config' \in Models /\ budget' \in Nat
    BY <1>1 DEF Abort, HealStops, QueryFails, ImportEnds, Quit, UpdateConfig, FillAborts, Crash,
                Fault, Spend, TypeOK, Sound
  <1>3. (unsure' = unsure /\ ~Migrating(p)) \/ unsure' = TRUE
    BY DEF Abort, HealStops, QueryFails, ImportEnds, Quit, UpdateConfig, FillAborts, Crash,
           Migrating, Rebuilding
  <1> QED  BY <1>1, <1>2, <1>3, Ending, WritesNone DEF TypeOK

LEMMA AppendUnembeddedStep ==
    ASSUME Inv, NEW p \in Procs, NEW r \in Records, AppendUnembedded(p, r)
    PROVE  Inv'
  <1>1. TypeOK
    BY DEF Inv
  <1>2. /\ End(p) /\ UNCHANGED <<config, meta, point, unsure>> /\ ~Migrating(p)
        /\ logged' \in SUBSET Records /\ queued' \in SUBSET Records /\ budget' \in Nat
    BY <1>1 DEF AppendUnembedded, Fault, Spend, TypeOK, Migrating, Rebuilding
  <1> QED  BY <1>1, <1>2, Ending, WritesNone DEF TypeOK

LEMMA FirstRunStep ==
    ASSUME Inv, NEW p \in Procs, FirstRun(p)
    PROVE  Inv'
  <1> DEFINE new == [proc[p] EXCEPT !.pc = "stamp"]
  <1>1. /\ TypeOK /\ Sound(proc[p]) /\ proc[p] \in Process
        /\ UNCHANGED <<config, meta, point, logged, queued, budget, disturbed, unsure>>
    BY DEF Inv, TypeOK, ProcsOK, FirstRun
  <1>2. proc' = [proc EXCEPT ![p] = new]
    BY <1>1 DEF FirstRun, GoTo, TypeOK
  <1>3. new \in Process
    BY <1>1 DEF Process, PC, TypeOK
  <1>4. Sound(new) /\ GoesOn(p, new)
    BY <1>1 DEF FirstRun, Process, Sound, GoesOn
  <1>5. Holds(new) => Holds(proc[p]) \/ new.model = meta.model
    BY <1>1 DEF FirstRun, Process, Holds, Sound
  <1> HIDE DEF new
  <1> QED  BY <1>1, <1>2, <1>3, <1>4, <1>5, WritesNone, GoingOn DEF TypeOK

LEMMA AppendStep ==
    ASSUME Inv, NEW p \in Procs, NEW r \in Records, Append(p, r)
    PROVE  Inv'
  <1> DEFINE new == [proc[p] EXCEPT !.pc = "upsert", !.todo = {r}]
  <1>1. /\ TypeOK /\ Sound(proc[p]) /\ proc[p] \in Process
        /\ UNCHANGED <<config, meta, point, queued, budget, disturbed, unsure>>
        /\ logged' \in SUBSET Records
    BY DEF Inv, TypeOK, ProcsOK, Append
  <1>2. proc' = [proc EXCEPT ![p] = new]
    BY <1>1 DEF Append, GoTo, TypeOK
  <1>3. new \in Process
    BY <1>1 DEF Process, PC, TypeOK
  <1>4. Sound(new) /\ GoesOn(p, new)
    BY <1>1 DEF Append, Process, Sound, GoesOn
  <1>5. Holds(new) => Holds(proc[p]) \/ new.model = meta.model
    BY <1>1 DEF Append, Process, Holds, Sound
  <1> HIDE DEF new
  <1> QED  BY <1>1, <1>2, <1>3, <1>4, <1>5, WritesNone, GoingOn DEF TypeOK

LEMMA HealScanStep ==
    ASSUME Inv, NEW p \in Procs, HealScan(p)
    PROVE  Inv'
  <1> DEFINE new == [proc[p] EXCEPT !.pc = "heal",
                           !.todo = {r \in Records : point[r].vec # Absent /\ point[r].marked}]
  <1>1. /\ TypeOK /\ Sound(proc[p]) /\ proc[p] \in Process
        /\ UNCHANGED <<config, meta, point, logged, queued, budget, disturbed, unsure>>
    BY DEF Inv, TypeOK, ProcsOK, HealScan
  <1>2. proc' = [proc EXCEPT ![p] = new]
    BY <1>1 DEF HealScan, GoTo, TypeOK
  <1>3. new \in Process
    BY <1>1 DEF Process, PC, TypeOK
  <1>4. Sound(new) /\ GoesOn(p, new)
    BY <1>1 DEF HealScan, Process, Sound, GoesOn
  <1>5. Holds(new) => Holds(proc[p]) \/ new.model = meta.model
    BY <1>1 DEF HealScan, Process, Holds, Sound
  <1> HIDE DEF new
  <1> QED  BY <1>1, <1>2, <1>3, <1>4, <1>5, WritesNone, GoingOn DEF TypeOK

LEMMA ScanAllStep ==
    ASSUME Inv, NEW p \in Procs, ScanAll(p)
    PROVE  Inv'
  <1> DEFINE new == [proc[p] EXCEPT !.pc = "drop",
                           !.todo = logged \union {r \in Records : point[r].vec # Absent}]
  <1>1. /\ TypeOK /\ Sound(proc[p]) /\ proc[p] \in Process
        /\ UNCHANGED <<config, meta, point, logged, queued, budget, disturbed, unsure>>
    BY DEF Inv, TypeOK, ProcsOK, ScanAll
  <1>2. proc' = [proc EXCEPT ![p] = new]
    BY <1>1 DEF ScanAll, GoTo, TypeOK
  <1>3. new \in Process
    BY <1>1 DEF Process, PC, TypeOK
  <1>4. Sound(new) /\ GoesOn(p, new)
    BY <1>1 DEF ScanAll, Process, Sound, GoesOn
  <1>5. Holds(new) => Holds(proc[p]) \/ new.model = meta.model
    BY <1>1 DEF ScanAll, Process, Holds, Sound
  <1> HIDE DEF new
  <1> QED  BY <1>1, <1>2, <1>3, <1>4, <1>5, WritesNone, GoingOn DEF TypeOK

LEMMA FilledStep ==
    ASSUME Inv, NEW p \in Procs, Filled(p)
    PROVE  Inv'
  <1> DEFINE new == [proc[p] EXCEPT !.pc = "meta"]
  <1>1. /\ TypeOK /\ Sound(proc[p]) /\ proc[p] \in Process
        /\ UNCHANGED <<config, meta, point, logged, queued, budget, disturbed, unsure>>
    BY DEF Inv, TypeOK, ProcsOK, Filled
  <1>2. proc' = [proc EXCEPT ![p] = new]
    BY <1>1 DEF Filled, GoTo, TypeOK
  <1>3. new \in Process
    BY <1>1 DEF Process, PC, TypeOK
  <1>4. Sound(new) /\ GoesOn(p, new)
    BY <1>1 DEF Filled, Process, Sound, GoesOn
  <1>5. Holds(new) => Holds(proc[p]) \/ new.model = meta.model
    BY <1>1 DEF Filled, Process, Holds, Sound
  <1> HIDE DEF new
  <1> QED  BY <1>1, <1>2, <1>3, <1>4, <1>5, WritesNone, GoingOn DEF TypeOK

LEMMA FillSkipsStep ==
    ASSUME Inv, NEW p \in Procs, NEW r \in Records, FillSkips(p, r)
    PROVE  Inv'
  <1> DEFINE new == [proc[p] EXCEPT !.todo = @ \ {r}]
  <1>1. /\ TypeOK /\ Sound(proc[p]) /\ proc[p] \in Process
        /\ UNCHANGED <<config, meta, point, logged, queued, disturbed, unsure>> /\ budget' \in Nat
    BY DEF Inv, TypeOK, ProcsOK, FillSkips, Fault, Spend
  <1>2. proc' = [proc EXCEPT ![p] = new]
    BY <1>1 DEF FillSkips, GoTo, TypeOK
  <1>3. new \in Process
    BY <1>1 DEF Process, PC, TypeOK
  <1>4. Sound(new) /\ GoesOn(p, new)
    BY <1>1 DEF FillSkips, Process, Sound, GoesOn, Fault, Spend
  <1>5. Holds(new) => Holds(proc[p]) \/ new.model = meta.model
    BY <1>1 DEF FillSkips, Process, Holds, Sound, Fault, Spend
  <1> HIDE DEF new
  <1> QED  BY <1>1, <1>2, <1>3, <1>4, <1>5, WritesNone, GoingOn DEF TypeOK

LEMMA RestampFailsStep ==
    ASSUME Inv, NEW p \in Procs, RestampFails(p)
    PROVE  Inv'
  <1> DEFINE new == [proc[p] EXCEPT !.pc = "seed"]
  <1>1. /\ TypeOK /\ Sound(proc[p]) /\ proc[p] \in Process
        /\ UNCHANGED <<config, meta, point, logged, queued, disturbed>> /\ budget' \in Nat
        /\ unsure' = unsure \/ unsure' = TRUE
    BY DEF Inv, TypeOK, ProcsOK, RestampFails, Fault, Spend
  <1>2. proc' = [proc EXCEPT ![p] = new]
    BY <1>1 DEF RestampFails, GoTo, TypeOK
  <1>3. new \in Process
    BY <1>1 DEF Process, PC, TypeOK
  <1>4. Sound(new) /\ GoesOn(p, new)
    BY <1>1 DEF RestampFails, Process, Sound, GoesOn, Fault, Spend
  <1>5. Holds(new) => Holds(proc[p]) \/ new.model = meta.model \/ unsure'
    BY <1>1 DEF RestampFails, Process, Holds, Sound, Fault, Spend
  <1> HIDE DEF new
  <1> QED  BY <1>1, <1>2, <1>3, <1>4, <1>5, WritesNone, GoingOn DEF TypeOK

LEMMA MatchManifestStep ==
    ASSUME Inv, NEW p \in Procs, MatchManifest(p)
    PROVE  Inv'
  <1> DEFINE missing == {r \in Records : point[r].vec = Zero}
             seen    == {r \in missing : point[r].marked}
             dim     == IF meta # NoMeta THEN meta.dim ELSE proc[p].dim
             new     == [proc[p] EXCEPT !.pc = "missing", !.todo = missing,
                                        !.dim = dim, !.seen = seen]
  <1>1. /\ TypeOK /\ Sound(proc[p]) /\ proc[p] \in Process /\ proc[p].pc = "match"
        /\ UNCHANGED <<config, meta, point, logged, queued, budget, disturbed, unsure>>
    BY DEF Inv, TypeOK, ProcsOK, MatchManifest
  <1>2. proc' = [proc EXCEPT ![p] = new]
    BY <1>1 DEF MatchManifest, TypeOK
  <1>3. dim \in Nat /\ missing \in SUBSET Records /\ seen \in SUBSET Records
    BY <1>1, MetaType DEF TypeOK, Process
  <1> HIDE DEF missing, seen, dim
  <1>4. new \in Process
    BY <1>1, <1>3 DEF Process, PC
  <1>5. Sound(new) /\ GoesOn(p, new)
    BY <1>1 DEF Process, Sound, GoesOn
  <1>6. Holds(new) => Holds(proc[p])
    BY <1>1 DEF Process, Holds, Sound
  <1> HIDE DEF new
  <1> QED  BY <1>1, <1>2, <1>4, <1>5, <1>6, WritesNone, GoingOn DEF TypeOK

LEMMA HealPointStep ==
    ASSUME Inv, NEW p \in Procs, NEW r \in Records, HealPoint(p, r)
    PROVE  Inv'
  <1> DEFINE new == [proc[p] EXCEPT !.todo = @ \ {r}]
  <1>1. /\ TypeOK /\ Sound(proc[p]) /\ proc[p] \in Process
        /\ UNCHANGED <<config, meta, logged, queued, budget, disturbed>>
        /\ unsure' = unsure \/ unsure' = TRUE
    BY DEF Inv, TypeOK, ProcsOK, HealPoint
  <1>2. proc' = [proc EXCEPT ![p] = new]
    BY <1>1 DEF HealPoint, GoTo, TypeOK
  <1>3. new \in Process
    BY <1>1 DEF Process, PC, TypeOK
  <1>4. Sound(new) /\ GoesOn(p, new)
    BY <1>1 DEF HealPoint, Process, Sound, GoesOn
  <1>5. Holds(new) => Holds(proc[p]) \/ new.model = meta.model
    BY <1>1 DEF HealPoint, Process, Holds, Sound
  <1>6. MayWrite(p)
    <2>1. /\ proc[p].model \in Models /\ Writing(p) /\ (Holds(proc[p]) \/ unsure')
          /\ point' = [point EXCEPT ![r] = [vec |-> proc[p].model, marked |-> FALSE]]
      BY <1>1 DEF HealPoint, Sound, Holds, Writing
    <2> QED  BY <1>1, <2>1, WritesOne
  <1> HIDE DEF new
  <1> QED  BY <1>1, <1>2, <1>3, <1>4, <1>5, <1>6, GoingOn DEF TypeOK

LEMMA FillStep ==
    ASSUME Inv, NEW p \in Procs, NEW r \in Records, Fill(p, r)
    PROVE  Inv'
  <1> DEFINE new == [proc[p] EXCEPT !.todo = @ \ {r}]
  <1>1. /\ TypeOK /\ Sound(proc[p]) /\ proc[p] \in Process
        /\ UNCHANGED <<config, meta, logged, queued, budget, disturbed, unsure>>
    BY DEF Inv, TypeOK, ProcsOK, Fill
  <1>2. proc' = [proc EXCEPT ![p] = new]
    BY <1>1 DEF Fill, GoTo, TypeOK
  <1>3. new \in Process
    BY <1>1 DEF Process, PC, TypeOK
  <1>4. Sound(new) /\ GoesOn(p, new)
    BY <1>1 DEF Fill, Process, Sound, GoesOn
  <1>5. Holds(new) => Holds(proc[p]) \/ new.model = meta.model
    BY <1>1 DEF Fill, Process, Holds, Sound
  <1>6. MayWrite(p)
    <2>1. /\ proc[p].model \in Models /\ Writing(p) /\ Rebuilding(p)
          /\ point' = [point EXCEPT ![r] = [vec |-> proc[p].model, marked |-> FALSE]]
      BY <1>1 DEF Fill, Sound, Rebuilding, Writing
    <2> QED  BY <1>1, <2>1, WritesOne
  <1> HIDE DEF new
  <1> QED  BY <1>1, <1>2, <1>3, <1>4, <1>5, <1>6, GoingOn DEF TypeOK

LEMMA EmbedMissingStep ==
    ASSUME Inv, NEW p \in Procs, NEW r \in Records, EmbedMissing(p, r)
    PROVE  Inv'
  <1> DEFINE new == [proc[p] EXCEPT !.todo = @ \ {r}]
  <1>1. /\ TypeOK /\ Sound(proc[p]) /\ proc[p] \in Process
        /\ UNCHANGED <<config, meta, logged, queued, budget, disturbed, unsure>>
    BY DEF Inv, TypeOK, ProcsOK, EmbedMissing
  <1>2. proc' = [proc EXCEPT ![p] = new]
    BY <1>1 DEF EmbedMissing, GoTo, TypeOK
  <1>3. new \in Process
    BY <1>1 DEF Process, PC, TypeOK
  <1>4. Sound(new) /\ GoesOn(p, new)
    BY <1>1 DEF EmbedMissing, Process, Sound, GoesOn
  <1>5. Holds(new) => Holds(proc[p]) \/ new.model = meta.model
    BY <1>1 DEF EmbedMissing, Process, Holds, Sound
  <1>6. MayWrite(p)
    <2>1. /\ proc[p].model \in Models /\ Writing(p) /\ Holds(proc[p])
          /\ (r \in proc[p].seen) \in BOOLEAN
          /\ point' = [point EXCEPT ![r] = [vec |-> proc[p].model, marked |-> r \in proc[p].seen]]
      BY <1>1 DEF EmbedMissing, Sound, Holds, Writing
    <2> QED  BY <1>1, <2>1, WritesOne
  <1> HIDE DEF new
  <1> QED  BY <1>1, <1>2, <1>3, <1>4, <1>5, <1>6, GoingOn DEF TypeOK

LEMMA WipeStep ==
    ASSUME Inv, NEW p \in Procs, Wipe(p)
    PROVE  Inv'
  <1> DEFINE new == [proc[p] EXCEPT !.pc = "restamp"]
  <1>1. /\ TypeOK /\ Sound(proc[p]) /\ proc[p] \in Process
        /\ UNCHANGED <<config, meta, logged, queued, budget, disturbed, unsure>>
    BY DEF Inv, TypeOK, ProcsOK, Wipe
  <1>2. proc' = [proc EXCEPT ![p] = new]
    BY <1>1 DEF Wipe, GoTo, TypeOK
  <1>3. new \in Process
    BY <1>1 DEF Process, PC, TypeOK
  <1>4. Sound(new) /\ GoesOn(p, new)
    BY <1>1 DEF Wipe, Process, Sound, GoesOn
  <1>5. Holds(new) => Holds(proc[p]) \/ new.model = meta.model
    BY <1>1 DEF Wipe, Process, Holds, Sound
  <1>6. MayWrite(p)
    <2>1. point' \in [Records -> Point] /\ \A r \in Records : point'[r].vec \notin Models
      BY Values, PointType DEF Wipe, NoPoint
    <2> QED  BY <2>1 DEF MayWrite
  <1> HIDE DEF new
  <1> QED  BY <1>1, <1>2, <1>3, <1>4, <1>5, <1>6, GoingOn DEF TypeOK

LEMMA SeedStep ==
    ASSUME Inv, NEW p \in Procs, Seed(p)
    PROVE  Inv'
  <1> DEFINE new == [proc[p] EXCEPT !.pc = "match"]
  <1>1. /\ TypeOK /\ Sound(proc[p]) /\ proc[p] \in Process
        /\ UNCHANGED <<config, meta, logged, queued, budget, disturbed, unsure>>
    BY DEF Inv, TypeOK, ProcsOK, Seed
  <1>2. proc' = [proc EXCEPT ![p] = new]
    BY <1>1 DEF Seed, GoTo, TypeOK
  <1>3. new \in Process
    BY <1>1 DEF Process, PC, TypeOK
  <1>4. Sound(new) /\ GoesOn(p, new)
    BY <1>1 DEF Seed, Process, Sound, GoesOn
  <1>5. Holds(new) => Holds(proc[p]) \/ new.model = meta.model
    BY <1>1 DEF Seed, Process, Holds, Sound
  <1>6. MayWrite(p)
    <2>1. PICK marked \in SUBSET logged :
            point' = [r \in Records |-> IF r \in logged
                                          THEN [vec |-> Zero, marked |-> r \in marked]
                                          ELSE point[r]]
      BY DEF Seed
    <2>2. \A r \in Records : (r \in marked) \in BOOLEAN
      OBVIOUS
    <2>3. point' \in [Records -> Point]
      BY <1>1, <2>1, <2>2, PointType DEF TypeOK
    <2>4. \A r \in Records : point'[r].vec \in Models => point'[r].vec = point[r].vec
      BY <2>1, Values
    <2> QED  BY <2>3, <2>4 DEF MayWrite
  <1> HIDE DEF new
  <1> QED  BY <1>1, <1>2, <1>3, <1>4, <1>5, <1>6, GoingOn DEF TypeOK

LEMMA CheckMetaStep ==
    ASSUME Inv, NEW p \in Procs, CheckMeta(p)
    PROVE  Inv'
  <1> DEFINE new == [proc[p] EXCEPT !.pc = "ready", !.basis = meta, !.checked = TRUE]
  <1>1. /\ TypeOK /\ Sound(proc[p]) /\ proc[p] \in Process /\ proc[p].pc = "check"
        /\ meta \in Meta /\ meta.model = proc[p].model
        /\ UNCHANGED <<config, meta, point, logged, queued, budget, disturbed, unsure>>
    BY DEF Inv, TypeOK, ProcsOK, CheckMeta, Mismatch
  <1>2. proc' = [proc EXCEPT ![p] = new]
    BY <1>1 DEF CheckMeta, TypeOK
  <1>3. new \in Process
    BY <1>1 DEF Process, PC
  <1>4. Sound(new) /\ GoesOn(p, new) /\ new.model = meta.model
    BY <1>1 DEF Process, Sound, GoesOn
  <1> HIDE DEF new
  <1> QED  BY <1>1, <1>2, <1>3, <1>4, WritesNone, GoingOn DEF TypeOK

LEMMA RefuseStep ==
    ASSUME Inv, NEW p \in Procs, Refuse(p)
    PROVE  Inv'
  <1> DEFINE new == [proc[p] EXCEPT !.pc = "broken"]
  <1>1. /\ TypeOK /\ Sound(proc[p]) /\ proc[p] \in Process /\ proc[p].pc = "check"
        /\ UNCHANGED <<config, meta, point, logged, queued, budget, unsure>>
    BY DEF Inv, TypeOK, ProcsOK, Refuse
  <1>2. CASE End(p)
    <2>1. ~Migrating(p)
      BY <1>1 DEF Migrating, Rebuilding
    <2> QED  BY <1>1, <1>2, <2>1, Ending, WritesNone DEF TypeOK
  <1>3. CASE proc[p].op = "serve" /\ GoTo(p, "broken") /\ UNCHANGED disturbed
    <2>1. proc' = [proc EXCEPT ![p] = new]
      BY <1>1, <1>3 DEF GoTo, TypeOK
    <2>2. new \in Process
      BY <1>1 DEF Process, PC
    <2>3. Sound(new) /\ GoesOn(p, new) /\ ~Holds(new)
      BY <1>1, <1>3 DEF Process, Sound, GoesOn, Holds
    <2> HIDE DEF new
    <2> QED  BY <1>1, <1>3, <2>1, <2>2, <2>3, WritesNone, GoingOn DEF TypeOK
  <1> QED  BY <1>2, <1>3 DEF Refuse

LEMMA UpsertStep ==
    ASSUME Inv, NEW p \in Procs, Upsert(p)
    PROVE  Inv'
  <1>1. /\ TypeOK /\ Sound(proc[p]) /\ proc[p] \in Process /\ proc[p].pc = "upsert"
        /\ UNCHANGED <<config, meta, logged, queued, budget>> /\ End(p)
        /\ unsure' = unsure \/ unsure' = TRUE
    BY DEF Inv, TypeOK, ProcsOK, Upsert
  <1>2. /\ proc[p].op = "record" /\ proc[p].model \in Models
        /\ Holds(proc[p]) \/ unsure'
    BY <1>1 DEF Sound, Upsert, Holds
  <1>3. Writing(p) /\ ~Migrating(p)
    BY <1>1, <1>2 DEF Writing, Migrating, Rebuilding
  <1>4. MayWrite(p)
    <2>1. point' = [r \in Records |-> IF r \in proc[p].todo
                                        THEN [vec |-> proc[p].model, marked |-> FALSE]
                                        ELSE point[r]]
      BY DEF Upsert
    <2>2. [vec |-> proc[p].model, marked |-> FALSE] \in Point
      BY <1>2, PointType
    <2>3. point' \in [Records -> Point]
      BY <1>1, <2>1, <2>2 DEF TypeOK
    <2> QED  BY <1>2, <1>3, <2>1, <2>3 DEF MayWrite
  <1> QED  BY <1>1, <1>3, <1>4, Ending DEF TypeOK

LEMMA QueryStep ==
    ASSUME Inv, NEW p \in Procs, Query(p)
    PROVE  Inv'
  <1> DEFINE new == [proc[p] EXCEPT !.pc = "answered"]
  <1>1. /\ TypeOK /\ Sound(proc[p]) /\ proc[p] \in Process /\ proc[p].pc = "ready"
        /\ UNCHANGED <<config, meta, point, logged, queued, budget, unsure>>
    BY DEF Inv, TypeOK, ProcsOK, Query
  <1>2. CASE proc[p].op = "search" /\ GoTo(p, "answered") /\ UNCHANGED disturbed
    <2>1. proc' = [proc EXCEPT ![p] = new]
      BY <1>1, <1>2 DEF GoTo, TypeOK
    <2>2. new \in Process
      BY <1>1 DEF Process, PC
    <2>3. Sound(new) /\ GoesOn(p, new) /\ (Holds(new) => Holds(proc[p]))
      BY <1>1, <1>2 DEF Process, Sound, GoesOn, Holds
    <2> HIDE DEF new
    <2> QED  BY <1>1, <1>2, <2>1, <2>2, <2>3, WritesNone, GoingOn DEF TypeOK
  <1>3. CASE End(p)
    <2>1. ~Migrating(p)
      BY <1>1 DEF Migrating, Rebuilding
    <2> QED  BY <1>1, <1>3, <2>1, Ending, WritesNone DEF TypeOK
  <1>4. CASE UNCHANGED <<proc, disturbed>>
    BY <1>1, <1>4, Aside DEF TypeOK, RestOK
  <1> QED  BY <1>2, <1>3, <1>4 DEF Query

LEMMA SizeStep ==
    ASSUME Inv, NEW p \in Procs, Size(p)
    PROVE  Inv'
  <1>1. /\ TypeOK /\ Sound(proc[p]) /\ proc[p] \in Process /\ proc[p].pc = "size"
        /\ UNCHANGED <<config, meta, point, logged, queued, budget, disturbed, unsure>>
    BY DEF Inv, TypeOK, ProcsOK, Size
  <1>2. PICK dim \in IF meta # NoMeta THEN {meta.dim}
                     ELSE {Dim[proc[p].model]} \union
                          (IF "embedder" \in Faults THEN {Fallback} ELSE {}),
             next \in {"wipe", "restamp"} :
          proc' = [proc EXCEPT ![p].pc = next, ![p].dim = dim]
    BY DEF Size
  <1>3. proc[p].model \in Models /\ proc[p].op = "import"
    BY <1>1 DEF Sound
  <1>4. dim \in Nat \ {0}
    BY <1>1, <1>2, <1>3, MetaType, Values DEF TypeOK
  <1> DEFINE new == [proc[p] EXCEPT !.pc = next, !.dim = dim]
  <1>5. proc' = [proc EXCEPT ![p] = new]
    BY <1>1, <1>2 DEF TypeOK
  <1>6. new \in Process
    BY <1>1, <1>4 DEF Process, PC
  <1>7. Sound(new) /\ GoesOn(p, new) /\ ~Holds(new)
    BY <1>1, <1>3, <1>4 DEF Process, Sound, GoesOn, Holds, AllOps
  <1> HIDE DEF new
  <1> QED  BY <1>1, <1>5, <1>6, <1>7, WritesNone, GoingOn DEF TypeOK

LEMMA WriteFailsStep ==
    ASSUME Inv, NEW p \in Procs, WriteFails(p)
    PROVE  Inv'
  <1>1. /\ TypeOK /\ Sound(proc[p]) /\ proc[p] \in Process
        /\ proc[p].pc \in {"meta", "config"}
        /\ UNCHANGED <<config, meta, point, logged, queued>> /\ budget' \in Nat
        /\ (unsure' = unsure /\ ~Migrating(p)) \/ unsure' = TRUE
    BY DEF Inv, TypeOK, ProcsOK, WriteFails, Fault, Spend
  <1>2. CASE End(p)
    BY <1>1, <1>2, Ending, WritesNone DEF TypeOK
  <1>3. CASE GoTo(p, "config") /\ disturbed' = disturbed \ {p}
    <2> DEFINE new == [proc[p] EXCEPT !.pc = "config"]
    <2>1. proc' = [proc EXCEPT ![p] = new]
      BY <1>1, <1>3 DEF GoTo, TypeOK
    <2>2. new \in Process
      BY <1>1 DEF Process, PC
    <2>3. /\ Sound(new) /\ ~Holds(new) /\ new.op = "reembed"
          /\ new.pc \notin {"fill", "meta"}
      BY <1>1 DEF Process, Sound, Holds
    <2> HIDE DEF new
    <2>4. Becomes(p, new)
      BY <1>1, <2>1, <2>2, <2>3, SetProc
    <2>5. Leaves(p, new)
      BY <1>1, <1>3, <2>3 DEF Leaves
    <2>6. RestOK' /\ unsure' \in BOOLEAN /\ (unsure => unsure')
      BY <1>1, <1>3 DEF RestOK, TypeOK
    <2> QED  BY <1>1, <2>3, <2>4, <2>5, <2>6, WritesNone, SameMeta
  <1> QED  BY <1>2, <1>3 DEF WriteFails

LEMMA ReplayStep ==
    ASSUME Inv, NEW r \in Records, Replay(r)
    PROVE  Inv'
  <1>1. /\ TypeOK /\ UNCHANGED <<config, meta, logged, proc, budget, disturbed, unsure>>
        /\ queued' \in SUBSET Records
        /\ point' = [point EXCEPT ![r] = [vec |-> Zero, marked |-> TRUE]]
    BY DEF Inv, TypeOK, Replay
  <1>2. point' \in [Records -> Point]
    BY <1>1, PointType DEF TypeOK
  <1>3. \A s \in Records : point'[s].vec \in Models => point'[s].vec = point[s].vec
    BY <1>1, Values DEF TypeOK
  <1> QED  BY <1>1, <1>2, <1>3, Aside DEF TypeOK, RestOK

LEMMA EditConfigStep ==
    ASSUME Inv, NEW m \in Models, EditConfig(m)
    PROVE  Inv'
  <1>1. /\ TypeOK /\ UNCHANGED <<meta, point, logged, queued, proc, disturbed, unsure>>
        /\ config' \in Models /\ budget' \in Nat
    BY DEF Inv, TypeOK, EditConfig, Spend
  <1> QED  BY <1>1, Aside DEF TypeOK, RestOK

--------------------------------------------------------------------------------
(* Steps that write meta, and the drop *)

\* The first meta, or the one that is there already; else the event is noted.
LEMMA Stamping ==
    ASSUME Inv, NEW p \in Procs, NEW new \in Process, proc' = [proc EXCEPT ![p] = new],
           Sound(new), GoesOn(p, new), ~Rebuilding(p), NEW m \in Meta, meta' = m,
           new.model = m.model,
           \/ unsure' = TRUE
           \/ unsure' = unsure /\ meta \in {NoMeta, m} /\ m.dim = Dim[m.model],
           UNCHANGED <<config, point, logged, queued, budget>>
    PROVE  Inv'
  <1>1. /\ TypeOK /\ ProcsOK /\ AloneOK /\ SpaceOK /\ WritersOK
    BY DEF Inv
  <1>2. /\ Becomes(p, new) /\ proc'[p] = new
        /\ \A q \in Procs : q # p => proc'[q] = proc[q]
    BY <1>1, SetProc DEF Becomes
  <1>3. TypeOK' /\ ProcsOK'
    BY <1>1, <1>2 DEF Becomes, TypeOK, ProcsOK, GoesOn
  <1>4. \A q \in Procs : /\ Writing(q)' <=> Writing(q)
                         /\ Rebuilding(q)' <=> Rebuilding(q)
                         /\ proc'[q].model = proc[q].model
    BY <1>2 DEF Writing, Rebuilding, GoesOn
  <1>5. AloneOK'
    <2>1. \A q \in Procs : InSpace(proc[q].model)' <=> InSpace(proc[q].model)
      BY <1>4 DEF InSpace
    <2> QED  BY <1>1, <1>4, <2>1 DEF AloneOK, GoesOn
  <1>6. ~unsure' => ~unsure /\ m.dim = Dim[m.model] /\ (meta # NoMeta => m = meta)
    OBVIOUS
  <1>7. SpaceOK'
    <2> SUFFICES ASSUME ~unsure'
                 PROVE  /\ m # NoMeta => m.dim = Dim[m.model]
                        /\ \A r \in Records : point[r].vec \in Models =>
                              \/ point[r].vec = m.model
                              \/ \E q \in Procs : Rebuilding(q)' /\ point[r].vec = proc'[q].model
      BY DEF SpaceOK
    <2>1. ASSUME NEW r \in Records, point[r].vec \in Models
          PROVE  \/ point[r].vec = meta.model
                 \/ \E q \in Procs : Rebuilding(q) /\ point[r].vec = proc[q].model
      BY <1>1, <1>6, <2>1 DEF SpaceOK
    <2>2. meta = NoMeta => meta.model \notin Models
      BY Values DEF NoMeta
    <2> QED  BY <1>4, <1>6, <2>1, <2>2
  <1>8. WritersOK'
    <2> SUFFICES ASSUME ~unsure', NEW q \in Procs, Holds(proc'[q])
                 PROVE  proc'[q].model = m.model
      BY DEF WritersOK, Holds
    <2>1. CASE q = p
      BY <1>2, <2>1
    <2>2. CASE q # p
      <3>1. proc'[q] = proc[q] /\ proc[q].model = meta.model
        BY <1>1, <1>2, <1>6, <2>2 DEF WritersOK
      <3>2. proc[q].model \in Models
        BY <1>1, <3>1 DEF ProcsOK, Sound, Holds
      <3>3. meta # NoMeta
        BY <3>1, <3>2, Values DEF NoMeta
      <3> QED  BY <1>6, <3>1, <3>3
    <2> QED  BY <2>1, <2>2
  <1> QED  BY <1>3, <1>5, <1>7, <1>8 DEF Inv

LEMMA StampMetaStep ==
    ASSUME Inv, NEW p \in Procs, StampMeta(p)
    PROVE  Inv'
  <1> DEFINE m   == [model |-> proc[p].model, dim |-> proc[p].dim]
             new == [proc[p] EXCEPT !.pc = "ready", !.basis = m, !.checked = TRUE]
  <1>1. /\ TypeOK /\ Sound(proc[p]) /\ proc[p] \in Process /\ proc[p].pc = "stamp"
        /\ meta' = m /\ UNCHANGED <<config, point, logged, queued, budget, disturbed>>
        /\ \/ unsure' = TRUE
           \/ unsure' = unsure /\ meta \in {NoMeta, m} /\ proc[p].dim = Dim[proc[p].model]
    BY DEF Inv, TypeOK, ProcsOK, StampMeta
  <1>2. m \in Meta /\ m.model = proc[p].model /\ m.dim = proc[p].dim
    BY <1>1, MetaType DEF Sound, Process
  <1>3. proc' = [proc EXCEPT ![p] = new]
    BY <1>1 DEF StampMeta, TypeOK
  <1> HIDE DEF m
  <1>4. new \in Process
    BY <1>1, <1>2 DEF Process, PC
  <1>5. Sound(new) /\ GoesOn(p, new) /\ new.model = m.model
    BY <1>1, <1>2 DEF Process, Sound, GoesOn
  <1>6. ~Rebuilding(p)
    BY <1>1 DEF Rebuilding
  <1> HIDE DEF new
  <1> QED  BY <1>1, <1>2, <1>3, <1>4, <1>5, <1>6, Stamping

LEMMA RestampStep ==
    ASSUME Inv, NEW p \in Procs, Restamp(p)
    PROVE  Inv'
  <1> DEFINE m   == [model |-> proc[p].model, dim |-> proc[p].dim]
             new == [proc[p] EXCEPT !.pc = "seed"]
  <1>1. /\ TypeOK /\ Sound(proc[p]) /\ proc[p] \in Process /\ proc[p].pc = "restamp"
        /\ meta' = m /\ UNCHANGED <<config, point, logged, queued, budget, disturbed>>
        /\ \/ unsure' = TRUE
           \/ unsure' = unsure /\ meta \in {NoMeta, m} /\ proc[p].dim = Dim[proc[p].model]
    BY DEF Inv, TypeOK, ProcsOK, Restamp
  <1>2. m \in Meta /\ m.model = proc[p].model /\ m.dim = proc[p].dim
    BY <1>1, MetaType DEF Sound, Process
  <1>3. proc' = [proc EXCEPT ![p] = new]
    BY <1>1 DEF Restamp, GoTo, TypeOK
  <1> HIDE DEF m
  <1>4. new \in Process
    BY <1>1 DEF Process, PC
  <1>5. Sound(new) /\ GoesOn(p, new) /\ new.model = m.model
    BY <1>1, <1>2 DEF Process, Sound, GoesOn
  <1>6. ~Rebuilding(p)
    BY <1>1 DEF Rebuilding
  <1> HIDE DEF new
  <1> QED  BY <1>1, <1>2, <1>3, <1>4, <1>5, <1>6, Stamping

LEMMA DropStep ==
    ASSUME Inv, NEW p \in Procs, Drop(p)
    PROVE  Inv'
  <1> DEFINE new == [proc[p] EXCEPT !.pc = "fill"]
  <1>1. /\ TypeOK /\ ProcsOK /\ AloneOK /\ SpaceOK /\ WritersOK /\ Sound(proc[p])
        /\ proc[p] \in Process /\ proc[p].pc = "drop"
        /\ UNCHANGED <<config, meta, logged, queued, budget, unsure>>
        /\ point' = [r \in Records |-> NoPoint]
        /\ disturbed' = {q \in Procs \ {p} : q \in disturbed \/ Rebuilding(q)}
                            \union {q \in {p} : \E w \in Procs \ {p} : Writing(w)}
    BY DEF Inv, TypeOK, ProcsOK, Drop
  <1>2. proc' = [proc EXCEPT ![p] = new]
    BY <1>1 DEF Drop, GoTo, TypeOK
  <1>3. new \in Process
    BY <1>1 DEF Process, PC
  <1>4. Sound(new) /\ new.model = proc[p].model /\ new.op = "reembed" /\ new.pc = "fill"
    BY <1>1 DEF Process, Sound
  <1> HIDE DEF new
  <1>5. /\ Becomes(p, new) /\ proc'[p] = new
        /\ \A q \in Procs : q # p => proc'[q] = proc[q]
    BY <1>1, <1>2, <1>3, <1>4, SetProc DEF Becomes
  <1>6. point' \in [Records -> Point] /\ \A r \in Records : point'[r].vec \notin Models
    BY <1>1, Values, PointType DEF NoPoint
  <1>7. TypeOK' /\ ProcsOK'
    BY <1>1, <1>5, <1>6 DEF Becomes, TypeOK, ProcsOK
  <1>8. AloneOK'
    <2> SUFFICES ASSUME NEW a \in Procs, Rebuilding(a)', a \notin disturbed'
                 PROVE  \A q \in Procs \ {a} : ~Writing(q)'
      BY <1>6 DEF AloneOK, InSpace
    <2>1. a = p
      BY <1>1, <1>5 DEF Rebuilding
    <2>2. \A q \in Procs \ {p} : ~Writing(q)
      BY <1>1, <2>1
    <2> QED  BY <1>5, <2>1, <2>2 DEF Writing, Rebuilding
  <1>9. SpaceOK'
    BY <1>1, <1>6 DEF SpaceOK
  <1>10. WritersOK'
    <2> SUFFICES ASSUME ~unsure', NEW q \in Procs, Holds(proc'[q])
                 PROVE  proc'[q].model = meta.model
      BY <1>1 DEF WritersOK, Holds
    <2> QED  BY <1>1, <1>4, <1>5 DEF WritersOK, Holds
  <1> QED  BY <1>7, <1>8, <1>9, <1>10 DEF Inv

LEMMA WriteMetaStep ==
    ASSUME Inv, NEW p \in Procs, WriteMeta(p)
    PROVE  Inv'
  <1> DEFINE m   == [model |-> proc[p].model, dim |-> proc[p].dim]
             new == [proc[p] EXCEPT !.pc = "config"]
  <1>1. /\ TypeOK /\ ProcsOK /\ AloneOK /\ SpaceOK /\ WritersOK /\ Sound(proc[p])
        /\ proc[p] \in Process /\ proc[p].pc = "meta"
        /\ UNCHANGED <<config, point, logged, queued, budget>>
        /\ disturbed' = disturbed \ {p}
        /\ meta' = m /\ unsure' = (p \in disturbed /\ (unsure \/ m # meta))
    BY DEF Inv, TypeOK, ProcsOK, WriteMeta
  <1>2. m \in Meta /\ m.model = proc[p].model /\ m.dim = Dim[m.model]
    BY <1>1, MetaType, Values DEF Sound, Process
  <1>3. proc' = [proc EXCEPT ![p] = new]
    BY <1>1 DEF WriteMeta, GoTo, TypeOK
  <1> HIDE DEF m
  <1>4. new \in Process
    BY <1>1 DEF Process, PC
  <1>5. Sound(new) /\ new.model = proc[p].model /\ new.op = "reembed" /\ new.pc = "config"
    BY <1>1 DEF Process, Sound
  <1> HIDE DEF new
  <1>6. /\ Becomes(p, new) /\ proc'[p] = new
        /\ \A q \in Procs : q # p => proc'[q] = proc[q]
    BY <1>1, <1>3, <1>4, <1>5, SetProc DEF Becomes
  <1>7. TypeOK' /\ ProcsOK'
    BY <1>1, <1>2, <1>6 DEF Becomes, TypeOK, ProcsOK
  <1>8. AloneOK'
    <2> SUFFICES ASSUME NEW a \in Procs, Rebuilding(a)', a \notin disturbed'
                 PROVE  /\ \A q \in Procs \ {a} : ~Writing(q)'
                        /\ InSpace(proc[a].model)'
      BY DEF AloneOK
    <2>1. a # p /\ Rebuilding(a) /\ a \notin disturbed /\ proc'[a] = proc[a]
      BY <1>1, <1>5, <1>6 DEF Rebuilding
    <2>2. (\A q \in Procs \ {a} : ~Writing(q)) /\ InSpace(proc[a].model)
      BY <1>1, <2>1 DEF AloneOK
    <2>3. Writing(p)
      BY <1>1 DEF Writing, Rebuilding
    <2> QED  BY <2>1, <2>2, <2>3
  \* Alone since the drop: every vector is of this model, and nobody writes.
  <1>9. CASE p \notin disturbed
    <2>1. Rebuilding(p)
      BY <1>1 DEF Rebuilding
    <2>2. (\A q \in Procs \ {p} : ~Writing(q)) /\ InSpace(m.model)
      BY <1>1, <1>2, <1>9, <2>1 DEF AloneOK
    <2>3. SpaceOK'
      BY <1>1, <1>2, <2>2 DEF SpaceOK, InSpace
    <2>4. ASSUME NEW q \in Procs PROVE ~Holds(proc'[q])
      <3>1. CASE q = p
        BY <1>5, <1>6, <3>1 DEF Holds
      <3>2. CASE q # p
        <4>1. ~Writing(q) /\ Sound(proc[q])
          BY <1>1, <2>2, <3>2 DEF ProcsOK
        <4>2. ~Holds(proc[q])
          BY <4>1 DEF Holds, Writing, Sound
        <4> QED  BY <1>6, <3>2, <4>2
      <3> QED  BY <3>1, <3>2
    <2>5. WritersOK'
      BY <2>4 DEF WritersOK, Holds
    <2> QED  BY <1>7, <1>8, <2>3, <2>5 DEF Inv
  \* Beside a writer, and the model does not change.
  <1>10. CASE p \in disturbed
    <2>1. ~unsure' => ~unsure /\ m = meta
      BY <1>1, <1>10
    <2>2. SpaceOK'
      <3> SUFFICES ASSUME ~unsure'
                   PROVE  /\ m.dim = Dim[m.model]
                          /\ \A r \in Records : point[r].vec \in Models =>
                                \/ point[r].vec = m.model
                                \/ \E q \in Procs : Rebuilding(q)' /\ point[r].vec = proc'[q].model
        BY <1>1 DEF SpaceOK
      <3>1. ASSUME NEW r \in Records, point[r].vec \in Models
            PROVE  \/ point[r].vec = m.model
                   \/ \E q \in Procs : Rebuilding(q) /\ point[r].vec = proc[q].model
        BY <1>1, <2>1, <3>1 DEF SpaceOK
      <3>2. \A q \in Procs : q # p /\ Rebuilding(q) =>
                   Rebuilding(q)' /\ proc'[q].model = proc[q].model
        BY <1>6 DEF Rebuilding
      <3> QED  BY <1>2, <3>1, <3>2
    <2>3. WritersOK'
      <3> SUFFICES ASSUME ~unsure', NEW q \in Procs, Holds(proc'[q])
                   PROVE  proc'[q].model = m.model
        BY <1>1 DEF WritersOK, Holds
      <3> QED  BY <1>1, <1>2, <1>5, <1>6, <2>1 DEF WritersOK
    <2> QED  BY <1>7, <1>8, <2>2, <2>3 DEF Inv
  <1> QED  BY <1>9, <1>10

--------------------------------------------------------------------------------
(* The invariant *)

LEMMA InitInv == ASSUME Init PROVE Inv
  <1>1. /\ config \in Models /\ queued = {} /\ budget = Budget
        /\ disturbed = {} /\ unsure = FALSE /\ proc = [p \in Procs |-> Idle]
    BY DEF Init
  <1>2. \A p \in Procs : proc[p] = Idle /\ ~Rebuilding(p) /\ ~Holds(proc[p])
    BY <1>1, IdleType DEF Rebuilding, Holds
  <1>3. /\ meta \in Meta \union {NoMeta} /\ logged \in SUBSET Records
        /\ point \in [Records -> Point]
        /\ meta # NoMeta => meta.dim = Dim[meta.model]
        /\ \A r \in Records : point[r].vec \in Models => point[r].vec = meta.model
    <2>1. CASE /\ meta = NoMeta
               /\ logged = {}
               /\ point = [r \in Records |-> NoPoint]
      BY <2>1, PointType, Values DEF NoPoint
    <2>2. CASE /\ meta \in {[model |-> m, dim |-> Dim[m]] : m \in Models}
               /\ logged \in SUBSET Records
               /\ point = [r \in Records |-> IF r \in logged
                                               THEN [vec |-> meta.model, marked |-> FALSE]
                                               ELSE NoPoint]
      <3>1. PICK m \in Models : meta = [model |-> m, dim |-> Dim[m]]
        BY <2>2
      <3>2. meta \in Meta /\ meta.model = m /\ meta.dim = Dim[m]
        BY <3>1, MetaType, Values
      <3>3. [vec |-> m, marked |-> FALSE] \in Point
        BY PointType
      <3>4. point \in [Records -> Point]
        BY <2>2, <3>2, <3>3, PointType
      <3>5. \A r \in Records : point[r].vec \in Models => point[r].vec = m
        BY <2>2, <3>2, Values DEF NoPoint
      <3> QED  BY <2>2, <3>2, <3>4, <3>5
    <2> QED  BY <2>1, <2>2 DEF Init
  <1>4. TypeOK
    BY <1>1, <1>3, IdleType, ConstantsOK DEF TypeOK
  <1>5. ProcsOK
    BY <1>2, IdleType DEF ProcsOK
  <1>6. AloneOK /\ SpaceOK /\ WritersOK
    BY <1>2, <1>3 DEF AloneOK, SpaceOK, WritersOK
  <1> QED  BY <1>4, <1>5, <1>6 DEF Inv

LEMMA StutterStep == ASSUME Inv, UNCHANGED vars PROVE Inv'
  BY Aside DEF Inv, TypeOK, RestOK, vars

LEMMA NextInv == ASSUME Inv, [Next]_vars PROVE Inv'
  <1>1. ASSUME NEW p \in Procs, Start(p) PROVE Inv'
    <2>1. PICK env \in Overrides :
            \/ \E op \in AllOps : Resolve(p, op, env) \/ ResolveUnaligned(p, op, env)
            \/ \E snapshot \in Models \union {NoModel, Trusted} : StartImport(p, env, snapshot)
      BY <1>1 DEF Start
    <2> QED  BY <2>1, ResolveStep, ResolveUnalignedStep, StartImportStep
  <1>2. ASSUME NEW p \in Procs, NEW env \in Overrides, Probe(p, env) PROVE Inv'
    BY <1>2, ProbeStep
  <1>3. ASSUME NEW p \in Procs, Continue(p) PROVE Inv'
    BY <1>3, CheckMetaStep, RefuseStep, FirstRunStep, StampMetaStep, AppendStep, EndSteps,
       UpsertStep, QueryStep, HealScanStep, HealPointStep, ScanAllStep, DropStep, FilledStep,
       WriteMetaStep, FillStep, SizeStep, WipeStep, RestampStep, SeedStep, MatchManifestStep,
       EmbedMissingStep
    DEF Continue
  <1>4. ASSUME NEW p \in Procs, GoesWrong(p) PROVE Inv'
    BY <1>4, AppendUnembeddedStep, FillSkipsStep, EndSteps, WriteFailsStep, RestampFailsStep
    DEF GoesWrong
  <1>5. ASSUME NEW r \in Records, Replay(r) PROVE Inv'
    BY <1>5, ReplayStep
  <1>6. ASSUME NEW m \in Models, EditConfig(m) PROVE Inv'
    BY <1>6, EditConfigStep
  <1>7. CASE UNCHANGED vars
    BY <1>7, StutterStep
  <1> QED  BY <1>1, <1>2, <1>3, <1>4, <1>5, <1>6, <1>7 DEF Next

\* Every reachable state satisfies the inductive invariant.
THEOREM Invariance == Spec => []Inv
  <1>1. Init => Inv
    BY InitInv
  <1>2. Inv /\ [Next]_vars => Inv'
    BY NextInv
  <1> QED  BY <1>1, <1>2, PTL DEF Spec

\* Every reachable state of the commands that embed is well typed; no meta with a
\* dimension of 0 is ever written (BUG-078).
THEOREM TypeCorrect == Spec => []TypeOK
  <1>1. Inv => TypeOK
    BY DEF Inv
  <1> QED  BY <1>1, Invariance, PTL

LEMMA SpaceIsOne == ASSUME Inv PROVE OneSpace
  <1> SUFFICES ASSUME ~unsure, \A p \in Procs : ~Migrating(p)
               PROVE  InSpace(meta.model) /\ (meta # NoMeta => meta.dim = Dim[meta.model])
    BY DEF OneSpace
  <1>1. SpaceOK
    BY DEF Inv
  <1> QED  BY <1>1 DEF SpaceOK, InSpace, Migrating

\* The vectors of a project are of the model that meta names, outside migrations,
\* whatever edits, overrides, healing, replays, imports and rebuilds overlap.
THEOREM StoreIsOneSpace == Spec => []OneSpace
  <1>1. Inv => OneSpace
    BY SpaceIsOne
  <1> QED  BY <1>1, Invariance, PTL

\* A query is compared with vectors of its own model while meta is what the
\* command was started with.
THEOREM QueriesMatch == Spec => []ComparesLikeWithLike
  <1>1. ASSUME Inv PROVE ComparesLikeWithLike
    <2> SUFFICES ASSUME NEW p \in Procs,
                        proc[p].pc = "ready", proc[p].basis = meta, ~unsure,
                        \A q \in Procs : ~Migrating(q),
                        NEW r \in Records, Searchable(r)
                 PROVE  point[r].vec = proc[p].model
      BY DEF ComparesLikeWithLike
    <2>1. Sound(proc[p])
      BY <1>1 DEF Inv, ProcsOK
    <2>2. point[r].vec \in Models /\ point[r].vec = meta.model
      BY <1>1, SpaceIsOne DEF OneSpace, InSpace, Searchable
    <2>3. meta # NoMeta
      BY <2>2, Values DEF NoMeta
    <2> QED  BY <2>1, <2>2, <2>3 DEF Sound
  <1> QED  BY <1>1, Invariance, PTL

\* A config.yaml that names another model than meta stops no command.
THEOREM DriftStopsNobody == Spec => DriftIsHarmless
  <1>1. ASSUME Inv, NEW p \in Procs, Refuse(p)
        PROVE  \/ proc[p].op \in {"mcp", "serve"}
               \/ proc[p].env # NoModel
               \/ proc[p].basis # meta
    BY <1>1 DEF Inv, ProcsOK, Sound, Refuse, Mismatch
  <1>2. Inv => [\A p \in Procs : Refuse(p) =>
                  \/ proc[p].op \in {"mcp", "serve"}
                  \/ proc[p].env # NoModel
                  \/ proc[p].basis # meta]_vars
    BY <1>1
  <1> QED  BY <1>2, Invariance, PTL DEF DriftIsHarmless

================================================================================
