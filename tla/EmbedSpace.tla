------------------------------ MODULE EmbedSpace -------------------------------
(***************************************************************************)
(* The embedding model behind the vectors of one project.  Vectors of two  *)
(* models are not comparable, so what is stored, what is written and what  *)
(* is asked must come from one model.  Three places name it:               *)
(*                                                                         *)
(*   config   embedding.model in .gg/config.yaml, which people edit;       *)
(*   meta     .gg/embedding-meta.json, the model and the dimension that    *)
(*            the collections were made with;                              *)
(*   env      GG_EMBED_MODEL in the shell a command is started from.       *)
(*                                                                         *)
(* Every command resolves its model when it starts and keeps it            *)
(* (cmd/helpers.go, internal/mcp/tools.go, cmd/serve.go); gg reembed and   *)
(* gg brain import write vectors and meta in steps of their own            *)
(* (cmd/reembed.go, cmd/brain_import.go).  Nothing locks these steps.      *)
(***************************************************************************)
EXTENDS Integers

CONSTANTS
    Procs,      \* processes
    Records,    \* records of one collection
    Models,     \* embedding models
    Dim,        \* Dim[m]: the length of a vector of m
    Fallback,   \* store.VectorSize, assumed when the model cannot be asked
    Overrides,  \* the values of GG_EMBED_MODEL, NoModel for none
    Ops,        \* what may be run, a subset of AllOps
    Faults,     \* what may go wrong, a subset of AllFaults
    Budget      \* bound: commands, edits of the config and faults

NoModel == "none"
Absent  == "absent"     \* no point
Zero    == "zero"       \* a placeholder vector
Trusted == "trusted"    \* any model, by --skip-embed-check

\* "record": a write (gg record, gg task create); "search": gg search, which
\* heals afterwards; "mcp": a search through the MCP server; "serve": the
\* dashboard, which goes on running.
AllOps == {"record", "search", "mcp", "serve", "reembed", "import"}

\* "embedder": the model does not answer; "disk": a file cannot be written;
\* "crash": a process is killed.
AllFaults == {"embedder", "disk", "crash"}

ASSUME ConstantsOK ==
    /\ Models \intersect {NoModel, Absent, Zero, Trusted} = {}
    /\ Dim \in [Models -> Nat \ {0}]
    /\ Fallback \in Nat \ {0}
    /\ Overrides \subseteq Models \union {NoModel}
    /\ Ops \subseteq AllOps
    /\ Faults \subseteq AllFaults
    /\ Budget \in Nat

VARIABLES
    config,     \* the model config.yaml names
    meta,       \* embedding-meta.json, or NoMeta
    point,      \* point[r]: the vector of r and its degraded marker
    logged,     \* the records with a line in .gg/brain
    queued,     \* the records with an entry in .gg/outbox
    proc,       \* proc[p]: what p is running
    budget,     \* auxiliary: what is left of Budget
    disturbed,  \* auxiliary: rebuilds that another writer has run beside
    unsure      \* auxiliary: an event that the code does not guard against has
                \* struck since the last clean rebuild: two first runs at once,
                \* a first run that could not ask its model, an import with a
                \* drifted config or without a new meta, a migration cut short
                \* or beside a writer

vars == <<config, meta, point, logged, queued, proc, budget, disturbed, unsure>>

--------------------------------------------------------------------------------
(* Data *)

Meta   == [model : Models, dim : Nat \ {0}]
NoMeta == [model |-> NoModel, dim |-> 0]

Point   == [vec : Models \union {Absent, Zero}, marked : BOOLEAN]
NoPoint == [vec |-> Absent, marked |-> FALSE]

\* basis: the meta a command has resolved its model against; checked: CheckMeta
\* has passed; seen: the marked points among those in todo; snapshot: the model in
\* the manifest of an import, or Trusted.
PC == {"idle", "check", "stamp", "ready", "upsert", "answered", "heal", "broken",
       "scan", "drop", "fill", "meta", "config",
       "size", "wipe", "restamp", "seed", "match", "missing"}

Process == [pc : PC, op : AllOps \union {"none"},
            env : Models \union {NoModel}, model : Models \union {NoModel}, dim : Nat,
            basis : Meta \union {NoMeta}, checked : BOOLEAN,
            todo : SUBSET Records, seen : SUBSET Records,
            snapshot : Models \union {NoModel, Trusted}]

Idle == [pc |-> "idle", op |-> "none", env |-> NoModel, model |-> NoModel, dim |-> 0,
         basis |-> NoMeta, checked |-> FALSE, todo |-> {}, seen |-> {},
         snapshot |-> NoModel]

TypeOK ==
    /\ config \in Models
    /\ meta \in Meta \union {NoMeta}
    /\ point \in [Records -> Point]
    /\ logged \in SUBSET Records
    /\ queued \in SUBSET Records
    /\ proc \in [Procs -> Process]
    /\ budget \in Nat
    /\ disturbed \in SUBSET Procs
    /\ unsure \in BOOLEAN

Rebuilding(p) == proc[p].pc \in {"fill", "meta"}

\* Commands that hold a model and may still write a vector of it.
Writing(p) ==
    \/ proc[p].op \in {"record", "search", "import"}
    \/ Rebuilding(p)

\* A rebuild that changes the model, between the drop and the new meta.
Migrating(p) == Rebuilding(p) /\ proc[p].model # meta.model

Searchable(r) == point[r].vec \in Models /\ ~point[r].marked

\* The new vectors of p are stored with the dimension p expects.
CanEmbed(p) == proc[p].model \in Models /\ Dim[proc[p].model] = proc[p].dim

Spend == budget > 0 /\ budget' = budget - 1

Fault(f) == f \in Faults /\ Spend

\* p goes on to pc.
GoTo(p, pc) == proc' = [proc EXCEPT ![p].pc = pc]

\* p has ended, whatever it was doing.
End(p) ==
    /\ proc' = [proc EXCEPT ![p] = Idle]
    /\ disturbed' = disturbed \ {p}

\* p begins to write beside the rebuilds under way.
Disturb(p) == disturbed' = disturbed \union {q \in Procs \ {p} : Rebuilding(q)}

--------------------------------------------------------------------------------
(* The model of a command *)

\* embedding.EffectiveModel: the override, or what config.yaml says.
EffectiveModel(env) == IF env # NoModel THEN env ELSE config

\* config.yaml beats meta, as before TASK-516.
Aligned_Config(env) == EffectiveModel(env)

\* CorpusAlignedConfig: without an override, meta beats config.yaml.
Aligned(env) == IF env = NoModel /\ meta # NoMeta THEN meta.model ELSE EffectiveModel(env)

\* resolveEmbedding for the commands in internal/cmd.  Without meta the model is
\* asked for its dimension; if it does not answer the command goes on unchecked.
Resolve(p, op, env) ==
    /\ proc[p].pc = "idle"
    /\ op \in Ops \intersect {"record", "search"}
    /\ Disturb(p)
    /\ LET start == [Idle EXCEPT !.op = op, !.env = env, !.model = Aligned(env), !.basis = meta]
       IN  \/ /\ Spend
              /\ proc' = [proc EXCEPT ![p] = [start EXCEPT !.pc = "check",
                    !.dim = IF meta # NoMeta THEN meta.dim ELSE Dim[Aligned(env)]]]
           \/ /\ meta = NoMeta
              /\ Fault("embedder")
              /\ proc' = [proc EXCEPT ![p] = [start EXCEPT !.pc = "ready", !.dim = Fallback]]
    /\ UNCHANGED <<config, meta, point, logged, queued, unsure>>

\* The MCP tools and the dashboard without their check.
ResolveUnaligned_Unchecked(p, op, env) ==
    /\ proc[p].pc = "idle"
    /\ op \in Ops \intersect {"mcp", "serve"}
    /\ proc' = [proc EXCEPT ![p] = [Idle EXCEPT
                    !.pc = "ready", !.op = op, !.env = env, !.model = EffectiveModel(env),
                    !.basis = meta, !.dim = IF meta # NoMeta THEN meta.dim ELSE Fallback]]
    /\ Spend
    /\ UNCHANGED <<config, meta, point, logged, queued, disturbed, unsure>>

\* The MCP tools and the dashboard take the model from config.yaml, unaligned.
\* The MCP tools check it if there is a meta and never write one; the dashboard
\* always does, with the fallback if the model does not answer.
ResolveUnaligned(p, op, env) ==
    /\ proc[p].pc = "idle"
    /\ op \in Ops \intersect {"mcp", "serve"}
    /\ \E dim \in IF meta # NoMeta THEN {meta.dim}
                  ELSE {Dim[EffectiveModel(env)]} \union (IF "embedder" \in Faults THEN {Fallback} ELSE {}) :
          proc' = [proc EXCEPT ![p] = [Idle EXCEPT
                    !.pc = IF op = "mcp" /\ meta = NoMeta THEN "ready" ELSE "check",
                    !.op = op, !.env = env, !.model = EffectiveModel(env),
                    !.basis = meta, !.dim = dim]]
    /\ Spend
    /\ UNCHANGED <<config, meta, point, logged, queued, disturbed, unsure>>

\* Only the dimensions are compared.
Mismatch_DimOnly(p) == meta # NoMeta /\ meta.dim # proc[p].dim

Mismatch(p) == meta # NoMeta /\ (meta.model # proc[p].model \/ meta.dim # proc[p].dim)

\* CheckMeta with a meta of this model.
CheckMeta(p) ==
    /\ proc[p].pc = "check"
    /\ meta # NoMeta
    /\ ~Mismatch(p)
    /\ proc' = [proc EXCEPT ![p].pc = "ready", ![p].basis = meta, ![p].checked = TRUE]
    /\ UNCHANGED <<config, meta, point, logged, queued, budget, disturbed, unsure>>

\* CheckMeta with another: the command fails with ErrModelMismatch.  The
\* dashboard keeps the error as long as it runs.
Refuse(p) ==
    /\ proc[p].pc = "check"
    /\ Mismatch(p)
    /\ IF proc[p].op = "serve"
         THEN GoTo(p, "broken") /\ UNCHANGED disturbed
         ELSE End(p)
    /\ UNCHANGED <<config, meta, point, logged, queued, budget, unsure>>

\* CheckMeta on the first run: the model is recorded as authoritative, in a
\* write of its own after the read.
FirstRun(p) ==
    /\ proc[p].pc = "check"
    /\ meta = NoMeta
    /\ GoTo(p, "stamp")
    /\ UNCHANGED <<config, meta, point, logged, queued, budget, disturbed, unsure>>

StampMeta(p) ==
    /\ proc[p].pc = "stamp"
    /\ LET new == [model |-> proc[p].model, dim |-> proc[p].dim]
       IN  /\ meta' = new
           /\ proc' = [proc EXCEPT ![p].pc = "ready", ![p].basis = new, ![p].checked = TRUE]
           /\ IF meta \in {NoMeta, new} /\ proc[p].dim = Dim[proc[p].model]
                THEN UNCHANGED unsure
                ELSE unsure' = TRUE
    /\ UNCHANGED <<config, point, logged, queued, budget, disturbed>>

--------------------------------------------------------------------------------
(* Writes, searches, healing *)

\* The new record is embedded, then appended to the log.
Append(p, r) ==
    /\ proc[p].pc = "ready"
    /\ proc[p].op = "record"
    /\ r \notin logged
    /\ CanEmbed(p)
    /\ logged' = logged \union {r}
    /\ proc' = [proc EXCEPT ![p].pc = "upsert", ![p].todo = {r}]
    /\ UNCHANGED <<config, meta, point, queued, budget, disturbed, unsure>>

\* The inbox gate refuses, or the user is shown a duplicate: nothing is recorded.
Abort(p) ==
    /\ proc[p].pc = "ready"
    /\ proc[p].op = "record"
    /\ End(p)
    /\ UNCHANGED <<config, meta, point, logged, queued, budget, unsure>>

\* Without a vector the record is saved in the log and queued.
AppendUnembedded(p, r) ==
    /\ proc[p].pc = "ready"
    /\ proc[p].op = "record"
    /\ r \notin logged
    /\ IF CanEmbed(p) THEN Fault("embedder") ELSE UNCHANGED budget
    /\ logged' = logged \union {r}
    /\ queued' = queued \union {r}
    /\ End(p)
    /\ UNCHANGED <<config, meta, point, unsure>>

Upsert(p) ==
    /\ proc[p].pc = "upsert"
    /\ point' = [r \in Records |-> IF r \in proc[p].todo
                                     THEN [vec |-> proc[p].model, marked |-> FALSE]
                                     ELSE point[r]]
    /\ IF proc[p].checked THEN UNCHANGED unsure ELSE unsure' = TRUE
    /\ End(p)
    /\ UNCHANGED <<config, meta, logged, queued, budget>>

\* The query is embedded and compared with what is stored.  A search heals
\* afterwards, the dashboard goes on serving.
Query(p) ==
    /\ proc[p].pc = "ready"
    /\ CanEmbed(p)
    /\ \/ proc[p].op = "search" /\ GoTo(p, "answered") /\ UNCHANGED disturbed
       \/ proc[p].op = "mcp" /\ End(p)
       \/ proc[p].op = "serve" /\ UNCHANGED <<proc, disturbed>>
    /\ UNCHANGED <<config, meta, point, logged, queued, budget, unsure>>

\* A vector of the wrong length, or none.
QueryFails(p) ==
    /\ proc[p].pc = "ready"
    /\ proc[p].op \in {"search", "mcp"}
    /\ IF CanEmbed(p) THEN Fault("embedder") ELSE UNCHANGED budget
    /\ End(p)
    /\ UNCHANGED <<config, meta, point, logged, queued, unsure>>

\* Under the reconcile lock: which points are degraded?
HealScan(p) ==
    /\ proc[p].pc = "answered"
    /\ \A q \in Procs : proc[q].pc # "heal"
    /\ proc' = [proc EXCEPT ![p].pc = "heal",
                            ![p].todo = {r \in Records : point[r].vec # Absent /\ point[r].marked}]
    /\ UNCHANGED <<config, meta, point, logged, queued, budget, disturbed, unsure>>

HealPoint(p, r) ==
    /\ proc[p].pc = "heal"
    /\ r \in proc[p].todo
    /\ point' = [point EXCEPT ![r] = [vec |-> proc[p].model, marked |-> FALSE]]
    /\ proc' = [proc EXCEPT ![p].todo = @ \ {r}]
    /\ IF proc[p].checked THEN UNCHANGED unsure ELSE unsure' = TRUE
    /\ UNCHANGED <<config, meta, logged, queued, budget, disturbed>>

\* Healing stops at its limits, without an error: the lock, the batch, the 5 s,
\* an embedder that does not answer.
HealStops(p) ==
    /\ proc[p].pc \in {"answered", "heal"}
    /\ End(p)
    /\ UNCHANGED <<config, meta, point, logged, queued, budget, unsure>>

\* A drain or a doctor replays a queued or missing record with a zero vector.
Replay(r) ==
    /\ r \in logged
    /\ r \in queued \/ point[r].vec = Absent
    /\ point' = [point EXCEPT ![r] = [vec |-> Zero, marked |-> TRUE]]
    /\ queued' = queued \ {r}
    /\ UNCHANGED <<config, meta, logged, proc, budget, disturbed, unsure>>

--------------------------------------------------------------------------------
(* gg reembed *)

\* The model of config.yaml, or the override, is asked for its dimension.
Probe(p, env) ==
    /\ proc[p].pc = "idle"
    /\ "reembed" \in Ops
    /\ IF env = NoModel THEN UNCHANGED budget ELSE Spend
    /\ proc' = [proc EXCEPT ![p] = [Idle EXCEPT !.pc = "scan", !.op = "reembed",
                    !.model = EffectiveModel(env), !.dim = Dim[EffectiveModel(env)]]]
    /\ UNCHANGED <<config, meta, point, logged, queued, disturbed, unsure>>

\* ReembedAll that reads the points only, as before BUG-069.
ScanAll_StoreOnly(p) ==
    /\ proc[p].pc = "scan"
    /\ proc' = [proc EXCEPT ![p].pc = "drop",
                            ![p].todo = {r \in Records : point[r].vec # Absent}]
    /\ UNCHANGED <<config, meta, point, logged, queued, budget, disturbed, unsure>>

\* ReembedAll reads the points and overlays the log.
ScanAll(p) ==
    /\ proc[p].pc = "scan"
    /\ proc' = [proc EXCEPT ![p].pc = "drop",
                            ![p].todo = logged \union {r \in Records : point[r].vec # Absent}]
    /\ UNCHANGED <<config, meta, point, logged, queued, budget, disturbed, unsure>>

\* DropAllCollections, EnsureCollections.
Drop(p) ==
    /\ proc[p].pc = "drop"
    /\ point' = [r \in Records |-> NoPoint]
    /\ GoTo(p, "fill")
    /\ disturbed' = {q \in Procs \ {p} : q \in disturbed \/ Rebuilding(q)}
                        \union {q \in {p} : \E w \in Procs \ {p} : Writing(w)}
    /\ UNCHANGED <<config, meta, logged, queued, budget, unsure>>

Fill(p, r) ==
    /\ proc[p].pc = "fill"
    /\ r \in proc[p].todo
    /\ point' = [point EXCEPT ![r] = [vec |-> proc[p].model, marked |-> FALSE]]
    /\ proc' = [proc EXCEPT ![p].todo = @ \ {r}]
    /\ UNCHANGED <<config, meta, logged, queued, budget, disturbed, unsure>>

\* A record that persistently cannot be embedded is left out.
FillSkips(p, r) ==
    /\ proc[p].pc = "fill"
    /\ r \in proc[p].todo
    /\ Fault("embedder")
    /\ proc' = [proc EXCEPT ![p].todo = @ \ {r}]
    /\ UNCHANGED <<config, meta, point, logged, queued, disturbed, unsure>>

Filled(p) ==
    /\ proc[p].pc = "fill"
    /\ proc[p].todo = {}
    /\ GoTo(p, "meta")
    /\ UNCHANGED <<config, meta, point, logged, queued, budget, disturbed, unsure>>

\* The new meta.  If nobody else was writing since the drop, all vectors are of
\* this model, whatever was there before.
WriteMeta(p) ==
    /\ proc[p].pc = "meta"
    /\ meta' = [model |-> proc[p].model, dim |-> proc[p].dim]
    /\ GoTo(p, "config")
    /\ unsure' = (p \in disturbed /\ (unsure \/ meta' # meta))
    /\ disturbed' = disturbed \ {p}
    /\ UNCHANGED <<config, point, logged, queued, budget>>

\* UpdateEmbeddingModel: config.yaml is brought in step with the corpus.
UpdateConfig(p) ==
    /\ proc[p].pc = "config"
    /\ config' = proc[p].model
    /\ End(p)
    /\ UNCHANGED <<meta, point, logged, queued, budget, unsure>>

\* A file that cannot be written is a warning, and the command goes on.
WriteFails(p) ==
    /\ proc[p].pc \in {"meta", "config"}
    /\ Fault("disk")
    /\ \/ /\ proc[p].pc = "meta"
          /\ GoTo(p, "config")
          /\ disturbed' = disturbed \ {p}
       \/ /\ proc[p].pc = "config"
          /\ End(p)
    /\ IF Migrating(p) THEN unsure' = TRUE ELSE UNCHANGED unsure
    /\ UNCHANGED <<config, meta, point, logged, queued>>

--------------------------------------------------------------------------------
(* gg brain import *)

\* The model in the manifest is compared with meta, unless --skip-embed-check.
StartImport(p, env, snapshot) ==
    /\ proc[p].pc = "idle"
    /\ "import" \in Ops
    /\ meta = NoMeta \/ snapshot \in {NoModel, Trusted, meta.model}
    /\ Spend
    /\ Disturb(p)
    /\ proc' = [proc EXCEPT ![p] = [Idle EXCEPT !.pc = "size", !.op = "import",
                    !.model = EffectiveModel(env), !.snapshot = snapshot]]
    /\ UNCHANGED <<config, meta, point, logged, queued, unsure>>

\* A model that does not answer has no dimension, as before BUG-078.
Size_Zero(p) ==
    /\ proc[p].pc = "size"
    /\ \E dim \in IF meta # NoMeta THEN {meta.dim} ELSE {Dim[proc[p].model], 0},
          next \in {"wipe", "restamp"} :
          proc' = [proc EXCEPT ![p].pc = next, ![p].dim = dim]
    /\ UNCHANGED <<config, meta, point, logged, queued, budget, disturbed, unsure>>

\* EffectiveDim: that of meta, else that of the model, else the fallback.
Size(p) ==
    /\ proc[p].pc = "size"
    /\ \E dim \in IF meta # NoMeta THEN {meta.dim}
                  ELSE {Dim[proc[p].model]} \union (IF "embedder" \in Faults THEN {Fallback} ELSE {}),
          next \in {"wipe", "restamp"} :
          proc' = [proc EXCEPT ![p].pc = next, ![p].dim = dim]
    /\ UNCHANGED <<config, meta, point, logged, queued, budget, disturbed, unsure>>

\* --wipe.
Wipe(p) ==
    /\ proc[p].pc = "wipe"
    /\ point' = [r \in Records |-> NoPoint]
    /\ GoTo(p, "restamp")
    /\ UNCHANGED <<config, meta, logged, queued, budget, disturbed, unsure>>

\* The meta is stamped with the model of config.yaml, not of the corpus.
Restamp(p) ==
    /\ proc[p].pc = "restamp"
    /\ LET new == [model |-> proc[p].model, dim |-> proc[p].dim]
       IN  /\ meta' = new
           /\ IF meta \in {NoMeta, new} /\ proc[p].dim = Dim[proc[p].model]
                THEN UNCHANGED unsure
                ELSE unsure' = TRUE
    /\ GoTo(p, "seed")
    /\ UNCHANGED <<config, point, logged, queued, budget, disturbed>>

\* A meta that cannot be written is a warning, and the import goes on.
RestampFails(p) ==
    /\ proc[p].pc = "restamp"
    /\ Fault("disk")
    /\ GoTo(p, "seed")
    /\ IF meta.model = proc[p].model THEN UNCHANGED unsure ELSE unsure' = TRUE
    /\ UNCHANGED <<config, meta, point, logged, queued, disturbed>>

\* UpsertBrainRecords: zero vectors, and payloads as they were exported, marked
\* if the export found them degraded.
Seed(p) ==
    /\ proc[p].pc = "seed"
    /\ \E marked \in SUBSET logged :
          point' = [r \in Records |-> IF r \in logged
                                        THEN [vec |-> Zero, marked |-> r \in marked]
                                        ELSE point[r]]
    /\ GoTo(p, "match")
    /\ UNCHANGED <<config, meta, logged, queued, budget, disturbed, unsure>>

\* reembedMissing: the manifest against the new meta, then the points without a
\* vector.
MatchManifest(p) ==
    /\ proc[p].pc = "match"
    /\ proc[p].snapshot \in {Trusted, meta.model} \ {NoModel}
    /\ LET missing == {r \in Records : point[r].vec = Zero}
       IN  proc' = [proc EXCEPT ![p].pc = "missing", ![p].todo = missing,
                                ![p].dim = IF meta # NoMeta THEN meta.dim ELSE @,
                                ![p].seen = {r \in missing : point[r].marked}]
    /\ UNCHANGED <<config, meta, point, logged, queued, budget, disturbed, unsure>>

\* The payload is written back as it was read, with its marker.
EmbedMissing(p, r) ==
    /\ proc[p].pc = "missing"
    /\ r \in proc[p].todo
    /\ CanEmbed(p)
    /\ point' = [point EXCEPT ![r] = [vec |-> proc[p].model, marked |-> r \in proc[p].seen]]
    /\ proc' = [proc EXCEPT ![p].todo = @ \ {r}]
    /\ UNCHANGED <<config, meta, logged, queued, budget, disturbed, unsure>>

\* Done; or no match, --no-reindex, a vector of the wrong length.
ImportEnds(p) ==
    /\ \/ proc[p].pc = "match"
       \/ proc[p].pc = "missing" /\ (proc[p].todo = {} \/ ~CanEmbed(p))
    /\ End(p)
    /\ UNCHANGED <<config, meta, point, logged, queued, budget, unsure>>

--------------------------------------------------------------------------------
(* What people and faults do *)

EditConfig(m) ==
    /\ m # config
    /\ Spend
    /\ config' = m
    /\ UNCHANGED <<meta, point, logged, queued, proc, disturbed, unsure>>

\* The embedder fails five records in a row: the rebuild is given up.
FillAborts(p) ==
    /\ proc[p].pc = "fill"
    /\ Fault("embedder")
    /\ IF Migrating(p) THEN unsure' = TRUE ELSE UNCHANGED unsure
    /\ End(p)
    /\ UNCHANGED <<config, meta, point, logged, queued>>

\* A command is killed, or fails at its next step.
Crash(p) ==
    /\ proc[p].pc # "idle"
    /\ Fault("crash")
    /\ IF Migrating(p) THEN unsure' = TRUE ELSE UNCHANGED unsure
    /\ End(p)
    /\ UNCHANGED <<config, meta, point, logged, queued>>

\* The dashboard is closed.
Quit(p) ==
    /\ proc[p].op = "serve"
    /\ proc[p].pc \in {"ready", "broken"}
    /\ End(p)
    /\ UNCHANGED <<config, meta, point, logged, queued, budget, unsure>>

--------------------------------------------------------------------------------
(* Specification *)

\* A project with or without a corpus.
Init ==
    /\ config \in Models
    /\ \/ /\ meta = NoMeta
          /\ logged = {}
          /\ point = [r \in Records |-> NoPoint]
       \/ /\ meta \in {[model |-> m, dim |-> Dim[m]] : m \in Models}
          /\ logged \in SUBSET Records
          /\ point = [r \in Records |-> IF r \in logged
                                          THEN [vec |-> meta.model, marked |-> FALSE]
                                          ELSE NoPoint]
    /\ queued = {}
    /\ proc = [p \in Procs |-> Idle]
    /\ budget = Budget
    /\ disturbed = {}
    /\ unsure = FALSE

Start(p) == \E env \in Overrides :
    \/ \E op \in AllOps : Resolve(p, op, env) \/ ResolveUnaligned(p, op, env)
    \/ \E snapshot \in Models \union {NoModel, Trusted} : StartImport(p, env, snapshot)

\* What a command does by itself.
Continue(p) ==
    \/ CheckMeta(p) \/ Refuse(p) \/ FirstRun(p) \/ StampMeta(p)
    \/ \E r \in Records : Append(p, r)
    \/ Abort(p) \/ Upsert(p) \/ Query(p) \/ HealScan(p) \/ HealStops(p)
    \/ \E r \in Records : HealPoint(p, r)
    \/ ScanAll(p) \/ Drop(p) \/ Filled(p) \/ WriteMeta(p) \/ UpdateConfig(p)
    \/ \E r \in Records : Fill(p, r)
    \/ Size(p) \/ Wipe(p) \/ Restamp(p) \/ Seed(p) \/ MatchManifest(p) \/ ImportEnds(p)
    \/ \E r \in Records : EmbedMissing(p, r)
    \/ Quit(p)

GoesWrong(p) ==
    \/ \E r \in Records : AppendUnembedded(p, r) \/ FillSkips(p, r)
    \/ QueryFails(p) \/ FillAborts(p) \/ WriteFails(p) \/ RestampFails(p) \/ Crash(p)

Next ==
    \/ \E p \in Procs :
        \/ Start(p)
        \/ \E env \in Overrides : Probe(p, env)
        \/ Continue(p)
        \/ GoesWrong(p)
    \/ \E r \in Records : Replay(r)
    \/ \E m \in Models : EditConfig(m)

Spec == Init /\ [][Next]_vars

\* Commands go on, dashboards are closed, and somebody runs gg reembed, as every
\* message about a mismatch asks for, again and again.
FairSpec ==
    /\ Spec
    /\ \A p \in Procs : WF_vars(Continue(p) \/ GoesWrong(p))
    /\ SF_vars(\E p \in Procs : Probe(p, NoModel))

--------------------------------------------------------------------------------
(* Properties *)

InSpace(m) == \A r \in Records : point[r].vec \in Models => point[r].vec = m

\* All vectors in the store are of the model that meta names, and meta has its
\* dimension, while no rebuild is moving them to another model -- also after
\* edits of the config, overrides, healing, replays, and commands that overlap.
\* The exceptions (unsure) are a migration that was cut short, or ran beside a
\* writer; an import with a drifted config; two first runs at once; a first run
\* that could not ask its model.  A rebuild that runs alone ends them all.
OneSpace ==
    (~unsure /\ \A p \in Procs : ~Migrating(p))
        => InSpace(meta.model) /\ (meta # NoMeta => meta.dim = Dim[meta.model])

\* A query is only ever compared with vectors of its own model, if meta is still
\* what the command was started with.  (The dashboard resolves its model once,
\* and does not notice a rebuild.)
ComparesLikeWithLike ==
    \A p \in Procs :
        (/\ proc[p].pc = "ready" /\ proc[p].op \in {"search", "mcp", "serve"}
         /\ proc[p].basis = meta
         /\ ~unsure /\ \A q \in Procs : ~Migrating(q))
            => \A r \in Records : Searchable(r) => point[r].vec = proc[p].model

\* A drifted config.yaml stops no command: one is refused only for an override,
\* or because meta has changed since it was read.
DriftIsHarmless ==
    [][\A p \in Procs : Refuse(p) =>
          \/ proc[p].op \in {"mcp", "serve"}
          \/ proc[p].env # NoModel
          \/ proc[p].basis # meta]_vars

AtMostOneReembed ==
    \A p, q \in Procs : (proc[p].op = "reembed" /\ proc[q].op = "reembed") => p = q

Agreed ==
    /\ meta = [model |-> config, dim |-> Dim[config]]
    /\ InSpace(config)

\* Wherever edits, overrides, imports, failures and kills have left a project,
\* rebuilding it again and again, one at a time, makes config, meta and vectors
\* agree for good, with a real vector for every record.
ReembedSettles ==
    <>[]AtMostOneReembed =>
        <>[]Agreed /\ []<>(\A r \in logged : point[r].vec \in Models)

================================================================================
