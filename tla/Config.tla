------------------------------- MODULE Config -------------------------------
(***************************************************************************)
(* The life cycle of configuration objects (configsvc.go) and the engine   *)
(* configurations compiled from them.                                      *)
(*                                                                         *)
(* A call is a handler's call into configsvc.  Its statements interleave   *)
(* with those of other calls: a row that was read may have changed when it *)
(* is written.  The transaction of Publish is one step.  An object is      *)
(* carried by the engine configuration or, a product, segment or flag, by  *)
(* a runtime table of its own.  A version of an engine configuration is    *)
(* unique in its environment.                                              *)
(***************************************************************************)
EXTENDS Integers, FiniteSets, Functions

CONSTANTS
  Calls,      \* concurrent calls
  Objects,    \* an environment, type and name each
  EnvOf,      \* their environments
  Materialized, \* the products, segments and flags
  PromotedTo, \* the object of the target environment, for those to promote
  Contents,   \* the authored configurations
  Invalid,    \* those that ValidateObject refuses
  MaxCalls,   \* bound: calls over time, while none overlap
  MaxMixed,   \* bound: calls over time, once two have overlapped
  None        \* no row, no published version

Row == [status : {"draft", "published", "paused", "archived"},
        config : Contents, version : Nat, published : Nat \union {None}]
RuntimeRow == [config : Contents, status : {"active", "paused", "archived"}]
Envs == {EnvOf[o] : o \in Objects}
Participating == {"published", "paused"}

ASSUME ConfigAssumption ==
  /\ EnvOf \in [Objects -> Envs]
  /\ Materialized \subseteq Objects
  /\ DOMAIN PromotedTo \subseteq Objects
  /\ \A o \in DOMAIN PromotedTo : PromotedTo[o] \in Objects \ {o}
  /\ Invalid \subseteq Contents
  /\ MaxCalls \in Nat /\ MaxMixed \in 0 .. MaxCalls
  /\ None \notin Nat \union Row \union RuntimeRow

Version == [object : Objects, version : Nat, config : Contents]
Entry == [active : BOOLEAN, config : Contents]
Kinds == {"create", "update", "publish", "pause", "resume", "rollback",
          "delete", "promote", "compile"}
Steps == {"idle", "get", "find", "write", "find again", "flip", "list", "number", "insert"}

VARIABLES
  row,       \* objects
  snapshots, \* object_versions
  runtime,   \* products, segments, feature_flags
  compiled,  \* engine_configs: the newest of each environment
  pc,        \* the next statement of a call
  op,        \* [kind, object, arg] of a call
  seen,      \* what a call has read
  calls,     \* calls started (bounded)
  authored,  \* history: every version of an object that a row had
  overlapped,\* history: two calls were in progress at once
  edited,    \* history: objects updated while paused, or paused or resumed as drafts
  uncompiled \* history: objects changed since the environment was compiled

vars == <<row, snapshots, runtime, compiled, pc, op, seen, calls, authored, overlapped,
          edited, uncompiled>>
history == <<authored, edited, uncompiled>>

TypeOK ==
  /\ row \in [Objects -> Row \union {None}]
  /\ snapshots \subseteq Version
  /\ runtime \in [Materialized -> RuntimeRow \union {None}]
  /\ \A e \in Envs : /\ compiled[e].version \in Nat
                     /\ DOMAIN compiled[e].entries \subseteq Objects
                     /\ Range(compiled[e].entries) \subseteq Entry
  /\ pc \in [Calls -> Steps]
  /\ \A c \in Calls : op[c] = None \/ op[c].kind \in Kinds
  /\ calls \in 0 .. MaxCalls
  /\ authored \subseteq Version
  /\ overlapped \in BOOLEAN
  /\ edited \subseteq Objects /\ uncompiled \subseteq Objects

Init ==
  /\ row = [o \in Objects |-> None]
  /\ snapshots = {}
  /\ runtime = [o \in Materialized |-> None]
  /\ compiled = [e \in Envs |-> [version |-> 0, entries |-> <<>>]]
  /\ pc = [c \in Calls |-> "idle"]
  /\ op = [c \in Calls |-> None]
  /\ seen = [c \in Calls |-> None]
  /\ calls = 0
  /\ authored = {}
  /\ overlapped = FALSE
  /\ edited = {}
  /\ uncompiled = {}
-----------------------------------------------------------------------------
(***************************************************************************)
(* Calls and their statements.                                             *)
(***************************************************************************)
Valid(config) == config \notin Invalid
Target(c) == op[c].object

GoTo(c, step) == pc' = [pc EXCEPT ![c] = step]
Return(c) ==
  /\ pc' = [pc EXCEPT ![c] = "idle"]
  /\ op' = [op EXCEPT ![c] = None]
  /\ seen' = [seen EXCEPT ![c] = None]

\* Create validates first; Delete and a compilation read no row.
FirstStep(kind) ==
  IF kind \in {"create", "delete"} THEN "write"
  ELSE IF kind = "compile" THEN "list" ELSE "get"

\* arg is a configuration, or for a rollback a version.
Start(c, kind, object, arg) ==
  /\ pc[c] = "idle"
  /\ overlapped' = (overlapped \/ \E d \in Calls : pc[d] # "idle")
  /\ calls < IF overlapped' THEN MaxMixed ELSE MaxCalls
  /\ kind = "create" => Valid(arg)
  /\ kind = "promote" => object \in DOMAIN PromotedTo
  /\ calls' = calls + 1
  /\ op' = [op EXCEPT ![c] = [kind |-> kind, object |-> object, arg |-> arg]]
  /\ GoTo(c, FirstStep(kind))
  /\ UNCHANGED <<row, snapshots, runtime, compiled, seen, history>>

\* Mutated form: a published object can be changed as well.
AllowsAnyUpdate(c, r) ==
  CASE op[c].kind = "update"  -> Valid(op[c].arg)
    [] op[c].kind = "publish" -> r.status # "published" /\ Valid(r.config)
    [] op[c].kind \in {"pause", "resume"} -> r.published # None
    [] op[c].kind = "promote" -> r.published # None /\ Valid(r.config)

\* What a call requires of the row it reads.
Allows(c, r) ==
  CASE op[c].kind = "update"  -> r.status # "published" /\ Valid(op[c].arg)
    [] op[c].kind = "publish" -> r.status # "published" /\ Valid(r.config)
    [] op[c].kind \in {"pause", "resume"} -> r.published # None
    [] op[c].kind = "promote" -> r.published # None /\ Valid(r.config)

\* Get: archived objects are not found.  A rollback reads a snapshot only.
GetRow(c) ==
  LET r == row[Target(c)] IN
  /\ pc[c] = "get"
  /\ op[c].kind # "rollback"
  /\ IF r # None /\ r.status # "archived" /\ Allows(c, r)
     THEN /\ seen' = [seen EXCEPT ![c] = r]
          /\ GoTo(c, IF op[c].kind = "promote" THEN "find" ELSE "write")
          /\ UNCHANGED op
     ELSE Return(c)
  /\ UNCHANGED <<row, snapshots, runtime, compiled, calls, history, overlapped>>

GetSnapshot(c) ==
  LET found == {s \in snapshots : s.object = Target(c) /\ s.version = op[c].arg} IN
  /\ pc[c] = "get"
  /\ op[c].kind = "rollback"
  /\ \/ /\ found = {}
        /\ Return(c)
     \/ \E s \in found : /\ seen' = [seen EXCEPT ![c] = s]
                         /\ GoTo(c, "write")
                         /\ UNCHANGED op
  /\ UNCHANGED <<row, snapshots, runtime, compiled, calls, history, overlapped>>

\* Promote looks for the object of the same name, archived ones included.
FindTarget(c) ==
  LET target == PromotedTo[Target(c)] IN
  /\ pc[c] = "find"
  /\ op' = [op EXCEPT ![c] =
               [kind |-> "promote", object |-> target,
                arg |-> IF row[target] = None THEN "insert" ELSE "update"]]
  /\ GoTo(c, "write")
  /\ UNCHANGED <<row, snapshots, runtime, compiled, seen, calls, history, overlapped>>
-----------------------------------------------------------------------------
(***************************************************************************)
(* The writes.                                                             *)
(***************************************************************************)
\* Mutated form: a deletion does not compile.
AfterWriteNoDelete(c) ==
  CASE op[c].kind = "promote" -> "get"
    [] op[c].kind \in {"create", "update", "rollback", "delete"} -> "idle"
    [] op[c].kind \in {"pause", "resume"} /\ Target(c) \in Materialized -> "flip"
    [] OTHER -> "list"

\* What follows a write: Promote's call of Publish, the runtime row of a product,
\* segment or flag, which Delete finds by the object, a compilation, or nothing.
AfterWrite(c) ==
  CASE op[c].kind = "promote" -> "get"
    [] op[c].kind \in {"create", "update", "rollback"} -> "idle"
    [] op[c].kind \in {"pause", "resume"} /\ Target(c) \in Materialized -> "flip"
    [] op[c].kind = "delete" /\ Target(c) \in Materialized -> "find again"
    [] OTHER -> "list"

GoOn(c) ==
  LET step == AfterWrite(c) IN
  CASE step = "idle" -> Return(c)
    [] step = "get"  -> /\ op' = [op EXCEPT ![c] = [kind |-> "publish",
                                                      object |-> Target(c),
                                                      arg |-> None]]
                        /\ GoTo(c, "get")
                        /\ UNCHANGED seen
    [] OTHER -> GoTo(c, step) /\ UNCHANGED <<op, seen>>

RowOf(status, config, version, published) ==
  [status |-> status, config |-> config, version |-> version, published |-> published]
NewRow(config) == RowOf("draft", config, 1, None)

\* UPDATE objects SET config, version = version + 1
Revised(r, config) == RowOf(r.status, config, r.version + 1, r.published)

\* Mutated form: the restored draft keeps its version.
RestoredInPlace(r, config) == RowOf("draft", config, r.version, r.published)

\* Rollback and Promote also make the object a draft, whatever it was.
Restored(r, config) == RowOf("draft", config, r.version + 1, r.published)
WithStatus(r, status) == RowOf(status, r.config, r.version, r.published)

\* INSERT INTO objects: of an object that does not exist.
IsInsert(c) ==
  op[c].kind = "create" \/ (op[c].kind = "promote" /\ op[c].arg = "insert")

\* The UPDATE of a call, of the row as it is now.
Written(c, r) ==
  CASE op[c].kind = "update"   -> Revised(r, op[c].arg)
    [] op[c].kind = "publish"  -> RowOf("published", r.config, r.version, seen[c].version)
    [] op[c].kind = "pause"    -> WithStatus(r, "paused")
    [] op[c].kind = "resume"   -> WithStatus(r, "published")
    [] op[c].kind = "delete"   -> WithStatus(r, "archived")
    [] op[c].kind \in {"rollback", "promote"} -> Restored(r, seen[c].config)

\* A write fails on a row that is missing, a name or a snapshot that exists.
Fails(c) ==
  IF IsInsert(c) THEN row[Target(c)] # None
  ELSE \/ row[Target(c)] = None
       \/ /\ op[c].kind = "publish"
          /\ \E s \in snapshots :
               s.object = Target(c) /\ s.version = seen[c].version

\* The snapshot is of the row that Publish has read.
Snapshot(c) ==
  snapshots' = IF op[c].kind # "publish" THEN snapshots
               ELSE snapshots \union {[object |-> Target(c),
                                       version |-> seen[c].version,
                                       config |-> seen[c].config]}

\* Mutated form: the runtime row is that of the row as it is now.
MaterializeNow(c) ==
  LET o == Target(c) IN
  runtime' = IF op[c].kind # "publish" \/ o \notin Materialized THEN runtime
             ELSE [runtime EXCEPT ![o] =
                     [config |-> row[o].config,
                      status |-> IF runtime[o] = None THEN "active" ELSE runtime[o].status]]

\* The upsert of the runtime row leaves the status of a row that is there.
Materialize(c) ==
  LET o == Target(c) IN
  runtime' = IF op[c].kind # "publish" \/ o \notin Materialized THEN runtime
             ELSE [runtime EXCEPT ![o] =
                     [config |-> seen[c].config,
                      status |-> IF runtime[o] = None THEN "active" ELSE runtime[o].status]]

Note(c, old, new) ==
  /\ authored' = authored \union {[object |-> Target(c), version |-> new.version,
                                   config |-> new.config]}
  /\ edited' = IF old = None THEN edited
               ELSE IF \/ op[c].kind = "update" /\ old.status = "paused"
                       \/ op[c].kind \in {"pause", "resume"} /\ old.status = "draft"
                    THEN edited \union {Target(c)}
               ELSE IF op[c].kind \in {"publish", "rollback", "promote"}
                    THEN edited \ {Target(c)}
               ELSE edited
  /\ uncompiled' = IF op[c].kind \in {"update", "rollback", "promote"}
                   THEN uncompiled \union {Target(c)} ELSE uncompiled

NewOf(c) ==
  IF IsInsert(c)
  THEN NewRow(IF op[c].kind = "create" THEN op[c].arg ELSE seen[c].config)
  ELSE Written(c, row[Target(c)])

Write(c) ==
  /\ pc[c] = "write"
  /\ IF Fails(c)
     THEN Return(c) /\ UNCHANGED <<row, snapshots, runtime, history>>
     ELSE /\ row' = [row EXCEPT ![Target(c)] = NewOf(c)]
          /\ Snapshot(c)
          /\ Materialize(c)
          /\ Note(c, row[Target(c)], NewOf(c))
          /\ GoOn(c)
  /\ UNCHANGED <<compiled, calls, overlapped>>

\* Delete looks the object up to find its runtime row: unless another call has
\* revived the object meanwhile it is archived, and not found.
FindAgain(c) ==
  /\ pc[c] = "find again"
  /\ GoTo(c, IF row[Target(c)].status = "archived" THEN "list" ELSE "flip")
  /\ UNCHANGED <<row, snapshots, runtime, compiled, op, seen, calls, history, overlapped>>

\* The runtime status after a pause, a resume or a deletion.
Flipped(kind) ==
  IF kind = "pause" THEN "paused" ELSE IF kind = "resume" THEN "active" ELSE "archived"

FlipRuntime(c) ==
  LET o == Target(c) IN
  /\ pc[c] = "flip"
  /\ runtime' = IF runtime[o] = None THEN runtime
                ELSE [runtime EXCEPT ![o].status = Flipped(op[c].kind)]
  /\ GoTo(c, "list")
  /\ UNCHANGED <<row, snapshots, compiled, op, seen, calls, history, overlapped>>
-----------------------------------------------------------------------------
(***************************************************************************)
(* CompileEngineConfig.                                                    *)
(***************************************************************************)
Env(c) == EnvOf[Target(c)]

\* The entries of an environment: drafts and archived objects have none.
View(env) ==
  [o \in {o \in Objects : /\ EnvOf[o] = env
                          /\ o \notin Materialized
                          /\ row[o] # None
                          /\ row[o].status \in Participating} |->
     [active |-> row[o].status = "published", config |-> row[o].config]]

ListObjects(c) ==
  /\ pc[c] = "list"
  /\ seen' = [seen EXCEPT ![c] = [entries |-> View(Env(c)), version |-> 0]]
  /\ GoTo(c, "number")
  /\ UNCHANGED <<row, snapshots, runtime, compiled, op, calls, history, overlapped>>

\* SELECT COALESCE(MAX(version),0)+1
NextVersion(c) ==
  /\ pc[c] = "number"
  /\ seen' = [seen EXCEPT ![c] = [entries |-> seen[c].entries,
                                   version |-> compiled[Env(c)].version + 1]]
  /\ GoTo(c, "insert")
  /\ UNCHANGED <<row, snapshots, runtime, compiled, op, calls, history, overlapped>>

\* The INSERT of a version that another call has inserted fails, unnoticed.
InsertConfig(c) ==
  /\ pc[c] = "insert"
  /\ IF seen[c].version > compiled[Env(c)].version
     THEN /\ compiled' = [compiled EXCEPT ![Env(c)] = seen[c]]
          /\ uncompiled' = {o \in uncompiled : EnvOf[o] # Env(c)}
     ELSE UNCHANGED <<compiled, uncompiled>>
  /\ Return(c)
  /\ UNCHANGED <<row, snapshots, runtime, calls, authored, edited, overlapped>>

\* A statement fails or the process stops; what was committed stays.  Errors of
\* a compilation are ignored by its callers.
Stop(c) ==
  /\ pc[c] # "idle"
  /\ Return(c)
  /\ uncompiled' = uncompiled \union {Target(c)}
  /\ UNCHANGED <<row, snapshots, runtime, compiled, calls, authored, edited, overlapped>>

Next ==
  \E c \in Calls :
    \/ \E o \in Objects :
         \/ \E kind \in {"create", "update"}, config \in Contents :
              Start(c, kind, o, config)
         \/ \E kind \in {"publish", "pause", "resume", "delete", "promote", "compile"} :
              Start(c, kind, o, None)
         \/ \E version \in {s.version : s \in snapshots} : Start(c, "rollback", o, version)
    \/ GetRow(c)
    \/ GetSnapshot(c)
    \/ FindTarget(c)
    \/ Write(c)
    \/ FindAgain(c)
    \/ FlipRuntime(c)
    \/ ListObjects(c)
    \/ NextVersion(c)
    \/ InsertConfig(c)
    \/ Stop(c)

Spec == Init /\ [][Next]_vars
-----------------------------------------------------------------------------
(***************************************************************************)
(* Properties.                                                             *)
(***************************************************************************)
Idle == \A c \in Calls : pc[c] = "idle"

\* In every interleaving, a version of an object names one configuration, which
\* is valid, snapshots hold what their version was, and what takes part in the
\* engine configuration has been published ("immutable snapshot", Publish; "bad
\* objects must never enter the pipeline", Create).
VersionsTruthful ==
  /\ \A a, b \in authored :
       a.object = b.object /\ a.version = b.version => a.config = b.config
  /\ snapshots \subseteq authored
  /\ \A a \in authored : Valid(a.config)
  /\ \A o \in Objects :
       row[o] # None /\ row[o].status \in Participating =>
         \E s \in snapshots : s.object = o /\ s.version = row[o].published

\* "published versions are immutable" (Update): until calls overlap, a published
\* object is the snapshot of its published version, if nobody changed it while
\* it was paused, or paused or resumed it after a rollback.
PublishedIsSnapshot ==
  ~overlapped =>
    \A o \in Objects \ edited :
      row[o] # None /\ row[o].status = "published" =>
        [object |-> o, version |-> row[o].published, config |-> row[o].config]
          \in snapshots

\* Until calls overlap, when none is in progress, an environment's engine
\* configuration has just the entries of its objects, but for those that an
\* update, a rollback or a call that stopped has left uncompiled ("recompiles the
\* engine config atomically", Publish).
EngineConfigFresh ==
  ~overlapped /\ Idle =>
    \A e \in Envs : \A o \in Objects \ uncompiled :
      LET old == compiled[e].entries IN
      /\ o \in DOMAIN old <=> o \in DOMAIN View(e)
      /\ o \in DOMAIN old => old[o] = View(e)[o]

\* In every interleaving, the table that purchases and flags are answered from
\* holds a published object as the snapshot of its published version has it
\* ("Materialize the object into its runtime projection", Publish).
RuntimeIsSnapshot ==
  \A o \in Materialized :
    row[o] # None /\ row[o].published # None =>
      /\ runtime[o] # None
      /\ [object |-> o, version |-> row[o].published, config |-> runtime[o].config]
           \in snapshots
=============================================================================
