---------------------------- MODULE ConfigProofs ----------------------------
(***************************************************************************)
(* Theorems about Config, for any number of calls and objects.             *)
(***************************************************************************)
EXTENDS Config, TLAPS

Args == Contents \union Nat \union {None, "insert", "update"}
Op == [kind : Kinds, object : Objects, arg : Args]
At(o, r) == [object |-> o, version |-> r.version, config |-> r.config]

Types ==
  /\ row \in [Objects -> Row \union {None}]
  /\ pc \in [Calls -> Steps]
  /\ op \in [Calls -> Op \union {None}]
  /\ seen = [c \in Calls |-> seen[c]]
  /\ authored \subseteq Version

\* What a call has read stays true enough for its write, whatever other calls do
\* in between: rows are revised, never forgotten.
CallOK(c) ==
  pc[c] # "idle" =>
    /\ op[c] \in Op
    /\ op[c].kind \in {"create", "update"} => op[c].arg \in Contents
    /\ pc[c] = "write" => op[c].kind # "compile"
    /\ pc[c] = "write" /\ op[c].kind \in {"create", "update"} => Valid(op[c].arg)
    /\ pc[c] = "write" /\ op[c].kind = "publish" => At(Target(c), seen[c]) \in authored
    /\ pc[c] = "write" /\ op[c].kind \in {"pause", "resume"} =>
         row[Target(c)] # None /\ row[Target(c)].published # None
    /\ pc[c] = "write" /\ op[c].kind \in {"rollback", "promote"} =>
         seen[c].config \in Contents /\ Valid(seen[c].config)
    /\ pc[c] = "get" =>
         /\ op[c].kind \in {"update", "publish", "pause", "resume", "rollback", "promote"}
         /\ op[c].kind = "promote" => Target(c) \in DOMAIN PromotedTo
    /\ pc[c] = "find" =>
         /\ op[c].kind = "promote" /\ Target(c) \in DOMAIN PromotedTo
         /\ seen[c].config \in Contents /\ Valid(seen[c].config)

CallsOK == \A c \in Calls : CallOK(c)

\* A row is its newest version.
RowsAuthored == \A o \in Objects : row[o] # None => At(o, row[o]) \in authored
NoNewerVersion ==
  \A a \in authored : row[a.object] # None /\ a.version <= row[a.object].version

OneConfig ==
  \A a, b \in authored :
    a.object = b.object /\ a.version = b.version => a.config = b.config
AllValid == \A a \in authored : Valid(a.config)
SnapshotsAuthored == snapshots \subseteq authored
PublishedHasSnapshot ==
  \A o \in Objects :
    /\ row[o] # None /\ row[o].status \in Participating => row[o].published # None
    /\ row[o] # None /\ row[o].published # None =>
         \E s \in snapshots : s.object = o /\ s.version = row[o].published

Versions == RowsAuthored /\ NoNewerVersion /\ OneConfig /\ AllValid
              /\ SnapshotsAuthored /\ PublishedHasSnapshot
Inv == Types /\ CallsOK /\ Versions

\* A write changes one row, and never its published version to none.
Grows ==
  /\ authored \subseteq authored'
  /\ \A o \in Objects :
       row[o] # None /\ row[o].published # None =>
         row'[o] # None /\ row'[o].published # None

\* A call that does not step stays as it is.
Still(d) == pc'[d] = pc[d] /\ op'[d] = op[d] /\ seen'[d] = seen[d]

LEMMA StillOK ==
  ASSUME NEW d \in Calls, CallOK(d), Still(d), Grows
  PROVE  CallOK(d)'
<1> USE DEF Still
<1> SUFFICES ASSUME pc[d] # "idle"
             PROVE  CallOK(d)'
  BY DEF CallOK
<1>1. op[d] \in Op /\ Target(d) \in Objects /\ Target(d)' = Target(d)
  BY DEF CallOK, Op, Target
<1>2. pc[d] = "write" /\ op[d].kind \in {"pause", "resume"} =>
        row'[Target(d)] # None /\ row'[Target(d)].published # None
  BY <1>1 DEF CallOK, Grows
<1>3. pc[d] = "write" /\ op[d].kind = "publish" => At(Target(d), seen[d]) \in authored'
  BY <1>1 DEF CallOK, Grows
<1> QED
  BY <1>1, <1>2, <1>3 DEF CallOK, At, Valid

\* Steps that write no object: only the call that steps has to be looked at.
Quiet == UNCHANGED <<row, snapshots, authored>>

LEMMA QuietStep ==
  ASSUME Inv, NEW c \in Calls, Quiet,
         pc' \in [Calls -> Steps], op' \in [Calls -> Op \union {None}],
         seen' = [d \in Calls |-> seen'[d]],
         \A d \in Calls \ {c} : Still(d), CallOK(c)'
  PROVE  Inv'
<1>1. Grows
  BY DEF Quiet, Grows
<1>2. CallsOK'
  BY <1>1, StillOK DEF Inv, CallsOK
<1>3. Types' /\ Versions'
  BY DEF Inv, Types, Versions, Quiet, RowsAuthored, NoNewerVersion, OneConfig, AllValid,
         SnapshotsAuthored, PublishedHasSnapshot, At
<1> QED
  BY <1>2, <1>3 DEF Inv

LEMMA ReturnStep ==
  ASSUME Inv, NEW c \in Calls, Quiet, Return(c)
  PROVE  Inv'
<1>1. pc' \in [Calls -> Steps] /\ pc'[c] = "idle"
  BY DEF Inv, Types, Return, Steps
<1>2. op' \in [Calls -> Op \union {None}]
  BY DEF Inv, Types, Return
<1>3. seen' = [d \in Calls |-> seen'[d]]
  BY DEF Inv, Types, Return
<1>4. \A d \in Calls \ {c} : Still(d)
  BY DEF Inv, Types, Return, Still
<1>5. CallOK(c)'
  BY <1>1 DEF CallOK
<1> QED
  BY <1>1, <1>2, <1>3, <1>4, <1>5, QuietStep

\* A call that goes on after a read.
LEMMA MovesOn ==
  ASSUME Inv, NEW c \in Calls, Quiet, NEW step \in Steps, GoTo(c, step),
         op' \in [Calls -> Op \union {None}], seen' = [d \in Calls |-> seen'[d]],
         \A d \in Calls \ {c} : op'[d] = op[d] /\ seen'[d] = seen[d],
         CallOK(c)'
  PROVE  Inv'
<1>1. pc' \in [Calls -> Steps] /\ \A d \in Calls \ {c} : Still(d)
  BY DEF Inv, Types, GoTo, Still
<1> QED
  BY <1>1, QuietStep

LEMMA StartStep ==
  ASSUME Inv, NEW c \in Calls, NEW o \in Objects, NEW kind \in Kinds, NEW arg \in Args,
         kind \in {"create", "update"} => arg \in Contents,
         Start(c, kind, o, arg)
  PROVE  Inv'
<1> DEFINE new == [kind |-> kind, object |-> o, arg |-> arg]
<1>1. /\ Quiet /\ seen' = seen /\ GoTo(c, FirstStep(kind))
      /\ op' = [op EXCEPT ![c] = new]
  BY DEF Start, Quiet, history
<1>2. new \in Op
  BY DEF Op
<1>3. op' \in [Calls -> Op \union {None}] /\ op'[c] = new
  BY <1>1, <1>2 DEF Inv, Types
<1>4. FirstStep(kind) \in Steps /\ pc'[c] = FirstStep(kind)
  BY <1>1 DEF FirstStep, Steps, GoTo, Inv, Types
<1>5. /\ FirstStep(kind) # "find"
      /\ FirstStep(kind) = "write" => (kind = "create" /\ Valid(arg)) \/ kind = "delete"
  BY DEF FirstStep, Start, Kinds
<1>9. FirstStep(kind) = "get" =>
        /\ kind \in {"update", "publish", "pause", "resume", "rollback", "promote"}
        /\ kind = "promote" => o \in DOMAIN PromotedTo
  BY DEF FirstStep, Start, Kinds
<1>6. CallOK(c)'
  BY <1>2, <1>3, <1>4, <1>5, <1>9 DEF CallOK, Valid, Target
<1>7. \A d \in Calls \ {c} : op'[d] = op[d] /\ seen'[d] = seen[d]
  BY <1>1 DEF Inv, Types
<1>8. seen' = [d \in Calls |-> seen'[d]]
  BY <1>1 DEF Inv, Types
<1> QED
  BY <1>1, <1>3, <1>4, <1>6, <1>7, <1>8, MovesOn

LEMMA GetRowStep ==
  ASSUME Inv, NEW c \in Calls, GetRow(c)
  PROVE  Inv'
<1> DEFINE r == row[Target(c)]
           next == IF op[c].kind = "promote" THEN "find" ELSE "write"
           found == r # None /\ r.status # "archived" /\ Allows(c, r)
<1>1. Quiet /\ CallOK(c) /\ pc[c] = "get" /\ op[c].kind # "rollback"
  BY DEF GetRow, Quiet, history, Inv, CallsOK
<1>2. op[c] \in Op /\ Target(c) \in Objects
  BY <1>1 DEF CallOK, Op, Target
<1>3. CASE ~found
  BY <1>1, <1>3, ReturnStep DEF GetRow
<1>4. CASE found
  <2>1. seen' = [seen EXCEPT ![c] = r] /\ GoTo(c, next) /\ op' = op
    BY <1>4 DEF GetRow
  <2>2. /\ pc'[c] = next /\ seen'[c] = r /\ next \in Steps
        /\ seen' = [d \in Calls |-> seen'[d]]
        /\ \A d \in Calls \ {c} : op'[d] = op[d] /\ seen'[d] = seen[d]
    BY <2>1 DEF Inv, Types, GoTo, Steps
  <2>3. At(Target(c), r) \in authored /\ r \in Row
    BY <1>2, <1>4 DEF Inv, Types, Versions, RowsAuthored
  <2>4. op[c].kind \in {"publish", "pause", "resume", "promote", "update"} => Allows(c, r)
    BY <1>4
  <2>5. op[c].kind = "promote" => r.config \in Contents /\ Valid(r.config)
    BY <2>3, <2>4 DEF Allows, Row
  <2>6. op[c].kind = "update" => Valid(op[c].arg)
    BY <2>4 DEF Allows
  <2>7. op[c].kind \in {"pause", "resume"} => r.published # None
    BY <2>4 DEF Allows
  <2>8. op[c].kind # "create" /\ (op[c].kind = "promote" => Target(c) \in DOMAIN PromotedTo)
    BY <1>1, <1>2 DEF CallOK
  <2>9. CallOK(c)'
    BY <1>1, <1>2, <1>4, <2>1, <2>2, <2>3, <2>5, <2>6, <2>7, <2>8
       DEF CallOK, Target, Quiet, At, Valid
  <2>10. op' \in [Calls -> Op \union {None}]
    BY <2>1 DEF Inv, Types
  <2> QED
    BY <1>1, <2>1, <2>2, <2>9, <2>10, MovesOn
<1> QED
  BY <1>3, <1>4

LEMMA GetSnapshotStep ==
  ASSUME Inv, NEW c \in Calls, GetSnapshot(c)
  PROVE  Inv'
<1>1. Quiet /\ CallOK(c) /\ pc[c] = "get" /\ op[c].kind = "rollback"
  BY DEF GetSnapshot, Quiet, history, Inv, CallsOK
<1>2. op[c] \in Op /\ Target(c) \in Objects
  BY <1>1 DEF CallOK, Op, Target
<1>3. CASE Return(c)
  BY <1>1, <1>3, ReturnStep
<1>4. ASSUME NEW s \in snapshots, seen' = [seen EXCEPT ![c] = s], GoTo(c, "write"),
             op' = op
      PROVE  Inv'
  <2>1. s \in Version /\ s.config \in Contents /\ Valid(s.config)
    BY DEF Inv, Types, Versions, SnapshotsAuthored, AllValid, Version
  <2>2. /\ pc'[c] = "write" /\ seen'[c] = s /\ "write" \in Steps
        /\ seen' = [d \in Calls |-> seen'[d]]
        /\ \A d \in Calls \ {c} : op'[d] = op[d] /\ seen'[d] = seen[d]
        /\ op' \in [Calls -> Op \union {None}]
    BY <1>4 DEF Inv, Types, GoTo, Steps
  <2>3. CallOK(c)'
    BY <1>1, <1>2, <1>4, <2>1, <2>2 DEF CallOK, Valid
  <2> QED
    BY <1>1, <1>4, <2>2, <2>3, MovesOn
<1> QED
  BY <1>3, <1>4 DEF GetSnapshot

LEMMA FindTargetStep ==
  ASSUME Inv, NEW c \in Calls, FindTarget(c)
  PROVE  Inv'
<1> DEFINE target == PromotedTo[Target(c)]
           arg == IF row[target] = None THEN "insert" ELSE "update"
<1>1. Quiet /\ CallOK(c) /\ pc[c] = "find" /\ GoTo(c, "write") /\ seen' = seen
  BY DEF FindTarget, Quiet, history, Inv, CallsOK
<1>2. op[c] \in Op /\ op[c].kind = "promote" /\ target \in Objects /\ arg \in Args
  BY <1>1, ConfigAssumption DEF CallOK, Args
<1> DEFINE new == [kind |-> "promote", object |-> target, arg |-> arg]
<1>3. op' = [op EXCEPT ![c] = new]
  BY DEF FindTarget
<1>4. new \in Op
  BY <1>2 DEF Op, Kinds
<1>5. op'[c] \in Op /\ op'[c].kind = "promote"
  BY <1>3, <1>4 DEF Inv, Types
<1>6. /\ op' \in [Calls -> Op \union {None}]
      /\ \A d \in Calls \ {c} : op'[d] = op[d] /\ seen'[d] = seen[d]
      /\ seen' = [d \in Calls |-> seen'[d]]
  BY <1>1, <1>3, <1>5 DEF Inv, Types
<1>7. pc'[c] = "write" /\ "write" \in Steps
  BY <1>1 DEF Inv, Types, GoTo, Steps
<1>8. CallOK(c)'
  BY <1>1, <1>5, <1>7 DEF CallOK, Valid
<1> QED
  BY <1>1, <1>6, <1>7, <1>8, MovesOn

LEMMA CompileStep ==
  ASSUME Inv, NEW c \in Calls,
         \/ FindAgain(c) \/ FlipRuntime(c)
         \/ ListObjects(c) \/ NextVersion(c) \/ InsertConfig(c) \/ Stop(c)
  PROVE  Inv'
<1>1. Quiet /\ CallOK(c) /\ pc[c] # "idle"
  BY DEF FindAgain, FlipRuntime, ListObjects, NextVersion, InsertConfig, Stop, Quiet,
         history, Inv, CallsOK
<1>2. CASE InsertConfig(c) \/ Stop(c)
  BY <1>1, <1>2, ReturnStep DEF InsertConfig, Stop
<1>3. CASE FindAgain(c) \/ FlipRuntime(c) \/ ListObjects(c) \/ NextVersion(c)
  <2>1. PICK step \in {"flip", "list", "number", "insert"} : GoTo(c, step)
    BY <1>3 DEF FindAgain, FlipRuntime, ListObjects, NextVersion
  <2>2. /\ op' = op /\ step \in Steps /\ pc'[c] = step
        /\ \A d \in Calls \ {c} : op'[d] = op[d] /\ seen'[d] = seen[d]
        /\ seen' = [d \in Calls |-> seen'[d]]
        /\ op' \in [Calls -> Op \union {None}]
    BY <1>3, <2>1 DEF FindAgain, FlipRuntime, ListObjects, NextVersion, Inv, Types, GoTo, Steps
  <2>3. CallOK(c)'
    BY <1>1, <2>1, <2>2 DEF CallOK
  <2> QED
    BY <1>1, <2>1, <2>2, <2>3, MovesOn
<1> QED
  BY <1>2, <1>3

\* What a write makes of a row: it keeps version and configuration, or takes the
\* next version with a valid configuration.
LEMMA Revision ==
  ASSUME Inv, NEW c \in Calls, pc[c] = "write", ~Fails(c)
  PROVE  LET o == Target(c)
             old == row[o]
             new == NewOf(c)
         IN /\ o \in Objects /\ new \in Row /\ new # None
            /\ old = None =>
                 /\ new.version = 1 /\ Valid(new.config)
                 /\ new.published = None /\ new.status = "draft"
                 /\ op[c].kind # "publish"
            /\ old # None =>
                 /\ old \in Row
                 /\ \/ new.version = old.version /\ new.config = old.config
                    \/ new.version = old.version + 1 /\ Valid(new.config)
                 /\ \/ op[c].kind = "publish" /\ new.published = seen[c].version
                    \/ op[c].kind # "publish" /\ new.published = old.published
                 /\ new.status \in Participating =>
                      \/ op[c].kind = "publish"
                      \/ old.status = new.status
                      \/ old.published # None
<1> DEFINE o == Target(c)
           old == row[o]
           new == NewOf(c)
<1>1. CallOK(c) /\ op[c] \in Op /\ o \in Objects /\ (old = None \/ old \in Row)
  BY DEF Inv, Types, CallsOK, CallOK, Op, Target
<1>2. old # None => old \in Row
  BY <1>1
<1>3. CASE IsInsert(c)
  <2>1. old = None
    BY <1>3 DEF Fails
  <2>2. PICK config \in Contents : new = NewRow(config) /\ Valid(config)
    BY <1>1, <1>3 DEF CallOK, IsInsert, NewOf
  <2>3. new \in Row
    BY <2>2 DEF NewRow, RowOf, Row
  <2> QED
    BY <1>1, <1>3, <2>1, <2>2, <2>3, ConfigAssumption DEF NewRow, RowOf, IsInsert
<1>4. CASE ~IsInsert(c)
  <2>1. old # None /\ old \in Row /\ new = Written(c, old) /\ op[c].kind # "create"
    BY <1>1, <1>4 DEF Fails, NewOf, IsInsert
  <2>2. CASE op[c].kind = "update"
    <3>1. new = Revised(old, op[c].arg) /\ op[c].arg \in Contents /\ Valid(op[c].arg)
      BY <1>1, <2>1, <2>2 DEF Written, CallOK
    <3>2. new \in Row
      BY <2>1, <3>1 DEF Revised, RowOf, Row
    <3> QED
      BY <1>1, <2>1, <2>2, <3>1, <3>2, ConfigAssumption DEF Revised, RowOf, Row
  <2>3. CASE op[c].kind \in {"rollback", "promote"}
    <3>1. /\ new = Restored(old, seen[c].config)
          /\ seen[c].config \in Contents /\ Valid(seen[c].config)
      BY <1>1, <2>1, <2>3 DEF Written, CallOK
    <3>2. new \in Row /\ new.status = "draft"
      BY <2>1, <3>1 DEF Restored, RowOf, Row
    <3> QED
      BY <1>1, <2>1, <2>3, <3>1, <3>2, ConfigAssumption
         DEF Restored, RowOf, Row, Participating
  <2>4. CASE op[c].kind = "publish"
    <3>1. new = RowOf("published", old.config, old.version, seen[c].version)
      BY <2>1, <2>4 DEF Written
    <3>2. seen[c].version \in Nat
      BY <1>1, <2>4 DEF CallOK, Inv, Types, At, Version
    <3>3. new \in Row
      BY <2>1, <3>1, <3>2 DEF RowOf, Row
    <3> QED
      BY <1>1, <2>1, <2>4, <3>1, <3>3, ConfigAssumption DEF RowOf, Row
  <2>5. CASE op[c].kind \in {"pause", "resume", "delete"}
    <3>1. PICK status \in {"paused", "published", "archived"} :
            new = WithStatus(old, status) /\ (status = "archived" <=> op[c].kind = "delete")
      BY <2>1, <2>5 DEF Written
    <3>2. new \in Row
      BY <2>1, <3>1 DEF WithStatus, RowOf, Row
    <3>3. op[c].kind # "delete" => old.published # None
      BY <1>1, <2>5 DEF CallOK
    <3> QED
      BY <1>1, <2>1, <2>5, <3>1, <3>2, <3>3, ConfigAssumption DEF WithStatus, RowOf, Row, Participating
  <2> QED
    BY <1>1, <2>1, <2>2, <2>3, <2>4, <2>5 DEF CallOK, Op, Kinds
<1> QED
  BY <1>3, <1>4

LEMMA WriteStep ==
  ASSUME Inv, NEW c \in Calls, Write(c)
  PROVE  Inv'
<1> DEFINE o == Target(c)
           old == row[o]
           new == NewOf(c)
<1>1. pc[c] = "write" /\ CallOK(c) /\ op[c] \in Op
  BY DEF Write, Inv, CallsOK, CallOK
<1>2. CASE Fails(c)
  <2>1. Quiet /\ Return(c)
    BY <1>2 DEF Write, Quiet, history
  <2> QED
    BY <2>1, ReturnStep
<1>3. CASE ~Fails(c)
  <2>1. /\ row' = [row EXCEPT ![o] = new]
        /\ authored' = authored \union {At(o, new)}
        /\ Snapshot(c) /\ GoOn(c)
    BY <1>3 DEF Write, Note, At
  <2>2. /\ o \in Objects /\ new \in Row /\ new # None
        /\ old = None =>
             /\ new.version = 1 /\ Valid(new.config)
             /\ new.published = None /\ new.status = "draft"
             /\ op[c].kind # "publish"
        /\ old # None =>
             /\ old \in Row
             /\ \/ new.version = old.version /\ new.config = old.config
                \/ new.version = old.version + 1 /\ Valid(new.config)
             /\ \/ op[c].kind = "publish" /\ new.published = seen[c].version
                \/ op[c].kind # "publish" /\ new.published = old.published
             /\ new.status \in Participating =>
                  \/ op[c].kind = "publish"
                  \/ old.status = new.status
                  \/ old.published # None
    BY <1>1, <1>3, Revision
  <2>3. /\ row'[o] = new
        /\ \A p \in Objects \ {o} : row'[p] = row[p]
        /\ row' \in [Objects -> Row \union {None}]
    BY <2>1, <2>2 DEF Inv, Types
  <2>4. At(o, new) \in Version
    BY <2>2 DEF At, Row, Version
  <2>5. old # None => At(o, old) \in authored
    BY <2>2 DEF Inv, Versions, RowsAuthored
  <2>6. op[c].kind = "publish" =>
          /\ snapshots' = snapshots \union {At(o, seen[c])}
          /\ At(o, seen[c]) \in authored
          /\ seen[c].version \in Nat
    BY <1>1, <2>1 DEF Snapshot, At, CallOK, Inv, Types, Version
  <2>7. op[c].kind # "publish" => snapshots' = snapshots
    BY <2>1 DEF Snapshot
  <2>8. \A a \in authored : a.object = o => old # None /\ a.version <= old.version
    BY DEF Inv, Versions, NoNewerVersion
  <2>9. authored \subseteq Version
    BY DEF Inv, Types
  <2>10. Grows
    <3>1. old # None /\ old.published # None => new.published # None
      BY <2>2, <2>6, ConfigAssumption
    <3> QED
      BY <2>1, <2>2, <2>3, <3>1 DEF Grows
  <2>11. /\ \A d \in Calls \ {c} : Still(d)
         /\ pc' \in [Calls -> Steps] /\ op' \in [Calls -> Op \union {None}]
         /\ seen' = [d \in Calls |-> seen'[d]]
         /\ CallOK(c)'
    <3>1. CASE Return(c)
      BY <3>1 DEF Inv, Types, Return, Steps, Still, CallOK
    <3>2. ASSUME NEW step \in {"find again", "flip", "list"}, GoTo(c, step),
                 op' = op, seen' = seen
          PROVE  /\ \A d \in Calls \ {c} : Still(d)
                 /\ pc' \in [Calls -> Steps] /\ op' \in [Calls -> Op \union {None}]
                 /\ seen' = [d \in Calls |-> seen'[d]]
                 /\ CallOK(c)'
      <4>1. pc'[c] = step
        BY <3>2 DEF Inv, Types, GoTo
      <4>2. CallOK(c)'
        BY <1>1, <3>2, <4>1 DEF CallOK
      <4> QED
        BY <3>2, <4>2 DEF Inv, Types, GoTo, Steps, Still
    <3>3. CASE /\ op' = [op EXCEPT ![c] = [kind |-> "publish", object |-> o, arg |-> None]]
               /\ GoTo(c, "get") /\ seen' = seen
      <4>1. [kind |-> "publish", object |-> o, arg |-> None] \in Op
        BY <2>2 DEF Op, Kinds, Args
      <4>2. /\ pc'[c] = "get" /\ op'[c] \in Op /\ op'[c].kind = "publish"
            /\ op' \in [Calls -> Op \union {None}]
        BY <3>3, <4>1 DEF Inv, Types, GoTo
      <4>3. CallOK(c)'
        BY <4>2 DEF CallOK
      <4> QED
        BY <3>3, <4>2, <4>3 DEF Inv, Types, GoTo, Steps, Still
    <3> QED
      BY <2>1, <3>1, <3>2, <3>3 DEF GoOn, AfterWrite
  <2>12. CallsOK'
    BY <2>10, <2>11, StillOK DEF Inv, CallsOK
  <2>13. Types'
    BY <2>1, <2>3, <2>4, <2>9, <2>11 DEF Types
  <2>14. Versions'
    <3>1. RowsAuthored'
      BY <2>1, <2>3 DEF Inv, Versions, RowsAuthored, At
    <3>2. NoNewerVersion'
      <4>1. \A a \in authored : a.object = o => new # None /\ a.version <= new.version
        BY <2>2, <2>8, <2>9 DEF Row, Version
      <4>2. At(o, new).object = o /\ At(o, new).version <= new.version
        BY <2>2 DEF At, Row
      <4> QED
        BY <2>1, <2>2, <2>3, <2>9, <4>1, <4>2 DEF Inv, Versions, NoNewerVersion, Version
    <3>3. OneConfig'
      <4>1. \A a \in authored :
              a.object = o /\ a.version = new.version => a.config = new.config
        BY <2>2, <2>5, <2>8, <2>9 DEF Inv, Versions, OneConfig, At, Row, Version
      <4>2. /\ At(o, new).object = o /\ At(o, new).version = new.version
            /\ At(o, new).config = new.config
        BY DEF At
      <4> QED
        BY <2>1, <4>1, <4>2 DEF Inv, Versions, OneConfig
    <3>4. AllValid'
      <4>1. Valid(new.config)
        BY <2>2, <2>5 DEF Inv, Versions, AllValid, At
      <4> QED
        BY <2>1, <4>1 DEF Inv, Versions, AllValid, At, Valid
    <3>5. SnapshotsAuthored'
      BY <2>1, <2>6, <2>7 DEF Inv, Versions, SnapshotsAuthored
    <3>6. PublishedHasSnapshot'
      <4>1. new.status \in Participating => new.published # None
        BY <2>2, <2>6, ConfigAssumption
           DEF Inv, Versions, PublishedHasSnapshot, Participating
      <4>2. new.published # None =>
              \E s \in snapshots' : s.object = o /\ s.version = new.published
        BY <2>2, <2>6, <2>7 DEF Inv, Versions, PublishedHasSnapshot, At
      <4>3. snapshots \subseteq snapshots'
        BY <2>6, <2>7
      <4> QED
        BY <2>3, <4>1, <4>2, <4>3 DEF Inv, Versions, PublishedHasSnapshot
    <3> QED
      BY <3>1, <3>2, <3>3, <3>4, <3>5, <3>6 DEF Versions
  <2> QED
    BY <2>12, <2>13, <2>14 DEF Inv
<1> QED
  BY <1>2, <1>3

LEMMA Initially == Init => Inv
<1> SUFFICES ASSUME Init
             PROVE  Inv
  OBVIOUS
<1>1. Types
  BY DEF Init, Types, Steps
<1>2. CallsOK
  BY DEF Init, CallsOK, CallOK
<1>3. Versions
  BY DEF Init, Versions, RowsAuthored, NoNewerVersion, OneConfig, AllValid,
         SnapshotsAuthored, PublishedHasSnapshot
<1> QED
  BY <1>1, <1>2, <1>3 DEF Inv

LEMMA Inductive == Inv /\ [Next]_vars => Inv'
<1> SUFFICES ASSUME Inv, [Next]_vars
             PROVE  Inv'
  OBVIOUS
<1>1. CASE UNCHANGED vars
  BY <1>1 DEF vars, Inv, Types, CallsOK, CallOK, Versions, RowsAuthored, NoNewerVersion,
              OneConfig, AllValid, SnapshotsAuthored, PublishedHasSnapshot, At, Target,
              Valid
<1>2. ASSUME NEW c \in Calls, NEW o \in Objects,
             NEW kind \in {"create", "update"}, NEW config \in Contents,
             Start(c, kind, o, config)
      PROVE  Inv'
  BY <1>2, StartStep DEF Kinds, Args
<1>3. ASSUME NEW c \in Calls, NEW o \in Objects,
             NEW kind \in {"publish", "pause", "resume", "delete", "promote", "compile"},
             Start(c, kind, o, None)
      PROVE  Inv'
  BY <1>3, StartStep DEF Kinds, Args
<1>4. ASSUME NEW c \in Calls, NEW o \in Objects, NEW s \in snapshots,
             Start(c, "rollback", o, s.version)
      PROVE  Inv'
  <2>1. s.version \in Args
    BY DEF Inv, Types, Versions, SnapshotsAuthored, Version, Args
  <2> QED
    BY <1>4, <2>1, StartStep DEF Kinds
<1>5. ASSUME NEW c \in Calls,
             \/ GetRow(c) \/ GetSnapshot(c) \/ FindTarget(c) \/ Write(c)
             \/ FindAgain(c) \/ FlipRuntime(c)
             \/ ListObjects(c) \/ NextVersion(c) \/ InsertConfig(c) \/ Stop(c)
      PROVE  Inv'
  BY <1>5, GetRowStep, GetSnapshotStep, FindTargetStep, WriteStep, CompileStep
<1> QED
  BY <1>1, <1>2, <1>3, <1>4, <1>5 DEF Next

LEMMA Suffices == Inv => VersionsTruthful
BY DEF Inv, Versions, OneConfig, AllValid, SnapshotsAuthored, PublishedHasSnapshot,
       VersionsTruthful

\* Whatever the interleaving of the calls on the configuration objects, a version
\* of an object names one configuration, which validation has accepted; snapshots
\* hold what their version was, and what takes part in the engine configuration
\* has been published.
THEOREM VersionsHold == Spec => []VersionsTruthful
BY Initially, Inductive, Suffices, PTL DEF Spec

-----------------------------------------------------------------------------
(* The runtime rows.                                                       *)

RuntimeTypes == runtime \in [Materialized -> RuntimeRow \union {None}]
RuntimeInv == RuntimeTypes /\ RuntimeIsSnapshot

\* Flipping the status of a runtime row leaves its configuration.
LEMMA FlipKeepsRuntime ==
  ASSUME Inv, RuntimeInv, NEW c \in Calls, FlipRuntime(c)
  PROVE  RuntimeInv'
<1> DEFINE o == Target(c)
           status == Flipped(op[c].kind)
<1>1. UNCHANGED <<row, snapshots>>
  BY DEF FlipRuntime
<1>2. CASE runtime' = runtime
  BY <1>1, <1>2 DEF RuntimeInv, RuntimeTypes, RuntimeIsSnapshot
<1>3. CASE runtime' # runtime
  <2>1. runtime[o] # None /\ runtime' = [runtime EXCEPT ![o].status = status]
    BY <1>3 DEF FlipRuntime
  <2>2. o \in Materialized
    BY <1>3, <2>1 DEF RuntimeInv, RuntimeTypes
  <2>3. runtime[o] \in RuntimeRow /\ runtime'[o] = [runtime[o] EXCEPT !.status = status]
    BY <2>1, <2>2 DEF RuntimeInv, RuntimeTypes
  <2>4. runtime'[o] \in RuntimeRow /\ runtime'[o].config = runtime[o].config
    BY <2>3 DEF RuntimeRow, Flipped
  <2>5. \A p \in Materialized \ {o} : runtime'[p] = runtime[p]
    BY <2>1
  <2>6. RuntimeTypes'
    BY <2>1, <2>2, <2>4 DEF RuntimeInv, RuntimeTypes
  <2>7. RuntimeIsSnapshot'
    BY <1>1, <2>1, <2>2, <2>4, <2>5, ConfigAssumption DEF RuntimeInv, RuntimeIsSnapshot
  <2> QED
    BY <2>6, <2>7 DEF RuntimeInv
<1> QED
  BY <1>2, <1>3

\* A publication writes snapshot, row and runtime row from what it has read; other
\* writes leave the published version of a row.
LEMMA WriteKeepsRuntime ==
  ASSUME Inv, RuntimeInv, NEW c \in Calls, Write(c)
  PROVE  RuntimeInv'
<1> DEFINE o == Target(c)
           new == NewOf(c)
<1>1. CASE Fails(c)
  <2>1. UNCHANGED <<row, snapshots, runtime>>
    BY <1>1 DEF Write
  <2> QED
    BY <2>1 DEF RuntimeInv, RuntimeTypes, RuntimeIsSnapshot
<1>2. CASE ~Fails(c)
  <2>1. /\ pc[c] = "write" /\ CallOK(c)
        /\ row' = [row EXCEPT ![o] = new]
        /\ Snapshot(c) /\ Materialize(c)
    BY <1>2 DEF Write, Inv, CallsOK
  <2>2. /\ o \in Objects /\ new \in Row /\ new # None
        /\ row[o] = None => new.published = None /\ op[c].kind # "publish"
        /\ row[o] # None =>
             \/ op[c].kind = "publish" /\ new.published = seen[c].version
             \/ op[c].kind # "publish" /\ new.published = row[o].published
    BY <1>2, <2>1, Revision
  <2>3. row'[o] = new /\ \A p \in Objects \ {o} : row'[p] = row[p]
    BY <2>1, <2>2 DEF Inv, Types
  <2>4. snapshots \subseteq snapshots'
    BY <2>1 DEF Snapshot
  <2>5. CASE op[c].kind = "publish" /\ o \in Materialized
    <3> DEFINE status == IF runtime[o] = None THEN "active" ELSE runtime[o].status
               made == [config |-> seen[c].config, status |-> status]
    <3>1. /\ At(o, seen[c]) \in snapshots'
          /\ At(o, seen[c]) = [object |-> o, version |-> seen[c].version,
                                config |-> seen[c].config]
          /\ seen[c].config \in Contents
      BY <2>1, <2>5 DEF Snapshot, At, CallOK, Inv, Types, Version
    <3>2. runtime' = [runtime EXCEPT ![o] = made]
      BY <2>1, <2>5 DEF Materialize
    <3>3. made \in RuntimeRow /\ made.config = seen[c].config
      BY <2>5, <3>1 DEF RuntimeInv, RuntimeTypes, RuntimeRow
    <3>4. RuntimeTypes' /\ runtime'[o] = made
      BY <2>5, <3>2, <3>3 DEF RuntimeInv, RuntimeTypes
    <3>5. \A p \in Materialized \ {o} : runtime'[p] = runtime[p]
      BY <3>2
    <3>6. new.published = seen[c].version
      BY <2>2, <2>5
    <3>7. RuntimeIsSnapshot'
      BY <2>3, <2>4, <3>1, <3>3, <3>4, <3>5, <3>6, ConfigAssumption
         DEF RuntimeInv, RuntimeIsSnapshot
    <3> QED
      BY <3>4, <3>7 DEF RuntimeInv
  <2>6. CASE op[c].kind # "publish" \/ o \notin Materialized
    <3>1. runtime' = runtime
      BY <2>1, <2>6 DEF Materialize
    <3>2. \A p \in Materialized :
            row'[p] # None /\ row'[p].published # None =>
              row[p] # None /\ row[p].published = row'[p].published
      BY <2>2, <2>3, <2>6, ConfigAssumption
    <3>3. RuntimeIsSnapshot'
      BY <2>4, <3>1, <3>2 DEF RuntimeInv, RuntimeIsSnapshot
    <3> QED
      BY <3>1, <3>3 DEF RuntimeInv, RuntimeTypes
  <2> QED
    BY <2>5, <2>6
<1> QED
  BY <1>1, <1>2

LEMMA RuntimeInductive == Inv /\ RuntimeInv /\ [Next]_vars => RuntimeInv'
<1> SUFFICES ASSUME Inv, RuntimeInv, [Next]_vars
             PROVE  RuntimeInv'
  OBVIOUS
<1>1. CASE UNCHANGED <<row, snapshots, runtime>>
  BY <1>1 DEF RuntimeInv, RuntimeTypes, RuntimeIsSnapshot
<1>2. ASSUME NEW c \in Calls, Write(c) \/ FlipRuntime(c)
      PROVE  RuntimeInv'
  BY <1>2, WriteKeepsRuntime, FlipKeepsRuntime
<1>3. \/ UNCHANGED <<row, snapshots, runtime>>
      \/ \E c \in Calls : Write(c) \/ FlipRuntime(c)
  <2>1. CASE UNCHANGED vars
    BY <2>1 DEF vars
  <2>2. ASSUME NEW c \in Calls, NEW o, NEW kind, NEW arg, Start(c, kind, o, arg)
        PROVE  UNCHANGED <<row, snapshots, runtime>>
    BY <2>2 DEF Start
  <2>3. ASSUME NEW c \in Calls,
               \/ GetRow(c) \/ GetSnapshot(c) \/ FindTarget(c) \/ FindAgain(c)
               \/ ListObjects(c) \/ NextVersion(c) \/ InsertConfig(c) \/ Stop(c)
        PROVE  UNCHANGED <<row, snapshots, runtime>>
    BY <2>3 DEF GetRow, GetSnapshot, FindTarget, FindAgain, ListObjects, NextVersion,
                InsertConfig, Stop
  <2> QED
    BY <2>1, <2>2, <2>3 DEF Next
<1> QED
  BY <1>1, <1>2, <1>3

\* In every interleaving, the runtime row of a published product, segment or flag
\* has the configuration of the snapshot of its published version.
THEOREM RuntimeHolds == Spec => []RuntimeIsSnapshot
<1>1. Init => RuntimeInv
  BY ConfigAssumption DEF Init, RuntimeInv, RuntimeTypes, RuntimeIsSnapshot
<1>2. RuntimeInv => RuntimeIsSnapshot
  BY DEF RuntimeInv
<1> QED
  BY <1>1, <1>2, Initially, Inductive, RuntimeInductive, PTL DEF Spec
-----------------------------------------------------------------------------
(* Calls that do not overlap.                                              *)

\* At most one call is in progress, so that what it has read is still so.
Alone == \A c, d \in Calls : pc[c] # "idle" /\ pc[d] # "idle" => c = d

ReadIsCurrent ==
  \A c \in Calls :
    pc[c] = "write" /\ op[c].kind \in {"update", "publish", "pause", "resume"} =>
      /\ seen[c] = row[Target(c)]
      /\ row[Target(c)] # None
      /\ row[Target(c)].status # "archived"
      /\ op[c].kind = "update" => row[Target(c)].status # "published"

\* A paused object is a snapshot too: it may be resumed.
InForce(o) == row[o] # None /\ row[o].status \in Participating
IsSnapshot(o) ==
  [object |-> o, version |-> row[o].published, config |-> row[o].config] \in snapshots

SnapshotInv ==
  ~overlapped =>
    /\ Alone
    /\ ReadIsCurrent
    /\ \A o \in Objects \ edited : InForce(o) => IsSnapshot(o)

\* The entries of an object, compiled and current, agree.
Fresh(e, o) ==
  /\ o \in DOMAIN compiled[e].entries <=> o \in DOMAIN View(e)
  /\ o \in DOMAIN compiled[e].entries => compiled[e].entries[o] = View(e)[o]

\* A call has changed the object and compiles its environment next.
Compiling(o) ==
  \E c \in Calls : /\ pc[c] \in {"find again", "flip", "list", "number", "insert"}
                   /\ Target(c) = o

\* What a compilation has read and numbered is what it inserts.
ListedIsCurrent ==
  \A c \in Calls :
    /\ pc[c] \in {"number", "insert"} => seen[c].entries = View(Env(c))
    /\ pc[c] = "insert" => seen[c].version = compiled[Env(c)].version + 1

FreshInv ==
  ~overlapped =>
    /\ compiled = [e \in Envs |-> compiled[e]]
    /\ \A e \in Envs : /\ compiled[e].version \in Nat
                       /\ \A o \in DOMAIN compiled[e].entries : EnvOf[o] = e
    /\ ListedIsCurrent
    /\ \A e \in Envs : \A o \in Objects \ uncompiled :
         Fresh(e, o) \/ (e = EnvOf[o] /\ Compiling(o))

StartOf(c) ==
  \E kind \in Kinds, o \in Objects, arg \in Args : Start(c, kind, o, arg)
CallStep(c) ==
  \/ StartOf(c)
  \/ GetRow(c) \/ GetSnapshot(c) \/ FindTarget(c) \/ Write(c) \/ FindAgain(c)
  \/ FlipRuntime(c) \/ ListObjects(c) \/ NextVersion(c) \/ InsertConfig(c) \/ Stop(c)

LEMMA StepIsOfCall ==
  ASSUME Inv, Next
  PROVE  \E c \in Calls : CallStep(c)
<1>1. PICK c \in Calls :
        \/ \E o \in Objects :
             \/ \E kind \in {"create", "update"}, config \in Contents :
                  Start(c, kind, o, config)
             \/ \E kind \in {"publish", "pause", "resume", "delete", "promote", "compile"} :
                  Start(c, kind, o, None)
             \/ \E version \in {a.version : a \in snapshots} :
                  Start(c, "rollback", o, version)
        \/ GetRow(c) \/ GetSnapshot(c) \/ FindTarget(c) \/ Write(c) \/ FindAgain(c)
        \/ FlipRuntime(c) \/ ListObjects(c) \/ NextVersion(c) \/ InsertConfig(c) \/ Stop(c)
  BY DEF Next
<1>2. \A version \in {a.version : a \in snapshots} : version \in Args
  BY DEF Inv, Types, Versions, SnapshotsAuthored, Version, Args
<1>3. QED
  BY <1>1, <1>2 DEF CallStep, StartOf, Kinds, Args

\* The call that steps is the only one in progress, before and after.
LEMMA StaysAlone ==
  ASSUME Inv, SnapshotInv, NEW c \in Calls, CallStep(c), ~overlapped'
  PROVE  /\ ~overlapped
         /\ \A d \in Calls \ {c} : pc[d] = "idle" /\ pc'[d] = "idle"
         /\ Alone'
<1>1. CASE StartOf(c)
  <2>1. /\ \A d \in Calls : pc[d] = "idle"
        /\ ~overlapped
    BY <1>1 DEF StartOf, Start
  <2>2. \A d \in Calls \ {c} : pc'[d] = "idle"
    BY <1>1, <2>1 DEF StartOf, Start, GoTo, Inv, Types
  <2>3. QED
    BY <2>1, <2>2 DEF Alone
<1>2. CASE ~StartOf(c)
  <2>1. pc[c] # "idle" /\ ~overlapped
    <3>1. CASE GetRow(c) \/ GetSnapshot(c) \/ FindTarget(c) \/ Write(c)
      BY <3>1 DEF GetRow, GetSnapshot, FindTarget, Write
    <3>2. CASE \/ FindAgain(c) \/ FlipRuntime(c) \/ ListObjects(c)
               \/ NextVersion(c) \/ InsertConfig(c) \/ Stop(c)
      <4>1. pc[c] # "idle"
        BY <3>2 DEF FindAgain, FlipRuntime, ListObjects, NextVersion, InsertConfig, Stop
      <4>2. overlapped' = overlapped
        BY <3>2 DEF FindAgain, FlipRuntime, ListObjects, NextVersion, InsertConfig, Stop
      <4>3. QED
        BY <4>1, <4>2
    <3>3. QED
      BY <1>2, <3>1, <3>2 DEF CallStep
  <2>2. \A d \in Calls \ {c} : pc[d] = "idle"
    BY <2>1 DEF SnapshotInv, Alone
  <2>3. \A d \in Calls \ {c} : pc'[d] = pc[d]
    <3>1. Return(c) \/ \E step \in Steps : GoTo(c, step)
      BY <1>2 DEF CallStep, GetRow, GetSnapshot, FindTarget, Write, GoOn, AfterWrite,
                  FindAgain, FlipRuntime, ListObjects, NextVersion, InsertConfig, Stop, Steps
    <3>2. QED
      BY <3>1 DEF Return, GoTo, Inv, Types
  <2>4. QED
    BY <2>1, <2>2, <2>3 DEF Alone
<1>3. QED
  BY <1>1, <1>2

\* Reads leave the objects; a call about to write has just read what is there.
LEMMA ReadKeepsSnapshots ==
  ASSUME Inv, SnapshotInv, NEW c \in Calls, CallStep(c), ~Write(c)
  PROVE  SnapshotInv'
<1>1. SUFFICES ASSUME ~overlapped' PROVE SnapshotInv'
  BY DEF SnapshotInv
<1>2. ~overlapped /\ Alone' /\ \A d \in Calls \ {c} : pc'[d] = "idle"
  BY <1>1, StaysAlone
<1>3. UNCHANGED <<row, snapshots, edited>>
  BY DEF CallStep, StartOf, Start, GetRow, GetSnapshot, FindTarget, FindAgain, FlipRuntime,
         ListObjects, NextVersion, InsertConfig, Stop, history
<1>4. ReadIsCurrent'
  <2>1. SUFFICES ASSUME pc'[c] = "write",
                        op'[c].kind \in {"update", "publish", "pause", "resume"}
                 PROVE  LET r == row[op'[c].object] IN
                        /\ seen'[c] = r /\ r # None /\ r.status # "archived"
                        /\ op'[c].kind = "update" => r.status # "published"
    BY <1>2, <1>3 DEF ReadIsCurrent, Target
  <2>2. CASE GetRow(c)
    <3>1. op' = op /\ seen' = [seen EXCEPT ![c] = row[Target(c)]]
          /\ row[Target(c)] # None /\ row[Target(c)].status # "archived"
          /\ Allows(c, row[Target(c)])
      BY <2>1, <2>2 DEF GetRow, Return, Inv, Types
    <3>2. op[c].kind = "update" => row[Target(c)].status # "published"
      BY <3>1 DEF Allows
    <3>3. seen'[c] = row[Target(c)]
      BY <3>1 DEF Inv, Types
    <3>4. QED
      BY <3>1, <3>2, <3>3 DEF Target
  <2>3. CASE StartOf(c)
    <3>1. PICK kind \in Kinds, o \in Objects, arg \in Args : Start(c, kind, o, arg)
      BY <2>3 DEF StartOf
    <3>2. op'[c].kind = kind /\ pc'[c] = FirstStep(kind)
      BY <3>1 DEF Start, GoTo, Inv, Types
    <3>3. QED
      BY <2>1, <3>2 DEF FirstStep
  <2>4. CASE GetSnapshot(c)
    BY <2>1, <2>4 DEF GetSnapshot, Return, Inv, Types
  <2>5. CASE FindTarget(c)
    BY <2>1, <2>5 DEF FindTarget, Inv, Types
  <2>6. CASE \/ FindAgain(c) \/ FlipRuntime(c) \/ ListObjects(c)
             \/ NextVersion(c) \/ InsertConfig(c) \/ Stop(c)
    BY <2>1, <2>6 DEF FindAgain, FlipRuntime, ListObjects, NextVersion, InsertConfig, Stop,
                      Return, GoTo, Inv, Types
  <2>7. QED
    BY <2>2, <2>3, <2>4, <2>5, <2>6 DEF CallStep
<1>5. QED
  BY <1>2, <1>3, <1>4 DEF SnapshotInv, InForce, IsSnapshot

LEMMA WriteKeepsSnapshots ==
  ASSUME Inv, SnapshotInv, NEW c \in Calls, Write(c)
  PROVE  SnapshotInv'
<1> DEFINE o == Target(c)
           old == row[o]
           new == NewOf(c)
<1>1. SUFFICES ASSUME ~overlapped' PROVE SnapshotInv'
  BY DEF SnapshotInv
<1>2. ~overlapped /\ Alone' /\ \A d \in Calls \ {c} : pc'[d] = "idle"
  BY <1>1, StaysAlone DEF CallStep
<1>3. pc[c] = "write" /\ CallOK(c) /\ op[c] \in Op /\ o \in Objects
  BY DEF Write, Inv, CallsOK, CallOK, Op, Target
<1>4. pc'[c] # "write"
  BY <1>3 DEF Write, Return, GoOn, AfterWrite, GoTo, Inv, Types
<1>5. ReadIsCurrent'
  BY <1>2, <1>4 DEF ReadIsCurrent
<1>6. CASE Fails(c)
  <2>1. UNCHANGED <<row, snapshots, edited>>
    BY <1>6 DEF Write, history
  <2>2. QED
    BY <1>2, <1>5, <2>1 DEF SnapshotInv, InForce, IsSnapshot
<1>7. CASE ~Fails(c)
  <2>1. /\ row' = [row EXCEPT ![o] = new]
        /\ Snapshot(c)
        /\ Note(c, old, new)
    BY <1>7 DEF Write
  <2>2. row'[o] = new /\ \A p \in Objects \ {o} : row'[p] = row[p]
    BY <1>3, <2>1 DEF Inv, Types
  <2>3. snapshots \subseteq snapshots'
    BY <2>1 DEF Snapshot
  <2>4. \A p \in Objects \ {o} : p \in edited' <=> p \in edited
    BY <2>1 DEF Note
  <2>5. ASSUME NEW p \in Objects \ {o}, p \notin edited', InForce(p)'
        PROVE  IsSnapshot(p)'
    BY <1>2, <2>2, <2>3, <2>4, <2>5 DEF SnapshotInv, InForce, IsSnapshot
  <2>6. ASSUME o \notin edited', new.status \in Participating
        PROVE  [object |-> o, version |-> new.published, config |-> new.config]
                 \in snapshots'
    <3>1. old # None /\ ~IsInsert(c) /\ new = Written(c, old) /\ old \in Row
      <4>1. ~IsInsert(c)
        BY <2>6 DEF NewOf, NewRow, RowOf, Participating
      <4>2. QED
        BY <1>3, <1>7, <4>1 DEF Fails, NewOf, Inv, Types
    <3>2. CASE op[c].kind = "update"
      <4>1. old.status # "published" /\ new.status = old.status
        BY <1>2, <1>3, <3>1, <3>2 DEF SnapshotInv, ReadIsCurrent, Written, Revised, RowOf
      <4>2. old.status = "paused"
        BY <2>6, <4>1 DEF Participating
      <4>3. QED
        BY <2>1, <2>6, <3>1, <3>2, <4>2 DEF Note
    <3>3. CASE op[c].kind = "publish"
      <4>1. seen[c] = old
        BY <1>2, <1>3, <3>3 DEF SnapshotInv, ReadIsCurrent
      <4>2. new.published = old.version /\ new.config = old.config
        BY <3>1, <3>3, <4>1 DEF Written, RowOf
      <4>3. QED
        BY <2>1, <3>3, <4>1, <4>2 DEF Snapshot
    <3>4. CASE op[c].kind \in {"pause", "resume"}
      <4>1. old.status # "archived"
        BY <1>2, <1>3, <3>4 DEF SnapshotInv, ReadIsCurrent
      <4>2. old.status # "draft" /\ o \notin edited
        BY <2>1, <2>6, <3>1, <3>4 DEF Note
      <4>3. InForce(o)
        BY <3>1, <4>1, <4>2 DEF InForce, Row, Participating
      <4>4. new.published = old.published /\ new.config = old.config
        BY <3>1, <3>4 DEF Written, WithStatus, RowOf
      <4>5. QED
        BY <1>2, <1>3, <2>3, <4>2, <4>3, <4>4 DEF SnapshotInv, IsSnapshot
    <3>5. CASE op[c].kind \in {"delete", "rollback", "promote"}
      BY <2>6, <3>1, <3>5 DEF Written, WithStatus, Restored, RowOf, Participating
    <3>6. QED
      BY <1>3, <3>1, <3>2, <3>3, <3>4, <3>5 DEF CallOK, Op, Kinds, IsInsert
  <2>7. ASSUME NEW p \in Objects, p = o, p \notin edited', InForce(p)'
        PROVE  IsSnapshot(p)'
    BY <2>2, <2>6, <2>7 DEF InForce, IsSnapshot
  <2>8. QED
    BY <1>2, <1>5, <2>5, <2>7 DEF SnapshotInv
<1>8. QED
  BY <1>6, <1>7

LEMMA SnapshotInductive == Inv /\ SnapshotInv /\ [Next]_vars => SnapshotInv'
<1>1. CASE UNCHANGED vars
  BY <1>1 DEF vars, SnapshotInv, Alone, ReadIsCurrent, InForce, IsSnapshot, Target
<1>2. QED
  BY <1>1, StepIsOfCall, ReadKeepsSnapshots, WriteKeepsSnapshots

LEMMA SnapshotInitially == Init => SnapshotInv
BY DEF Init, SnapshotInv, Alone, ReadIsCurrent, InForce

\* Until calls overlap, a published object is the snapshot of its published
\* version, for any number of objects and calls (Publish, Update, SetStatus).
THEOREM PublishedHolds == Spec => []PublishedIsSnapshot
<1>1. SnapshotInv => PublishedIsSnapshot
  BY DEF SnapshotInv, PublishedIsSnapshot, InForce, IsSnapshot, Participating
<1>2. QED
  BY <1>1, Initially, Inductive, SnapshotInitially, SnapshotInductive, PTL DEF Spec
-----------------------------------------------------------------------------
(* The engine configurations, while calls do not overlap.                  *)

\* Freshness of an object's entries is about its own row only.
LEMMA FreshKept ==
  ASSUME NEW e \in Envs, NEW o \in Objects, Fresh(e, o), compiled'[e] = compiled[e],
         \/ row'[o] = row[o]
         \/ EnvOf[o] # e
         \/ ~InForce(o) /\ ~InForce(o)'
  PROVE  Fresh(e, o)'
BY DEF Fresh, View, InForce

\* A step that changes no row and compiles nothing.
LEMMA NothingStale ==
  ASSUME FreshInv, ~overlapped, UNCHANGED <<row, compiled>>, ListedIsCurrent',
         uncompiled \subseteq uncompiled',
         \A o \in Objects : Compiling(o) => Compiling(o)' \/ o \in uncompiled'
  PROVE  FreshInv'
<1>1. ASSUME NEW e \in Envs, NEW o \in Objects \ uncompiled'
      PROVE  Fresh(e, o)' \/ (e = EnvOf[o] /\ Compiling(o)')
  BY FreshKept DEF FreshInv
<1>2. QED
  BY <1>1 DEF FreshInv

LEMMA InsertKeepsFresh ==
  ASSUME Inv, SnapshotInv, FreshInv, NEW c \in Calls, InsertConfig(c), ~overlapped'
  PROVE  FreshInv'
<1> DEFINE env == Env(c)
<1>1. ~overlapped /\ \A d \in Calls \ {c} : pc[d] = "idle" /\ pc'[d] = "idle"
  BY StaysAlone DEF CallStep
<1>2. pc[c] = "insert" /\ row' = row /\ Return(c) /\ CallOK(c)
  BY DEF InsertConfig, Inv, CallsOK
<1>3. Target(c) \in Objects /\ env \in Envs
  BY <1>2 DEF CallOK, Op, Target, Env, Envs
<1>4. seen[c].entries = View(env) /\ seen[c].version = compiled[env].version + 1
      /\ compiled[env].version \in Nat
  BY <1>1, <1>2, <1>3 DEF FreshInv, ListedIsCurrent
<1>5. compiled' = [compiled EXCEPT ![env] = seen[c]]
      /\ uncompiled' = {o \in uncompiled : EnvOf[o] # env}
  BY <1>4 DEF InsertConfig
<1>6. /\ compiled' = [e \in Envs |-> compiled'[e]]
      /\ compiled'[env] = seen[c]
      /\ \A e \in Envs \ {env} : compiled'[e] = compiled[e]
  BY <1>1, <1>3, <1>5 DEF FreshInv
<1>7. \A d \in Calls : pc'[d] = "idle"
  BY <1>1, <1>2 DEF Return, Inv, Types
<1>8. ASSUME NEW e \in Envs, NEW o \in Objects \ uncompiled' PROVE Fresh(e, o)'
  <2>1. View(e)' = View(e)
    BY <1>2 DEF View
  <2>2. CASE e = env
    BY <1>4, <1>6, <2>1, <2>2 DEF Fresh
  <2>3. CASE e # env
    <3>1. CASE EnvOf[o] = env
      <4>1. o \notin DOMAIN View(e)
        BY <2>3, <3>1 DEF View
      <4>2. o \notin DOMAIN compiled[e].entries
        BY <1>1, <2>3, <3>1 DEF FreshInv
      <4>3. QED
        BY <1>6, <2>1, <2>3, <4>1, <4>2 DEF Fresh
    <3>2. CASE EnvOf[o] # env
      <4>1. o \notin uncompiled
        BY <1>5, <1>8, <3>2
      <4>2. ~(e = EnvOf[o] /\ Compiling(o))
        BY <1>1, <1>2, <3>2 DEF Compiling, Env
      <4>3. Fresh(e, o)
        BY <1>1, <4>1, <4>2 DEF FreshInv
      <4>4. QED
        BY <1>2, <1>6, <2>3, <4>3, FreshKept
    <3>3. QED
      BY <3>1, <3>2
  <2>4. QED
    BY <2>2, <2>3
<1>9. \A e \in Envs : /\ compiled'[e].version \in Nat
                     /\ \A o \in DOMAIN compiled'[e].entries : EnvOf[o] = e
  BY <1>1, <1>4, <1>6 DEF FreshInv, View
<1>10. QED
  BY <1>6, <1>7, <1>8, <1>9 DEF FreshInv, ListedIsCurrent

\* A write leaves its object compiled, uncompiled on record, or compiles next.
LEMMA WriteKeepsFresh ==
  ASSUME Inv, SnapshotInv, FreshInv, NEW c \in Calls, Write(c), ~overlapped'
  PROVE  FreshInv'
<1>1. ~overlapped /\ \A d \in Calls \ {c} : pc[d] = "idle" /\ pc'[d] = "idle"
  BY StaysAlone DEF CallStep
<1>2. pc[c] = "write" /\ CallOK(c) /\ op[c] \in Op /\ Target(c) \in Objects
      /\ compiled' = compiled
  BY DEF Write, Inv, CallsOK, CallOK, Op, Target
<1>3. \A o \in Objects : ~Compiling(o)
  BY <1>1, <1>2 DEF Compiling
<1>4. \A e \in Envs : \A o \in Objects \ uncompiled : Fresh(e, o)
  BY <1>1, <1>3 DEF FreshInv
<1>5. pc'[c] \notin {"number", "insert"}
  BY <1>2 DEF Write, Return, GoOn, AfterWrite, GoTo, Inv, Types
<1>6. ListedIsCurrent'
  BY <1>1, <1>5 DEF ListedIsCurrent
<1>7. CASE Fails(c)
  <2>1. UNCHANGED <<row, uncompiled>>
    BY <1>7 DEF Write, history
  <2>2. QED
    BY <1>1, <1>2, <1>3, <1>6, <2>1, NothingStale
<1>8. CASE ~Fails(c)
  <2>1. /\ row' = [row EXCEPT ![Target(c)] = NewOf(c)]
        /\ GoOn(c)
        /\ Note(c, row[Target(c)], NewOf(c))
    BY <1>8 DEF Write
  <2>2. /\ row'[Target(c)] = NewOf(c)
        /\ \A p \in Objects \ {Target(c)} : row'[p] = row[p]
    BY <1>2, <2>1 DEF Inv, Types
  <2>3. uncompiled \subseteq uncompiled'
    BY <2>1 DEF Note
  <2>4. ASSUME NEW e \in Envs, NEW o \in Objects \ uncompiled'
        PROVE  Fresh(e, o)' \/ (e = EnvOf[o] /\ Compiling(o)')
    <3>1. Fresh(e, o)
      BY <1>4, <2>3, <2>4
    <3>2. CASE o # Target(c) \/ EnvOf[o] # e
      BY <1>2, <2>2, <3>1, <3>2, FreshKept
    <3>3. CASE o = Target(c) /\ EnvOf[o] = e
      <4>1. CASE op[c].kind = "create"
        <5>1. row[o] = None /\ row'[o].status = "draft"
          BY <1>8, <2>2, <3>3, <4>1 DEF Fails, IsInsert, NewOf, NewRow, RowOf
        <5>2. ~InForce(o) /\ ~InForce(o)'
          BY <5>1 DEF InForce, Participating
        <5>3. QED
          BY <1>2, <3>1, <5>2, FreshKept
      <4>2. CASE op[c].kind \in {"update", "rollback", "promote"}
        BY <2>1, <2>4, <3>3, <4>2 DEF Note
      <4>3. CASE op[c].kind \in {"publish", "pause", "resume", "delete"}
        <5>1. PICK step \in {"list", "flip", "find again"} : GoTo(c, step) /\ op' = op
          BY <2>1, <4>3 DEF GoOn, AfterWrite
        <5>2. pc'[c] = step
          BY <5>1 DEF GoTo, Inv, Types
        <5>3. Compiling(o)'
          BY <3>3, <5>1, <5>2 DEF Compiling, Target
        <5>4. QED
          BY <3>3, <5>3
      <4>4. QED
        BY <1>2, <4>1, <4>2, <4>3 DEF CallOK, Op, Kinds
    <3>4. QED
      BY <3>2, <3>3
  <2>5. QED
    BY <1>1, <1>2, <1>6, <2>4 DEF FreshInv
<1>9. QED
  BY <1>7, <1>8

\* The other steps change no object; a call that stops leaves its object to the
\* next compilation.
LEMMA OthersKeepFresh ==
  ASSUME Inv, SnapshotInv, FreshInv, NEW c \in Calls, CallStep(c),
         ~Write(c), ~InsertConfig(c), ~overlapped'
  PROVE  FreshInv'
<1>1. ~overlapped /\ \A d \in Calls \ {c} : pc[d] = "idle" /\ pc'[d] = "idle"
  BY StaysAlone
<1>2. UNCHANGED <<row, compiled>> /\ uncompiled \subseteq uncompiled'
  BY DEF CallStep, StartOf, Start, GetRow, GetSnapshot, FindTarget, FindAgain, FlipRuntime,
         ListObjects, NextVersion, Stop, history
<1>3. \A e : View(e)' = View(e)
  BY <1>2 DEF View
<1>4. CASE StartOf(c)
  <2>1. /\ \A o \in Objects : ~Compiling(o)
        /\ \A d \in Calls : pc'[d] \notin {"number", "insert"}
    <3>1. \A d \in Calls : pc[d] = "idle"
      BY <1>1, <1>4 DEF StartOf, Start
    <3>2. pc'[c] \notin {"number", "insert"}
      BY <1>4 DEF StartOf, Start, FirstStep, GoTo, Inv, Types
    <3>3. QED
      BY <1>1, <3>1, <3>2 DEF Compiling
  <2>2. QED
    BY <1>1, <1>2, <2>1, NothingStale DEF ListedIsCurrent
<1>5. CASE GetRow(c) \/ GetSnapshot(c) \/ FindTarget(c)
  <2>1. pc[c] \in {"get", "find"} /\ pc'[c] \notin {"number", "insert"}
    BY <1>5 DEF GetRow, GetSnapshot, FindTarget, Return, GoTo, Inv, Types
  <2>2. \A o \in Objects : ~Compiling(o)
    BY <1>1, <2>1 DEF Compiling
  <2>3. QED
    BY <1>1, <1>2, <2>1, <2>2, NothingStale DEF ListedIsCurrent
<1>6. CASE FindAgain(c) \/ FlipRuntime(c) \/ ListObjects(c) \/ NextVersion(c)
  <2>1. PICK step \in {"flip", "list", "number", "insert"} : GoTo(c, step)
    BY <1>6 DEF FindAgain, FlipRuntime, ListObjects, NextVersion
  <2>2. op' = op /\ pc'[c] = step
    BY <1>6, <2>1 DEF FindAgain, FlipRuntime, ListObjects, NextVersion, GoTo, Inv, Types
  <2>3. \A o \in Objects : Compiling(o) => Compiling(o)'
    BY <1>1, <2>2 DEF Compiling, Target
  <2>4. ListedIsCurrent'
    <3>1. CASE FindAgain(c) \/ FlipRuntime(c)
      <4>1. pc'[c] \notin {"number", "insert"}
        BY <3>1 DEF FindAgain, FlipRuntime, GoTo, Inv, Types
      <4>2. QED
        BY <1>1, <4>1 DEF ListedIsCurrent
    <3>2. CASE ListObjects(c)
      <4>1. pc'[c] = "number" /\ seen'[c].entries = View(Env(c))
        BY <3>2 DEF ListObjects, GoTo, Inv, Types
      <4>2. QED
        BY <1>1, <1>3, <2>2, <4>1 DEF ListedIsCurrent, Env, Target
    <3>3. CASE NextVersion(c)
      <4>1. /\ pc[c] = "number" /\ pc'[c] = "insert"
            /\ seen'[c].entries = seen[c].entries
            /\ seen'[c].version = compiled[Env(c)].version + 1
        BY <3>3 DEF NextVersion, GoTo, Inv, Types
      <4>2. seen[c].entries = View(Env(c))
        BY <1>1, <4>1 DEF FreshInv, ListedIsCurrent
      <4>3. QED
        BY <1>1, <1>2, <1>3, <2>2, <4>1, <4>2 DEF ListedIsCurrent, Env, Target
    <3>4. QED
      BY <1>6, <3>1, <3>2, <3>3
  <2>5. QED
    BY <1>1, <1>2, <2>3, <2>4, NothingStale
<1>7. CASE Stop(c)
  <2>1. uncompiled' = uncompiled \union {Target(c)} /\ Return(c)
    BY <1>7 DEF Stop
  <2>2. \A d \in Calls : pc'[d] = "idle"
    BY <1>1, <2>1 DEF Return, Inv, Types
  <2>3. \A o \in Objects : Compiling(o) => o \in uncompiled'
    BY <1>1, <2>1 DEF Compiling
  <2>4. QED
    BY <1>1, <1>2, <2>2, <2>3, NothingStale DEF ListedIsCurrent
<1>8. QED
  BY <1>4, <1>5, <1>6, <1>7 DEF CallStep

LEMMA FreshInductive == Inv /\ SnapshotInv /\ FreshInv /\ [Next]_vars => FreshInv'
<1>1. SUFFICES ASSUME Inv, SnapshotInv, FreshInv, [Next]_vars, ~overlapped'
               PROVE  FreshInv'
  BY DEF FreshInv
<1>2. CASE UNCHANGED vars
  <2>1. \A o \in Objects : Compiling(o) => Compiling(o)'
    BY <1>2 DEF vars, Compiling, Target
  <2>2. \A e : View(e)' = View(e)
    BY <1>2 DEF vars, View
  <2>3. ListedIsCurrent => ListedIsCurrent'
    BY <1>2, <2>2 DEF vars, ListedIsCurrent, Env, Target
  <2>4. QED
    BY <1>1, <1>2, <2>1, <2>3, NothingStale DEF vars, FreshInv
<1>3. CASE Next
  <2>1. PICK c \in Calls : CallStep(c)
    BY <1>1, <1>3, StepIsOfCall
  <2>2. QED
    BY <1>1, <2>1, WriteKeepsFresh, InsertKeepsFresh, OthersKeepFresh
<1>4. QED
  BY <1>1, <1>2, <1>3

LEMMA FreshInitially == Init => FreshInv
<1>1. SUFFICES ASSUME Init PROVE FreshInv
  OBVIOUS
<1>2. \A e \in Envs : compiled[e].version = 0 /\ DOMAIN compiled[e].entries = {}
  BY <1>1 DEF Init
<1>3. \A e \in Envs : DOMAIN View(e) = {}
  BY <1>1 DEF Init, View
<1>4. QED
  BY <1>1, <1>2, <1>3 DEF Init, FreshInv, Fresh, ListedIsCurrent

\* Until calls overlap, with no call in progress, an engine configuration has just
\* the entries of its environment's objects, but for those that an update, a
\* rollback or a call that stopped has left uncompiled (CompileEngineConfig and its
\* callers).
THEOREM EngineConfigHolds == Spec => []EngineConfigFresh
<1>1. ASSUME FreshInv PROVE EngineConfigFresh
  <2>1. SUFFICES ASSUME ~overlapped, Idle, NEW e \in Envs, NEW o \in Objects \ uncompiled
                 PROVE  Fresh(e, o)
    BY DEF EngineConfigFresh, Fresh
  <2>2. ~Compiling(o)
    BY <2>1 DEF Idle, Compiling
  <2>3. QED
    BY <1>1, <2>1, <2>2 DEF FreshInv
<1>2. QED
  BY <1>1, Initially, Inductive, SnapshotInitially, SnapshotInductive,
     FreshInitially, FreshInductive, PTL DEF Spec
=============================================================================
