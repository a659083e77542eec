--------------------------- MODULE PipelineProofs ---------------------------
(***************************************************************************)
(* Theorems about Pipeline, for any sets of events, users and workers.     *)
(***************************************************************************)
EXTENDS Pipeline, Outbox, FiniteSetTheorems, TLAPS

USE DEF Statuses, Steps, Snapshots, Empty

(***************************************************************************)
(* Types.                                                                  *)
(***************************************************************************)
\* A total is never negative, and at most what it was and a gain add up to.
LEMMA RaisedType ==
  ASSUME NEW xp \in Nat, NEW amount \in Int
  PROVE  /\ Raised(xp, amount) \in Nat
         /\ Raised(0, amount) \in Nat
         /\ \A bound \in Nat :
              xp <= bound => Raised(xp, amount) <= bound + Raised(0, amount)
  BY DEF Raised

\* The engine's answer is a well-formed actor state.
LEMMA NextStateType ==
  ASSUME NEW loaded \in Snapshots, NEW e \in Events
  PROVE  NextState(loaded, e) \in Snapshots
<1>1. Raised(loaded.track, Award[e]) \in Nat
  BY PipelineAssumption, RaisedType
<1> QED
  BY <1>1 DEF NextState, RuleFires

\* Writing an outcome keeps every row in its type.
LEMMA CommitOutcomeType ==
  ASSUME TypeOK, NEW w \in Workers, CommitOutcome(w)
  PROVE  /\ status' \in [Events -> Statuses]
         /\ rowLock' \in [Events -> Workers \union {NoWorker}]
         /\ track' \in [Users -> Nat] /\ fires' \in [Users -> Nat]
         /\ ledger' \in [Events -> Nat] /\ items' \in [Events -> Nat]
         /\ outbox' \in [Events -> Nat]
         /\ earned' \in [Users -> Nat] /\ gains' \in [Users -> Nat]
         /\ UNCHANGED <<provisioned, ev, snap, attempts, overwritten, overlapped,
                        misreads>>
<1> DEFINE e == ev[w]
           n == NextState(snap[w], e)
<1>1. /\ e \in Events /\ Actor[e] \in Users /\ Award[e] \in Int
      /\ n \in Snapshots
  BY PipelineAssumption, NextStateType DEF TypeOK
<1> HIDE DEF n
<1>2. /\ track' = [track EXCEPT ![Actor[e]] = IF n.held THEN n.track ELSE @]
      /\ fires' = [fires EXCEPT ![Actor[e]] = n.fires]
  BY DEF CommitOutcome, PersistState, n
<1>3. /\ status' = [status EXCEPT ![e] = "processed"]
      /\ rowLock' = [rowLock EXCEPT ![e] = NoWorker]
      /\ outbox' = [outbox EXCEPT ![e] = @ + 1]
      /\ UNCHANGED <<provisioned, ev, snap, attempts, overwritten, overlapped,
                     misreads>>
  BY DEF CommitOutcome
<1>4. /\ ledger' \in [Events -> Nat]
      /\ items' \in [Events -> Nat]
      /\ earned' \in [Users -> Nat] /\ gains' \in [Users -> Nat]
  <2>1. CASE RuleFires(snap[w])
    <3>1. /\ ledger' = [ledger EXCEPT ![e] = InsertKeyed(ledger[e])]
          /\ items' = [items EXCEPT ![e] = items[e] + 1]
          /\ earned' = [earned EXCEPT ![Actor[e]] = Raised(earned[Actor[e]], Award[e])]
          /\ gains' = [gains EXCEPT ![Actor[e]] = gains[Actor[e]] + Raised(0, Award[e])]
      BY <2>1 DEF CommitOutcome, ApplyCommands
    <3>2. /\ InsertKeyed(ledger[e]) \in Nat
          /\ Raised(earned[Actor[e]], Award[e]) \in Nat /\ Raised(0, Award[e]) \in Nat
      BY <1>1, RaisedType DEF InsertKeyed, TypeOK
    <3> QED
      BY <1>1, <3>1, <3>2 DEF TypeOK
  <2>2. CASE ~RuleFires(snap[w])
    BY <2>2 DEF CommitOutcome, ApplyCommands, TypeOK
  <2> QED
    BY <2>1, <2>2
<1>5. track' \in [Users -> Nat] /\ fires' \in [Users -> Nat]
  BY <1>1, <1>2 DEF TypeOK
<1>6. /\ status' \in [Events -> Statuses]
      /\ rowLock' \in [Events -> Workers \union {NoWorker}]
      /\ outbox' \in [Events -> Nat]
  BY <1>1, <1>3 DEF TypeOK
<1> QED
  BY <1>3, <1>4, <1>5, <1>6

\* Every row and every local value keeps its type (TypeOK) in every execution
\* of ProcessEvent, markEvent and applyOutcome.
THEOREM TypeCorrect == Spec => []TypeOK
<1>1. Init => TypeOK
  <2> SUFFICES ASSUME Init
               PROVE  TypeOK
    OBVIOUS
  <2>1. overlapped \in BOOLEAN
    BY DEF Init
  <2>2. snap \in [Workers -> Snapshots]
    BY DEF Init
  <2> QED
    BY <2>1, <2>2, PipelineAssumption DEF Init, TypeOK
<1>2. TypeOK /\ [Next]_vars => TypeOK'
  <2> SUFFICES ASSUME TypeOK, [Next]_vars
               PROVE  TypeOK'
    OBVIOUS
  <2>1. ASSUME NEW w \in Workers, NEW e \in Events, LoadEvent(w, e)
        PROVE  TypeOK'
    <3>1. Actor[e] \in Users
      BY PipelineAssumption
    <3> QED
      BY <2>1, <3>1 DEF TypeOK, LoadEvent, history
  <2>2. ASSUME NEW w \in Workers, LoadTracks(w)
        PROVE  TypeOK'
    <3>1. /\ Actor[ev[w]] \in Users /\ track[Actor[ev[w]]] \in Nat
          /\ HasTrack(Actor[ev[w]]) \in BOOLEAN
      BY PipelineAssumption DEF TypeOK, HasTrack
    <3>2. snap' \in [Workers -> Snapshots] /\ pc' \in [Workers -> Steps]
      BY <2>2, <3>1 DEF TypeOK, LoadTracks
    <3> QED
      BY <2>2, <3>2 DEF TypeOK, LoadTracks, history, db
  <2>3. ASSUME NEW w \in Workers, LoadRuleState(w)
        PROVE  TypeOK'
    BY <2>3, PipelineAssumption DEF TypeOK, LoadRuleState, history, db
  <2>12. ASSUME NEW w \in Workers, LoadTracksBreaksOff(w) \/ LoadRuleStateFails(w)
         PROVE  TypeOK'
    <3>1. CASE LoadTracksBreaksOff(w)
      BY <3>1 DEF TypeOK, LoadTracksBreaksOff, db
    <3>2. CASE LoadRuleStateFails(w)
      BY <3>2 DEF TypeOK, LoadRuleStateFails, db
    <3> QED
      BY <2>12, <3>1, <3>2
  <2>4. ASSUME NEW w \in Workers, LockEvent(w)
        PROVE  TypeOK'
    BY <2>4 DEF TypeOK, LockEvent, AcquireRow, history
  <2>5. ASSUME NEW w \in Workers, Commit(w)
        PROVE  TypeOK'
    <3>1. pc' \in [Workers -> Steps] /\ unknown' \in Nat
      BY <2>5 DEF Commit, TypeOK
    <3> QED
      BY <2>5, <3>1, CommitOutcomeType DEF Commit, TypeOK
  <2>6. ASSUME NEW w \in Workers, MarkFailed(w)
        PROVE  TypeOK'
    BY <2>6 DEF TypeOK, MarkFailed
  <2>7. ASSUME NEW w \in Workers, EngineFails(w)
        PROVE  TypeOK'
    BY <2>7 DEF TypeOK, EngineFails, history, db
  <2>8. ASSUME NEW w \in Workers, ApplyFails(w)
        PROVE  TypeOK'
    BY <2>8 DEF TypeOK, ApplyFails, ReleaseRow, history
  <2>9. ASSUME NEW w \in Workers, CommitUnknown(w)
        PROVE  TypeOK'
    <3>1. pc' \in [Workers -> Steps] /\ unknown' \in Nat
      BY <2>9 DEF CommitUnknown, TypeOK
    <3> QED
      BY <2>9, <3>1, CommitOutcomeType DEF CommitUnknown, TypeOK
  <2>10. ASSUME NEW w \in Workers, Abandon(w)
         PROVE  TypeOK'
    BY <2>10 DEF TypeOK, Abandon, ReleaseRow, history
  <2>11. CASE UNCHANGED vars
    BY <2>11 DEF TypeOK, vars, db, history
  <2> QED
    BY <2>1, <2>2, <2>3, <2>4, <2>5, <2>6, <2>7, <2>8, <2>9, <2>10, <2>11, <2>12
    DEF Next, Advance, Fault
<1> QED
  BY <1>1, <1>2, PTL DEF Spec
-----------------------------------------------------------------------------
(***************************************************************************)
(* The row lock.  Only the owner of a row's lock is applying the event,    *)
(* and since it read the status under the lock the event is not processed. *)
(***************************************************************************)
RowLockInv ==
  /\ \A e \in Events :
       rowLock[e] # NoWorker =>
         pc[rowLock[e]] = "applying" /\ ev[rowLock[e]] = e
  /\ \A w \in Workers :
       pc[w] = "applying" =>
         rowLock[ev[w]] = w /\ status[ev[w]] # "processed"

\* applyOutcome's SELECT ... FOR UPDATE: at most one worker applies an event,
\* and no status change gets between its check and its commit.
THEOREM RowLockCorrect == Spec => []RowLockInv
<1>1. Init => RowLockInv
  BY DEF Init, RowLockInv
<1>2. TypeOK /\ RowLockInv /\ [Next]_vars => RowLockInv'
  <2> SUFFICES ASSUME TypeOK, RowLockInv, [Next]_vars
               PROVE  RowLockInv'
    OBVIOUS
  <2>0. NoWorker \notin Workers
    BY PipelineAssumption
  <2>1. ASSUME NEW w \in Workers, NEW e \in Events, LoadEvent(w, e)
        PROVE  RowLockInv'
    BY <2>0, <2>1 DEF TypeOK, RowLockInv, LoadEvent
  <2>2. ASSUME NEW w \in Workers, LoadTracks(w)
        PROVE  RowLockInv'
    BY <2>0, <2>2 DEF TypeOK, RowLockInv, LoadTracks, db
  <2>3. ASSUME NEW w \in Workers, LoadRuleState(w)
        PROVE  RowLockInv'
    BY <2>0, <2>3 DEF TypeOK, RowLockInv, LoadRuleState, db
  <2>10. ASSUME NEW w \in Workers, LoadTracksBreaksOff(w) \/ LoadRuleStateFails(w)
         PROVE  RowLockInv'
    BY <2>0, <2>10 DEF TypeOK, RowLockInv, LoadTracksBreaksOff, LoadRuleStateFails, db
  <2>4. ASSUME NEW w \in Workers, LockEvent(w)
        PROVE  RowLockInv'
    <3>1. /\ ev[w] \in Events /\ rowLock[ev[w]] = NoWorker
          /\ UNCHANGED <<ev, status>>
      BY <2>4 DEF TypeOK, LockEvent, AcquireRow
    <3>2. CASE status[ev[w]] = "processed"
      BY <2>0, <2>4, <3>1, <3>2 DEF TypeOK, RowLockInv, LockEvent, AcquireRow
    <3>3. CASE status[ev[w]] # "processed"
      <4>1. /\ pc[w] = "engine"
            /\ pc' = [pc EXCEPT ![w] = "applying"]
            /\ rowLock' = [rowLock EXCEPT ![ev[w]] = w]
        BY <2>4, <3>3 DEF LockEvent, AcquireRow
      <4> QED
        BY <2>0, <3>1, <3>3, <4>1 DEF TypeOK, RowLockInv
    <3> QED
      BY <3>2, <3>3
  <2>5. ASSUME NEW w \in Workers, Commit(w) \/ CommitUnknown(w)
        PROVE  RowLockInv'
    <3>1. /\ pc[w] = "applying"
          /\ pc' = [pc EXCEPT ![w] = "idle"] \/ pc' = [pc EXCEPT ![w] = "failing"]
          /\ rowLock' = [rowLock EXCEPT ![ev[w]] = NoWorker]
          /\ status' = [status EXCEPT ![ev[w]] = "processed"]
          /\ UNCHANGED ev
      BY <2>5 DEF Commit, CommitUnknown, CommitOutcome
    <3> QED
      BY <2>0, <3>1 DEF TypeOK, RowLockInv
  <2>6. ASSUME NEW w \in Workers, MarkFailed(w)
        PROVE  RowLockInv'
    BY <2>0, <2>6 DEF TypeOK, RowLockInv, MarkFailed
  <2>7. ASSUME NEW w \in Workers, EngineFails(w)
        PROVE  RowLockInv'
    BY <2>0, <2>7 DEF TypeOK, RowLockInv, EngineFails, db
  <2>8. ASSUME NEW w \in Workers, ApplyFails(w) \/ Abandon(w)
        PROVE  RowLockInv'
    BY <2>0, <2>8 DEF TypeOK, RowLockInv, ApplyFails, Abandon, ReleaseRow
  <2>9. CASE UNCHANGED vars
    BY <2>9 DEF RowLockInv, vars, db
  <2> QED
    BY <2>1, <2>2, <2>3, <2>4, <2>5, <2>6, <2>7, <2>8, <2>9, <2>10
    DEF Next, Advance, Fault
<1> QED
  BY <1>1, <1>2, TypeCorrect, PTL DEF Spec
-----------------------------------------------------------------------------
(***************************************************************************)
(* What a step does to the record of an event.                             *)
(***************************************************************************)
\* Only a commit touches the outbox and the rows of the commands; only a
\* failure mark touches the history of overwritten statuses.
LEMMA RecordFrame ==
  ASSUME [Next]_vars,
         \A w \in Workers : ~Commit(w) /\ ~CommitUnknown(w) /\ ~MarkFailed(w)
  PROVE  UNCHANGED <<status, outbox, overwritten, ledger, items, track, fires,
                     earned, gains>>
<1>1. CASE UNCHANGED vars
  BY <1>1 DEF vars, db, history
<1>2. CASE Next
  BY <1>2 DEF Next, Advance, Fault, LoadEvent, LoadTracks, LoadRuleState,
     LoadTracksBreaksOff, LoadRuleStateFails, LockEvent, AcquireRow, EngineFails,
     ApplyFails, Abandon, db, history
<1> QED
  BY <1>1, <1>2

\* The strengthening: an event that is not processed now has been applied no
\* more often than a failure mark overwrote its status.
OnceInv ==
  \A e \in Events :
    outbox[e] <= overwritten[e] + (IF status[e] = "processed" THEN 1 ELSE 0)

\* An event is applied again only after a failure report overwrote
\* "processed" (the status check of applyOutcome, the UPDATE of markEvent).
THEOREM ReapplicationNeedsOverwrite == Spec => []ReappliedOnlyAfterOverwrite
<1>1. Init => OnceInv
  BY DEF Init, OnceInv
<1>2. TypeOK /\ RowLockInv /\ OnceInv /\ [Next]_vars => OnceInv'
  <2> SUFFICES ASSUME TypeOK, RowLockInv, OnceInv, [Next]_vars
               PROVE  OnceInv'
    OBVIOUS
  <2>1. ASSUME NEW w \in Workers, Commit(w) \/ CommitUnknown(w)
        PROVE  OnceInv'
    <3>1. /\ ev[w] \in Events /\ status[ev[w]] # "processed"
          /\ outbox' = [outbox EXCEPT ![ev[w]] = outbox[ev[w]] + 1]
          /\ status' = [status EXCEPT ![ev[w]] = "processed"]
          /\ UNCHANGED overwritten
      BY <2>1 DEF Commit, CommitUnknown, CommitOutcome, RowLockInv, TypeOK
    <3> QED
      BY <3>1 DEF TypeOK, OnceInv
  <2>2. ASSUME NEW w \in Workers, MarkFailed(w)
        PROVE  OnceInv'
    BY <2>2 DEF TypeOK, OnceInv, MarkFailed
  <2>3. CASE \A w \in Workers : ~Commit(w) /\ ~CommitUnknown(w) /\ ~MarkFailed(w)
    BY <2>3, RecordFrame DEF OnceInv
  <2> QED
    BY <2>1, <2>2, <2>3
<1>3. TypeOK /\ OnceInv => ReappliedOnlyAfterOverwrite
  BY DEF TypeOK, OnceInv, ReappliedOnlyAfterOverwrite
<1> QED
  BY <1>1, <1>2, <1>3, TypeCorrect, RowLockCorrect, PTL DEF Spec

\* However often an event is applied, its keyed rows exist exactly once (the
\* ON CONFLICT DO NOTHING inserts of applyCommand).
THEOREM KeyedRowsOnce == Spec => []KeyedEffectsOnce
<1>1. Init => KeyedEffectsOnce
  BY DEF Init, KeyedEffectsOnce
<1>2. TypeOK /\ KeyedEffectsOnce /\ [Next]_vars => KeyedEffectsOnce'
  <2> SUFFICES ASSUME TypeOK, KeyedEffectsOnce, [Next]_vars
               PROVE  KeyedEffectsOnce'
    OBVIOUS
  <2>1. ASSUME NEW w \in Workers, Commit(w) \/ CommitUnknown(w)
        PROVE  KeyedEffectsOnce'
    <3>1. /\ ev[w] \in Events
          /\ ApplyCommands(ev[w], RuleFires(snap[w]))
      BY <2>1 DEF Commit, CommitUnknown, CommitOutcome, TypeOK
    <3>2. CASE RuleFires(snap[w])
      BY <3>1, <3>2 DEF ApplyCommands, InsertKeyed, TypeOK, KeyedEffectsOnce
    <3>3. CASE ~RuleFires(snap[w])
      BY <3>1, <3>3 DEF ApplyCommands, KeyedEffectsOnce
    <3> QED
      BY <3>2, <3>3
  <2>2. ASSUME NEW w \in Workers, MarkFailed(w)
        PROVE  KeyedEffectsOnce'
    BY <2>2 DEF KeyedEffectsOnce, MarkFailed
  <2>3. CASE \A w \in Workers : ~Commit(w) /\ ~CommitUnknown(w) /\ ~MarkFailed(w)
    BY <2>3, RecordFrame DEF KeyedEffectsOnce
  <2> QED
    BY <2>1, <2>2, <2>3
<1> QED
  BY <1>1, <1>2, TypeCorrect, PTL DEF Spec
-----------------------------------------------------------------------------
(***************************************************************************)
(* Stored XP.                                                              *)
(***************************************************************************)
\* What a committed outcome writes, from the snapshot the engine was given.
LEMMA OutcomeEffect ==
  ASSUME TypeOK, NEW w \in Workers, CommitOutcome(w)
  PROVE  LET u == Actor[ev[w]]
             a == Award[ev[w]] IN
         /\ u \in Users /\ a \in Int
         /\ UNCHANGED <<ev, snap>>
         /\ RuleFires(snap[w]) =>
              /\ track' = [track EXCEPT ![u] = Raised(snap[w].track, a)]
              /\ fires' = [fires EXCEPT ![u] = snap[w].fires + 1]
              /\ earned' = [earned EXCEPT ![u] = Raised(earned[u], a)]
              /\ gains' = [gains EXCEPT ![u] = gains[u] + Raised(0, a)]
         /\ ~RuleFires(snap[w]) =>
              /\ track' = [track EXCEPT ![u] =
                              IF snap[w].held THEN snap[w].track ELSE track[u]]
              /\ fires' = [fires EXCEPT ![u] = snap[w].fires]
              /\ UNCHANGED <<earned, gains>>
<1>1. Actor[ev[w]] \in Users /\ Award[ev[w]] \in Int
  BY PipelineAssumption DEF TypeOK
<1>2. CASE RuleFires(snap[w])
  BY <1>1, <1>2 DEF CommitOutcome, PersistState, NextState, ApplyCommands
<1>3. CASE ~RuleFires(snap[w])
  BY <1>1, <1>3 DEF CommitOutcome, PersistState, NextState, ApplyCommands
<1> QED
  BY <1>1, <1>2, <1>3

\* A worker past its load holds no more than the user had gained by then.
SnapshotGained ==
  \A w \in Workers :
    pc[w] \in {"rules", "engine", "applying"} =>
      snap[w].track <= gains[Actor[ev[w]]]

\* Workers that overwrite each other's totals, and reads that fail unnoticed,
\* lose awards but never invent XP, whatever the signs of the awards.
THEOREM XPNeverInvented == Spec => []NoInventedXP
<1> DEFINE XPInv == NoInventedXP /\ SnapshotGained
<1>1. Init => XPInv
  BY DEF Init, NoInventedXP, SnapshotGained
<1>2. TypeOK /\ XPInv /\ [Next]_vars => XPInv'
  <2> SUFFICES ASSUME TypeOK, NoInventedXP, SnapshotGained, [Next]_vars
               PROVE  NoInventedXP' /\ SnapshotGained'
    OBVIOUS
  <2>0. \A w \in Workers : Actor[ev[w]] \in Users
    BY PipelineAssumption DEF TypeOK
  <2>1. ASSUME NEW w \in Workers, Commit(w) \/ CommitUnknown(w)
        PROVE  NoInventedXP' /\ SnapshotGained'
    <3> DEFINE u == Actor[ev[w]]
    <3>1. /\ pc[w] = "applying" /\ CommitOutcome(w)
          /\ pc' = [pc EXCEPT ![w] = "idle"] \/ pc' = [pc EXCEPT ![w] = "failing"]
      BY <2>1 DEF Commit, CommitUnknown
    <3>2. /\ u \in Users /\ Award[ev[w]] \in Int
          /\ snap[w].track <= gains[u] /\ snap[w].track \in Nat /\ gains[u] \in Nat
      BY <2>0, <3>1, OutcomeEffect DEF SnapshotGained, TypeOK
    <3>3. \A v \in Users : track'[v] <= gains'[v] /\ gains[v] <= gains'[v]
      <4>1. CASE RuleFires(snap[w])
        <5>1. /\ Raised(snap[w].track, Award[ev[w]]) <= gains[u] + Raised(0, Award[ev[w]])
              /\ Raised(0, Award[ev[w]]) \in Nat
          BY <3>2, RaisedType
        <5>2. /\ track' = [track EXCEPT ![u] = Raised(snap[w].track, Award[ev[w]])]
              /\ gains' = [gains EXCEPT ![u] = gains[u] + Raised(0, Award[ev[w]])]
          BY <3>1, <4>1, OutcomeEffect
        <5> QED
          BY <3>2, <5>1, <5>2 DEF TypeOK, NoInventedXP
      <4>2. CASE ~RuleFires(snap[w])
        <5>1. /\ track' \in {track, [track EXCEPT ![u] = snap[w].track]}
              /\ UNCHANGED gains
          BY <3>1, <4>2, OutcomeEffect DEF TypeOK
        <5> QED
          BY <3>2, <5>1 DEF TypeOK, NoInventedXP
      <4> QED
        BY <4>1, <4>2
    <3>4. NoInventedXP'
      BY <3>3 DEF NoInventedXP
    <3>5. SnapshotGained'
      <4> SUFFICES ASSUME NEW x \in Workers,
                          pc'[x] \in {"rules", "engine", "applying"}
                   PROVE  snap'[x].track <= gains'[Actor[ev'[x]]]
        BY DEF SnapshotGained
      <4>1. pc[x] \in {"rules", "engine", "applying"} /\ UNCHANGED <<snap, ev>>
        BY <3>1 DEF TypeOK, CommitOutcome
      <4>2. /\ snap[x].track \in Nat
            /\ gains[Actor[ev[x]]] \in Nat
            /\ gains'[Actor[ev[x]]] \in Nat
        BY <2>0, <3>1, CommitOutcomeType DEF TypeOK
      <4> QED
        BY <2>0, <3>3, <4>1, <4>2 DEF SnapshotGained
    <3> QED
      BY <3>4, <3>5
  <2>2. ASSUME NEW w \in Workers, LoadTracks(w) \/ LoadTracksBreaksOff(w)
        PROVE  NoInventedXP' /\ SnapshotGained'
    <3>1. /\ UNCHANGED <<track, gains, ev>>
          /\ \A x \in Workers : pc'[x] \in {"rules", "engine", "applying"} =>
                                pc[x] \in {"rules", "engine", "applying"} \/ x = w
          /\ \A x \in Workers : x # w => snap'[x] = snap[x]
          /\ snap'[w].track \in {0, track[Actor[ev[w]]]}
      BY <2>2 DEF LoadTracks, LoadTracksBreaksOff, db, history, TypeOK
    <3>2. snap'[w].track <= gains[Actor[ev[w]]]
      BY <2>0, <3>1 DEF NoInventedXP, TypeOK
    <3> QED
      BY <3>1, <3>2 DEF NoInventedXP, SnapshotGained
  <2>3. CASE \A w \in Workers : /\ ~Commit(w) /\ ~CommitUnknown(w)
                                /\ ~LoadTracks(w) /\ ~LoadTracksBreaksOff(w)
    <3>1. CASE UNCHANGED vars
      BY <3>1 DEF vars, db, history, NoInventedXP, SnapshotGained
    <3>2. ASSUME NEW w \in Workers, \/ MarkFailed(w) \/ EngineFails(w)
                                    \/ ApplyFails(w) \/ Abandon(w) \/ LockEvent(w)
                                    \/ LoadRuleState(w) \/ LoadRuleStateFails(w)
          PROVE  NoInventedXP' /\ SnapshotGained'
      <4>1. /\ UNCHANGED <<track, gains, ev>>
            /\ \A x \in Workers : snap'[x].track = snap[x].track
            /\ \A x \in Workers : pc'[x] \in {"rules", "engine", "applying"} =>
                                  pc[x] \in {"rules", "engine", "applying"}
        <5>1. CASE MarkFailed(w)
          BY <5>1 DEF MarkFailed, TypeOK
        <5>2. CASE EngineFails(w)
          BY <5>2 DEF EngineFails, db, history, TypeOK
        <5>3. CASE ApplyFails(w)
          BY <5>3 DEF ApplyFails, history, TypeOK
        <5>4. CASE Abandon(w)
          BY <5>4 DEF Abandon, history, TypeOK
        <5>5. CASE LoadRuleState(w)
          BY <5>5 DEF LoadRuleState, db, history, TypeOK
        <5>7. CASE LoadRuleStateFails(w)
          BY <5>7 DEF LoadRuleStateFails, db, TypeOK
        <5>6. CASE LockEvent(w)
          BY <5>6 DEF LockEvent, AcquireRow, history, TypeOK
        <5> QED
          BY <3>2, <5>1, <5>2, <5>3, <5>4, <5>5, <5>6, <5>7
      <4> QED
        BY <4>1 DEF NoInventedXP, SnapshotGained
    <3>3. ASSUME NEW w \in Workers, NEW e \in Events, LoadEvent(w, e)
          PROVE  NoInventedXP' /\ SnapshotGained'
      BY <3>3 DEF LoadEvent, history, TypeOK, NoInventedXP, SnapshotGained
    <3> QED
      BY <2>3, <3>1, <3>2, <3>3 DEF Next, Advance, Fault
  <2> QED
    BY <2>1, <2>2, <2>3
<1> QED
  BY <1>1, <1>2, TypeCorrect, PTL DEF Spec
-----------------------------------------------------------------------------
(***************************************************************************)
(* Until calls overlap or a read fails unnoticed.                          *)
(***************************************************************************)
\* At most one call of ProcessEvent is running.
OneBusy ==
  \A v, w \in Workers : pc[v] # "idle" /\ pc[w] # "idle" => v = w

\* A lone worker's snapshot is still the database's state when it commits.
SnapshotCurrent ==
  \A w \in Workers :
    /\ pc[w] \in {"rules", "engine", "applying"} =>
         snap[w].track = track[Actor[ev[w]]]
    /\ pc[w] \in {"engine", "applying"} =>
         snap[w].fires = fires[Actor[ev[w]]]

Exact == \A u \in Users : track[u] = earned[u]

SerialInv == ~Disturbed => OneBusy /\ SnapshotCurrent /\ Exact

\* What is undisturbed after a step was undisturbed before it.
LEMMA StaysUndisturbed ==
  ASSUME TypeOK, [Next]_vars, ~Disturbed'
  PROVE  /\ ~Disturbed
         /\ \A w \in Workers : ~LoadTracksBreaksOff(w) /\ ~LoadRuleStateFails(w)
<1>1. misreads \in Nat
  BY DEF TypeOK
<1>2. \A w \in Workers : ~LoadTracksBreaksOff(w) /\ ~LoadRuleStateFails(w)
  BY <1>1 DEF LoadTracksBreaksOff, LoadRuleStateFails, Disturbed
<1>3. CASE UNCHANGED vars
  BY <1>2, <1>3 DEF vars, history, Disturbed
<1>4. CASE Next
  <2>1. UNCHANGED misreads /\ (overlapped => overlapped')
    <3>1. ASSUME NEW w \in Workers, NEW e \in Events, LoadEvent(w, e)
          PROVE  UNCHANGED misreads /\ (overlapped => overlapped')
      BY <3>1 DEF LoadEvent, TypeOK
    <3>2. ASSUME NEW w \in Workers, Advance(w)
          PROVE  UNCHANGED misreads /\ (overlapped => overlapped')
      BY <3>2 DEF Advance, LoadTracks, LoadRuleState, LockEvent, Commit,
                  CommitOutcome, MarkFailed, history
    <3>3. ASSUME NEW w \in Workers, Fault(w)
          PROVE  UNCHANGED misreads /\ (overlapped => overlapped')
      BY <1>2, <3>3 DEF Fault, CommitUnknown, CommitOutcome, EngineFails,
                        ApplyFails, Abandon, history
    <3> QED
      BY <1>4, <3>1, <3>2, <3>3 DEF Next
  <2> QED
    BY <1>2, <2>1 DEF Disturbed
<1> QED
  BY <1>3, <1>4

\* Until then, the stored XP is what was awarded and a loaded snapshot is still
\* the stored state.
LEMMA SerialInvariant == Spec => []SerialInv
<1>1. Init => SerialInv
  BY DEF Init, SerialInv, OneBusy, SnapshotCurrent, Exact
<1>2. TypeOK /\ SerialInv /\ [Next]_vars => SerialInv'
  <2> SUFFICES ASSUME TypeOK, SerialInv, [Next]_vars, ~Disturbed'
               PROVE  OneBusy' /\ SnapshotCurrent' /\ Exact'
    BY DEF SerialInv
  <2> USE DEF OneBusy
  <2>0. \A w \in Workers : ev[w] \in Events /\ Actor[ev[w]] \in Users
    BY PipelineAssumption DEF TypeOK
  <2>a. /\ ~Disturbed
        /\ \A w \in Workers : ~LoadTracksBreaksOff(w) /\ ~LoadRuleStateFails(w)
    BY StaysUndisturbed
  <2>b. OneBusy /\ SnapshotCurrent /\ Exact
    BY <2>a DEF SerialInv
  <2>1. ASSUME NEW w \in Workers, Commit(w) \/ CommitUnknown(w)
        PROVE  OneBusy' /\ SnapshotCurrent' /\ Exact'
    <3>1. /\ pc[w] = "applying" /\ CommitOutcome(w)
          /\ pc' = [pc EXCEPT ![w] = "idle"] \/ pc' = [pc EXCEPT ![w] = "failing"]
      BY <2>1 DEF Commit, CommitUnknown
    <3>2. SnapshotCurrent' /\ OneBusy'
      <4>1. \A x \in Workers : pc'[x] = "idle" \/ (x = w /\ pc'[x] = "failing")
        BY <2>b, <3>1 DEF TypeOK
      <4> QED
        BY <4>1 DEF SnapshotCurrent
    <3>3. /\ snap[w].track = earned[Actor[ev[w]]]
          /\ snap[w].track = track[Actor[ev[w]]]
      BY <2>0, <2>b, <3>1 DEF SnapshotCurrent, Exact
    <3>4. Exact'
      <4>1. CASE RuleFires(snap[w])
        <5> DEFINE u == Actor[ev[w]]
        <5>1. /\ track' = [track EXCEPT ![u] = Raised(snap[w].track, Award[ev[w]])]
              /\ earned' = [earned EXCEPT ![u] = Raised(earned[u], Award[ev[w]])]
          BY <3>1, <4>1, OutcomeEffect
        <5> QED
          BY <2>b, <3>3, <5>1 DEF Exact, TypeOK
      <4>2. CASE ~RuleFires(snap[w])
        <5>1. UNCHANGED <<track, earned>>
          BY <3>1, <3>3, <4>2, OutcomeEffect DEF TypeOK
        <5> QED
          BY <2>b, <3>3, <5>1 DEF Exact, TypeOK
      <4> QED
        BY <4>1, <4>2
    <3> QED
      BY <3>2, <3>4
  <2>2. ASSUME NEW w \in Workers, LoadTracks(w)
        PROVE  OneBusy' /\ SnapshotCurrent' /\ Exact'
    BY <2>b, <2>2 DEF LoadTracks, db, history, TypeOK, Exact, SnapshotCurrent
  <2>3. ASSUME NEW w \in Workers, LoadRuleState(w)
        PROVE  OneBusy' /\ SnapshotCurrent' /\ Exact'
    BY <2>b, <2>3 DEF LoadRuleState, db, history, TypeOK, Exact, SnapshotCurrent
  <2>4. ASSUME NEW w \in Workers, NEW e \in Events, LoadEvent(w, e)
        PROVE  OneBusy' /\ SnapshotCurrent' /\ Exact'
    <3>1. \A v \in Workers : pc[v] = "idle"
      BY <2>4 DEF LoadEvent, Disturbed
    <3> QED
      BY <2>b, <2>4, <3>1 DEF LoadEvent, TypeOK, Exact, SnapshotCurrent
  <2>5. ASSUME NEW w \in Workers, MarkFailed(w) \/ EngineFails(w) \/
               ApplyFails(w) \/ Abandon(w) \/ LockEvent(w)
        PROVE  OneBusy' /\ SnapshotCurrent' /\ Exact'
    <3>1. /\ UNCHANGED <<track, fires, earned, ev, snap>>
          /\ \A x \in Workers :
               /\ pc'[x] \in {"rules", "engine", "applying"} =>
                    pc[x] \in {"engine", "applying"} \/ pc'[x] = pc[x]
               /\ pc'[x] # "idle" => pc[x] # "idle"
      BY <2>5 DEF MarkFailed, EngineFails, ApplyFails, Abandon, LockEvent,
         AcquireRow, db, history, TypeOK
    <3> QED
      BY <2>b, <3>1 DEF Exact, SnapshotCurrent
  <2>6. CASE UNCHANGED vars
    BY <2>b, <2>6 DEF vars, db, history, Exact, SnapshotCurrent
  <2> QED
    BY <2>a, <2>1, <2>2, <2>3, <2>4, <2>5, <2>6 DEF Next, Advance, Fault
<1> QED
  BY <1>1, <1>2, TypeCorrect, PTL DEF Spec

\* Until calls overlap or a read fails unnoticed, the stored XP is exactly what
\* the committed awards add up to.
THEOREM SerialLosesNothing == Spec => []NoLostXP
<1>1. SerialInv => NoLostXP
  BY DEF SerialInv, Exact, NoLostXP
<1> QED
  BY <1>1, SerialInvariant, PTL

\* Until calls overlap or a read fails unnoticed, the pipeline implements
\* AtomicPipeline: loads, engine calls, locks, failed and abandoned attempts
\* are stuttering steps, a commit evaluates the event on the current state, and
\* a failure mark over "processed" reopens the event.
THEOREM SerialImplementsAtomic == Spec => AtomicSpec
<1> DEFINE closed == {e \in Events : status[e] = "processed"}
<1>1. Init => Atomic!Init
  BY DEF Init, Atomic!Init, Disturbed
<1>2. TypeOK /\ RowLockInv /\ SerialInv /\ [Next]_vars
        => [Atomic!Next]_(Atomic!vars)
  <2> SUFFICES ASSUME TypeOK, RowLockInv, SerialInv, [Next]_vars, ~Disturbed'
               PROVE  Atomic!Next \/ UNCHANGED <<closed, track, fires, Disturbed>>
    BY DEF Atomic!vars, Atomic!Next, Atomic!Disturb
  <2>a. ~Disturbed /\ UNCHANGED Disturbed
    <3>1. Disturbed \in BOOLEAN /\ Disturbed' \in BOOLEAN
      BY DEF Disturbed
    <3> QED
      BY <3>1, StaysUndisturbed
  <2>1. ASSUME NEW w \in Workers, Commit(w) \/ CommitUnknown(w)
        PROVE  Atomic!Next
    <3>0. PICK e \in Events : e = ev[w]
      BY DEF TypeOK
    <3>1. /\ pc[w] = "applying" /\ CommitOutcome(w)
          /\ e \in Events /\ status[e] # "processed"
          /\ status' = [status EXCEPT ![e] = "processed"]
      BY <2>1, <3>0 DEF Commit, CommitUnknown, CommitOutcome, RowLockInv, TypeOK
    <3>2. e \notin closed /\ closed' = closed \union {e}
      BY <3>1 DEF TypeOK
    <3>3. /\ snap[w].track = track[Actor[e]]
          /\ snap[w].fires = fires[Actor[e]]
      BY <2>a, <3>0, <3>1 DEF SerialInv, SnapshotCurrent
    <3>4. CASE RuleFires(snap[w])
      <4>1. Atomic!RuleFires(Actor[e])
        BY <3>3, <3>4 DEF RuleFires, Atomic!RuleFires
      <4>2. Atomic!Process(e)
        BY <2>a, <3>0, <3>1, <3>2, <3>3, <3>4, <4>1, OutcomeEffect
        DEF Atomic!Process, Atomic!Raised, Raised
      <4> QED
        BY <3>1, <4>2 DEF Atomic!Next
    <3>5. CASE ~RuleFires(snap[w])
      <4>1. ~Atomic!RuleFires(Actor[e])
        BY <3>3, <3>5 DEF RuleFires, Atomic!RuleFires
      <4>2. UNCHANGED <<track, fires>>
        BY <3>0, <3>1, <3>3, <3>5, OutcomeEffect DEF TypeOK
      <4>3. Atomic!Process(e)
        BY <2>a, <3>2, <4>1, <4>2 DEF Atomic!Process
      <4> QED
        BY <3>1, <4>3 DEF Atomic!Next
    <3> QED
      BY <3>4, <3>5
  <2>2. ASSUME NEW w \in Workers, MarkFailed(w)
        PROVE  Atomic!Next \/ UNCHANGED <<closed, track, fires, Disturbed>>
    <3>0. PICK e \in Events : e = ev[w]
      BY DEF TypeOK
    <3>1. /\ e \in Events /\ closed' = closed \ {e}
          /\ UNCHANGED <<track, fires>>
      BY <2>2, <3>0 DEF MarkFailed, TypeOK
    <3>2. CASE e \in closed
      <4>1. Atomic!Reopen(e)
        BY <2>a, <3>1, <3>2 DEF Atomic!Reopen
      <4> QED
        BY <3>1, <4>1 DEF Atomic!Next
    <3>3. CASE e \notin closed
      BY <2>a, <3>1, <3>3
    <3> QED
      BY <3>2, <3>3
  <2>3. CASE \A w \in Workers : ~Commit(w) /\ ~CommitUnknown(w) /\ ~MarkFailed(w)
    BY <2>a, <2>3, RecordFrame
  <2> QED
    BY <2>1, <2>2, <2>3
<1> QED
  BY <1>1, <1>2, TypeCorrect, RowLockCorrect, SerialInvariant, PTL
  DEF Spec, AtomicSpec, Atomic!Spec
-----------------------------------------------------------------------------
(***************************************************************************)
(* The publisher of the rows that Commit inserts into the outbox.          *)
(***************************************************************************)
\* A publisher has fanned the row out since its last fault, and will not select
\* it again.
Settled(p, r) ==
  \/ r \in published /\ r \notin batch[p]
  \/ step[p] = "mark" /\ r = First(p)

\* The deliveries of a row by one publisher to one endpoint.
Under(p, r, e) == {d \in sending : d.by = p /\ d.row = r /\ d.to = e}

SentOnce ==
  /\ \A p \in Publishers : step[p] = "mark" => fanouts[p][First(p)] > 0
  /\ \A p \in Publishers, r \in Rows :
       /\ fanouts[p][r] <= 1 + faults[p]
       /\ ~Settled(p, r) => fanouts[p][r] <= faults[p]

\* All endpoints of the row were sent it, or a fan-out of it misread them.
Whole(r) == r \in misread \/ reached[r] = Subscribed[r]

\* Only subscribed endpoints are sent a row, and what is about to be marked was
\* sent to all of them.
SentToAll ==
  /\ \A r \in Rows : reached[r] \subseteq Subscribed[r]
  /\ \A p \in Publishers : step[p] = "mark" => Whole(First(p))

SentBeforeAccepted ==
  /\ \A d \in sending : d.n <= fanouts[d.by][d.row]
  /\ \A p \in Publishers, r \in Rows, e \in Endpoints :
       /\ IsFiniteSet(Under(p, r, e))
       /\ accepted[p][r][e] + Cardinality(Under(p, r, e)) <= fanouts[p][r]
       /\ delivered[p][r][e] <= accepted[p][r][e]

OutboxInv ==
  /\ OutboxTypeOK
  /\ PublishedWasFannedOut
  /\ SentOnce
  /\ SentToAll
  /\ SentBeforeAccepted

LEMMA LeastOfNumbers ==
  ASSUME NEW S, S \subseteq Nat, S # {}
  PROVE  \E x \in S : \A y \in S : x <= y
<1> DEFINE R == OpToRel(<, Nat)
<1>1. IsWellFoundedOn(R, Nat)
  BY NatLessThanWellFounded DEF OpToRel
<1>2. \A x, y \in Nat : <<y, x>> \in R <=> y < x
  BY DEF OpToRel
<1> HIDE DEF R
<1>3. PICK x \in S : \A y \in S : ~(<<y, x>> \in R)
  BY <1>1, WFMin
<1>4. \A y \in S : x \in Nat /\ y \in Nat /\ ~(y < x)
  BY <1>2, <1>3
<1> QED
  BY <1>4

LEMMA FirstInBatch ==
  ASSUME OutboxTypeOK, NEW p \in Publishers, step[p] # "idle"
  PROVE  First(p) \in batch[p] /\ First(p) \in Rows
<1>1. batch[p] # {} /\ batch[p] \subseteq Rows /\ batch[p] \subseteq Nat
  BY OutboxAssumption DEF OutboxTypeOK, OutboxConstants
<1>2. \E x \in batch[p] : \A y \in batch[p] : x <= y
  BY <1>1, LeastOfNumbers
<1> QED
  BY <1>1, <1>2 DEF First, Min

LEMMA OutboxTyped ==
  ASSUME OutboxTypeOK, OutboxNext
  PROVE  OutboxTypeOK'
<1>1. CASE Enqueue
  BY <1>1 DEF Enqueue, OutboxTypeOK, outboxHistory
<1>2. ASSUME NEW p \in Publishers, Poll(p)
      PROVE  OutboxTypeOK'
  <2>1. PICK b \in SUBSET created :
          /\ b # {} /\ batch' = [batch EXCEPT ![p] = b]
          /\ step' = [step EXCEPT ![p] = "fan"]
          /\ UNCHANGED <<created, published, sending, accepted, delivered,
                         outboxHistory, faults>>
    <3>1. PICK last \in Selected :
            batch' = [batch EXCEPT ![p] = {r \in Selected : r <= last}]
      BY <1>2 DEF Poll
    <3>2. last \in Nat /\ Selected \subseteq created
      BY OutboxAssumption DEF OutboxTypeOK, OutboxConstants, Selected, Pending
    <3> DEFINE b == {r \in Selected : r <= last}
    <3>3. last \in b /\ b \in SUBSET created
      <4>1. last <= last /\ last \in Selected
        BY <3>2
      <4> QED
        BY <3>2, <4>1
    <3>4. /\ b # {} /\ batch' = [batch EXCEPT ![p] = b]
          /\ step' = [step EXCEPT ![p] = "fan"]
          /\ UNCHANGED <<created, published, sending, accepted, delivered,
                         outboxHistory, faults>>
      BY <1>2, <3>1, <3>3 DEF Poll
    <3> QED
      BY <3>3, <3>4
  <2>2. /\ batch' \in [Publishers -> SUBSET created]
        /\ step' \in [Publishers -> {"idle", "fan", "mark"}]
    BY <2>1 DEF OutboxTypeOK
  <2>3. \A q \in Publishers : step'[q] = "idle" <=> batch'[q] = {}
    BY <2>1 DEF OutboxTypeOK
  <2> QED
    BY <2>1, <2>2, <2>3 DEF OutboxTypeOK, outboxHistory
<1>3. ASSUME NEW p \in Publishers, FanOut(p)
      PROVE  OutboxTypeOK'
  <2> DEFINE r == First(p)
             n == fanouts[p][r] + 1
  <2>1. r \in Rows
    BY <1>3, FirstInBatch DEF FanOut
  <2> HIDE DEF r
  <2>2. fanouts[p][r] \in Nat /\ n \in Nat /\ Subscribed[r] \subseteq Endpoints
    BY <2>1, OutboxAssumption DEF OutboxTypeOK, OutboxConstants
  <2> HIDE DEF n
  <2>3. /\ \E to \in SUBSET Subscribed[r] :
             /\ sending' = sending \union [by : {p}, row : {r}, to : to, n : {n}]
             /\ reached' = [reached EXCEPT ![r] = @ \union to]
             /\ misread' \subseteq misread \union {r}
        /\ fanouts' = [fanouts EXCEPT ![p][r] = n]
        /\ step[p] = "fan" /\ step' = [step EXCEPT ![p] = "mark"]
        /\ UNCHANGED <<created, published, batch, accepted, delivered, faults>>
    BY <1>3 DEF FanOut, r, n
  <2>4. sending' \subseteq Delivery
    BY <2>1, <2>2, <2>3 DEF OutboxTypeOK, Delivery
  <2>5. fanouts' \in [Publishers -> [Rows -> Nat]]
    BY <2>1, <2>2, <2>3 DEF OutboxTypeOK
  <2>6. /\ step' \in [Publishers -> {"idle", "fan", "mark"}]
        /\ \A q \in Publishers : step'[q] = "idle" <=> batch'[q] = {}
    BY <2>3 DEF OutboxTypeOK
  <2>7. reached' \in [Rows -> SUBSET Endpoints] /\ misread' \subseteq Rows
    BY <2>1, <2>2, <2>3 DEF OutboxTypeOK
  <2> QED
    BY <2>3, <2>4, <2>5, <2>6, <2>7 DEF OutboxTypeOK
<1>4. ASSUME NEW p \in Publishers, Mark(p)
      PROVE  OutboxTypeOK'
  <2> DEFINE r == First(p)
  <2>1. r \in batch[p] /\ batch[p] \subseteq created
    BY <1>4, FirstInBatch DEF Mark, OutboxTypeOK
  <2> HIDE DEF r
  <2>2. /\ published' = published \union {r} /\ batch' = [batch EXCEPT ![p] = @ \ {r}]
        /\ step' = [step EXCEPT ![p] = IF batch[p] = {r} THEN "idle" ELSE "fan"]
        /\ UNCHANGED <<created, sending, accepted, delivered, fanouts, reached, misread,
                       faults>>
    BY <1>4 DEF Mark, Marked, r, outboxHistory
  <2>3. batch' \in [Publishers -> SUBSET created]
    BY <2>2 DEF OutboxTypeOK
  <2>4. /\ step' \in [Publishers -> {"idle", "fan", "mark"}]
        /\ \A q \in Publishers : step'[q] = "idle" <=> batch'[q] = {}
    BY <2>1, <2>2 DEF OutboxTypeOK
  <2> QED
    BY <2>1, <2>2, <2>3, <2>4 DEF OutboxTypeOK
<1>5. ASSUME NEW p \in Publishers, MarkFails(p) \/ Crash(p)
      PROVE  OutboxTypeOK'
  <2>1. /\ faults' = [faults EXCEPT ![p] = @ + 1] /\ batch' = [batch EXCEPT ![p] = {}]
        /\ step' = [step EXCEPT ![p] = "idle"] /\ sending' \subseteq sending
        /\ UNCHANGED <<created, accepted, delivered, fanouts, reached, misread>>
        /\ published' \subseteq created
    <3>1. CASE MarkFails(p)
      <4>1. First(p) \in created
        BY <3>1, FirstInBatch DEF MarkFails, OutboxTypeOK
      <4> QED
        BY <3>1, <4>1 DEF MarkFails, BreakOff, Marked, outboxHistory, OutboxTypeOK
    <3>2. CASE Crash(p)
      BY <3>2 DEF Crash, BreakOff, outboxHistory, OutboxTypeOK
    <3> QED
      BY <1>5, <3>1, <3>2
  <2>2. faults' \in [Publishers -> Nat]
    BY <2>1 DEF OutboxTypeOK
  <2>3. batch' \in [Publishers -> SUBSET created]
    BY <2>1 DEF OutboxTypeOK
  <2>4. /\ step' \in [Publishers -> {"idle", "fan", "mark"}]
        /\ \A q \in Publishers : step'[q] = "idle" <=> batch'[q] = {}
    BY <2>1 DEF OutboxTypeOK
  <2> QED
    BY <2>1, <2>2, <2>3, <2>4 DEF OutboxTypeOK
<1>6. ASSUME NEW d \in sending, Answer(d) \/ NoAnswer(d)
      PROVE  OutboxTypeOK'
  <2> DEFINE Counts == [Publishers -> [Rows -> [Endpoints -> Nat]]]
  <2>1. d.by \in Publishers /\ d.row \in Rows /\ d.to \in Endpoints
    BY DEF OutboxTypeOK, Delivery
  <2>2. /\ sending' \subseteq sending
        /\ \/ accepted' = accepted
           \/ accepted' = [accepted EXCEPT ![d.by][d.row][d.to] = @ + 1]
        /\ \/ delivered' = delivered
           \/ delivered' = [delivered EXCEPT ![d.by][d.row][d.to] = @ + 1]
        /\ UNCHANGED <<created, published, step, batch, fanouts, reached, misread, faults>>
    BY <1>6 DEF Answer, NoAnswer, RecordDelivery, outboxHistory
  <2>3. \A f \in Counts : [f EXCEPT ![d.by][d.row][d.to] = @ + 1] \in Counts
    BY <2>1
  <2>4. accepted' \in Counts /\ delivered' \in Counts
    <3>1. accepted \in Counts /\ delivered \in Counts
      BY DEF OutboxTypeOK
    <3> HIDE DEF Counts
    <3> QED
      BY <2>2, <2>3, <3>1
  <2> QED
    BY <2>2, <2>4 DEF OutboxTypeOK
<1> QED
  BY <1>1, <1>2, <1>3, <1>4, <1>5, <1>6 DEF OutboxNext, Publish

\* Who has settled a row, and how often it was fanned out.
LEMMA SentOnceKept ==
  ASSUME OutboxTypeOK, SentOnce, OutboxNext
  PROVE  SentOnce'
<1> DEFINE Bounds(p, r) == /\ fanouts[p][r] <= 1 + faults[p]
                           /\ ~Settled(p, r) => fanouts[p][r] <= faults[p]
<1>1. ASSUME NEW p \in Publishers, NEW r \in Rows
      PROVE  fanouts[p][r] \in Nat /\ faults[p] \in Nat /\ Bounds(p, r)
  BY DEF OutboxTypeOK, SentOnce
<1>2. CASE UNCHANGED <<published, step, batch, fanouts, faults>>
  BY <1>2 DEF SentOnce, Settled, First
<1>3. ASSUME NEW p \in Publishers, Poll(p)
      PROVE  SentOnce'
  <2>1. /\ \A r \in batch'[p] : r \notin published /\ step[p] = "idle" /\ step'[p] = "fan"
        /\ \A q \in Publishers \ {p} : step'[q] = step[q] /\ batch'[q] = batch[q]
        /\ UNCHANGED <<published, fanouts, faults>> /\ step[p] = "idle" /\ step'[p] = "fan"
    BY <1>3 DEF Poll, Selected, Pending, OutboxTypeOK, outboxHistory
  <2>2. \A q \in Publishers, r \in Rows : Settled(q, r) => Settled(q, r)'
    BY <2>1 DEF Settled, First
  <2>3. \A q \in Publishers : step'[q] = "mark" => step[q] = "mark" /\ batch'[q] = batch[q]
    BY <2>1
  <2> QED
    BY <1>1, <2>1, <2>2, <2>3 DEF SentOnce, First
<1>4. ASSUME NEW p \in Publishers, FanOut(p)
      PROVE  SentOnce'
  <2> DEFINE s == First(p)
  <2>1. s \in Rows /\ s \in batch[p] /\ step[p] = "fan"
    BY <1>4, FirstInBatch DEF FanOut
  <2>2. /\ fanouts' = [fanouts EXCEPT ![p][s] = fanouts[p][s] + 1]
        /\ step' = [step EXCEPT ![p] = "mark"]
        /\ UNCHANGED <<published, batch, faults>>
    BY <1>4 DEF FanOut
  <2>3. \A q \in Publishers : First(q)' = First(q)
    BY <2>2 DEF First
  <2> HIDE DEF s
  <2>4. ~Settled(p, s)
    BY <2>1 DEF Settled
  <2>5. Settled(p, s)' /\ \A q \in Publishers, r \in Rows : Settled(q, r) => Settled(q, r)'
    BY <2>1, <2>2, <2>3 DEF Settled, OutboxTypeOK, s
  <2>6. /\ fanouts'[p][s] = fanouts[p][s] + 1
        /\ \A q \in Publishers, r \in Rows :
             q # p \/ r # s => fanouts'[q][r] = fanouts[q][r]
    BY <2>1, <2>2 DEF OutboxTypeOK
  <2>7. ASSUME NEW q \in Publishers, NEW r \in Rows
        PROVE  Bounds(q, r)'
    <3>1. CASE q = p /\ r = s
      <4>1. fanouts[p][s] \in Nat /\ faults[p] \in Nat /\ fanouts[p][s] <= faults[p]
        BY <1>1, <2>1, <2>4
      <4>2. fanouts'[q][r] = fanouts[p][s] + 1 /\ faults'[q] = faults[p]
        BY <2>2, <2>6, <3>1
      <4>3. fanouts'[q][r] <= 1 + faults'[q]
        BY ONLY <4>1, <4>2
      <4>4. Settled(q, r)'
        BY <2>1, <2>2, <2>3, <3>1 DEF Settled, OutboxTypeOK, s
      <4> QED
        BY <4>3, <4>4
    <3>2. CASE q # p \/ r # s
      BY <1>1, <2>2, <2>5, <2>6, <3>2
    <3> QED
      BY <3>1, <3>2
  <2>8. ASSUME NEW q \in Publishers, step'[q] = "mark"
        PROVE  fanouts'[q][First(q)'] > 0
    <3>1. CASE q = p
      BY <1>1, <2>1, <2>3, <2>6, <3>1 DEF s
    <3>2. CASE q # p
      <4>1. step[q] = "mark" /\ fanouts[q][First(q)] > 0 /\ First(q) \in Rows
        BY <2>2, <2>8, <3>2, FirstInBatch DEF SentOnce, OutboxTypeOK
      <4> QED
        BY <2>3, <2>6, <3>2, <4>1
    <3> QED
      BY <3>1, <3>2
  <2> QED
    BY <2>7, <2>8 DEF SentOnce
<1>5. ASSUME NEW p \in Publishers, Mark(p)
      PROVE  SentOnce'
  <2> DEFINE s == First(p)
  <2>1. /\ published' = published \union {s} /\ s \notin batch'[p] /\ step'[p] # "mark"
        /\ \A q \in Publishers \ {p} : step'[q] = step[q] /\ batch'[q] = batch[q]
        /\ batch'[p] \subseteq batch[p]
        /\ UNCHANGED <<fanouts, faults>>
    BY <1>5 DEF Mark, Marked, OutboxTypeOK, outboxHistory
  <2>2. \A q \in Publishers, r \in Rows : Settled(q, r) => Settled(q, r)'
    <3>1. \A q \in Publishers \ {p} : First(q)' = First(q)
      BY <2>1 DEF First
    <3> QED
      BY <2>1, <3>1 DEF Settled
  <2>3. \A q \in Publishers :
         step'[q] = "mark" => step[q] = "mark" /\ First(q)' = First(q)
    BY <2>1 DEF First
  <2> QED
    BY <1>1, <2>1, <2>2, <2>3 DEF SentOnce
<1>6. ASSUME NEW p \in Publishers, MarkFails(p) \/ Crash(p)
      PROVE  SentOnce'
  <2>1. /\ faults'[p] = faults[p] + 1 /\ step'[p] = "idle"
        /\ \A q \in Publishers \ {p} :
             step'[q] = step[q] /\ batch'[q] = batch[q] /\ faults'[q] = faults[q]
        /\ published \subseteq published' /\ UNCHANGED fanouts
    BY <1>6 DEF MarkFails, Crash, BreakOff, Marked, OutboxTypeOK, outboxHistory
  <2>2. \A q \in Publishers \ {p} : First(q)' = First(q)
    BY <2>1 DEF First
  <2>3. \A q \in Publishers \ {p}, r \in Rows : Settled(q, r) => Settled(q, r)'
    BY <2>1, <2>2 DEF Settled
  <2>4. ASSUME NEW q \in Publishers, NEW r \in Rows
        PROVE  Bounds(q, r)'
    BY <1>1, <2>1, <2>3
  <2>5. \A q \in Publishers :
         step'[q] = "mark" => step[q] = "mark" /\ First(q)' = First(q)
    BY <2>1, <2>2
  <2> QED
    BY <2>1, <2>4, <2>5 DEF SentOnce
<1>7. ASSUME NEW d \in sending, Answer(d) \/ NoAnswer(d)
      PROVE  SentOnce'
  BY <1>2, <1>7 DEF Answer, NoAnswer, outboxHistory
<1>8. CASE Enqueue
  BY <1>2, <1>8 DEF Enqueue, outboxHistory
<1> QED
  BY <1>3, <1>4, <1>5, <1>6, <1>7, <1>8 DEF OutboxNext, Publish

LEMMA CountsChange ==
  ASSUME NEW S, IsFiniteSet(S), NEW x
  PROVE  /\ \A T \in SUBSET S : IsFiniteSet(T) /\ Cardinality(T) <= Cardinality(S)
         /\ IsFiniteSet(S \union {x}) /\ Cardinality(S \union {x}) <= Cardinality(S) + 1
         /\ x \in S => Cardinality(S \ {x}) = Cardinality(S) - 1
         /\ Cardinality(S) \in Nat /\ Cardinality(S \ {x}) \in Nat
         /\ Cardinality(S \union {x}) \in Nat
<1>1. IsFiniteSet(S \union {x}) /\ IsFiniteSet(S \ {x})
  BY FS_AddElement, FS_RemoveElement
<1> QED
  BY <1>1, FS_Subset, FS_AddElement, FS_RemoveElement, FS_CardinalityType

\* How often a row was sent, is being sent and was accepted.
LEMMA SentBeforeAcceptedKept ==
  ASSUME OutboxTypeOK, SentBeforeAccepted, OutboxNext
  PROVE  SentBeforeAccepted'
<1> DEFINE Bounds(p, r, e) ==
             /\ IsFiniteSet(Under(p, r, e))
             /\ accepted[p][r][e] + Cardinality(Under(p, r, e)) <= fanouts[p][r]
             /\ delivered[p][r][e] <= accepted[p][r][e]
<1>1. ASSUME NEW p \in Publishers, NEW r \in Rows, NEW e \in Endpoints
      PROVE  /\ fanouts[p][r] \in Nat /\ accepted[p][r][e] \in Nat /\ delivered[p][r][e] \in Nat
             /\ Bounds(p, r, e) /\ Cardinality(Under(p, r, e)) \in Nat
  BY FS_CardinalityType DEF OutboxTypeOK, SentBeforeAccepted
<1>2. \A d \in sending : d.by \in Publishers /\ d.row \in Rows /\ d.to \in Endpoints
  BY DEF OutboxTypeOK, Delivery
\* Deliveries end unanswered.
<1>3. CASE sending' \subseteq sending /\ UNCHANGED <<accepted, delivered, fanouts>>
  <2>1. ASSUME NEW p \in Publishers, NEW r \in Rows, NEW e \in Endpoints
        PROVE  Bounds(p, r, e)'
    <3>1. Under(p, r, e)' \subseteq Under(p, r, e)
      BY <1>3 DEF Under
    <3>2. /\ IsFiniteSet(Under(p, r, e)')
          /\ Cardinality(Under(p, r, e)') <= Cardinality(Under(p, r, e))
          /\ Cardinality(Under(p, r, e)') \in Nat
      BY <1>1, <3>1, CountsChange, FS_CardinalityType
    <3> QED
      BY <1>1, <1>3, <3>2
  <2> QED
    BY <1>3, <2>1 DEF SentBeforeAccepted
<1>4. ASSUME NEW p \in Publishers, FanOut(p)
      PROVE  SentBeforeAccepted'
  <2> DEFINE s == First(p)
             k == fanouts[p][s] + 1
  <2>1. s \in Rows
    BY <1>4, FirstInBatch DEF FanOut
  <2> HIDE DEF s
  <2>2. PICK to \in SUBSET Subscribed[s] :
          /\ sending' = sending \union [by : {p}, row : {s}, to : to, n : {k}]
          /\ fanouts' = [fanouts EXCEPT ![p][s] = k]
          /\ UNCHANGED <<accepted, delivered>>
    BY <1>4 DEF FanOut, s
  <2>3. /\ fanouts'[p][s] = fanouts[p][s] + 1 /\ fanouts[p][s] \in Nat
        /\ \A q \in Publishers, r \in Rows :
             q # p \/ r # s => fanouts'[q][r] = fanouts[q][r]
    BY <2>1, <2>2 DEF OutboxTypeOK
  <2>4. ASSUME NEW d \in sending'
        PROVE  d.n <= fanouts'[d.by][d.row]
    <3>1. CASE d \in sending
      <4>1. d.n \in Nat /\ d.n <= fanouts[d.by][d.row] /\ fanouts[d.by][d.row] \in Nat
        BY <1>2, <3>1 DEF SentBeforeAccepted, OutboxTypeOK, Delivery
      <4> QED
        BY <1>2, <2>3, <3>1, <4>1
    <3>2. CASE d \notin sending
      <4>1. d.by = p /\ d.row = s /\ d.n = k
        BY <2>2, <3>2
      <4> QED
        BY <2>3, <4>1
    <3> QED
      BY <3>1, <3>2
  <2>5. ASSUME NEW q \in Publishers, NEW r \in Rows, NEW e \in Endpoints
        PROVE  Bounds(q, r, e)'
    <3>1. CASE q = p /\ r = s
      <4> DEFINE d == [by |-> p, row |-> s, to |-> e, n |-> k]
      <4>1. Under(q, r, e)' \subseteq Under(q, r, e) \union {d}
        BY <2>2, <3>1 DEF Under
      <4> HIDE DEF d
      <4>2. /\ IsFiniteSet(Under(q, r, e)')
            /\ Cardinality(Under(q, r, e)') <= Cardinality(Under(q, r, e)) + 1
            /\ Cardinality(Under(q, r, e)') \in Nat
        <5>1. /\ IsFiniteSet(Under(q, r, e) \union {d})
              /\ Cardinality(Under(q, r, e) \union {d}) <= Cardinality(Under(q, r, e)) + 1
              /\ Cardinality(Under(q, r, e) \union {d}) \in Nat
          BY <1>1, CountsChange
        <5>2. /\ IsFiniteSet(Under(q, r, e)')
              /\ Cardinality(Under(q, r, e)') <= Cardinality(Under(q, r, e) \union {d})
          BY <4>1, <5>1, CountsChange
        <5> QED
          BY <1>1, <5>1, <5>2, FS_CardinalityType
      <4> QED
        BY <1>1, <2>2, <2>3, <3>1, <4>2
    <3>2. CASE q # p \/ r # s
      <4>1. Under(q, r, e)' = Under(q, r, e)
        BY <2>2, <3>2 DEF Under
      <4> QED
        BY <1>1, <2>2, <2>3, <3>2, <4>1
    <3> QED
      BY <3>1, <3>2
  <2> QED
    BY <2>4, <2>5 DEF SentBeforeAccepted
<1>5. ASSUME NEW d \in sending, Answer(d) \/ NoAnswer(d)
      PROVE  SentBeforeAccepted'
  <2>1. d.by \in Publishers /\ d.row \in Rows /\ d.to \in Endpoints
    BY <1>2
  <2>2. /\ sending' = sending \ {d} /\ UNCHANGED fanouts
        /\ \/ accepted' = accepted /\ delivered' = delivered
           \/ /\ accepted' = [accepted EXCEPT ![d.by][d.row][d.to] = @ + 1]
              /\ \/ delivered' = delivered
                 \/ delivered' = [delivered EXCEPT ![d.by][d.row][d.to] = @ + 1]
    BY <1>5 DEF Answer, NoAnswer, RecordDelivery, StatusOf, outboxHistory
  <2>3. ASSUME NEW q \in Publishers, NEW r \in Rows, NEW e \in Endpoints
        PROVE  Bounds(q, r, e)'
    <3>1. CASE q = d.by /\ r = d.row /\ e = d.to
      <4>1. d \in Under(q, r, e) /\ Under(q, r, e)' = Under(q, r, e) \ {d}
        BY <2>2, <3>1 DEF Under
      <4>2. /\ IsFiniteSet(Under(q, r, e)')
            /\ Cardinality(Under(q, r, e)') = Cardinality(Under(q, r, e)) - 1
        BY <1>1, <4>1, CountsChange
      <4>3. \/ /\ accepted'[q][r][e] = accepted[q][r][e]
               /\ delivered'[q][r][e] = delivered[q][r][e]
            \/ /\ accepted'[q][r][e] = accepted[q][r][e] + 1
               /\ \/ delivered'[q][r][e] = delivered[q][r][e]
                  \/ delivered'[q][r][e] = delivered[q][r][e] + 1
        BY <2>1, <2>2, <3>1 DEF OutboxTypeOK
      <4> QED
        BY <1>1, <2>2, <4>2, <4>3
    <3>2. CASE q # d.by \/ r # d.row \/ e # d.to
      <4>1. Under(q, r, e)' = Under(q, r, e)
        BY <2>2, <3>2 DEF Under
      <4>2. /\ accepted'[q][r][e] = accepted[q][r][e]
            /\ delivered'[q][r][e] = delivered[q][r][e]
        BY <2>1, <2>2, <3>2 DEF OutboxTypeOK
      <4> QED
        BY <1>1, <2>2, <4>1, <4>2
    <3> QED
      BY <3>1, <3>2
  <2> QED
    BY <2>2, <2>3 DEF SentBeforeAccepted
<1>6. CASE Enqueue
  BY <1>3, <1>6 DEF Enqueue, outboxHistory
<1>7. ASSUME NEW p \in Publishers, Poll(p) \/ Mark(p) \/ MarkFails(p) \/ Crash(p)
      PROVE  SentBeforeAccepted'
  BY <1>3, <1>7 DEF Poll, Mark, MarkFails, Crash, outboxHistory
<1> QED
  BY <1>4, <1>5, <1>6, <1>7 DEF OutboxNext, Publish

\* What a step does to the record of who was sent a row.
LEMMA ReachedFrame ==
  ASSUME OutboxNext
  PROVE  \/ UNCHANGED <<reached, misread>>
         \/ \E p \in Publishers : FanOut(p)
  BY DEF OutboxNext, Publish, Enqueue, Poll, Mark, MarkFails, Crash, Answer,
         NoAnswer, outboxHistory

\* A fan-out sends the row to every endpoint or is recorded as misread, and
\* takes nothing away from other rows.
LEMMA FanOutReaches ==
  ASSUME OutboxTypeOK, SentToAll, NEW p \in Publishers, FanOut(p)
  PROVE  /\ Whole(First(p))'
         /\ \A r \in Rows : reached'[r] \subseteq Subscribed[r]
         /\ \A r \in Rows : Whole(r) => Whole(r)'
<1> DEFINE s == First(p)
<1>1. s \in Rows
  BY FirstInBatch DEF FanOut
<1>2. First(p)' = s
  BY DEF FanOut, First
<1>3. PICK to \in SUBSET Subscribed[s] :
        /\ reached' = [reached EXCEPT ![s] = @ \union to]
        /\ misread' = IF to = Subscribed[s] THEN misread ELSE misread \union {s}
  BY DEF FanOut
<1> HIDE DEF s
<1>4. /\ reached'[s] = reached[s] \union to
      /\ \A r \in Rows : r # s => reached'[r] = reached[r]
      /\ misread \subseteq misread'
      /\ to # Subscribed[s] => s \in misread'
  BY <1>1, <1>3 DEF OutboxTypeOK
<1>5. reached'[s] \subseteq Subscribed[s]
  BY <1>1, <1>3, <1>4 DEF SentToAll
<1>6. s \in misread' \/ reached'[s] = Subscribed[s]
  BY <1>4, <1>5
<1> QED
  BY <1>1, <1>2, <1>4, <1>5, <1>6 DEF Whole, SentToAll

\* What is about to be marked, and what is published, was sent to all.
LEMMA PublishedKept ==
  ASSUME OutboxTypeOK, PublishedWasFannedOut, SentToAll, OutboxNext
  PROVE  PublishedWasFannedOut' /\ SentToAll'
<1>1. /\ \A r \in Rows : Whole(r) => Whole(r)'
      /\ \A r \in Rows : reached'[r] \subseteq Subscribed[r]
  <2>1. CASE UNCHANGED <<reached, misread>>
    BY <2>1 DEF Whole, SentToAll
  <2> QED
    BY <2>1, ReachedFrame, FanOutReaches
<1>2. \A p \in Publishers :
        step'[p] = "mark" => \/ step[p] = "mark" /\ First(p)' = First(p)
                            \/ FanOut(p)
  <2>1. ASSUME NEW q \in Publishers, Publish(q) \/ MarkFails(q) \/ Crash(q),
               NEW p \in Publishers, step'[p] = "mark"
        PROVE  (step[p] = "mark" /\ batch'[p] = batch[p]) \/ FanOut(p)
    <3>1. CASE Poll(q)
      BY <2>1, <3>1 DEF Poll, OutboxTypeOK
    <3>2. CASE FanOut(q)
      <4>1. batch' = batch /\ step' = [step EXCEPT ![q] = "mark"]
        BY <3>2 DEF FanOut
      <4>2. p # q => step'[p] = step[p]
        BY <4>1 DEF OutboxTypeOK
      <4> QED
        BY <2>1, <3>2, <4>1, <4>2
    <3>3. CASE Mark(q)
      BY <2>1, <3>3 DEF Mark, OutboxTypeOK
    <3>4. CASE MarkFails(q) \/ Crash(q)
      BY <2>1, <3>4 DEF MarkFails, Crash, BreakOff, OutboxTypeOK
    <3> QED
      BY <2>1, <3>1, <3>2, <3>3, <3>4 DEF Publish
  <2>2. CASE UNCHANGED <<step, batch>>
    BY <2>2 DEF First
  <2> QED
    BY <2>1, <2>2 DEF OutboxNext, Enqueue, Answer, NoAnswer, First
<1>3. ASSUME NEW p \in Publishers, step'[p] = "mark"
      PROVE  Whole(First(p))'
  <2>1. CASE FanOut(p)
    BY <2>1, FanOutReaches
  <2>2. CASE step[p] = "mark" /\ First(p)' = First(p)
    <3>1. PICK r \in Rows : r = First(p)
      BY <2>2, FirstInBatch
    <3>2. Whole(r)
      BY <2>2, <3>1 DEF SentToAll
    <3>3. Whole(r)'
      BY <1>1, <3>2
    <3>4. First(p)' = r
      BY <2>2, <3>1
    <3> QED
      BY <3>3, <3>4 DEF Whole
  <2> QED
    BY <1>2, <1>3, <2>1, <2>2
<1>4. \A r \in published' : r \in published \/ \E p \in Publishers : step[p] = "mark" /\ r = First(p)
  BY DEF OutboxNext, Publish, Enqueue, Poll, FanOut, Mark, MarkFails, Marked,
         Crash, Answer, NoAnswer
<1>5. ASSUME NEW r \in published'
      PROVE  Whole(r)'
  <2>1. CASE r \in published
    BY <1>1, <2>1 DEF PublishedWasFannedOut, Whole, OutboxTypeOK
  <2>2. ASSUME NEW p \in Publishers, step[p] = "mark", r = First(p)
        PROVE  Whole(r)'
    BY <1>1, <2>2, FirstInBatch DEF SentToAll
  <2> QED
    BY <1>4, <2>1, <2>2
<1> QED
  BY <1>1, <1>3, <1>5 DEF PublishedWasFannedOut, SentToAll, Whole

LEMMA OutboxInvHolds == OutboxSpec => []OutboxInv
<1>1. OutboxInit => OutboxInv
  <2> SUFFICES ASSUME OutboxInit PROVE OutboxInv
    OBVIOUS
  <2>1. OutboxTypeOK /\ PublishedWasFannedOut /\ SentOnce /\ SentToAll
    BY DEF OutboxInit, OutboxTypeOK, PublishedWasFannedOut, SentOnce, SentToAll
  <2>2. \A p \in Publishers, r \in Rows, e \in Endpoints : Under(p, r, e) = {}
    BY DEF OutboxInit, Under
  <2>3. ASSUME NEW p \in Publishers, NEW r \in Rows, NEW e \in Endpoints
        PROVE  /\ IsFiniteSet(Under(p, r, e)) /\ Cardinality(Under(p, r, e)) = 0
               /\ accepted[p][r][e] = 0 /\ delivered[p][r][e] = 0 /\ fanouts[p][r] = 0
    BY <2>2, FS_EmptySet DEF OutboxInit
  <2>4. sending = {}
    BY DEF OutboxInit
  <2>5. SentBeforeAccepted
    BY <2>3, <2>4 DEF SentBeforeAccepted
  <2> QED
    BY <2>1, <2>5 DEF OutboxInv
<1>2. OutboxInv /\ [OutboxNext]_outboxVars => OutboxInv'
  <2>1. ASSUME OutboxInv, UNCHANGED outboxVars
        PROVE  OutboxInv'
    <3>1. /\ UNCHANGED <<created, published, step, batch, sending>>
          /\ UNCHANGED <<accepted, delivered, fanouts, reached, misread, faults>>
      BY <2>1 DEF outboxVars, outboxHistory
    <3>2. OutboxTypeOK' /\ PublishedWasFannedOut'
      BY <2>1, <3>1 DEF OutboxInv, OutboxTypeOK, PublishedWasFannedOut
    <3>3. SentOnce' /\ SentToAll'
      BY <2>1, <3>1 DEF OutboxInv, SentOnce, SentToAll, Whole, Settled, First
    <3>4. SentBeforeAccepted'
      BY <2>1, <3>1 DEF OutboxInv, SentBeforeAccepted, Under
    <3> QED
      BY <3>2, <3>3, <3>4 DEF OutboxInv
  <2>2. ASSUME OutboxInv, OutboxNext
        PROVE  OutboxInv'
    BY <2>2, OutboxTyped, SentOnceKept, SentBeforeAcceptedKept, PublishedKept DEF OutboxInv
  <2> QED
    BY <2>1, <2>2
<1> QED
  BY <1>1, <1>2, PTL DEF OutboxSpec

\* Every publisher sends a row again only after a fault of its own, an endpoint
\* accepts it no more often than it is sent, and what is recorded as delivered
\* was accepted (publishOutbox, fanOut, deliver, recordDelivery).
THEOREM SentAgainAfterFault == OutboxSpec => []ResentOnlyAfterFault
<1>1. OutboxInv => ResentOnlyAfterFault
  <2> SUFFICES ASSUME OutboxInv, NEW p \in Publishers, NEW r \in Rows
               PROVE  /\ fanouts[p][r] <= 1 + faults[p]
                      /\ \A e \in Endpoints : /\ delivered[p][r][e] <= accepted[p][r][e]
                                              /\ accepted[p][r][e] <= fanouts[p][r]
    BY DEF ResentOnlyAfterFault
  <2>1. ASSUME NEW e \in Endpoints
        PROVE  accepted[p][r][e] <= fanouts[p][r]
    <3>1. /\ Cardinality(Under(p, r, e)) \in Nat
          /\ accepted[p][r][e] + Cardinality(Under(p, r, e)) <= fanouts[p][r]
          /\ accepted[p][r][e] \in Nat /\ fanouts[p][r] \in Nat
      BY FS_CardinalityType DEF OutboxInv, SentBeforeAccepted, OutboxTypeOK
    <3> QED
      BY <3>1
  <2> QED
    BY <2>1 DEF OutboxInv, SentOnce, SentBeforeAccepted
<1> QED
  BY <1>1, OutboxInvHolds, PTL

\* Whatever is marked published was sent to every subscribed endpoint, unless a
\* fan-out of it could not read them (publishOutbox, fanOut), however publishers
\* overlap, fail and crash.
THEOREM PublishedAfterFanOut == OutboxSpec => []PublishedWasFannedOut
<1>1. OutboxInv => PublishedWasFannedOut
  BY DEF OutboxInv
<1> QED
  BY <1>1, OutboxInvHolds, PTL
=============================================================================
