-------------------------- MODULE ChallengeProofs --------------------------
(***************************************************************************)
(* Theorems about Challenge, for any specifications, any number of windows *)
(* and any order of events: the saved rows count the events, and the       *)
(* rewards are issued when they were earned.                               *)
(***************************************************************************)
EXTENDS Challenge, Streak, FiniteSetTheorems, WellFoundedInduction, TLAPS

\* The rows are those of the windows that had events.
SavedIffSeen ==
  /\ \A w \in Window : w \in Saved <=> events[w] > 0
  /\ latest = NoRow => Saved = {}

\* While events arrive in order the loaded row is that of the last window.
LoadsLast == ~late => \A v \in Saved : v <= latest

\* A row is completed exactly when it has reached the target.
CompletedAtTarget ==
  \A w \in Saved :
    /\ rows[w].progress >= 1
    /\ rows[w].status = "completed" <=> Target > 0 /\ rows[w].progress >= Target

\* The events of a window pay for the rewards it issued and for the progress
\* that has not issued any yet.
PaidFor ==
  \A w \in Window :
    /\ Target <= 0 => rewarded[w] = 0
    /\ rewarded[w] * Target <= events[w]
    /\ w \in Saved /\ rows[w].status # "completed"
         => rewarded[w] * Target + rows[w].progress <= events[w]

ChallengeInv ==
  /\ TypeOK
  /\ SavedIffSeen
  /\ LoadsLast
  /\ CompletedAtTarget
  /\ ProgressCountsEvents
  /\ RewardedIffCompleted
  /\ PaidFor
-----------------------------------------------------------------------------
\* What an event does to the row of its window: the row it continues, or a new
\* one that starts with this event.
Continues(w) == latest = w
Done(progress) == Target > 0 /\ progress >= Target
NextProgress(w) == IF Continues(w) THEN rows[w].progress + 1 ELSE 1

LEMMA Outcome ==
  ASSUME TypeOK, CompletedAtTarget, NEW w \in Window, Process(w)
  PROVE  /\ latest' = w
         /\ rows' \in [Window -> Instance \union {NoRow}]
         /\ rows'[w] \in Instance /\ rows'[w].window = w
         /\ \A v \in Window \ {w} : rows'[v] = rows[v]
         /\ Continues(w) /\ rows[w].status = "completed" =>
              rows'[w] = rows[w] /\ rewarded' = rewarded
         /\ ~(Continues(w) /\ rows[w].status = "completed") =>
              /\ rows'[w].progress = NextProgress(w)
              /\ rows'[w].status = "completed" <=> Done(NextProgress(w))
              /\ rewarded'[w] =
                   IF /\ Done(NextProgress(w))
                      /\ latest # NoRow => rows[latest].status # "completed"
                   THEN rewarded[w] + 1 ELSE rewarded[w]
<1> DEFINE c == Loaded(w)
           r == Rollover(c, w)
           next == Advance(r, 1)
<1>1. Target \in Int /\ Triggered \in BOOLEAN
  BY ChallengeAssumption DEF TypeOK, Target, Triggered
<1>2. c \in Instance
  BY <1>1 DEF Loaded, Fresh, Instance, Status, TypeOK, Saved
<1>3. /\ latest = NoRow => c = Fresh(w)
      /\ latest # NoRow => latest \in Saved /\ c = rows[latest] /\ c.window = latest
  BY DEF Loaded, TypeOK
<1>4. latest = NoRow => c.window = w /\ c.progress = 0 /\ c.status # "completed"
  BY <1>3 DEF Fresh
<1>5. c.window = w <=> latest = NoRow \/ Continues(w)
  BY <1>3, <1>4 DEF Continues
<1>6. r \in Instance /\ r.window = w
  BY <1>2 DEF Rollover, Instance, Status
<1>7. /\ Continues(w) => r = rows[w]
      /\ ~Continues(w) => r.progress = 0 /\ r.status # "completed"
  BY <1>3, <1>4, <1>5, ChallengeAssumption DEF Rollover, Continues
<1> HIDE DEF r, c
<1>8. next \in Instance /\ next.window = w
  <2> DEFINE reached == Target > 0 /\ r.progress + 1 >= Target
             progress == IF reached THEN Target ELSE r.progress + 1
             status == IF reached THEN "completed" ELSE "in_progress"
             granted == r.granted \/ reached
  <2>1. progress \in Int /\ status \in Status /\ granted \in BOOLEAN
    BY <1>1, <1>6 DEF Instance, Status
  <2>2. next = r \/ next = [r EXCEPT !.progress = progress, !.status = status,
                                   !.granted = granted]
    BY DEF Advance
  <2> HIDE DEF progress, status, granted, next
  <2> QED
    BY <1>6, <2>1, <2>2 DEF Instance
<1>9. /\ r.status = "completed" => next = r
      /\ r.status # "completed" =>
           /\ next.progress = IF Done(r.progress + 1) THEN Target ELSE r.progress + 1
           /\ next.status = "completed" <=> Done(r.progress + 1)
  BY <1>1, <1>6 DEF Advance, Instance, Done
<1>10. /\ rows' = [rows EXCEPT ![next.window] = next]
       /\ latest' = next.window
       /\ rewarded' = [rewarded EXCEPT ![w] = IF Issues(c, w) THEN @ + 1 ELSE @]
  BY DEF Process, c, r
<1>11. Issues(c, w) <=>
         r.status # "completed" /\ next.status = "completed" /\ c.status # "completed"
  BY DEF Issues, Completes, r
<1> HIDE DEF next
<1>12. rows \in [Window -> Instance \union {NoRow}] /\ rewarded \in [Window -> Nat]
  BY DEF TypeOK
<1>13. /\ rows' \in [Window -> Instance \union {NoRow}]
       /\ rows'[w] = next
       /\ \A v \in Window \ {w} : rows'[v] = rows[v]
  BY <1>8, <1>10, <1>12
<1>14. rewarded'[w] = IF Issues(c, w) THEN rewarded[w] + 1 ELSE rewarded[w]
  BY <1>10, <1>12
<1>15. ASSUME r.status # "completed"
       PROVE  Done(r.progress + 1) => r.progress + 1 = Target
  <2>1. CASE Continues(w)
    <3>1. r = rows[w] /\ w \in Saved
      BY <2>1, <1>3, <1>7, ChallengeAssumption DEF Continues
    <3>2. ~(Target > 0 /\ r.progress >= Target) /\ r.progress \in Int
      BY <1>6, <1>15, <3>1 DEF CompletedAtTarget, Instance
    <3> QED
      BY <1>1, <3>2 DEF Done
  <2>2. CASE ~Continues(w)
    BY <1>1, <1>7, <2>2 DEF Done
  <2> QED
    BY <2>1, <2>2
<1>16. r.progress + 1 = NextProgress(w)
  BY <1>7 DEF NextProgress
<1>17. CASE Continues(w) /\ rows[w].status = "completed"
  <2>1. r.status = "completed" /\ r = rows[w]
    BY <1>7, <1>17
  <2>2. rewarded' = rewarded
    BY <1>10, <1>11, <1>12, <2>1
  <2> QED
    BY <1>8, <1>9, <1>10, <1>13, <1>17, <2>1, <2>2
<1>18. CASE ~(Continues(w) /\ rows[w].status = "completed")
  <2>1. r.status # "completed"
    BY <1>7, <1>18
  <2>2. /\ next.progress = NextProgress(w)
        /\ next.status = "completed" <=> Done(NextProgress(w))
    BY <1>9, <1>15, <1>16, <2>1
  <2>3. c.status # "completed" <=> (latest # NoRow => rows[latest].status # "completed")
    BY <1>3, <1>4
  <2> QED
    BY <1>8, <1>10, <1>11, <1>13, <1>14, <1>18, <2>1, <2>2, <2>3
<1> QED
  BY <1>17, <1>18

\* What an event does to the histories and to the set of rows.
LEMMA Recorded ==
  ASSUME ChallengeInv, NEW w \in Window, Process(w)
  PROVE  /\ spec' = spec /\ latest' = w /\ late \in BOOLEAN /\ late' \in BOOLEAN
         /\ events' \in [Window -> Nat] /\ rewarded' \in [Window -> Nat]
         /\ events'[w] = events[w] + 1
         /\ \A v \in Window \ {w} : events'[v] = events[v] /\ rewarded'[v] = rewarded[v]
         /\ Saved' = Saved \union {w}
         /\ ~late' => ~late /\ \A v \in Saved : v <= w
         /\ ~late' /\ ~Continues(w) => w \notin Saved /\ events[w] = 0
<1>1. TypeOK /\ CompletedAtTarget /\ SavedIffSeen /\ LoadsLast
  BY DEF ChallengeInv
<1>2. spec' = spec /\ latest' = w
  BY <1>1, Outcome DEF Process
<1>3. /\ events \in [Window -> Nat] /\ rewarded \in [Window -> Nat] /\ late \in BOOLEAN
      /\ events' = [events EXCEPT ![w] = @ + 1]
  BY <1>1 DEF TypeOK, Process
<1>4. /\ events' \in [Window -> Nat] /\ events'[w] = events[w] + 1
      /\ \A v \in Window \ {w} : events'[v] = events[v]
  BY <1>3
<1>5. /\ rewarded' \in [Window -> Nat]
      /\ \A v \in Window \ {w} : rewarded'[v] = rewarded[v]
  BY <1>3 DEF Process
<1>6. Saved' = Saved \union {w}
  <2>1. rows'[w] # NoRow /\ \A v \in Window \ {w} : rows'[v] = rows[v]
    BY <1>1, Outcome, ChallengeAssumption
  <2> QED
    BY <2>1 DEF Saved
<1>7. late' = (late \/ \E v \in Window : v > w /\ events[v] > 0)
  BY DEF Process
<1>8. late' \in BOOLEAN
  BY <1>3, <1>7
<1>9. ASSUME ~late'
       PROVE  ~late /\ \A v \in Saved : v <= w
  <2>1. ~late /\ \A v \in Window : v > w => ~(events[v] > 0)
    BY <1>7, <1>9
  <2>2. \A v \in Saved : v \in Window /\ ~(v > w)
    BY <1>1, <2>1 DEF SavedIffSeen, Saved
  <2> QED
    BY <2>1, <2>2, ChallengeAssumption DEF Window
<1>10. ASSUME ~late', ~Continues(w)
       PROVE  w \notin Saved /\ events[w] = 0
  <2>1. CASE latest = NoRow
    BY <1>1, <1>3, <2>1 DEF SavedIffSeen
  <2>2. CASE latest # NoRow
    <3>1. latest \in Saved /\ latest \in Window /\ latest <= w /\ latest # w
      BY <1>1, <1>9, <1>10, <2>2 DEF TypeOK, Continues, Saved
    <3>2. w \notin Saved
      BY <1>1, <1>9, <1>10, <3>1, ChallengeAssumption DEF LoadsLast, Window
    <3> QED
      BY <1>1, <1>3, <3>2 DEF SavedIffSeen
  <2> QED
    BY <2>1, <2>2
<1> QED
  BY <1>2, <1>3, <1>4, <1>5, <1>6, <1>8, <1>9, <1>10

\* Arithmetic of one more reward.
LEMMA OneMore == \A k, t \in Int : (k + 1) * t = k * t + t /\ k * t \in Int
OBVIOUS

LEMMA ProcessKeeps ==
  ASSUME ChallengeInv, NEW w \in Window, Process(w)
  PROVE  ChallengeInv'
<1> DEFINE new == NextProgress(w)
           over == Continues(w) /\ rows[w].status = "completed"
<1>1. /\ TypeOK /\ SavedIffSeen /\ LoadsLast /\ CompletedAtTarget
      /\ ProgressCountsEvents /\ RewardedIffCompleted /\ PaidFor
  BY DEF ChallengeInv
<1>2. /\ Target \in Int /\ Target' = Target /\ Window \subseteq Int
      /\ events \in [Window -> Nat] /\ rewarded \in [Window -> Nat]
      /\ \A v \in Saved : v \in Window /\ rows[v] \in Instance /\ rows[v].window = v
  <2>1. spec \in Specs /\ spec' = spec /\ rows \in [Window -> Instance \union {NoRow}]
    BY <1>1, Recorded DEF TypeOK
  <2>2. spec.target \in Int
    BY <2>1, ChallengeAssumption
  <2> QED
    <3>1. Target \in Int /\ Target' = Target
      BY <2>1, <2>2 DEF Target
    <3>2. Window \subseteq Int
      BY ChallengeAssumption DEF Window
    <3>3. \A v \in Saved : v \in Window /\ rows[v] \in Instance /\ rows[v].window = v
      BY <1>1, <2>1 DEF TypeOK, Saved
    <3> QED
      BY <1>1, <3>1, <3>2, <3>3 DEF TypeOK
<1>3. /\ latest' = w /\ Saved' = Saved \union {w}
      /\ events' \in [Window -> Nat] /\ rewarded' \in [Window -> Nat]
      /\ events'[w] = events[w] + 1
      /\ \A v \in Window \ {w} : events'[v] = events[v] /\ rewarded'[v] = rewarded[v]
      /\ late' \in BOOLEAN
      /\ ~late' => ~late /\ \A v \in Saved : v <= w
      /\ ~late' /\ ~Continues(w) => w \notin Saved /\ events[w] = 0
  BY Recorded
<1>4. /\ rows' \in [Window -> Instance \union {NoRow}]
      /\ rows'[w] \in Instance /\ rows'[w].window = w
      /\ \A v \in Window \ {w} : rows'[v] = rows[v]
      /\ over => rows'[w] = rows[w] /\ rewarded' = rewarded
      /\ ~over =>
           /\ rows'[w].progress = new
           /\ rows'[w].status = "completed" <=> Done(new)
           /\ rewarded'[w] =
                IF Done(new) /\ (latest # NoRow => rows[latest].status # "completed")
                THEN rewarded[w] + 1 ELSE rewarded[w]
  BY <1>1, Outcome
<1>5. /\ Continues(w) => w \in Saved
      /\ new \in Int /\ new >= 1
  <2>1. Continues(w) => w \in Saved
    BY <1>1, ChallengeAssumption DEF Continues, TypeOK
  <2>2. w \in Saved => rows[w].progress \in Int /\ rows[w].progress >= 1
    BY <1>1, <1>2 DEF CompletedAtTarget, Instance
  <2> QED
    BY <2>1, <2>2 DEF NextProgress
<1> HIDE DEF new
<1>6. TypeOK'
  <2>1. spec' \in Specs
    BY <1>1, Recorded DEF TypeOK
  <2>2. \A v \in Saved' : rows'[v].window = v
    BY <1>2, <1>3, <1>4
  <2>3. latest' \in Saved'
    BY <1>3
  <2> QED
    BY <1>3, <1>4, <2>1, <2>2, <2>3 DEF TypeOK
<1>7. SavedIffSeen'
  BY <1>1, <1>2, <1>3, ChallengeAssumption DEF SavedIffSeen
<1>8. LoadsLast'
  BY <1>2, <1>3 DEF LoadsLast
<1>9. ASSUME NEW v \in Saved'
      PROVE  /\ rows'[v].progress >= 1
             /\ rows'[v].status = "completed" <=> Done(rows'[v].progress)
  <2>1. v \in Saved => /\ rows[v].progress >= 1
                       /\ rows[v].status = "completed" <=> Done(rows[v].progress)
    BY <1>1 DEF CompletedAtTarget, Done
  <2>2. CASE v # w
    BY <1>2, <1>3, <1>4, <1>9, <2>1, <2>2
  <2>3. CASE v = w
    BY <1>4, <1>5, <2>1, <2>3
  <2> QED
    BY <2>2, <2>3
<1>10. CompletedAtTarget'
  BY <1>2, <1>9 DEF CompletedAtTarget, Done
<1>11. ProgressCountsEvents'
  <2> SUFFICES ASSUME ~late', NEW v \in Window, events'[v] > 0
               PROVE  /\ v \in Saved'
                      /\ rows'[v].progress =
                           IF Target > 0 /\ events'[v] > Target THEN Target
                           ELSE events'[v]
    BY <1>2 DEF ProgressCountsEvents
  <2>1. \A u \in Window : events[u] > 0 =>
           /\ u \in Saved
           /\ rows[u].progress =
                IF Target > 0 /\ events[u] > Target THEN Target ELSE events[u]
    BY <1>1, <1>3 DEF ProgressCountsEvents
  <2>2. CASE v # w
    BY <1>3, <1>4, <2>1, <2>2
  <2>3. CASE v = w /\ ~Continues(w)
    BY <1>2, <1>3, <1>4, <2>3 DEF NextProgress, new
  <2>4. CASE v = w /\ Continues(w)
    <3>1. /\ w \in Saved /\ events[w] > 0 /\ events[w] \in Nat
          /\ rows[w].progress =
               IF Target > 0 /\ events[w] > Target THEN Target ELSE events[w]
      BY <1>1, <1>2, <1>5, <2>1, <2>4 DEF SavedIffSeen
    <3>2. rows[w].status = "completed" <=> Done(rows[w].progress)
      BY <1>1, <3>1 DEF CompletedAtTarget, Done
    <3>3. CASE over
      BY <1>2, <1>3, <1>4, <2>4, <3>1, <3>2, <3>3 DEF Done
    <3>4. CASE ~over
      <4>1. rows'[w].progress = rows[w].progress + 1
        BY <1>4, <2>4, <3>4 DEF NextProgress, new
      <4>2. ~Done(rows[w].progress)
        BY <2>4, <3>2, <3>4
      <4> QED
        BY <1>2, <1>3, <2>4, <3>1, <4>1, <4>2 DEF Done
    <3> QED
      BY <3>3, <3>4
  <2> QED
    BY <2>2, <2>3, <2>4
<1>12. RewardedIffCompleted'
  <2> SUFFICES ASSUME ~late', NEW v \in Window
               PROVE  \/ rewarded'[v] = IF v \in Saved' /\ rows'[v].status = "completed"
                                        THEN 1 ELSE 0
                      \/ /\ Target = 1
                         /\ rewarded'[v] = 0
                         /\ \E u \in Saved' : u < v /\ rows'[u].status = "completed"
    BY <1>2 DEF RewardedIffCompleted
  <2>1. \/ rewarded[v] = IF v \in Saved /\ rows[v].status = "completed" THEN 1 ELSE 0
        \/ /\ Target = 1
           /\ rewarded[v] = 0
           /\ \E u \in Saved : u < v /\ rows[u].status = "completed"
    BY <1>1, <1>3 DEF RewardedIffCompleted
  <2>2. ASSUME v <= w, \E u \in Saved : u < v /\ rows[u].status = "completed"
        PROVE  \E u \in Saved' : u < v /\ rows'[u].status = "completed"
    <3>1. PICK u \in Saved : u < v /\ rows[u].status = "completed"
      BY <2>2
    <3>2. u # w /\ u \in Window
      BY <1>2, <2>2, <3>1
    <3> QED
      BY <1>3, <1>4, <3>1, <3>2
  <2>3. CASE v # w /\ v \in Saved
    BY <1>3, <1>4, <2>1, <2>2, <2>3
  <2>4. CASE v # w /\ v \notin Saved
    BY <1>3, <1>4, <2>1, <2>4
  <2>5. CASE v = w /\ over
    <3>1. v <= w /\ w \in Saved /\ w \in Saved'
      BY <1>2, <1>3, <1>5, <2>5
    <3> QED
      BY <1>3, <1>4, <2>1, <2>2, <2>5, <3>1
  <2>6. CASE v = w /\ ~over /\ Continues(w)
    <3>1. rewarded[w] = 0
      BY <2>1, <2>6
    <3>2. (latest # NoRow => rows[latest].status # "completed") /\ w \in Saved'
      BY <1>3, <2>6 DEF Continues
    <3> QED
      BY <1>4, <2>6, <3>1, <3>2
  <2>7. CASE v = w /\ ~Continues(w)
    <3>1. w \notin Saved /\ w \in Saved' /\ rewarded[w] = 0 /\ ~over
      BY <1>3, <2>1, <2>7
    <3>2. Done(new) => Target = 1
      BY <1>2, <2>7 DEF Done, NextProgress, new
    <3>3. CASE Done(new) /\ latest # NoRow /\ rows[latest].status = "completed"
      <4>1. latest \in Saved /\ latest < w /\ latest # w
        <5>1. latest \in Saved
          BY <1>1, <3>3 DEF TypeOK
        <5>2. latest \in Int /\ w \in Int /\ latest <= w /\ latest # w
          BY <1>2, <1>3, <2>7, <5>1 DEF Continues
        <5> QED
          BY <5>1, <5>2
      <4>2. latest \in Saved' /\ rows'[latest].status = "completed"
        BY <1>2, <1>3, <1>4, <3>3, <4>1
      <4> QED
        BY <1>4, <2>7, <3>1, <3>2, <3>3, <4>1, <4>2
    <3>4. CASE ~(Done(new) /\ latest # NoRow /\ rows[latest].status = "completed")
      BY <1>4, <2>7, <3>1, <3>4
    <3> QED
      BY <3>3, <3>4
  <2> QED
    BY <2>3, <2>4, <2>5, <2>6, <2>7
<1>13. PaidFor'
  <2> SUFFICES ASSUME NEW v \in Window
               PROVE  /\ Target <= 0 => rewarded'[v] = 0
                      /\ rewarded'[v] * Target <= events'[v]
                      /\ v \in Saved' /\ rows'[v].status # "completed"
                           => rewarded'[v] * Target + rows'[v].progress <= events'[v]
    BY <1>2 DEF PaidFor
  <2>1. /\ Target <= 0 => rewarded[v] = 0
        /\ rewarded[v] * Target <= events[v]
        /\ v \in Saved /\ rows[v].status # "completed"
             => rewarded[v] * Target + rows[v].progress <= events[v]
    BY <1>1 DEF PaidFor
  <2>2. CASE v # w
    BY <1>3, <1>4, <2>1, <2>2
  <2>3. CASE v = w
    <3> DEFINE k == rewarded[w]
    <3>1. /\ k \in Nat /\ k * Target \in Int /\ (k + 1) * Target = k * Target + Target
          /\ events[w] \in Nat
      BY <1>2, OneMore
    <3>2. CASE over
      BY <1>3, <1>4, <2>1, <2>3, <3>1, <3>2
    <3>3. CASE ~over
      <4>1. k * Target + new <= events'[w]
        <5>1. CASE Continues(w)
          <6>1. k * Target + rows[w].progress <= events[w]
            BY <1>5, <2>1, <2>3, <3>3, <5>1
          <6>2. new = rows[w].progress + 1 /\ rows[w].progress \in Int
            BY <1>2, <1>5, <5>1 DEF NextProgress, new, Instance
          <6> QED
            BY <1>3, <3>1, <6>1, <6>2
        <5>2. CASE ~Continues(w)
          BY <1>3, <2>1, <2>3, <3>1, <5>2 DEF NextProgress, new
        <5> QED
          BY <5>1, <5>2
      <4> HIDE DEF k
      <4>2. CASE rewarded'[w] = k
        BY <1>2, <1>3, <1>4, <1>5, <2>1, <2>3, <3>1, <3>3, <4>1, <4>2 DEF k
      <4>3. CASE rewarded'[w] # k
        <5>1. Done(new) /\ rewarded'[w] = k + 1 /\ rows'[w].status = "completed"
          BY <1>4, <3>3, <4>3 DEF k
        <5>2. rewarded'[w] * Target <= events'[w] /\ Target > 0
          BY <1>2, <1>3, <1>5, <3>1, <4>1, <5>1 DEF Done
        <5> QED
          BY <1>2, <2>3, <5>1, <5>2
      <4> QED
        BY <4>2, <4>3
    <3> QED
      BY <3>2, <3>3
  <2> QED
    BY <2>2, <2>3
<1> QED
  BY <1>6, <1>7, <1>8, <1>10, <1>11, <1>12, <1>13 DEF ChallengeInv

LEMMA ChallengeInvHolds == Spec => []ChallengeInv
<1>1. Init => ChallengeInv
  <2> SUFFICES ASSUME Init
               PROVE  ChallengeInv
    OBVIOUS
  <2>1. /\ Saved = {} /\ latest = NoRow /\ late = FALSE
        /\ \A w \in Window : events[w] = 0 /\ rewarded[w] = 0
    BY DEF Init, Saved
  <2>2. Target \in Int
    BY ChallengeAssumption DEF Init, Target
  <2>3. TypeOK
    BY <2>1 DEF Init, TypeOK
  <2>4. SavedIffSeen /\ LoadsLast /\ CompletedAtTarget
    BY <2>1 DEF SavedIffSeen, LoadsLast, CompletedAtTarget
  <2>5. ProgressCountsEvents /\ RewardedIffCompleted /\ PaidFor
    BY <2>1, <2>2 DEF ProgressCountsEvents, RewardedIffCompleted, PaidFor
  <2> QED
    BY <2>3, <2>4, <2>5 DEF ChallengeInv
<1>2. ChallengeInv /\ [Next]_vars => ChallengeInv'
  <2> SUFFICES ASSUME ChallengeInv, [Next]_vars
               PROVE  ChallengeInv'
    OBVIOUS
  <2>1. ASSUME NEW w \in Window, Process(w)
        PROVE  ChallengeInv'
    BY <2>1, ProcessKeeps
  <2>2. CASE UNCHANGED vars
    BY <2>2 DEF vars, ChallengeInv, TypeOK, SavedIffSeen, LoadsLast, CompletedAtTarget,
       ProgressCountsEvents, RewardedIffCompleted, PaidFor, Saved, Target
  <2> QED
    BY <2>1, <2>2 DEF Next
<1> QED
  BY <1>1, <1>2, PTL DEF Spec

\* Whatever the windows before did, a window's row counts its own events up to
\* the target (apply_progress, persistState), while events arrive in order.
THEOREM ProgressIsCounted == Spec => []ProgressCountsEvents
<1>1. ChallengeInv => ProgressCountsEvents
  BY DEF ChallengeInv
<1> QED
  BY <1>1, ChallengeInvHolds, PTL

\* While events arrive in order, the rewards of a window are issued exactly if
\* it was completed, but for windows that one event completes (process_event).
THEOREM RewardedOnce == Spec => []RewardedIffCompleted
<1>1. ChallengeInv => RewardedIffCompleted
  BY DEF ChallengeInv
<1> QED
  BY <1>1, ChallengeInvHolds, PTL

\* In any order of events, rewards are only issued for a target's worth of events
\* each (apply_progress): late events cannot earn the same rewards again.
THEOREM RewardsAreEarned == Spec => []RewardsEarned
<1>1. ChallengeInv => RewardsEarned
  <2> SUFFICES ASSUME ChallengeInv
               PROVE  RewardsEarned
    OBVIOUS
  <2>1. PaidFor
    BY DEF ChallengeInv
  <2> QED
    BY <2>1 DEF PaidFor, RewardsEarned
<1> QED
  BY <1>1, ChallengeInvHolds, PTL
-----------------------------------------------------------------------------
(***************************************************************************)
(* Streak, the other progress a window keeps: Periods are its windows.     *)
(***************************************************************************)
\* The least of a set of numbers (as in PipelineProofs).
LEMMA LeastOfNumbers ==
  ASSUME NEW N, N \subseteq Nat, N # {}
  PROVE  \E x \in N : \A y \in N : x <= y
<1> DEFINE R == OpToRel(<, Nat)
<1>1. IsWellFoundedOn(R, Nat)
  BY NatLessThanWellFounded DEF OpToRel
<1>2. \A x, y \in Nat : <<y, x>> \in R <=> y < x
  BY DEF OpToRel
<1> HIDE DEF R
<1>3. PICK x \in N : \A y \in N : ~(<<y, x>> \in R)
  BY <1>1, WFMin
<1>4. \A y \in N : x \in Nat /\ y \in Nat /\ ~(y < x)
  BY <1>2, <1>3
<1> QED
  BY <1>4

LEMMA Products ==
  ASSUME NEW a \in Nat, NEW b \in Nat, NEW d \in Nat \ {0}
  PROVE  /\ (a + b) * d = a * d + b * d
         /\ (a + 1) * d = a * d + d
         /\ a * d \in Nat
         /\ (a * d) \div d = a
<1>1. (a + b) * d = a * d + b * d /\ (a + 1) * d = a * d + d /\ a * d \in Nat
  OBVIOUS
<1>2. (a * d) \div d = a
  OBVIOUS
<1> QED
  BY <1>1, <1>2

LEMMA Greatest ==
  ASSUME NEW N, N \subseteq Int, NEW m \in N, \A x \in N : x <= m
  PROVE  Max(N) = m
<1> DEFINE g == CHOOSE x \in N : \A y \in N : x >= y
<1>1. \E x \in N : \A y \in N : x >= y
  OBVIOUS
<1>2. g \in N /\ \A y \in N : g >= y
  BY <1>1
<1>3. Max(N) = g
  BY DEF Max
<1> HIDE DEF g
<1>4. g >= m /\ g <= m /\ g \in Int /\ m \in Int
  BY <1>2
<1> QED
  BY <1>3, <1>4

LEMMA GreaterOfTwo ==
  ASSUME NEW a \in Int, NEW b \in Int
  PROVE  Max({a, b}) = IF a >= b THEN a ELSE b
<1>1. CASE a >= b
  BY <1>1, Greatest
<1>2. CASE ~(a >= b)
  BY <1>2, Greatest
<1> QED
  BY <1>1, <1>2
\* Streak counts with the operator this module's lemmas are about.
LEMMA SameCardinality == \A N : Cardinality(N) = Cardinality(N)
BY DEF Cardinality, Cardinality
-----------------------------------------------------------------------------
\* What the code computes of two windows, as a number of windows between them.
LEMMA Days ==
  ASSUME Regular, cal \in Calendars, ~Rolling
  PROVE  /\ DayTicks \in Nat \ {0}
         /\ Date[0] \in Nat
         /\ \A w \in Period : Unit(w) = DayTicks
         /\ \A w \in Period : /\ Parses(w)
                              /\ KeyEpoch(w) =
                                   (Date[0] + w) * DayTicks + DayTicks \div 2
         /\ \A w \in 0 .. Periods : Start[w] = (Date[0] + w) * DayTicks
<1>1. /\ Dated /\ DayTicks % 2 = 0 /\ DayTicks \in Nat /\ Periods \in Nat \ {0}
      /\ \A w \in Period : Date[w] = Date[0] + w
      /\ \A w \in 0 .. Periods : Start[w] = (Date[0] + w) * DayTicks
      /\ Date[0] \in Nat
      /\ Start[0] < Start[1]
  <2>1. DaysOfUtc(cal)
    BY DEF Regular, EveryTick, Rolling
  <2>2. /\ Periods \in Nat \ {0} /\ DayTicks \in Nat /\ 0 \in Period /\ 0 + 1 = 1
        /\ Date \in [Period -> Nat]
        /\ \A w \in Period : Start[w] < Start[w + 1]
    <3>1. Periods \in Nat \ {0} /\ cal \in Calendar
      BY StreakAssumption DEF StreakConstants
    <3>2. DayTicks \in Nat /\ Date \in [Period -> Nat]
      BY <3>1 DEF Calendar, DayTicks, Date
    <3>3. \A w \in Period : Start[w] < Start[w + 1]
      BY StreakAssumption DEF StreakConstants, Start
    <3>4. 0 \in Period /\ 0 + 1 = 1
      BY <3>1 DEF Period
    <3> QED
      BY <3>1, <3>2, <3>3, <3>4
  <2>3. /\ Dated /\ DayTicks % 2 = 0
        /\ \A w \in Period : Date[w] = Date[0] + w
        /\ \A w \in 0 .. Periods : Start[w] = (Date[0] + w) * DayTicks
    BY <2>1 DEF DaysOfUtc, Dated, DayTicks, Date, Start
  <2>4. Start[0] < Start[1]
    BY <2>2
  <2> QED
    BY <2>2, <2>3, <2>4
<1>2. DayTicks # 0
  BY <1>1
<1>3. ASSUME NEW w \in Period
      PROVE  Start[w + 1] - Start[w] = DayTicks
  <2>1. w \in Nat /\ w \in 0 .. Periods /\ w + 1 \in 0 .. Periods
    BY <1>1 DEF Period
  <2>2. (Date[0] + w + 1) * DayTicks = (Date[0] + w) * DayTicks + DayTicks
    BY <1>1, <1>2, <2>1, Products
  <2> QED
    BY <1>1, <2>1, <2>2, Products
<1> QED
  BY <1>1, <1>2, <1>3 DEF Unit, Parses, KeyEpoch

\* Window w begins length * w ticks after window 0.
Length == IF Rolling THEN 1 ELSE DayTicks

LEMMA Starts ==
  ASSUME Regular, cal \in Calendars
  PROVE  /\ Length \in Nat \ {0}
         /\ Periods \in Nat \ {0}
         /\ \A w \in 0 .. Periods :
              Start[w] \in Int /\ Start[w] = Start[0] + w * Length
         /\ \A v, w \in 0 .. Periods : v < w => Start[v] + Length <= Start[w]
<1>1. Periods \in Nat \ {0} /\ \A w \in 0 .. Periods : Start[w] \in Int
  BY StreakAssumption DEF StreakConstants, Calendar, Start
<1>2. /\ Length \in Nat \ {0}
      /\ \A w \in 0 .. Periods : Start[w] = Start[0] + w * Length
  <2>1. CASE Rolling
    <3>1. \A w \in 0 .. Periods : Start[w] = Start[0] + w /\ w * 1 = w
      BY <2>1 DEF Regular, DaysOfUtc, EveryTick, Rolling, Start
    <3> QED
      BY <2>1, <3>1 DEF Length
  <2>2. CASE ~Rolling
    <3>1. /\ DayTicks \in Nat \ {0} /\ Date[0] \in Nat
          /\ \A w \in 0 .. Periods : Start[w] = (Date[0] + w) * DayTicks
      BY <2>2, Days
    <3>2. \A w \in 0 .. Periods :
            (Date[0] + w) * DayTicks = Date[0] * DayTicks + w * DayTicks
      BY <1>1, <3>1, Products
    <3>3. Start[0] = Date[0] * DayTicks
      BY <1>1, <3>1
    <3> QED
      BY <2>2, <3>1, <3>2, <3>3 DEF Length
  <2> QED
    BY <2>1, <2>2
<1>3. ASSUME NEW v \in 0 .. Periods, NEW w \in 0 .. Periods, v < w
      PROVE  Start[v] + Length <= Start[w]
  <2>1. /\ v \in Nat /\ w - v - 1 \in Nat /\ w = (v + 1) + (w - v - 1) /\ v + 1 \in Nat
    BY <1>1, <1>3
  <2>2. w * Length = (v * Length + Length) + (w - v - 1) * Length
    BY <1>2, <2>1, Products
  <2>3. (w - v - 1) * Length \in Nat /\ v * Length \in Nat
    BY <1>2, <2>1, Products
  <2>4. Start[v] = Start[0] + v * Length /\ Start[w] = Start[0] + w * Length
    BY <1>2
  <2>5. Start[0] \in Int /\ Length \in Nat
    BY <1>1, <1>2
  <2> QED
    BY ONLY <2>2, <2>3, <2>4, <2>5
<1> QED
  BY <1>1, <1>2, <1>3

\* The window of an instant.
LEMMA WindowOf ==
  ASSUME Regular, cal \in Calendars, NEW t \in Instants
  PROVE  /\ WindowAt(t) \in Period
         /\ Start[WindowAt(t)] <= t /\ t < Start[WindowAt(t) + 1]
<1> DEFINE N == {w \in Period : t < Start[w + 1]}
<1>1. /\ Periods \in Nat \ {0} /\ t \in Int
      /\ \A w \in 0 .. Periods : Start[w] \in Int
      /\ Start[0] <= t /\ t < Start[Periods]
  BY Starts DEF Instants
<1>2. Periods - 1 \in N /\ N \subseteq Nat
  BY <1>1 DEF Period
<1>3. PICK w \in N : \A y \in N : w <= y
  BY <1>2, LeastOfNumbers
<1>4. Start[w] <= t
  <2>1. CASE w = 0
    BY <1>1, <2>1
  <2>2. CASE w # 0
    <3>1. w - 1 \in Period /\ (w - 1) + 1 = w /\ ~(w <= w - 1) /\ w \in 0 .. Periods
      BY <1>1, <1>2, <2>2 DEF Period
    <3>2. ~(t < Start[w])
      BY <1>3, <3>1
    <3> QED
      BY <1>1, <3>1, <3>2
  <2> QED
    BY <2>1, <2>2
<1>5. \E x \in Period : Start[x] <= t /\ t < Start[x + 1]
  BY <1>3, <1>4
<1> QED
  BY <1>5 DEF WindowAt
-----------------------------------------------------------------------------
\* What has been recorded of the windows.
WindowsNoted ==
  /\ StreakTypeOK
  /\ Hits = {} <=> last = Never
  /\ Hits # {} => last \in Hits
  /\ \A w \in Hits : /\ w <= last
                     /\ Start[w] <= hit[w] /\ hit[w] < Start[w + 1]
                     /\ hit[w] <= hit[last]

\* A new window begins: t is its first instant.
NewWindow(w, t) ==
  /\ w \in Period /\ w \notin Hits
  /\ \A v \in Hits : v < w
  /\ t \in Instants /\ Start[w] <= t /\ t < Start[w + 1]
  /\ \A v \in Hits : hit[v] <= t

LEMMA HitsTyped ==
  ASSUME WindowsNoted
  PROVE  /\ Hits \subseteq Period /\ IsFiniteSet(Hits)
         /\ Periods \in Nat \ {0} /\ Period \subseteq Nat
         /\ \A w \in Hits : hit[w] \in Int
         /\ Span \in Nat /\ Grace \in Nat /\ (Rolling => Span > 0)
         /\ cal \in Calendars
<1>1. /\ Periods \in Nat \ {0}
      /\ Span \in Nat /\ Grace \in Nat /\ (Rolling => Span > 0)
      /\ cal \in Calendars /\ Start[0] \in Int /\ Start[Periods] \in Int
  BY StreakAssumption
     DEF StreakConstants, WindowsNoted, StreakTypeOK, Calendar, Span, Grace, Rolling,
         Start
<1>2. Hits \subseteq Period /\ Period \subseteq Nat
  BY <1>1 DEF Hits, Period
<1>3. IsFiniteSet(Period)
  BY <1>1, FS_Interval DEF Period
<1>4. \A w \in Hits : hit[w] \in Int
  BY <1>1, <1>2 DEF WindowsNoted, StreakTypeOK, Hits, Instants
<1> QED
  BY <1>1, <1>2, <1>3, <1>4, FS_Subset

\* An event opens a new window or repeats the last one.
LEMMA EventInWindow ==
  ASSUME Regular, WindowsNoted,
         NEW t \in Instants, \A w \in Hits : hit[w] <= t
  PROVE  WindowAt(t) = last \/ NewWindow(WindowAt(t), t)
<1> DEFINE w == WindowAt(t)
<1>1. w \in Period /\ Start[w] <= t /\ t < Start[w + 1]
  BY WindowOf, HitsTyped
<1> HIDE DEF w
<1>2. ASSUME NEW v \in Hits
      PROVE  v <= w
  <2>1. v \in Nat /\ w \in Nat /\ v \in 0 .. Periods /\ w + 1 \in 0 .. Periods
    BY <1>1, HitsTyped DEF Period
  <2>2. Start[v] <= t /\ t < Start[w + 1]
    <3>1. /\ Start[v] <= hit[v] /\ hit[v] <= t
          /\ hit[v] \in Int /\ Start[v] \in Int /\ t \in Int
      BY <2>1, Starts, HitsTyped DEF WindowsNoted, Instants
    <3> QED
      BY <1>1, <3>1
  <2>3. CASE w + 1 = v
    <3>1. Start[v] \in Int /\ t \in Int
      BY <2>1, Starts, HitsTyped DEF Instants
    <3> QED
      BY <2>2, <2>3, <3>1
  <2>4. CASE w + 1 < v
    <3>1. /\ Start[w + 1] + Length <= Start[v] /\ Length \in Nat
          /\ Start[v] \in Int /\ Start[w + 1] \in Int /\ t \in Int
      BY <2>1, <2>4, Starts, HitsTyped DEF Instants
    <3> QED
      BY <2>2, <3>1
  <2> QED
    BY <2>1, <2>3, <2>4
<1>3. CASE w \in Hits
  <2>1. last \in Hits /\ w <= last /\ last <= w /\ last \in Nat /\ w \in Nat
    BY <1>2, <1>3, HitsTyped DEF WindowsNoted
  <2> QED
    BY <2>1 DEF w
<1>4. CASE w \notin Hits
  <2>1. \A v \in Hits : v < w
    BY <1>1, <1>2, <1>4, HitsTyped
  <2> QED
    BY <1>1, <1>4, <2>1 DEF NewWindow, w
<1> QED
  BY <1>3, <1>4
-----------------------------------------------------------------------------
\* The code's decision about a new window is the reference's, stated here on the
\* window and instant that Qualify adds.
Prolongs(w, t) ==
  IF Rolling
  THEN \/ t - hit[last] < Span
       \/ t - hit[last] < 2 * Span /\ t - hit[last] <= Grace
  ELSE \/ w = last + 1
       \/ w = last + 2 /\ t - Start[last + 1] <= Grace /\ Grace > 0

\* In a rolling calendar a window is hit at its start.
LEMMA RollingHit ==
  ASSUME Regular, cal \in Calendars, Rolling,
         NEW w \in Period, NEW t \in Int, Start[w] <= t, t < Start[w + 1]
  PROVE  t = Start[0] + w
<1>1. w \in 0 .. Periods /\ w + 1 \in 0 .. Periods /\ Start[0] \in Int /\ w \in Nat
  BY Starts DEF Period
<1>2. Start[w] = Start[0] + w /\ Start[w + 1] = Start[0] + (w + 1)
  BY <1>1 DEF Regular, DaysOfUtc, EveryTick, Rolling, Start
<1> QED
  BY <1>1, <1>2

LEMMA Quotients ==
  ASSUME NEW a \in Nat, NEW d \in Nat \ {0}
  PROVE  /\ a \div d \in Nat
         /\ a \div d = 0 <=> a < d
         /\ a \div d = 1 <=> d <= a /\ a < 2 * d
OBVIOUS

LEMMA Decision ==
  ASSUME Regular, WindowsNoted, Hits # {},
         NEW w, NEW t, NewWindow(w, t)
  PROVE  (WindowDistance(last, w) = 1 \/ InGrace(w, t)) <=> Prolongs(w, t)
<1>1. /\ last \in Period /\ last \in Hits /\ last \in Nat
      /\ w \in Period /\ w \in Nat /\ last < w
      /\ t \in Int /\ Start[w] <= t /\ t < Start[w + 1]
      /\ Start[last] <= hit[last] /\ hit[last] < Start[last + 1]
      /\ hit[last] \in Int /\ Grace \in Nat /\ Span \in Nat /\ (Rolling => Span > 0)
      /\ cal \in Calendars
  BY HitsTyped, Starts DEF WindowsNoted, NewWindow, Instants
<1> DEFINE k == w - last
<1>2. k \in Nat /\ k >= 1
  BY <1>1
<1>3. CASE Rolling
  <2>1. t = Start[0] + w /\ hit[last] = Start[0] + last /\ Start[0] \in Int
    BY <1>1, <1>3, RollingHit, Starts
  <2>2. Start[last] = Start[0] + last /\ Start[w] = Start[0] + w
    <3>1. last \in 0 .. Periods /\ w \in 0 .. Periods
      BY <1>1, Starts DEF Period
    <3>2. EveryTick(cal)
      BY <1>1, <1>3 DEF Regular, DaysOfUtc, Rolling
    <3> QED
      BY <3>1, <3>2 DEF EveryTick, Start
  <2>3. t - hit[last] = k
    BY <1>1, <2>1
  <2>4. KeyEpoch(w) - KeyEpoch(last) = k
    BY <1>1, <1>3, <2>1, <2>2 DEF KeyEpoch
  <2>5. Max({k, 0}) = k
    BY <1>2, GreaterOfTwo
  <2>6. WindowDistance(last, w) = 1 + k \div Span
    BY <1>3, <2>4, <2>5 DEF WindowDistance, Parses, Unit
  <2>7. t - PrevWindowEnd(last, w) = k
    BY <1>1, <1>3, <2>1, <2>2 DEF PrevWindowEnd, Parses, KeyEpoch, Unit
  <2>8. /\ WindowDistance(last, w) = 1 <=> k < Span
        /\ WindowDistance(last, w) = 2 <=> Span <= k /\ k < 2 * Span
    <3>1. Span \in Nat \ {0}
      BY <1>1, <1>3
    <3>2. /\ k \div Span \in Nat
          /\ k \div Span = 0 <=> k < Span
          /\ k \div Span = 1 <=> Span <= k /\ k < 2 * Span
      BY <1>2, <3>1, Quotients
    <3> HIDE DEF k
    <3> QED
      BY <2>6, <3>2
  <2>9. Prolongs(w, t) <=> k < Span \/ (k < 2 * Span /\ k <= Grace)
    BY <1>3, <2>3 DEF Prolongs
  <2>10. InGrace(w, t) <=> Span <= k /\ k < 2 * Span /\ Grace > 0 /\ k <= Grace
    BY <2>7, <2>8 DEF InGrace
  <2> HIDE DEF k
  <2> QED
    BY <1>1, <1>2, <2>8, <2>9, <2>10
<1>4. CASE ~Rolling
  <2>1. /\ DayTicks \in Nat \ {0} /\ Date[0] \in Nat
        /\ Unit(w) = DayTicks /\ Parses(w) /\ Parses(last)
        /\ KeyEpoch(w) = (Date[0] + w) * DayTicks + DayTicks \div 2
        /\ KeyEpoch(last) = (Date[0] + last) * DayTicks + DayTicks \div 2
        /\ Start[last + 1] = (Date[0] + (last + 1)) * DayTicks
    <3>1. last + 1 \in 0 .. Periods
      BY <1>1, Starts DEF Period
    <3> QED
      BY <1>1, <1>4, <3>1, Days
  <2>2. DayTicks \div 2 \in Nat /\ DayTicks = 2 * (DayTicks \div 2)
    BY <1>1, <1>4, <2>1 DEF Regular, DaysOfUtc, EveryTick, Rolling, DayTicks
  <2>3. /\ (Date[0] + w) * DayTicks = (Date[0] + last) * DayTicks + k * DayTicks
        /\ (Date[0] + (last + 1)) * DayTicks =
             (Date[0] + last) * DayTicks + DayTicks
        /\ (k * DayTicks) \div DayTicks = k
        /\ k * DayTicks \in Nat /\ (Date[0] + last) * DayTicks \in Nat
    <3>1. Date[0] + last \in Nat /\ Date[0] + w = (Date[0] + last) + k
          /\ Date[0] + (last + 1) = (Date[0] + last) + 1
      BY <1>1, <2>1
    <3> DEFINE n == Date[0] + last
               d == DayTicks
    <3>2. n \in Nat /\ k \in Nat /\ d \in Nat \ {0}
      BY <1>2, <2>1, <3>1
    <3> HIDE DEF k, n, d
    <3>3. /\ (n + k) * d = n * d + k * d /\ (n + 1) * d = n * d + d
          /\ n * d \in Nat /\ k * d \in Nat /\ (k * d) \div d = k
      BY <3>2, Products
    <3>4. Date[0] + w = n + k /\ Date[0] + (last + 1) = n + 1
      BY <3>1 DEF n
    <3>5. /\ (Date[0] + w) * d = n * d + k * d
          /\ (Date[0] + (last + 1)) * d = n * d + d
      BY <3>3, <3>4
    <3> QED
      BY <3>3, <3>5 DEF n, d
  <2>4. KeyEpoch(w) - KeyEpoch(last) = k * DayTicks
    <3> HIDE DEF k
    <3> QED
      BY <2>1, <2>2, <2>3
  <2>5. WindowDistance(last, w) = k
    <3> HIDE DEF k
    <3>1. Max({k * DayTicks, 0}) = k * DayTicks
      BY <2>3, GreaterOfTwo
    <3>2. Max({k, 1}) = k
      BY <1>2, GreaterOfTwo
    <3> QED
      BY <1>4, <2>1, <2>3, <2>4, <3>1, <3>2 DEF WindowDistance
  <2>6. PrevWindowEnd(last, w) = Start[last + 1]
    <3>1. PrevWindowEnd(last, w) = KeyEpoch(last) + DayTicks \div 2
      BY <1>4, <2>1 DEF PrevWindowEnd
    <3> DEFINE half == DayTicks \div 2
               days == (Date[0] + last) * DayTicks
    <3>2. KeyEpoch(last) = days + half /\ Start[last + 1] = days + DayTicks
      BY <2>1, <2>3
    <3>3. half \in Nat /\ days \in Nat /\ DayTicks = 2 * half
      BY <2>2, <2>3
    <3>4. PrevWindowEnd(last, w) = KeyEpoch(last) + half
      BY <3>1
    <3> HIDE DEF half, days
    <3> QED
      BY <3>2, <3>3, <3>4
  <2> QED
    BY <1>1, <1>2, <1>4, <2>5, <2>6 DEF Prolongs, InGrace
<1> QED
  BY <1>3, <1>4
-----------------------------------------------------------------------------
(***************************************************************************)
(* Runs: a new window does not change those of the windows before it, and  *)
(* continues the last one's or is one of its own.                          *)
(***************************************************************************)
\* The lengths of the runs that end in w.
Lengths(w) == {Cardinality(Between(v, w)) : v \in {x \in Hits : x <= w /\ Run(x, w)}}

IsGreatest(m, N) == N \subseteq Nat /\ m \in N /\ \A x \in N : x <= m

LEMMA GreatestIsMax ==
  ASSUME NEW m, NEW N, IsGreatest(m, N)
  PROVE  Max(N) = m
<1>1. N \subseteq Int /\ m \in N /\ \A x \in N : x <= m
  BY DEF IsGreatest
<1> QED
  BY <1>1, Greatest

LEMMA HitsGrow ==
  ASSUME WindowsNoted, NEW w, NEW t, NewWindow(w, t),
         cal' = cal, hit' = [hit EXCEPT ![w] = t]
  PROVE  /\ Hits' = Hits \union {w}
         /\ hit'[w] = t
         /\ \A v \in Hits : hit'[v] = hit[v]
<1>1. hit \in [Period -> Instants \union {Never}] /\ w \in Period /\ w \notin Hits
      /\ t \in Instants
  BY DEF WindowsNoted, StreakTypeOK, NewWindow
<1>2. t # Never
  BY <1>1, Starts, HitsTyped, StreakAssumption DEF Instants, StreakConstants
<1> QED
  BY <1>1, <1>2 DEF Hits

\* Links between windows that were there stay as they are.
LEMMA LinksStay ==
  ASSUME WindowsNoted, NEW w, NEW t, NewWindow(w, t),
         cal' = cal, hit' = [hit EXCEPT ![w] = t],
         NEW x \in Hits, NEW y \in Hits
  PROVE  Linked(x, y)' <=> Linked(x, y)
<1>1. /\ Hits' = Hits \union {w} /\ hit'[x] = hit[x] /\ hit'[y] = hit[y]
      /\ x \in Nat /\ y \in Nat /\ w \in Nat /\ y < w
  BY HitsGrow, HitsTyped DEF NewWindow
<1>2. y = x + 2 => (x + 1 \notin Hits' <=> x + 1 \notin Hits)
  BY <1>1
<1>3. LinkedFixed(x, y)' <=> LinkedFixed(x, y)
  BY <1>1, <1>2 DEF LinkedFixed, Start, Grace
<1>4. LinkedRolling(x, y)' <=> LinkedRolling(x, y)
  BY <1>1 DEF LinkedRolling, Span, Grace
<1> QED
  BY <1>1, <1>3, <1>4 DEF Linked, Rolling

\* The new window is linked to the last one if the reference says so.
LEMMA LastLink ==
  ASSUME WindowsNoted, Hits # {}, NEW w, NEW t, NewWindow(w, t),
         cal' = cal, hit' = [hit EXCEPT ![w] = t],
         NEW v, v = last
  PROVE  Linked(v, w)' <=> Prolongs(w, t)
<1>1. /\ Hits' = Hits \union {w} /\ hit'[v] = hit[last] /\ hit'[w] = t
      /\ last \in Hits /\ v = last /\ last \in Nat /\ w \in Nat /\ last < w
  BY HitsGrow, HitsTyped DEF NewWindow, WindowsNoted
<1>2. w = last + 2 => last + 1 \notin Hits'
  <2>1. last + 1 \notin Hits
    BY <1>1, HitsTyped DEF WindowsNoted
  <2> QED
    BY <1>1, <2>1
<1>3. CASE Rolling
  BY <1>1, <1>3 DEF Linked, LinkedRolling, Prolongs, Rolling, Span, Grace
<1>4. CASE ~Rolling
  BY <1>1, <1>2, <1>4 DEF Linked, LinkedFixed, Prolongs, Rolling, Grace, Start
<1> QED
  BY <1>3, <1>4

\* A window that the new one continues is the last, or linked to the last.
LEMMA OldLink ==
  ASSUME WindowsNoted, NEW w, NEW t, NewWindow(w, t),
         cal' = cal, hit' = [hit EXCEPT ![w] = t],
         NEW x \in Hits, x # last, Linked(x, w)'
  PROVE  Linked(x, last)
<1>1. /\ Hits' = Hits \union {w} /\ hit'[x] = hit[x] /\ hit'[w] = t
      /\ last \in Hits /\ last \in Nat /\ w \in Nat /\ last < w /\ x \in Nat /\ x < last
      /\ hit[last] <= t /\ hit[last] \in Int /\ t \in Int /\ hit[x] \in Int
      /\ Span \in Nat /\ Grace \in Nat
  <2>1. /\ Hits' = Hits \union {w} /\ hit'[x] = hit[x] /\ hit'[w] = t
        /\ last \in Hits /\ x <= last
    BY HitsGrow DEF WindowsNoted
  <2>2. /\ last \in Nat /\ w \in Nat /\ x \in Nat /\ hit[last] \in Int /\ hit[x] \in Int
        /\ Span \in Nat /\ Grace \in Nat
    BY <2>1, HitsTyped DEF NewWindow
  <2>3. last < w /\ hit[last] <= t /\ t \in Int
    BY <2>1 DEF NewWindow, Instants
  <2> QED
    BY <2>1, <2>2, <2>3
<1>2. CASE Rolling
  <2>1. t - hit[x] < Span \/ (t - hit[x] < 2 * Span /\ t - hit[x] <= Grace)
    BY <1>1, <1>2 DEF Linked, LinkedRolling, Rolling, Span, Grace
  <2> QED
    BY <1>1, <1>2, <2>1 DEF Linked, LinkedRolling
<1>3. CASE ~Rolling
  BY <1>1, <1>3 DEF Linked, LinkedFixed, Rolling
<1> QED
  BY <1>2, <1>3

LEMMA RunsStay ==
  ASSUME WindowsNoted, NEW w, NEW t, NewWindow(w, t),
         cal' = cal, hit' = [hit EXCEPT ![w] = t],
         NEW u \in Hits
  PROVE  Lengths(u)' = Lengths(u)
<1>1. /\ Hits' = Hits \union {w} /\ u \in Nat /\ w \in Nat /\ u < w
      /\ \A v \in Hits : v \in Nat
  BY HitsGrow, HitsTyped DEF NewWindow
<1>2. ASSUME NEW v \in Hits
      PROVE  Between(v, u)' = Between(v, u) /\ (Run(v, u)' <=> Run(v, u))
  <2>1. Between(v, u)' = Between(v, u) /\ Between(v, u) \subseteq Hits
    BY <1>1 DEF Between
  <2>2. \A x, y \in Between(v, u) : Linked(x, y)' <=> Linked(x, y)
    BY <2>1, LinksStay
  <2>3. Run(v, u)' <=> Run(v, u)
    BY <1>1, <2>1, <2>2 DEF Run
  <2> QED
    BY <2>1, <2>3
<1>3. \A x : x \in Hits' /\ x <= u => x \in Hits
  BY <1>1
<1>4. {x \in Hits' : x <= u /\ Run(x, u)'} = {x \in Hits : x <= u /\ Run(x, u)}
  BY <1>1, <1>2, <1>3
<1> QED
  BY <1>2, <1>4 DEF Lengths

\* The runs that end in the new window: itself, and those that end in the last
\* one if it continues that.
LEMMA NewRuns ==
  ASSUME WindowsNoted, Hits # {}, NEW w, NEW t, NewWindow(w, t),
         cal' = cal, hit' = [hit EXCEPT ![w] = t]
  PROVE  Lengths(w)' =
           {1} \union (IF Prolongs(w, t) THEN {l + 1 : l \in Lengths(last)} ELSE {})
<1>1. PICK u : u = last
  OBVIOUS
<1>2. /\ Hits' = Hits \union {w} /\ w \notin Hits /\ w \in Nat
      /\ u \in Hits /\ u < w /\ u \in Nat
      /\ \A v \in Hits : v \in Nat /\ v <= u /\ v < w
  BY <1>1, HitsGrow, HitsTyped DEF NewWindow, WindowsNoted
<1>3. Run(w, w)' /\ Cardinality(Between(w, w)') = 1
  <2>1. Between(w, w)' = {w}
    <3>1. \A x \in Hits' : w <= x /\ x <= w <=> x = w
      BY <1>2
    <3>2. w \in Hits'
      BY <1>2
    <3> QED
      BY <3>1, <3>2 DEF Between
  <2>2. Cardinality({w}) = 1
    BY FS_Singleton
  <2> QED
    BY <1>2, <2>1, <2>2 DEF Run
<1>4. ASSUME NEW v \in Hits
      PROVE  /\ Cardinality(Between(v, w)') = Cardinality(Between(v, u)) + 1
             /\ Run(v, w)' <=> Prolongs(w, t) /\ Run(v, u)
  <2>1. /\ Between(v, w)' = Between(v, u) \union {w} /\ w \notin Between(v, u)
        /\ Between(v, u) \subseteq Hits /\ u \in Between(v, u)
    <3>1. \A x \in Hits : x <= u /\ x <= w
      BY <1>2
    <3>2. v <= w /\ w <= w
      BY <1>2
    <3>3. Between(v, w)' = {x \in Hits \union {w} : v <= x /\ x <= w}
      BY <1>2 DEF Between
    <3>4. Between(v, u) = {x \in Hits : v <= x /\ x <= u} /\ v <= u /\ u <= u
      BY <1>2 DEF Between
    <3> QED
      BY <1>2, <3>1, <3>2, <3>3, <3>4
  <2>2. Cardinality(Between(v, w)') = Cardinality(Between(v, u)) + 1
    <3> DEFINE N == Between(v, u)
    <3>1. IsFiniteSet(N)
      BY <2>1, HitsTyped, FS_Subset
    <3>2. w \notin N /\ Between(v, w)' = N \union {w}
      BY <2>1
    <3> HIDE DEF N
    <3>3. Cardinality(N \union {w}) = Cardinality(N) + 1
      BY <3>1, <3>2, FS_AddElement
    <3> QED
      BY <3>2, <3>3 DEF N
  <2>3. Linked(u, w)' <=> Prolongs(w, t)
    BY <1>1, LastLink
  <2>4. \A x, y \in Hits : Linked(x, y)' <=> Linked(x, y)
    BY LinksStay
  <2>5. \A x \in Hits : x # u /\ Linked(x, w)' => Linked(x, u)
    BY <1>1, OldLink
  <2>6. ASSUME Run(v, w)'
        PROVE  Prolongs(w, t) /\ Run(v, u)
    <3>1. \A x \in Between(v, u) :
            \E y \in Between(v, u) \union {w} : y > x /\ Linked(x, y)'
      BY <2>1, <2>6 DEF Run
    <3>2. Linked(u, w)'
      <4>1. PICK y \in Between(v, u) \union {w} : y > u /\ Linked(u, y)'
        BY <2>1, <3>1
      <4>2. ASSUME NEW z \in Between(v, u)
            PROVE  ~(z > u)
        <5>1. z \in Nat /\ z <= u /\ u \in Nat
          BY <1>2, <2>1
        <5> QED
          BY <5>1
      <4> QED
        BY <4>1, <4>2
    <3>3. ASSUME NEW x \in Between(v, u) \ {u}
          PROVE  \E y \in Between(v, u) : y > x /\ Linked(x, y)
      <4>1. PICK y \in Between(v, u) \union {w} : y > x /\ Linked(x, y)'
        BY <3>1
      <4>2. CASE y = w
        <5>1. x \in Hits /\ x # u
          BY <2>1
        <5>2. x \in Nat /\ x <= u /\ u \in Nat
          BY <1>2, <5>1
        <5>3. u > x
          BY <5>1, <5>2
        <5> QED
          BY <2>1, <2>5, <4>1, <4>2, <5>1, <5>3
      <4>3. CASE y # w
        BY <2>1, <2>4, <4>1, <4>3
      <4> QED
        BY <4>2, <4>3
    <3> QED
      BY <1>2, <2>3, <3>2, <3>3 DEF Run
  <2>7. ASSUME Prolongs(w, t), Run(v, u)
        PROVE  Run(v, w)'
    <3>1. ASSUME NEW x \in Between(v, u)
          PROVE  \E y \in Between(v, u) \union {w} : y > x /\ Linked(x, y)'
      <4>1. CASE x = u
        BY <1>2, <2>3, <2>7, <4>1
      <4>2. CASE x # u
        <5>1. PICK y \in Between(v, u) : y > x /\ Linked(x, y)
          BY <2>7, <4>2 DEF Run
        <5> QED
          BY <2>1, <2>4, <5>1
      <4> QED
        BY <4>1, <4>2
    <3>2. (Between(v, u) \union {w}) \ {w} = Between(v, u)
      BY <2>1
    <3> QED
      BY <1>2, <2>1, <3>1, <3>2 DEF Run
  <2> QED
    BY <2>2, <2>6, <2>7
<1> DEFINE Old == {x \in Hits : x <= u /\ Run(x, u)}
           New == {x \in Hits' : x <= w /\ Run(x, w)'}
<1>5. New = {w} \union (IF Prolongs(w, t) THEN Old ELSE {})
  <2>1. w <= w /\ \A x \in Hits : x <= w /\ x <= u
    BY <1>2
  <2>2. \A x : x \in New <=> x = w \/ (x \in Hits /\ Run(x, w)')
    BY <1>2, <1>3, <2>1
  <2>3. \A x \in Hits : x \in Old <=> Run(x, u)
    BY <2>1
  <2>4. Old \subseteq Hits
    OBVIOUS
  <2> HIDE DEF Old, New
  <2>5. \A x : x \in New <=> x = w \/ (Prolongs(w, t) /\ x \in Old)
    BY <1>4, <2>2, <2>3, <2>4
  <2> QED
    BY <2>5
<1>6. Lengths(last) = {Cardinality(Between(v, u)) : v \in Old}
  BY <1>1 DEF Lengths
<1>7. Lengths(w)' = {Cardinality(Between(v, w)') : v \in New}
  BY DEF Lengths
<1>8. Old \subseteq Hits
  OBVIOUS
<1> HIDE DEF Old, New
<1>9. CASE Prolongs(w, t)
  BY <1>3, <1>4, <1>5, <1>6, <1>7, <1>8, <1>9
<1>10. CASE ~Prolongs(w, t)
  BY <1>3, <1>5, <1>7, <1>10
<1> QED
  BY <1>9, <1>10
\* The first window's only run is its own.
LEMMA FirstRun ==
  ASSUME WindowsNoted, Hits = {}, NEW w, NEW t, NewWindow(w, t),
         cal' = cal, hit' = [hit EXCEPT ![w] = t]
  PROVE  Lengths(w)' = {1}
<1>1. Hits' = {w} /\ w \in Nat /\ w <= w
  <2>1. Hits' = {w}
    BY HitsGrow
  <2>2. w \in Nat
    BY HitsTyped DEF NewWindow
  <2> QED
    BY <2>1, <2>2
<1>2. Between(w, w)' = {w}
  BY <1>1 DEF Between
<1>3. Run(w, w)'
  BY <1>1, <1>2 DEF Run
<1>4. {x \in Hits' : x <= w /\ Run(x, w)'} = {w}
  BY <1>1, <1>3
<1>5. Cardinality({w}) = 1
  BY FS_Singleton
<1>6. Lengths(w)' =
        {Cardinality(Between(v, w)') : v \in {x \in Hits' : x <= w /\ Run(x, w)'}}
  BY DEF Lengths
<1> QED
  BY <1>2, <1>4, <1>5, <1>6
-----------------------------------------------------------------------------
(***************************************************************************)
(* The inductive invariant: the stored streak is the greatest of the runs  *)
(* that end in the last window, the best of those that end anywhere.       *)
(***************************************************************************)
RunsMeasured == \A u \in Hits : IsGreatest(RunLength(u), Lengths(u))
RunLengths == {RunLength(u) : u \in Hits}
StreakStored ==
  /\ Hits = {} => current = 0 /\ best = 0
  /\ Hits # {} => current = RunLength(last) /\ IsGreatest(best, RunLengths)

StreakInv == WindowsNoted /\ RunsMeasured /\ StreakStored

\* The first event of a window extends the record by that window.
LEMMA WindowNoted ==
  ASSUME WindowsNoted, NEW w, NEW t, NewWindow(w, t),
         cal' = cal, hit' = [hit EXCEPT ![w] = t], last' = w,
         current' \in Nat, best' \in Nat,
         effect' \in {"none", "extended", "no_action", "grace", "broken"}
  PROVE  WindowsNoted'
<1>1. /\ Hits' = Hits \union {w} /\ hit'[w] = t /\ \A x \in Hits : hit'[x] = hit[x]
      /\ w \in Period /\ w \in Nat /\ t \in Int /\ Hits \subseteq Nat
      /\ \A x \in Hits : x < w /\ hit[x] <= t
      /\ Start[w] <= t /\ t < Start[w + 1] /\ t \in Instants
  <2>1. Hits' = Hits \union {w} /\ hit'[w] = t /\ \A x \in Hits : hit'[x] = hit[x]
    BY HitsGrow
  <2>2. w \in Period /\ w \in Nat /\ Hits \subseteq Nat
    BY HitsTyped DEF NewWindow
  <2> QED
    BY <2>1, <2>2 DEF NewWindow, Instants
<1>2. StreakTypeOK'
  BY <1>1 DEF WindowsNoted, StreakTypeOK, Instants, Start
<1>3. w # Never
  BY <1>1, StreakAssumption DEF StreakConstants
<1>4. ASSUME NEW x \in Hits'
      PROVE  /\ x <= w
             /\ Start[x] <= hit'[x] /\ hit'[x] < Start[x + 1]
             /\ hit'[x] <= hit'[w]
  <2>1. CASE x = w
    BY <1>1, <2>1
  <2>2. CASE x # w
    BY <1>1, <2>2 DEF WindowsNoted
  <2> QED
    BY <2>1, <2>2
<1>5. Start' = Start
  BY DEF Start
<1> QED
  BY <1>1, <1>2, <1>3, <1>4, <1>5 DEF WindowsNoted

\* The runs that end in the new window decide what is stored.
LEMMA RunStored ==
  ASSUME StreakInv, NEW w, NEW t, NewWindow(w, t),
         cal' = cal, hit' = [hit EXCEPT ![w] = t], last' = w,
         current' \in Nat, best' = Max({best, current'}),
         IsGreatest(current', Lengths(w)')
  PROVE  RunsMeasured' /\ StreakStored'
<1>1. /\ Hits' = Hits \union {w} /\ w \notin Hits
      /\ current \in Nat /\ best \in Nat
  BY HitsGrow DEF NewWindow, StreakInv, WindowsNoted, StreakTypeOK
<1>2. RunLength(w)' = current'
  <2>1. Max(Lengths(w)') = current'
    BY GreatestIsMax
  <2> QED
    BY <2>1, SameCardinality DEF RunLength, Lengths
<1>3. ASSUME NEW u \in Hits
      PROVE  /\ Lengths(u)' = Lengths(u) /\ RunLength(u)' = RunLength(u)
             /\ IsGreatest(RunLength(u), Lengths(u))
  <2>1. Lengths(u)' = Lengths(u)
    BY RunsStay DEF StreakInv
  <2>2. RunLength(u)' = Max(Lengths(u)') /\ RunLength(u) = Max(Lengths(u))
    BY SameCardinality DEF RunLength, Lengths
  <2> QED
    BY <2>1, <2>2 DEF StreakInv, RunsMeasured
<1>4. RunsMeasured'
  <2> SUFFICES ASSUME NEW u \in Hits'
               PROVE  IsGreatest(RunLength(u)', Lengths(u)')
    BY DEF RunsMeasured, IsGreatest
  <2>1. CASE u = w
    BY <1>2, <2>1
  <2>2. CASE u # w
    BY <1>1, <1>3, <2>2
  <2> QED
    BY <2>1, <2>2
<1>5. RunLengths' = RunLengths \union {current'}
  BY <1>1, <1>2, <1>3 DEF RunLengths
<1>6. best' = IF best >= current' THEN best ELSE current'
  BY <1>1, GreaterOfTwo
<1>7. IsGreatest(best', RunLengths')
  <2>1. CASE Hits = {}
    <3>1. best = 0 /\ RunLengths = {}
      BY <2>1 DEF StreakInv, StreakStored, RunLengths
    <3>2. best' = current'
      BY <1>6, <3>1
    <3> QED
      BY <1>5, <3>1, <3>2 DEF IsGreatest
  <2>2. CASE Hits # {}
    <3>1. IsGreatest(best, RunLengths)
      BY <2>2 DEF StreakInv, StreakStored
    <3> QED
      BY <1>1, <1>5, <1>6, <3>1 DEF IsGreatest
  <2> QED
    BY <2>1, <2>2
<1>8. StreakStored'
  <2>1. Hits' # {} /\ RunLength(last)' = current'
    BY <1>1, <1>2
  <2> QED
    BY <1>7, <2>1 DEF StreakStored, RunLengths, IsGreatest
<1> QED
  BY <1>4, <1>8

LEMMA StreakInvInit ==
  ASSUME StreakInit
  PROVE  StreakInv
<1>1. Hits = {}
  BY DEF StreakInit, Hits
<1>2. StreakTypeOK
  BY DEF StreakInit, StreakTypeOK
<1> QED
  BY <1>1, <1>2 DEF StreakInit, StreakInv, WindowsNoted, RunsMeasured, StreakStored

LEMMA StreakInvNext ==
  ASSUME Regular, StreakInv, StreakNext
  PROVE  StreakInv'
<1>1. PICK t \in Instants : (\A w \in Hits : hit[w] <= t) /\ Qualify(t)
  BY DEF StreakNext
<1>2. PICK w : w = WindowAt(t)
  OBVIOUS
<1>3. /\ w \in Period /\ cal' = cal
      /\ hit' = [hit EXCEPT ![w] = IF @ = Never THEN t ELSE @]
      /\ \/ last = Never /\ effect' = "extended" /\ StartAnew(w)
         \/ last = w /\ effect' = "no_action" /\ UNCHANGED <<current, best, last>>
         \/ /\ last \notin {Never, w}
            /\ \/ WindowDistance(last, w) = 1 /\ effect' = "extended" /\ Continue(w)
               \/ InGrace(w, t) /\ effect' = "grace" /\ Continue(w)
               \/ /\ ~(WindowDistance(last, w) = 1 \/ InGrace(w, t))
                  /\ effect' = "broken" /\ StartAnew(w)
  <2>1. w \in Period
    BY <1>2, WindowOf, HitsTyped DEF StreakInv
  <2> QED
    BY <1>1, <1>2, <2>1 DEF Qualify
<1>4. w # Never /\ hit \in [Period -> Instants \union {Never}]
  BY <1>3, HitsTyped, StreakAssumption
     DEF StreakConstants, StreakInv, WindowsNoted, StreakTypeOK
<1>5. w = last \/ NewWindow(w, t)
  BY <1>1, <1>2, EventInWindow DEF StreakInv
<1>6. CASE w = last
  <2>1. w \in Hits
    BY <1>4, <1>6 DEF StreakInv, WindowsNoted
  <2>2. hit' = hit /\ UNCHANGED <<cal, current, best, last>> /\ effect' = "no_action"
    BY <1>3, <1>4, <1>6, <2>1 DEF Hits
  <2>3. Hits' = Hits /\ Start' = Start
    BY <2>2 DEF Hits, Start
  <2>4. WindowsNoted'
    BY <2>2, <2>3 DEF StreakInv, WindowsNoted, StreakTypeOK, Instants
  <2>5. \A u : Lengths(u)' = Lengths(u) /\ RunLength(u)' = RunLength(u)
    BY <2>2, <2>3 DEF Lengths, RunLength, Run, Between, Linked, LinkedFixed,
                      LinkedRolling, Rolling, Span, Grace, Start
  <2> QED
    BY <2>2, <2>3, <2>4, <2>5 DEF StreakInv, RunsMeasured, StreakStored, RunLengths
<1>7. CASE NewWindow(w, t)
  <2>1. w \notin Hits /\ hit' = [hit EXCEPT ![w] = t] /\ last # w
    BY <1>3, <1>4, <1>7 DEF Hits, NewWindow, StreakInv, WindowsNoted
  <2>2. /\ current \in Nat /\ best \in Nat /\ current + 1 \in Nat
        /\ effect' \in {"none", "extended", "no_action", "grace", "broken"}
    BY <1>3 DEF StreakInv, WindowsNoted, StreakTypeOK
  <2>3. /\ last' = w /\ current' \in Nat /\ best' = Max({best, current'})
        /\ IsGreatest(current', Lengths(w)')
    <3>1. CASE Hits = {}
      <4>1. StartAnew(w)
        BY <1>3, <2>1, <3>1 DEF StreakInv, WindowsNoted
      <4>2. Lengths(w)' = {1}
        BY <1>3, <1>7, <2>1, <3>1, FirstRun DEF StreakInv
      <4> QED
        BY <4>1, <4>2 DEF StartAnew, IsGreatest
    <3>2. CASE Hits # {}
      <4>1. /\ last # Never /\ IsGreatest(current, Lengths(last))
        BY <3>2 DEF StreakInv, WindowsNoted, RunsMeasured, StreakStored
      <4>2. (WindowDistance(last, w) = 1 \/ InGrace(w, t)) <=> Prolongs(w, t)
        BY <1>7, <3>2, Decision DEF StreakInv
      <4>3. Lengths(w)' = {1} \union (IF Prolongs(w, t) THEN {l + 1 : l \in Lengths(last)}
                                      ELSE {})
        BY <1>3, <1>7, <2>1, <3>2, NewRuns DEF StreakInv
      <4>4. CASE Prolongs(w, t)
        <5>1. Continue(w)
          BY <1>3, <2>1, <4>1, <4>2, <4>4
        <5>2. IsGreatest(current + 1, {1} \union {l + 1 : l \in Lengths(last)})
          BY <2>2, <4>1 DEF IsGreatest
        <5> QED
          BY <2>2, <4>3, <4>4, <5>1, <5>2 DEF Continue
      <4>5. CASE ~Prolongs(w, t)
        <5>1. StartAnew(w)
          BY <1>3, <2>1, <4>1, <4>2, <4>5
        <5> QED
          BY <4>3, <4>5, <5>1 DEF StartAnew, IsGreatest
      <4> QED
        BY <4>4, <4>5
    <3> QED
      BY <3>1, <3>2
  <2>4. best' \in Nat
    BY <2>2, <2>3, GreaterOfTwo
  <2>5. WindowsNoted'
    BY <1>3, <1>7, <2>1, <2>2, <2>3, <2>4, WindowNoted DEF StreakInv
  <2>6. RunsMeasured' /\ StreakStored'
    BY <1>3, <1>7, <2>1, <2>3, RunStored
  <2> QED
    BY <2>5, <2>6 DEF StreakInv
<1> QED
  BY <1>5, <1>6, <1>7

LEMMA StreakInvMeansRun ==
  ASSUME StreakInv
  PROVE  StreakIsRun
<1> SUFFICES ASSUME Hits # {}
             PROVE  /\ current = RunLength(Max(Hits))
                    /\ best = Max({RunLength(w) : w \in Hits})
  BY DEF StreakIsRun
<1>1. Max(Hits) = last
  <2>1. last \in Hits /\ Hits \subseteq Int /\ \A x \in Hits : x <= last
    BY HitsTyped DEF StreakInv, WindowsNoted
  <2> QED
    BY <2>1, Greatest
<1>2. best = Max(RunLengths)
  BY GreatestIsMax DEF StreakInv, StreakStored
<1> QED
  BY <1>1, <1>2 DEF StreakInv, StreakStored, RunLengths

\* In regular calendars the stored streak is the run that ends in the newest
\* window, the best the longest run there was, whatever the windows, the grace,
\* the span and the events are (apply_qualifying).
THEOREM StreakIsNewestRun ==
  ASSUME Regular
  PROVE  StreakSpec => []StreakIsRun
<1>1. StreakInit => StreakInv
  BY StreakInvInit
<1>2. StreakInv /\ [StreakNext]_streakVars => StreakInv'
  <2>1. ASSUME StreakInv, UNCHANGED streakVars
        PROVE  StreakInv'
    <3>1. /\ UNCHANGED <<cal, current, best, last, effect, hit>>
          /\ Hits' = Hits /\ Start' = Start
      BY <2>1 DEF streakVars, Hits, Start
    <3>2. WindowsNoted'
      BY <2>1, <3>1 DEF StreakInv, WindowsNoted, StreakTypeOK, Instants
    <3>3. \A u : Lengths(u)' = Lengths(u) /\ RunLength(u)' = RunLength(u)
      BY <3>1 DEF Lengths, RunLength, Run, Between, Linked, LinkedFixed,
                  LinkedRolling, Rolling, Span, Grace, Start
    <3> QED
      BY <2>1, <3>1, <3>2, <3>3 DEF StreakInv, RunsMeasured, StreakStored, RunLengths
  <2> QED
    BY <2>1, StreakInvNext
<1>3. StreakInv => StreakIsRun
  BY StreakInvMeansRun
<1> QED
  BY <1>1, <1>2, <1>3, PTL DEF StreakSpec
=============================================================================
