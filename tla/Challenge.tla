----------------------------- MODULE Challenge -----------------------------
(***************************************************************************)
(* The progress of one actor in one challenge: LoadActorState's choice of  *)
(* the row, the engine's apply_progress with the caller's decision to      *)
(* issue rewards (process_event), and persistState's window-keyed upsert.  *)
(*                                                                         *)
(* Events are processed one at a time (Pipeline has the overlaps).  A      *)
(* window is the number of the period that contains the event's            *)
(* occurred_at, which the client chooses: events may arrive late.          *)
(***************************************************************************)
EXTENDS Integers, FiniteSets

CONSTANTS
  Specs,     \* the specifications: [target, triggered]
  Windows,   \* the periods 1 .. Windows; a spec without window has one
  MaxEvents, \* bound: qualifying events per window
  NoRow

Window == 1 .. Windows
Status == {"available", "in_progress", "completed"}
Instance ==
  [progress : Int, status : Status, window : Window, completions : Nat,
   granted : BOOLEAN]

ASSUME ChallengeAssumption ==
  /\ Specs \subseteq [target : Int, triggered : BOOLEAN]
  /\ Windows \in Nat
  /\ MaxEvents \in Nat
  /\ NoRow \notin Window
  /\ NoRow \notin Instance

VARIABLES
  spec,    \* the ChallengeSpec, one per behaviour
  rows,    \* challenge_progress: the saved instance of each window
  latest,  \* the window of the row with the newest updated_at
  events,  \* history: qualifying events processed, per window
  rewarded,\* history: how often the rewards were issued, per window
  late     \* history: whether an event of a past window was processed

vars == <<spec, rows, latest, events, rewarded, late>>

Target == spec.target
Triggered == spec.triggered \* trigger_event is set

Saved == {w \in Window : rows[w] # NoRow}

TypeOK ==
  /\ spec \in Specs
  /\ rows \in [Window -> Instance \union {NoRow}]
  /\ \A w \in Saved : rows[w].window = w
  /\ latest \in Saved \union {NoRow}
  /\ events \in [Window -> Nat]
  /\ rewarded \in [Window -> Nat]
  /\ late \in BOOLEAN

Init ==
  /\ spec \in Specs
  /\ rows = [w \in Window |-> NoRow]
  /\ latest = NoRow
  /\ events = [w \in Window |-> 0]
  /\ rewarded = [w \in Window |-> 0]
  /\ late = FALSE
-----------------------------------------------------------------------------
\* entry(..).or_insert_with
Fresh(w) ==
  [progress |-> 0, status |-> IF Triggered THEN "available" ELSE "in_progress",
   window |-> w, completions |-> 0, granted |-> FALSE]

\* LoadActorState: SELECT DISTINCT ON ... ORDER BY updated_at DESC.
Loaded(w) == IF latest = NoRow THEN Fresh(w) ELSE rows[latest]

\* Mutated form: the progress of the old window is kept.
RolloverKeepsProgress(c, w) ==
  IF c.window = w THEN c
  ELSE [c EXCEPT !.completions = IF c.status = "completed" THEN @ + 1 ELSE @,
                 !.status = "in_progress", !.window = w, !.granted = FALSE]

\* A new window re-arms the instance.
Rollover(c, w) ==
  IF c.window = w THEN c
  ELSE [progress |-> 0, status |-> "in_progress", window |-> w,
        completions |-> IF c.status = "completed"
                        THEN c.completions + 1 ELSE c.completions,
        granted |-> FALSE]

\* Progress after the rollover.  "granted" stands for the identities in
\* granted_rewards, which are issued together.
Advance(c, delta) ==
  LET reached == Target > 0 /\ c.progress + delta >= Target IN
  IF c.status = "completed" THEN c
  ELSE [c EXCEPT !.progress = IF reached THEN Target ELSE @ + delta,
                 !.status = IF reached THEN "completed" ELSE "in_progress",
                 !.granted = @ \/ reached]

\* ChallengeOutcome.completed: this progression completed the instance.
Completes(c, w, delta) ==
  /\ Rollover(c, w).status # "completed"
  /\ Advance(Rollover(c, w), delta).status = "completed"

\* Mutated forms: every outcome of a completed instance issues the rewards;
\* only the first completion does.
IssuesWhileCompleted(c, w) == Advance(Rollover(c, w), 1).status = "completed"
IssuesOnce(c, w) == Completes(c, w, 1) /\ Rollover(c, w).completions = 0

\* process_event issues the rewards if the loaded instance, whatever its
\* window, was not completed.
Issues(c, w) == Completes(c, w, 1) /\ c.status # "completed"

Process(w) ==
  LET c == Loaded(w)
      next == Advance(Rollover(c, w), 1)
  IN /\ late' = (late \/ \E v \in Window : v > w /\ events[v] > 0)
     /\ rows' = [rows EXCEPT ![next.window] = next]
     /\ latest' = next.window
     /\ events' = [events EXCEPT ![w] = @ + 1]
     /\ UNCHANGED spec
     /\ rewarded' = [rewarded EXCEPT ![w] = IF Issues(c, w) THEN @ + 1 ELSE @]

Next ==
  \E w \in Window : events[w] < MaxEvents /\ Process(w)

Spec == Init /\ [][Next]_vars
-----------------------------------------------------------------------------
\* As long as events arrive in order, the row of every window counts the
\* window's own events up to the target, whatever happened in the windows
\* before.
ProgressCountsEvents ==
  ~late =>
    \A w \in Window :
      events[w] > 0 =>
        /\ w \in Saved
        /\ rows[w].progress =
             IF Target > 0 /\ events[w] > Target THEN Target ELSE events[w]

\* "unique grants" (ChallengeOutcome.reward_grants), "a new window resets
\* progress (repeatable challenges)" (apply_progress): as long as events arrive
\* in order, the rewards of a window are issued once if it was completed and
\* never otherwise.  (A window completed by its first event, after a completed
\* one, is not rewarded: Issues looks at the loaded instance.)
RewardedIffCompleted ==
  ~late =>
    \A w \in Window :
      \/ rewarded[w] = IF w \in Saved /\ rows[w].status = "completed" THEN 1 ELSE 0
      \/ /\ Target = 1
         /\ rewarded[w] = 0
         /\ \E v \in Saved : v < w /\ rows[v].status = "completed"

\* Late events restart the progress of their window and may have its rewards
\* issued again, but each issue needs a target's worth of the window's events:
\* going back and forth between windows earns nothing that was not done.
RewardsEarned ==
  \A w \in Window :
    /\ rewarded[w] * Target <= events[w]
    /\ Target = 0 => rewarded[w] = 0
=============================================================================
