--------------------------- MODULE AtomicPipeline ---------------------------
(***************************************************************************)
(* What the pipeline promises until two calls overlap or a read of the     *)
(* actor's state fails unnoticed: an event is evaluated against the        *)
(* actor's current state and applied in one step.                          *)
(* There are no workers, no snapshots, no locks and no failed attempts:    *)
(* those are how Pipeline implements this.  An applied event can be        *)
(* reopened, because a failure report is not tied to the status it finds.  *)
(* Once that is disturbed the rows may hold anything.                      *)
(***************************************************************************)
EXTENDS Integers

CONSTANTS Events, Users, Actor, Award, FrequencyCap

VARIABLES
  closed, \* the events whose outcome is applied and not reopened
  track,  \* the XP of each user
  fires,  \* how often the rule fired for each user
  disturbed \* whether calls disturbed or a read failed unnoticed

vars == <<closed, track, fires, disturbed>>

Init ==
  /\ closed = {}
  /\ track = [u \in Users |-> 0]
  /\ fires = [u \in Users |-> 0]
  /\ disturbed = FALSE

\* XP is clamped at zero.
Raised(xp, amount) == IF xp + amount > 0 THEN xp + amount ELSE 0

RuleFires(u) == FrequencyCap = 0 \/ fires[u] < FrequencyCap

Process(e) ==
  LET u == Actor[e] IN
  /\ e \notin closed
  /\ closed' = closed \union {e}
  /\ IF RuleFires(u)
     THEN /\ track' = [track EXCEPT ![u] = Raised(@, Award[e])]
          /\ fires' = [fires EXCEPT ![u] = @ + 1]
     ELSE UNCHANGED <<track, fires>>
  /\ UNCHANGED disturbed

Reopen(e) ==
  /\ e \in closed
  /\ closed' = closed \ {e}
  /\ UNCHANGED <<track, fires, disturbed>>

\* Nothing is promised of the step that disturbs the calls, nor later.
Disturb == disturbed'

Next == Disturb \/ \E e \in Events : Process(e) \/ Reopen(e)

Spec == Init /\ [][Next]_vars
=============================================================================
