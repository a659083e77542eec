----------------------------- MODULE MCGateway -----------------------------
EXTENDS Gateway, TLC

CONSTANTS c1, c2, c3, k1, e1, t1, b1, b2, u1, u2

\* Without key and time; with a key; with an id and a time.
Plain == [id |-> None, key |-> None, when |-> None, body |-> b1, actor |-> u1]
Keyed == [id |-> None, key |-> k1, when |-> t1, body |-> b2, actor |-> u2]
Timed == [id |-> e1, key |-> None, when |-> t1, body |-> b1, actor |-> u1]

\* A batch, its events sent again in the other order, and a batch that repeats
\* an event of its own.
Requests ==
  (c1 :> <<Plain, Keyed>> @@ c2 :> <<Keyed, Plain>> @@ c3 :> <<Timed, Plain, Timed>>)
=============================================================================
