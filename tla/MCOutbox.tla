------------------------------ MODULE MCOutbox ------------------------------
EXTENDS Outbox, TLC

CONSTANTS p1, p2, a, b

\* Two endpoints are subscribed to the topic of row 2, none to that of row 1.
SubscribedTwo == [r \in Rows |-> IF r = 2 THEN {a, b} ELSE {}]

\* One publisher fails or crashes once while the other one goes on.
FaultsOne == p1 :> 1 @@ p2 :> 0
=============================================================================
