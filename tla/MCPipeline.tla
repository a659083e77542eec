----------------------------- MODULE MCPipeline -----------------------------
EXTENDS Pipeline, TLC

CONSTANTS e1, e2, u1

\* Two events of one user, one of which awards XP and one takes some back.
TwoEvents == {e1, e2}
ActorOne == [e \in Events |-> u1]
AwardTwo == (e1 :> 2 @@ e2 :> -1)
=============================================================================
