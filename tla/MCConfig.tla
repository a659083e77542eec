------------------------------ MODULE MCConfig ------------------------------
EXTENDS Config, TLC

CONSTANTS c1, c2, rule, promoted, product, development, production, good, better, bad

Environments == (rule :> development @@ promoted :> production @@ product :> production)
Promotions == (rule :> promoted)
Symmetric == Permutations(Calls)
=============================================================================
