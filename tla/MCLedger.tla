------------------------------ MODULE MCLedger ------------------------------
EXTENDS Ledger

CONSTANTS w1, coin, debt, gem

\* coin has a cap and may not be negative, debt the reverse, gem no definition.
Caps == [c \in Defined |-> IF c = coin THEN 2 ELSE 0]
Signed == {-2, 1, 2}
=============================================================================
