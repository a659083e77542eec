---------------------------- MODULE MCChallenge ----------------------------
EXTENDS Challenge

\* Without a target, completed by one event, and by several.
Targets == [target : {0, 1, 3}, triggered : BOOLEAN]
=============================================================================
