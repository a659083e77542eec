------------------------------ MODULE MCWallet ------------------------------
EXTENDS Wallet, TLC

CONSTANTS c1, a1, a2, a3, p1

Row(k, n) == [key |-> k, amount |-> n]

\* An event that earns and spends, a server-to-server spend and two retries
\* with the same reference (which may hold the whole pool), a purchase.
AllTxns == {c1, a1, a2, a3, p1}
AllKinds == (c1 :> "command" @@ a1 :> "adjust" @@ a2 :> "adjust" @@
             a3 :> "adjust" @@ p1 :> "purchase")
AllEntries ==
  (c1 :> <<Row("r1", 2), Row("r2", -1)>> @@
   a1 :> <<Row("d", -1)>> @@ a2 :> <<Row("d", -1)>> @@
   a3 :> <<Row("d", -1)>> @@ p1 :> <<Row("p", 1)>>)
=============================================================================
