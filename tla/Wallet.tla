------------------------------- MODULE Wallet -------------------------------
(***************************************************************************)
(* One wallet (a user and a currency) and the three transactions that      *)
(* write it: applyLedger for the currency commands of an event             *)
(* (internal/processing), AdjustWallet (internal/player) and the "credits" *)
(* branch of Purchase (internal/api).                                      *)
(*                                                                         *)
(* Each transaction runs at READ COMMITTED, one statement per step: a      *)
(* SELECT sees the rows committed so far and the transaction's own, an     *)
(* INSERT waits for an open transaction that inserted the same unique key, *)
(* an UPDATE waits for the transaction that holds the row.                 *)
(***************************************************************************)
EXTENDS Integers, Sequences, FiniteSets, FiniteSetsExt

CONSTANTS
  Txns,          \* the calls
  Kind,          \* Kind[t]: "command", "adjust" or "purchase"
  Entries,       \* Entries[t]: sequence of [key, amount]; one but for commands
  AllowNegative, \* the currency's policy
  Cap,           \* the currency's cap, 0 for none
  Permitted,     \* the adjust calls that ask for allow_negative
  Pool,          \* connections of the pool
  MaxOpen,       \* bound: transactions open at the same time
  NoTxn

Keys == UNION {{Entries[t][i].key : i \in DOMAIN Entries[t]} : t \in Txns}
Amounts == UNION {{Entries[t][i].amount : i \in DOMAIN Entries[t]} : t \in Txns}

ASSUME WalletAssumption ==
  /\ Kind \in [Txns -> {"command", "adjust", "purchase"}]
  /\ \A t \in Txns :
       /\ Entries[t] \in Seq([key : Keys, amount : Int])
       /\ Len(Entries[t]) > 0
       /\ Kind[t] # "command" => Len(Entries[t]) = 1
  /\ AllowNegative \in BOOLEAN
  /\ Cap \in Nat
  /\ Pool \in Nat
  /\ MaxOpen \in Nat
  /\ NoTxn \notin Txns

VARIABLES
  ledger,     \* the committed ledger_entries rows of the wallet
  wallet,     \* wallets.balance (0 for a missing row)
  walletLock, \* the transaction holding the wallets row
  pc,         \* per call: the next statement
  next,       \* per call: the entry it works on
  own,        \* per call: its uncommitted ledger rows
  sum,        \* per call: the SUM(amount) it read
  written,    \* per call: the balance it wrote, uncommitted
  overlapped  \* history: calls that were open together with another

vars == <<ledger, wallet, walletLock, pc, next, own, sum, written, overlapped>>

Running == {"insert", "select", "upsert", "commit", "report"}
Steps == Running \union {"waiting", "done", "duplicate", "refused", "lost"}

\* The open transactions; each holds a connection.
Open == {t \in Txns : pc[t] \in Running}

Rows == [tx : Txns, key : Keys, amount : Amounts]

TypeOK ==
  /\ ledger \subseteq Rows
  /\ wallet \in Int
  /\ walletLock \in Txns \union {NoTxn}
  /\ pc \in [Txns -> Steps]
  /\ next \in [Txns -> Nat \ {0}]
  /\ own \in [Txns -> SUBSET Rows]
  /\ sum \in [Txns -> Int]
  /\ written \in [Txns -> Int]
  /\ overlapped \subseteq Txns

Init ==
  /\ ledger = {}
  /\ wallet = 0
  /\ walletLock = NoTxn
  /\ pc = [t \in Txns |-> "waiting"]
  /\ next = [t \in Txns |-> 1]
  /\ own = [t \in Txns |-> {}]
  /\ sum = [t \in Txns |-> 0]
  /\ written = [t \in Txns |-> 0]
  /\ overlapped = {}
-----------------------------------------------------------------------------
\* COALESCE(SUM(amount), 0)
Balance(rows) == MapThenSumSet(LAMBDA r : r.amount, rows)

Entry(t) == Entries[t][next[t]]
KeysOf(rows) == {r.key : r \in rows}

Begin(t) ==
  /\ pc[t] = "waiting"
  /\ Cardinality(Open) < Pool
  /\ Cardinality(Open) < MaxOpen
  /\ pc' = [pc EXCEPT ![t] = "insert"]
  /\ overlapped' = IF Open = {} THEN overlapped
                   ELSE overlapped \union Open \union {t}
  /\ UNCHANGED <<ledger, wallet, walletLock, next, own, sum, written>>

\* Mutated form: the wallet row stays locked.
CloseKeepsLock(t, how) ==
  /\ pc' = [pc EXCEPT ![t] = how]
  /\ own' = [own EXCEPT ![t] = {}]
  /\ UNCHANGED walletLock

\* A rollback drops the open transaction's rows and locks.
Close(t, how) ==
  /\ pc' = [pc EXCEPT ![t] = how]
  /\ own' = [own EXCEPT ![t] = {}]
  /\ walletLock' = IF walletLock = t THEN NoTxn ELSE walletLock

\* The next command of the event, or the commit after the last one.
GoOn(t) ==
  IF next[t] < Len(Entries[t])
  THEN /\ next' = [next EXCEPT ![t] = @ + 1]
       /\ pc' = [pc EXCEPT ![t] = "insert"]
  ELSE /\ pc' = [pc EXCEPT ![t] = "commit"]
       /\ UNCHANGED next

\* Mutated form: only the call's own keys are looked at.
TakenOwn(t) == KeysOf(own[t])

\* The keys an INSERT conflicts with: committed ones and the call's own.
Taken(t) == KeysOf(ledger \union own[t])

\* INSERT ... ON CONFLICT DO NOTHING.  For a purchase the key is that of the
\* transactions row; its ledger row has a fresh reference and cannot conflict.
InsertEntry(t) ==
  /\ pc[t] = "insert"
  /\ \A x \in Txns \ {t} : Entry(t).key \notin KeysOf(own[x])
  /\ IF Entry(t).key \notin Taken(t)
     THEN /\ own' = [own EXCEPT ![t] =
                       @ \union {[tx |-> t, key |-> Entry(t).key,
                                  amount |-> Entry(t).amount]}]
          /\ pc' = [pc EXCEPT ![t] =
                      IF Kind[t] = "purchase" THEN "upsert" ELSE "select"]
          /\ UNCHANGED <<next, walletLock>>
     ELSE CASE Kind[t] = "command" -> GoOn(t) /\ UNCHANGED <<own, walletLock>>
            [] Kind[t] = "purchase" -> Close(t, "duplicate") /\ UNCHANGED next
            [] OTHER -> /\ pc' = [pc EXCEPT ![t] = "report"]
                        /\ UNCHANGED <<own, next, walletLock>>
  /\ UNCHANGED <<ledger, wallet, sum, written, overlapped>>

\* AdjustWallet answers a replay with the balance it reads from the pool, on
\* a second connection: its own transaction is still open.
Report(t) ==
  /\ pc[t] = "report"
  /\ Cardinality(Open) < Pool
  /\ sum' = [sum EXCEPT ![t] = Balance(ledger)]
  /\ Close(t, "duplicate")
  /\ UNCHANGED <<ledger, wallet, next, written, overlapped>>

\* The engine path checks the policy and the cap, AdjustWallet only the sign.
Refused(t, balance) ==
  IF Kind[t] = "command"
  THEN \/ balance < 0 /\ ~AllowNegative
       \/ Cap > 0 /\ balance > Cap
  ELSE balance < 0 /\ t \notin Permitted

\* Mutated form: a refused command is skipped and the next one is tried.
RefuseSkips(t) ==
  /\ own' = [own EXCEPT ![t] = {x \in @ : x.key # Entry(t).key}]
  /\ GoOn(t)
  /\ UNCHANGED walletLock

Refuse(t) ==
  /\ Close(t, "refused")
  /\ UNCHANGED next

SelectSum(t) ==
  LET balance == Balance(ledger \union own[t]) IN
  /\ pc[t] = "select"
  /\ sum' = [sum EXCEPT ![t] = balance]
  /\ IF Refused(t, balance)
     THEN Refuse(t)
     ELSE /\ pc' = [pc EXCEPT ![t] = "upsert"]
          /\ UNCHANGED <<own, next, walletLock>>
  /\ UNCHANGED <<ledger, wallet, written, overlapped>>

\* Mutated form: every writer adds to the balance it finds.
NewBalanceAdds(t) == wallet + Entry(t).amount

\* applyLedger and AdjustWallet write the sum they read, Purchase adds to the
\* balance the row holds when the lock is granted.
NewBalance(t) ==
  IF Kind[t] = "purchase" THEN wallet + Entry(t).amount ELSE sum[t]

UpsertWallet(t) ==
  /\ pc[t] = "upsert"
  /\ walletLock \in {NoTxn, t}
  /\ walletLock' = t
  /\ written' = [written EXCEPT ![t] = NewBalance(t)]
  /\ GoOn(t)
  /\ UNCHANGED <<ledger, wallet, own, sum, overlapped>>

Commit(t) ==
  /\ pc[t] = "commit"
  /\ ledger' = ledger \union own[t]
  /\ wallet' = IF walletLock = t THEN written[t] ELSE wallet
  /\ Close(t, "done")
  /\ UNCHANGED <<next, sum, written, overlapped>>

\* The process or the connection dies, or another statement of an event's
\* transaction fails.  The caller's retry is a call of its own.
Lose(t) ==
  /\ t \in Open
  /\ Close(t, "lost")
  /\ UNCHANGED <<ledger, wallet, next, sum, written, overlapped>>
-----------------------------------------------------------------------------
Advance(t) ==
  \/ InsertEntry(t)
  \/ Report(t)
  \/ SelectSum(t)
  \/ UpsertWallet(t)
  \/ Commit(t)

Next == \E t \in Txns : Begin(t) \/ Advance(t) \/ Lose(t)

Spec == Init /\ [][Next]_vars

\* An open transaction is executed to its end.
FairSpec == Spec /\ \A t \in Txns : WF_vars(Advance(t))
-----------------------------------------------------------------------------
\* A reference is applied once, however many calls carry it and however they
\* interleave, fail and are retried (UNIQUE (project, env, source, reference)).
OneEntryPerKey ==
  \A r, s \in ledger : r.key = s.key => r = s

\* The currency commands of an event are applied all or none.
AllEntriesOrNone ==
  \A r \in ledger :
    \A i \in DOMAIN Entries[r.tx] : Entries[r.tx][i].key \in KeysOf(ledger)

\* The commands of an event are judged one after the other, in their order.
WithinPolicy(balance) ==
  /\ AllowNegative \/ balance >= 0
  /\ Cap = 0 \/ balance <= Cap

\* The ledger after the first n commands of an event.
LedgerAfter(t, n) == ledger \union {r \in own[t] : \E i \in 1 .. n : Entries[t][i].key = r.key}

\* A writer that met no other one leaves a wallet that is the ledger's sum,
\* whatever earlier overlaps had done to it ("balance is derived from the
\* ledger, never incremented blindly", applyLedger).  A server-to-server call
\* leaves it overdrawn only if it may; an event is applied only if the balance
\* is within the policy and the cap after each of its commands, although other
\* writers do not look at the cap.
LoneWriterHeals ==
  [][\A t \in Txns \ overlapped :
       Commit(t) /\ own[t] # {} /\ Kind[t] # "purchase"
         => /\ wallet' = Balance(ledger')
            /\ Kind[t] = "adjust" => wallet' >= 0 \/ t \in Permitted
            /\ Kind[t] = "command" =>
                 \A n \in DOMAIN Entries[t] :
                   Entries[t][n].key \in KeysOf(own[t])
                     => WithinPolicy(Balance(LedgerAfter(t, n)))]_vars

\* The replays that hold a connection and want a second one.
Replays == {t \in Txns : pc[t] = "report"}

\* Every call ends: no cycle of waits on keys and on the wallet row, and no
\* call is kept from its end by the pool, but for replays that hold all of it:
\* each of them waits for a connection that another one has (AdjustWallet).
CallsEnd ==
  \A t \in Txns :
    t \in Open ~> \/ t \notin Open
                  \/ t \in Replays /\ Cardinality(Replays) = Pool
=============================================================================
