------------------------------- MODULE Ledger -------------------------------
(***************************************************************************)
(* The ledger kernel of the economy crate: Ledger::apply validates a batch *)
(* and appends it, Ledger::reverse appends a compensating entry.           *)
(*                                                                         *)
(* An entry's id is its position; the pair (source, reference) is one      *)
(* key.  Every call takes the same currency definitions; a currency that   *)
(* is not in Defined has none.                                             *)
(***************************************************************************)
EXTENDS Integers, Sequences, FiniteSetsExt

CONSTANTS
  Wallets, Currencies,
  Defined,       \* the currencies that have a CurrencyDef
  AllowNegative, \* the defined currencies whose balance may be negative
  Cap,           \* Cap[c]: 0 for none
  References,    \* the keys callers give to their entries
  Amounts,       \* signed amounts of the callers' entries
  MaxBatch,      \* bound: entries of a batch
  MaxEntries     \* bound: entries of the ledger

ASSUME LedgerAssumption ==
  /\ Defined \subseteq Currencies
  /\ AllowNegative \subseteq Defined
  /\ Cap \in [Defined -> Nat]
  /\ Amounts \subseteq Int
  /\ MaxBatch \in Nat
  /\ MaxEntries \in Nat

VARIABLES
  entries, \* Ledger.entries
  seen,    \* Ledger.seen
  answer   \* what the last call returned

vars == <<entries, seen, answer>>

Errors == {"duplicate", "unknown", "negative", "cap", "missing", "reversed"}

\* A key is a caller's reference or that of the reversal of an entry.
Keys == [kind : {"caller"}, of : References]
          \union [kind : {"reversal"}, of : Nat]
Entry == [wallet : Wallets, currency : Currencies, amount : Int, key : Keys,
          reverses : Nat] \* reverses = 0: none

TypeOK ==
  /\ entries \in Seq(Entry)
  /\ seen \subseteq Keys
  /\ answer \in Errors \union {"ok"}

Init ==
  /\ entries = <<>>
  /\ seen = {}
  /\ answer = "ok"
-----------------------------------------------------------------------------
\* The sum of the signed amounts of a wallet in a currency.
Balance(es, w, c) ==
  MapThenSumSet(LAMBDA i : es[i].amount,
                {i \in DOMAIN es : es[i].wallet = w /\ es[i].currency = c})

Touched(batch) ==
  {<<batch[i].wallet, batch[i].currency>> : i \in DOMAIN batch}

\* Mutated form: only the newest entry of the batch is added.
FinalOfLast(batch, w, c) ==
  Balance(entries, w, c) + Balance(<<batch[Len(batch)]>>, w, c)

\* Pass 2: the balance after the whole batch.
Final(batch, w, c) == Balance(entries, w, c) + Balance(batch, w, c)

\* The errors of pass 2; the first one met depends on the map's order.
NetErrors(batch) ==
  UNION {LET w == p[1]
             c == p[2]
             final == Final(batch, w, c)
         IN IF c \notin Defined THEN {"unknown"}
            ELSE IF final < 0 /\ c \notin AllowNegative THEN {"negative"}
            ELSE IF Cap[c] > 0 /\ final > Cap[c] THEN {"cap"}
            ELSE {} : p \in Touched(batch)}

KeysOf(es) == {es[i].key : i \in DOMAIN es}

\* Mutated form: only the first entry's key is looked up.
ReplayedFirst(batch) == batch[1].key \in seen

\* Pass 1: a key of the batch has been applied before.
Replayed(batch) == KeysOf(batch) \cap seen # {}

AppendBatch(batch) ==
  /\ entries' = entries \o batch
  /\ seen' = seen \union KeysOf(batch)

\* Ledger::apply of a batch that is not empty.
ApplyBatch(batch) ==
  IF Replayed(batch)
  THEN answer' = "duplicate" /\ UNCHANGED <<entries, seen>>
  ELSE IF NetErrors(batch) # {}
  THEN answer' \in NetErrors(batch) /\ UNCHANGED <<entries, seen>>
  ELSE answer' = "ok" /\ AppendBatch(batch)

\* A caller's batch, made with LedgerEntry::earn and ::spend.
Requested ==
  [wallet : Wallets, currency : Currencies, amount : Amounts,
   key : [kind : {"caller"}, of : References], reverses : {0}]

Apply ==
  \E n \in 1 .. MaxBatch :
    /\ Len(entries) + n <= MaxEntries
    /\ \E batch \in [1 .. n -> Requested] : ApplyBatch(batch)

\* Mutated form: the sign of the original is kept.
CompensationSameSign(id) ==
  [entries[id] EXCEPT !.key = [kind |-> "reversal", of |-> id],
                      !.reverses = id]

Compensation(id) ==
  [entries[id] EXCEPT !.amount = -entries[id].amount,
                      !.key = [kind |-> "reversal", of |-> id],
                      !.reverses = id]

Reversed(id) == \E i \in DOMAIN entries : entries[i].reverses = id

ReverseEntry ==
  /\ Len(entries) < MaxEntries
  /\ \E id \in 1 .. MaxEntries :
       IF id \notin DOMAIN entries
       THEN answer' = "missing" /\ UNCHANGED <<entries, seen>>
       ELSE IF Reversed(id)
       THEN answer' = "reversed" /\ UNCHANGED <<entries, seen>>
       ELSE ApplyBatch(<<Compensation(id)>>)

Next == Apply \/ ReverseEntry

Spec == Init /\ [][Next]_vars
-----------------------------------------------------------------------------
\* Whatever batches and reversals were accepted, and in whatever order, no
\* wallet is overdrawn or above its cap against the currency's policy.
WithinPolicy ==
  \A w \in Wallets, c \in Defined :
    LET b == Balance(entries, w, c) IN
    /\ b < 0 => c \in AllowNegative
    /\ Cap[c] > 0 => b <= Cap[c]

\* A batch, or a reversal, that carries a key applied before adds nothing,
\* even when it is put together with fresh entries.
NoReplayAcrossBatches ==
  [][\A i \in DOMAIN entries' \ DOMAIN entries :
       entries'[i].key \notin KeysOf(entries)]_vars

\* An entry is compensated at most once, by an entry of the same wallet and
\* currency and of the opposite amount, appended after it.
ReversedAtMostOnce ==
  \A i, j \in DOMAIN entries :
    /\ entries[i].reverses # 0 /\ entries[i].reverses = entries[j].reverses
         => i = j
    /\ entries[i].reverses = j
         => /\ j < i
            /\ entries[i].wallet = entries[j].wallet
            /\ entries[i].currency = entries[j].currency
            /\ entries[i].amount = -entries[j].amount
=============================================================================
