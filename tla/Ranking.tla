------------------------------ MODULE Ranking ------------------------------
(***************************************************************************)
(* Places on a leaderboard: the ranking crate, which sorts the entries and *)
(* walks over them, and the SQL of GetLeaderboard and GetFullState, which  *)
(* counts for each entry the entries ahead of it.  An entry is a record    *)
(* [user, score, at]; user ids are numbers, because they are compared.     *)
(***************************************************************************)
EXTENDS Integers, Sequences, FiniteSets, SequencesExt

Directions == {"highest", "lowest"}
TieBreakers == {"earliest", "latest", "user"}

LexLess(a, b) == \E i \in DOMAIN a : a[i] < b[i] /\ \A j \in 1 .. i - 1 : a[j] = b[j]

-----------------------------------------------------------------------------
(* The crate.                                                              *)

\* The score in the board's direction, and the time in that of its tie-breaker.
PlaceKey(e, spec) ==
  <<IF spec.direction = "highest" THEN -e.score ELSE e.score,
    CASE spec.tie_breaker = "earliest" -> e.at
      [] spec.tie_breaker = "latest" -> -e.at
      [] OTHER -> 0>>

SortKey(e, spec) == PlaceKey(e, spec) \o <<e.user>>

\* sort_by: the one list of the entries in which each is before those it beats.
Sorted(entries, spec) ==
  CHOOSE list \in SetToSeqs(entries) :
    \A i, j \in DOMAIN list :
      i < j => LexLess(SortKey(list[i], spec), SortKey(list[j], spec))

\* Mutated form: a tie is an equal score.
RanksByScore(entries, spec) ==
  LET sorted == Sorted(entries, spec)
      rank[i \in 1 .. Len(sorted)] ==
        IF i > 1 /\ sorted[i].score = sorted[i - 1].score THEN rank[i - 1] ELSE i
  IN  [i \in 1 .. Len(sorted) |-> [entry |-> sorted[i], rank |-> rank[i]]]

\* The walk over the sorted entries: an entry whose score and time are those
\* of the one before it shares its rank, any other takes its position.
Ranks(entries, spec) ==
  LET sorted == Sorted(entries, spec)
      Tie(i) == i > 1 /\ PlaceKey(sorted[i], spec) = PlaceKey(sorted[i - 1], spec)
      rank[i \in 1 .. Len(sorted)] == IF Tie(i) THEN rank[i - 1] ELSE i
  IN  [i \in 1 .. Len(sorted) |-> [entry |-> sorted[i], rank |-> rank[i]]]

PositionOf(entries, spec, e) ==
  LET ranks == Ranks(entries, spec)
  IN  ranks[CHOOSE i \in DOMAIN ranks : ranks[i].entry = e].rank

-----------------------------------------------------------------------------
(* The SQL.                                                                *)

Newest == [direction |-> "highest", tie_breaker |-> "earliest"]

\* rankExpr: always by falling score, and never shared.
RankExpr(entries, e) ==
  1 + Cardinality({x \in entries : LexLess(SortKey(x, Newest), SortKey(e, Newest))})

\* The page of GetLeaderboard: ORDER BY in the board's direction, LIMIT.
Page(entries, direction, limit) ==
  LET spec == [direction |-> direction, tie_breaker |-> "earliest"]
      sorted == Sorted(entries, spec)
  IN  [i \in 1 .. IF Len(sorted) < limit THEN Len(sorted) ELSE limit |->
        [entry |-> sorted[i], rank |-> RankExpr(entries, sorted[i])]]
=============================================================================
