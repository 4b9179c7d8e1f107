----------------------------- MODULE SortedSet -----------------------------
(***************************************************************************)
(* A sorted set as its users know it: a score for each of its names, and   *)
(* the tuples (score, name) in their order.  Names and scores are          *)
(* numbers: a name stands for its place in the order of the bytes (memcmp, *)
(* then the length), so that 0 can stand for the empty string.             *)
(***************************************************************************)
EXTENDS Integers, FiniteSets

\* The sorted sets over some names and scores.
ZSets(names, scores) == UNION {[D -> scores] : D \in SUBSET names}

NoTuples == [n \in {} |-> 0]

\* zless: (s, m) comes before (t, n).
zless(s, m, t, n) == s < t \/ (s = t /\ m < n)

PutTuple(z, n, s) == [m \in DOMAIN z \cup {n} |-> IF m = n THEN s ELSE z[m]]
DropTuple(z, n) == [m \in DOMAIN z \ {n} |-> z[m]]

\* The names of the tuples before (s, n), and how many there are.
Preceding(z, s, n) == {m \in DOMAIN z : zless(z[m], m, s, n)}
Rank(z, s, n) == Cardinality(Preceding(z, s, n))

\* The name with i tuples before it.
NameAt(z, i) == CHOOSE n \in DOMAIN z : Rank(z, z[n], n) = i

\* How many tuples zquery lists that are there from the position start on.  It
\* counts two elements for each and goes on while the count is below the limit.
Listed(size, start, limit) ==
  LET wanted == (limit + 1) \div 2
  IN  IF limit <= 0 \/ start < 0 \/ start >= size THEN 0
      ELSE IF start + wanted <= size THEN wanted ELSE size - start

\* The answer of zquery: the first tuple not before (s, n), if there is one,
\* gives the position 0; from the position offset on, tuples are listed.
QueryTuples(z, s, n, offset, limit) ==
  LET size == Cardinality(DOMAIN z)
      first == Rank(z, s, n)
      count == IF first = size THEN 0 ELSE Listed(size, first + offset, limit)
  IN  [i \in 1..count |-> LET m == NameAt(z, first + offset + i - 1) IN <<m, z[m]>>]
=============================================================================
