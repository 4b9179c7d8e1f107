------------------------------- MODULE MCZSet -------------------------------
(* Six names and two scores: rotations of each kind that move a subtree,     *)
(* a removed node whose successor is its child or further down, and tuples   *)
(* of equal scores.  The queries begin at the first tuple, at one within or  *)
(* past the last, go back one place or on, and have even and odd limits.     *)
EXTENDS ZSet

MCNodes == 1..6
MCScores == 1..2
Query(s, n, offset, limit) ==
  [op |-> "zquery", score |-> s, name |-> n, offset |-> offset, limit |-> limit]
MCQueries == {Query(1, 4, offset, limit) : offset \in {-1, 2}, limit \in {1, 4}}
               \cup {Query(1, 0, 4, 3), Query(2, 3, -2, 3), Query(3, 0, 0, 2), Query(1, 0, 0, 0)}
=============================================================================
