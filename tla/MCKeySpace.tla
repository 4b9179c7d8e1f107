---------------------------- MODULE MCKeySpace -----------------------------
(* Two keys and three entries: both keys can be there while an entry waits   *)
(* for the pool, and its address comes back.  The clock counts half          *)
(* milliseconds up to 2 and wraps at 5: a TTL of 1 ms is kept and runs out,  *)
(* one of 2 ms is kept at first and wraps around from 1 on.  A sorted set    *)
(* with a member is large, one without is not; a member may get another      *)
(* score; process_timers stops after two works.                              *)
EXTENDS KeySpace, TLC

CONSTANTS a1, a2, a3, k1, k2, v1, v2

MCAddrs == {a1, a2, a3}
MCKeys == {k1, k2}
MCVals == {v1, v2}
MCNames == {1}
MCScores == {1, 2}
MCQueries == [score : {2}, name : {0}, offset : {0}, limit : {0, 1}]
MCTtls == {-1, 1, 2}
MCSymmetry == Permutations(MCAddrs) \cup Permutations(MCKeys)
                \cup Permutations(MCVals)
=============================================================================
