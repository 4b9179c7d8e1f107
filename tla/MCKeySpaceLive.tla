-------------------------- MODULE MCKeySpaceLive ---------------------------
(* Two keys and two entries under fairness.  process_timers stops after one  *)
(* work, so that overdue keys are left behind.                               *)
EXTENDS KeySpace

CONSTANTS a1, a2, k1, k2, v1

MCAddrs == {a1, a2}
MCKeys == {k1, k2}
MCVals == {v1}
MCNames == {1}
MCScores == {1}
MCQueries == {}
MCTtls == {0, 2}
=============================================================================
