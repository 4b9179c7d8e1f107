---------------------------- MODULE MCThreadPool ----------------------------
(* Three workers and four works: a worker can sleep, another run and a third *)
(* race for the queue while works wait.  No symmetry, which liveness         *)
(* checking does not allow.                                                  *)
EXTENDS ThreadPool

CONSTANTS t1, t2, t3, w1, w2, w3, w4

MCWorkers == {t1, t2, t3}
MCWorks == {w1, w2, w3, w4}
=============================================================================
