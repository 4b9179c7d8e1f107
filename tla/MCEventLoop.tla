---------------------------- MODULE MCEventLoop -----------------------------
(* Three connections and three descriptors; the clock runs long enough for a *)
(* connection to be idle for too long twice.                                 *)
EXTENDS EventLoop

CONSTANTS c1, c2, c3

MCConns == {c1, c2, c3}
MCFds == 4..6
MCSymmetry == Permutations(MCConns)
=============================================================================
