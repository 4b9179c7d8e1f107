---------------------------- MODULE MCConnection ----------------------------
(* Messages of at most three units.  Requests that fill rbuf to the last     *)
(* unit, that are short, too long, empty, or do not parse; outputs that fit  *)
(* and one that does not.  The send buffer takes less than a reply, the      *)
(* receive buffer more than a request.                                       *)
EXTENDS Connection

R(l, b, k, o) == [len |-> l, body |-> b, ok |-> k, out |-> o]

MCRequests == {R(1, 1, TRUE, 2), R(3, 3, TRUE, 1), R(2, 2, TRUE, 5),
               R(4, 4, TRUE, 1), R(1, 1, FALSE, 1),
               R(0, 0, FALSE, 1)}
\* Those that are answered.
MCGoodRequests == {r \in MCRequests : r.ok /\ r.len <= 3}
MCFaults == {"fin", "reset", "idle"}
=============================================================================
