----------------------------- MODULE MCTtlHeap ------------------------------
(* Six entries fill three levels of the heap; three deadlines, so that there *)
(* are equal ones.                                                           *)
EXTENDS TtlHeap, TLC

CONSTANTS e1, e2, e3, e4, e5, e6

MCEntries == {e1, e2, e3, e4, e5, e6}
MCVals == 0..2
MCSymmetry == Permutations(MCEntries)
=============================================================================
