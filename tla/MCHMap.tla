------------------------------- MODULE MCHMap -------------------------------
(* Six keys; the first three share a slot in every table up to four slots. *)
EXTENDS HMap

CONSTANTS a, b, c, d, e, f

MCNodes == {a, b, c, d, e, f}
MChcode == [n \in MCNodes |-> CASE n = a -> 0 [] n = b -> 4 [] n = c -> 8
                                 [] n = d -> 1 [] n = e -> 2 [] n = f -> 7]
=============================================================================
