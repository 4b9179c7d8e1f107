------------------------------ MODULE NodeSet ------------------------------
(***************************************************************************)
(* What hashtable.h promises its callers: a set of nodes, looked up,       *)
(* inserted when absent and popped one call at a time.  Nothing is said of *)
(* slots, of the two tables or of the work a call does on the side.        *)
(***************************************************************************)
CONSTANTS Nodes,      \* the nodes a caller may put in the map
          NoKey       \* `arg` between calls

VARIABLES present,    \* the nodes in the map
          call,       \* the operation under way, "none" between calls
          arg,        \* its key
          reply       \* what the last call answered, "none" while one runs

vars == <<present, call, arg, reply>>

Init == /\ present = {}
        /\ call = "none"
        /\ arg = NoKey
        /\ reply = "none"

Request(o, n) == /\ call = "none"
                 /\ call' = o
                 /\ arg' = n
                 /\ reply' = "none"
                 /\ UNCHANGED present

\* The call answers whether the key was there when it took effect.
Respond == /\ call # "none"
           /\ present' = CASE call = "lookup" -> present
                           [] call = "add"    -> present \cup {arg}
                           [] call = "pop"    -> present \ {arg}
           /\ reply' = IF arg \in present THEN "hit" ELSE "miss"
           /\ call' = "none"
           /\ arg' = NoKey

Clear == /\ call = "none"
         /\ present' = {}
         /\ UNCHANGED <<call, arg, reply>>

Next == \/ \E o \in {"lookup", "add", "pop"}, n \in Nodes : Request(o, n)
        \/ Respond
        \/ Clear

Spec == Init /\ [][Next]_vars
=============================================================================
