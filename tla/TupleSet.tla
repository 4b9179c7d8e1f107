------------------------------ MODULE TupleSet ------------------------------
(***************************************************************************)
(* What zset.cpp promises: a set of tuples with one score for each name.   *)
(* A call is made, has its effect and settles its answer at once, and      *)
(* returns.  Nothing is said of nodes, of the tree or of the map by name.  *)
(***************************************************************************)
EXTENDS SortedSet, Replies

CONSTANTS Calls

VARIABLES tuples,       \* the score of each name that is there
          call,         \* the call under way: the command and its arguments
          reply         \* what it answers, once that is settled

vars == <<tuples, call, reply>>

NoCall == [op |-> "none"]
NoReply == <<>>

Init == tuples = NoTuples /\ call = NoCall /\ reply = NoReply

Has(n) == n \in DOMAIN tuples

Call(c) == call = NoCall /\ call' = c /\ UNCHANGED <<tuples, reply>>
Settle(op, r) == call.op = op /\ reply = NoReply /\ reply' = r /\ UNCHANGED call
Return == reply # NoReply /\ call' = NoCall /\ reply' = NoReply /\ UNCHANGED tuples

Add == /\ Settle("zadd", out_int(IF Has(call.name) THEN 0 ELSE 1))
       /\ tuples' = PutTuple(tuples, call.name, call.score)
Pop == /\ Settle("zrem", out_int(IF Has(call.name) THEN 1 ELSE 0))
       /\ tuples' = DropTuple(tuples, call.name)
Lookup == /\ Settle("zscore", IF Has(call.name) THEN out_dbl(tuples[call.name]) ELSE out_nil)
          /\ UNCHANGED tuples
Query == /\ Settle("zquery", out_tuples(QueryTuples(tuples, call.score, call.name,
                                                    call.offset, call.limit)))
         /\ UNCHANGED tuples
Clear == call = NoCall /\ tuples' = NoTuples /\ UNCHANGED <<call, reply>>

Next == (\E c \in Calls : Call(c)) \/ Add \/ Pop \/ Lookup \/ Query \/ Return \/ Clear

Spec == Init /\ [][Next]_vars
=============================================================================
