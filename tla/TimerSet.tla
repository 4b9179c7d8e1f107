------------------------------ MODULE TimerSet ------------------------------
(***************************************************************************)
(* What the server wants from its heap of TTLs: at most one deadline per   *)
(* entry.  A call names the entry and the deadline it is to have, None to  *)
(* remove it; when the call returns the entry has that deadline and all    *)
(* the others have theirs.  Between calls one entry's deadline is asked    *)
(* for, or the nearest of all.                                             *)
(***************************************************************************)
EXTENDS Integers

CONSTANTS Entries,      \* those that may have a TTL
          Vals,         \* the deadlines
          None          \* no entry, no deadline

VARIABLES deadline,     \* of each entry
          call,         \* the call under way: an entry and its new deadline
          reply         \* the last answer: an entry and its deadline

NoCall == [ent |-> None, val |-> None]
NoReply == [ref |-> None, val |-> None]

Init == /\ deadline = [e \in Entries |-> None]
        /\ call = NoCall
        /\ reply = NoReply

Call(e, v) == /\ call = NoCall
              /\ call' = [ent |-> e, val |-> v]
              /\ reply' = NoReply
              /\ UNCHANGED deadline

Effect == /\ call # NoCall
          /\ deadline' = [deadline EXCEPT ![call.ent] = call.val]
          /\ UNCHANGED <<call, reply>>

Return == /\ call # NoCall
          /\ deadline[call.ent] = call.val
          /\ call' = NoCall
          /\ UNCHANGED <<deadline, reply>>

Ttl(e) == /\ call = NoCall
          /\ reply' = [ref |-> e, val |-> deadline[e]]
          /\ UNCHANGED <<deadline, call>>

IsNearest(e) == /\ deadline[e] # None
                /\ \A f \in Entries : deadline[f] # None => deadline[e] <= deadline[f]

Nearest == /\ call = NoCall
           /\ \/ /\ \A e \in Entries : deadline[e] = None
                 /\ reply' = NoReply
              \/ \E e \in Entries :
                    /\ IsNearest(e)
                    /\ reply' = [ref |-> e, val |-> deadline[e]]
           /\ UNCHANGED <<deadline, call>>

Next == \/ \E e \in Entries, v \in Vals \cup {None} : Call(e, v)
        \/ Effect
        \/ Return
        \/ \E e \in Entries : Ttl(e)
        \/ Nearest

Spec == Init /\ [][Next]_<<deadline, call, reply>>
=============================================================================
