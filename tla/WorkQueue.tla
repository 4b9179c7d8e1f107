----------------------------- MODULE WorkQueue -----------------------------
(***************************************************************************)
(* What thread_pool.h promises the server: works are started in the order  *)
(* they were queued, each exactly once, a worker doing one at a time.      *)
(* Nothing is said of mutexes, condition variables or wakeups.             *)
(***************************************************************************)
EXTENDS Sequences

CONSTANTS Works,        \* the works that can be queued
          Workers,      \* who does them
          NoWork        \* what an idle worker does

VARIABLES pending,      \* queued, not started
          doing         \* the work each worker does

vars == <<pending, doing>>

Init == /\ pending = <<>>
        /\ doing = [t \in Workers |-> NoWork]

Queue(w) == /\ \A i \in DOMAIN pending : pending[i] # w
            /\ \A t \in Workers : doing[t] # w
            /\ pending' = Append(pending, w)
            /\ UNCHANGED doing

Start(t) == /\ doing[t] = NoWork
            /\ pending # <<>>
            /\ doing' = [doing EXCEPT ![t] = Head(pending)]
            /\ pending' = Tail(pending)

Finish(t) == /\ doing[t] # NoWork
             /\ doing' = [doing EXCEPT ![t] = NoWork]
             /\ UNCHANGED pending

Next == \/ \E w \in Works : Queue(w)
        \/ \E t \in Workers : Start(t) \/ Finish(t)

Spec == Init /\ [][Next]_vars
=============================================================================
