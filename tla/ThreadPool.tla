----------------------------- MODULE ThreadPool -----------------------------
(***************************************************************************)
(* thread_pool.cpp: a queue of works under a mutex and a condition         *)
(* variable, filled by the server's main thread and drained by workers.    *)
(*                                                                         *)
(* One step per pthread call and per access to the queue, so that every    *)
(* interleaving of the threads is there.  A thread blocked in              *)
(* pthread_cond_wait has pc "wait"; a signal or a spurious wakeup moves it *)
(* to "relock", where it takes the mutex again before the call returns.    *)
(*                                                                         *)
(* A work stands for the `arg` of the only function the server queues,     *)
(* entry_del_async: the address of an entry.  The main thread hands over   *)
(* an entry it owns, the worker that runs the work frees it, and the       *)
(* address can come back with a new entry.                                 *)
(***************************************************************************)
EXTENDS Naturals, Sequences, FiniteSets

CONSTANTS Workers,    \* the threads of the pool
          Main,       \* the thread that queues
          Works,      \* the works (the bound on entries in flight)
          Nobody,     \* the owner of a free mutex
          NoWork      \* `cur` of a thread that holds none

ASSUME ThreadPoolAssumption ==
  /\ IsFiniteSet(Workers) /\ Workers # {}
  /\ Main \notin Workers
  /\ Nobody \notin Workers \cup {Main}
  /\ NoWork \notin Works

VARIABLES mu,         \* the owner of the mutex
          queue,      \* the deque
          pc,         \* where each thread is
          cur         \* the work each thread holds: `w` of its function

vars == <<mu, queue, pc, cur>>

Threads == Workers \cup {Main}

InQueue(w) == \E i \in DOMAIN queue : queue[i] = w
InPool(w) == InQueue(w) \/ \E t \in Threads : cur[t] = w

Goto(t, l) == pc' = [pc EXCEPT ![t] = l]
-----------------------------------------------------------------------------
(* thread_pool_init and thread_pool_queue, run by the main thread *)

Init == /\ mu = Nobody
        /\ queue = <<>>
        /\ pc = [t \in Threads |-> IF t = Main THEN "create" ELSE "new"]
        /\ cur = [t \in Threads |-> NoWork]

\* pthread_create: a worker starts; the workers are all alike.
Create(t) == /\ pc[Main] = "create"
             /\ pc[t] = "new"
             /\ pc' = [pc EXCEPT ![t] = "lock",
                                 ![Main] = IF \E u \in Workers \ {t} : pc[u] = "new"
                                           THEN "create" ELSE "idle"]
             /\ UNCHANGED <<mu, queue, cur>>

\* The main thread calls thread_pool_queue with a work of its own.
Submit(w) == /\ pc[Main] = "idle"
             /\ ~InPool(w)
             /\ cur' = [cur EXCEPT ![Main] = w]
             /\ Goto(Main, "lock")
             /\ UNCHANGED <<mu, queue>>

\* pthread_mutex_lock, by the main thread or at the top of worker()'s loop.
Lock(t) == /\ pc[t] = "lock"
           /\ mu = Nobody
           /\ mu' = t
           /\ Goto(t, IF t = Main THEN "push" ELSE "check")
           /\ UNCHANGED <<queue, cur>>

\* Bug variant: the work goes to the wrong end of the deque.
Push_Front == /\ pc[Main] = "push"
              /\ queue' = <<cur[Main]>> \o queue
              /\ Goto(Main, "signal")
              /\ UNCHANGED <<mu, cur>>

Push == /\ pc[Main] = "push"
        /\ queue' = Append(queue, cur[Main])
        /\ Goto(Main, "signal")
        /\ UNCHANGED <<mu, cur>>

Waiting == {t \in Workers : pc[t] = "wait"}

\* Bug variant: signal only when the queue was empty.
Signal_WhenFirst ==
  /\ pc[Main] = "signal"
  /\ IF Waiting = {} \/ Len(queue) > 1
     THEN Goto(Main, "unlock")
     ELSE \E t \in Waiting : pc' = [pc EXCEPT ![t] = "relock", ![Main] = "unlock"]
  /\ UNCHANGED <<mu, queue, cur>>

\* Bug variant: no signal at all.
Signal_None == /\ pc[Main] = "signal"
               /\ Goto(Main, "unlock")
               /\ UNCHANGED <<mu, queue, cur>>

\* pthread_cond_signal wakes a waiting thread if there is one.
Signal ==
  /\ pc[Main] = "signal"
  /\ IF Waiting = {}
     THEN Goto(Main, "unlock")
     ELSE \E t \in Waiting : pc' = [pc EXCEPT ![t] = "relock", ![Main] = "unlock"]
  /\ UNCHANGED <<mu, queue, cur>>

UnlockMain == /\ pc[Main] = "unlock"
              /\ mu' = Nobody
              /\ cur' = [cur EXCEPT ![Main] = NoWork]
              /\ Goto(Main, "idle")
              /\ UNCHANGED queue
-----------------------------------------------------------------------------
(* worker *)

\* while (tp->queue.empty()): pthread_cond_wait releases the mutex and blocks.
Check(t) == /\ pc[t] = "check"
            /\ \/ /\ queue = <<>>
                  /\ mu' = Nobody
                  /\ Goto(t, "wait")
               \/ /\ queue # <<>>
                  /\ UNCHANGED mu
                  /\ Goto(t, "pop")
            /\ UNCHANGED <<queue, cur>>

\* A condition variable may wake a thread that nobody signalled.
SpuriousWakeup(t) == /\ pc[t] = "wait"
                     /\ Goto(t, "relock")
                     /\ UNCHANGED <<mu, queue, cur>>

\* Bug variant: `if` around the wait instead of `while`.
Relock_If(t) == /\ pc[t] = "relock"
                /\ mu = Nobody
                /\ mu' = t
                /\ Goto(t, "pop")
                /\ UNCHANGED <<queue, cur>>

\* pthread_cond_wait returns with the mutex, and the condition is read again.
Relock(t) == /\ pc[t] = "relock"
             /\ mu = Nobody
             /\ mu' = t
             /\ Goto(t, "check")
             /\ UNCHANGED <<queue, cur>>

\* Bug variant: front() without pop_front().
Pop_Stays(t) == /\ pc[t] = "pop"
                /\ cur' = [cur EXCEPT ![t] = Head(queue)]
                /\ Goto(t, "unlock")
                /\ UNCHANGED <<mu, queue>>

Pop(t) == /\ pc[t] = "pop"
          /\ cur' = [cur EXCEPT ![t] = Head(queue)]
          /\ queue' = Tail(queue)
          /\ Goto(t, "unlock")
          /\ UNCHANGED mu

Unlock(t) == /\ pc[t] = "unlock"
             /\ mu' = Nobody
             /\ Goto(t, "run")
             /\ UNCHANGED <<queue, cur>>

\* w.f(w.arg): the entry is freed, its address may come back.
Run(t) == /\ pc[t] = "run"
          /\ cur' = [cur EXCEPT ![t] = NoWork]
          /\ Goto(t, "lock")
          /\ UNCHANGED <<mu, queue>>

MainStep == Lock(Main) \/ Push \/ Signal \/ UnlockMain \/ \E t \in Workers : Create(t)
WorkerStep(t) == Lock(t) \/ Check(t) \/ Relock(t) \/ Pop(t) \/ Unlock(t) \/ Run(t)

Next == \/ MainStep
        \/ \E w \in Works : Submit(w)
        \/ \E t \in Workers : WorkerStep(t) \/ SpuriousWakeup(t)

Spec == Init /\ [][Next]_vars

\* The operating system runs every thread that can run: a call under way goes
\* on, and a mutex that stays free is granted.  Nothing makes the server
\* submit, and no wakeup happens without a signal.
FairSpec == /\ Spec
            /\ WF_vars(MainStep)
            /\ \A t \in Workers : WF_vars(WorkerStep(t))
-----------------------------------------------------------------------------
(* Properties *)

Holding(t) == pc[t] \in {"push", "signal", "check", "pop", "unlock"}

\* Types, and a thread holds a work from the moment it takes it until it has
\* handed it on: `w` is read only while it is set.
TypeOK ==
  /\ mu \in Threads \cup {Nobody}
  /\ queue \in Seq(Works)
  /\ pc \in [Threads -> {"create", "new", "idle", "lock", "push", "signal",
                         "unlock", "check", "wait", "relock", "pop", "run"}]
  /\ cur \in [Threads -> Works \cup {NoWork}]
  /\ pc[Main] \in {"create", "idle", "lock", "push", "signal", "unlock"}
  /\ cur[Main] # NoWork <=> pc[Main] \in {"lock", "push", "signal", "unlock"}
  /\ \A t \in Workers :
        /\ pc[t] \in {"new", "lock", "check", "wait", "relock", "pop", "unlock", "run"}
        /\ cur[t] # NoWork <=> pc[t] \in {"unlock", "run"}

\* The deque is touched by one thread at a time, and neither a thread that
\* sleeps nor one that runs a job keeps the others out: a job of any length
\* never blocks thread_pool_queue, so never the event loop.
MutexGuardsQueue == \A t \in Threads : mu = t <=> Holding(t)

\* A work is in one place only, once: it is neither run twice (a double free of
\* its entry) nor lost between the deque and the thread that runs it.
OneOwner ==
  /\ \A i, j \in DOMAIN queue : queue[i] = queue[j] => i = j
  /\ \A t, u \in Workers : cur[t] = cur[u] /\ cur[t] # NoWork => t = u
  /\ \A t \in Workers : ~InQueue(cur[t]) /\ (cur[t] = cur[Main] => cur[t] = NoWork)
  /\ pc[Main] \in {"lock", "push"} => ~InQueue(cur[Main])

\* front() is only called on a deque that holds something, however the wakeups
\* fall and whoever stole the work meanwhile.
PopNonEmpty == \A t \in Workers : pc[t] = "pop" => queue # <<>>

\* Threads that will look at the deque before they sleep again.
Heading == {t \in Workers : pc[t] \in {"lock", "check", "relock", "pop"}}

\* Works pushed whose signal is still to come.
Unheard == IF pc[Main] = "signal" THEN 1 ELSE 0

\* No lost wakeup: while a worker sleeps, each work in the deque has a worker
\* of its own on the way to it (or the signal for it is the next thing the
\* main thread does).  One signal per push is enough for any number of works.
WorkConserving ==
  Waiting # {} => Len(queue) <= Cardinality(Heading) + Unheard

\* thread_pool_queue and the workers together are a FIFO queue of works.
Pool == INSTANCE WorkQueue WITH
           pending <- queue,
           doing   <- [t \in Workers |-> cur[t]]
ImplementsWorkQueue == Pool!Spec

\* Every work that is queued is run, under any load and any luck of the
\* wakeups: no entry handed to the pool is leaked.
EveryWorkRuns ==
  \A w \in Works : InQueue(w) ~> \E t \in Workers : pc[t] = "run" /\ cur[t] = w
=============================================================================
