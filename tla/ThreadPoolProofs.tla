-------------------------- MODULE ThreadPoolProofs --------------------------
(***************************************************************************)
(* Proofs about ThreadPool for any number of workers and of works.  Its    *)
(* five invariants are inductive together.                                 *)
(***************************************************************************)
EXTENDS ThreadPool, FiniteSetTheorems, TLAPS

IInv == TypeOK /\ MutexGuardsQueue /\ OneOwner /\ PopNonEmpty /\ WorkConserving

\* The sets that WorkConserving counts are finite.
LEMMA HeadingFinite ==
  /\ IsFiniteSet(Heading) /\ Cardinality(Heading) \in Nat
  /\ IsFiniteSet(Heading') /\ Cardinality(Heading') \in Nat
<1>1. Heading \subseteq Workers /\ Heading' \subseteq Workers
  BY DEF Heading
<1>2. QED
  BY <1>1, ThreadPoolAssumption, FS_Subset, FS_CardinalityType

LEMMA LenType == TypeOK => Len(queue) \in Nat
BY DEF TypeOK

\* A step that only turns t's place keeps the count, or changes it by one.
LEMMA HeadingCount ==
  /\ Heading' = Heading => Cardinality(Heading') = Cardinality(Heading)
  /\ \A t : Heading' = Heading \cup {t} /\ t \notin Heading
               => Cardinality(Heading') = Cardinality(Heading) + 1
  /\ \A t : Heading' = Heading \ {t} /\ t \in Heading
               => Cardinality(Heading') = Cardinality(Heading) - 1
BY HeadingFinite, FS_AddElement, FS_RemoveElement

LEMMA InitIInv == Init => IInv
<1> SUFFICES ASSUME Init PROVE IInv
  OBVIOUS
<1> USE ThreadPoolAssumption DEF Init, Threads
<1>1. TypeOK
  BY DEF TypeOK
<1>2. MutexGuardsQueue /\ PopNonEmpty
  BY DEF MutexGuardsQueue, PopNonEmpty, Holding
<1>3. OneOwner
  BY DEF OneOwner, InQueue
<1>4. WorkConserving
  BY DEF WorkConserving, Waiting
<1>5. QED
  BY <1>1, <1>2, <1>3, <1>4 DEF IInv

LEMMA CreateIInv ==
  ASSUME IInv, NEW t \in Workers, Create(t)
  PROVE  IInv'
<1> USE ThreadPoolAssumption DEF Create, Threads, IInv
<1>1. TypeOK'
  BY DEF TypeOK
<1>2. MutexGuardsQueue' /\ PopNonEmpty'
  BY DEF TypeOK, MutexGuardsQueue, PopNonEmpty, Holding
<1>3. OneOwner'
  BY DEF TypeOK, OneOwner, InQueue
<1>4. WorkConserving'
  <2>1. Heading' = Heading \cup {t} /\ t \notin Heading
    BY DEF TypeOK, Heading
  <2>2. Waiting' = Waiting /\ Unheard' = 0 /\ Unheard = 0
    BY DEF TypeOK, Waiting, Unheard
  <2>3. Cardinality(Heading') = Cardinality(Heading) + 1
    BY <2>1, HeadingCount
  <2>4. Cardinality(Heading) \in Nat /\ Len(queue) \in Nat
    BY HeadingFinite, LenType
  <2>5. QED
    BY <2>2, <2>3, <2>4 DEF WorkConserving
<1>5. QED
  BY <1>1, <1>2, <1>3, <1>4

LEMMA SubmitIInv ==
  ASSUME IInv, NEW w \in Works, Submit(w)
  PROVE  IInv'
<1> USE ThreadPoolAssumption DEF Submit, Goto, Threads, IInv
<1>1. TypeOK'
  BY DEF TypeOK
<1>2. MutexGuardsQueue' /\ PopNonEmpty'
  BY DEF TypeOK, MutexGuardsQueue, PopNonEmpty, Holding
<1>3. OneOwner'
  BY DEF TypeOK, OneOwner, InQueue, InPool
<1>4. WorkConserving'
  <2>1. Heading' = Heading /\ Waiting' = Waiting /\ Unheard' = 0 /\ Unheard = 0
    BY DEF TypeOK, Heading, Waiting, Unheard
  <2>2. QED
    BY <2>1 DEF WorkConserving
<1>5. QED
  BY <1>1, <1>2, <1>3, <1>4

LEMMA LockIInv ==
  ASSUME IInv, NEW t \in Threads, Lock(t)
  PROVE  IInv'
<1> USE ThreadPoolAssumption DEF Lock, Goto, Threads, IInv
<1>1. TypeOK'
  BY DEF TypeOK
<1>2. MutexGuardsQueue' /\ PopNonEmpty'
  BY DEF TypeOK, MutexGuardsQueue, PopNonEmpty, Holding
<1>3. OneOwner'
  BY DEF TypeOK, OneOwner, InQueue
<1>4. WorkConserving'
  <2>1. \A u \in Workers : /\ pc'[u] \in {"lock", "check", "relock", "pop"}
                                 <=> pc[u] \in {"lock", "check", "relock", "pop"}
                           /\ pc'[u] = "wait" <=> pc[u] = "wait"
    BY DEF TypeOK
  <2>2. Heading' = Heading /\ Waiting' = Waiting
    BY <2>1 DEF Heading, Waiting
  <2>3. Unheard' = Unheard
    BY DEF TypeOK, Unheard
  <2>4. QED
    BY <2>2, <2>3 DEF WorkConserving
<1>5. QED
  BY <1>1, <1>2, <1>3, <1>4

LEMMA PushIInv ==
  ASSUME IInv, Push
  PROVE  IInv'
<1> USE ThreadPoolAssumption DEF Push, Goto, Threads, IInv
<1>1. TypeOK' /\ Len(queue') = Len(queue) + 1
  BY DEF TypeOK
<1>2. MutexGuardsQueue' /\ PopNonEmpty'
  BY DEF TypeOK, MutexGuardsQueue, PopNonEmpty, Holding
<1>3. OneOwner'
  <2>1. ~InQueue(cur[Main]) /\ cur[Main] \in Works
    BY DEF TypeOK, OneOwner
  <2>2. /\ DOMAIN queue = 1..Len(queue) /\ DOMAIN queue' = 1..(Len(queue) + 1)
        /\ Len(queue) \in Nat
        /\ \A i \in 1..Len(queue) : queue'[i] = queue[i]
        /\ queue'[Len(queue) + 1] = cur[Main]
    BY DEF TypeOK
  <2>3. \A i, j \in DOMAIN queue' : queue'[i] = queue'[j] => i = j
    BY <2>1, <2>2 DEF OneOwner, InQueue
  <2>4. \A u \in Workers : ~InQueue(cur[u])'
    BY <2>1, <2>2 DEF TypeOK, OneOwner, InQueue
  <2>5. QED
    BY <2>3, <2>4 DEF TypeOK, OneOwner
<1>4. WorkConserving'
  <2>1. Heading' = Heading /\ Waiting' = Waiting /\ Unheard' = 1 /\ Unheard = 0
    BY DEF TypeOK, Heading, Waiting, Unheard
  <2>2. QED
    BY <1>1, <2>1, HeadingFinite, LenType DEF WorkConserving
<1>5. QED
  BY <1>1, <1>2, <1>3, <1>4

LEMMA SignalIInv ==
  ASSUME IInv, Signal
  PROVE  IInv'
<1> USE ThreadPoolAssumption DEF Signal, Goto, Threads, Waiting, IInv
<1>1. TypeOK'
  BY DEF TypeOK
<1>2. MutexGuardsQueue' /\ PopNonEmpty'
  BY DEF TypeOK, MutexGuardsQueue, PopNonEmpty, Holding
<1>3. OneOwner'
  BY DEF TypeOK, OneOwner, InQueue
<1>4. WorkConserving'
  <2>1. CASE Waiting = {}
    <3>1. Waiting' = {}
      BY <2>1 DEF TypeOK
    <3>2. QED
      BY <3>1 DEF WorkConserving
  <2>2. CASE Waiting # {}
    <3>1. PICK t \in Waiting :
             pc' = [pc EXCEPT ![t] = "relock", ![Main] = "unlock"]
      BY <2>2
    <3>2. /\ Heading' = Heading \cup {t} /\ t \notin Heading
          /\ Unheard = 1 /\ Unheard' = 0
      BY <3>1 DEF TypeOK, Heading, Unheard
    <3>3. Cardinality(Heading') = Cardinality(Heading) + 1
      BY <3>2, HeadingCount
    <3>4. Cardinality(Heading) \in Nat /\ Len(queue) \in Nat
      BY HeadingFinite, LenType
    <3>5. QED
      BY <2>2, <3>2, <3>3, <3>4 DEF WorkConserving
  <2>3. QED
    BY <2>1, <2>2
<1>5. QED
  BY <1>1, <1>2, <1>3, <1>4
LEMMA UnlockMainIInv ==
  ASSUME IInv, UnlockMain
  PROVE  IInv'
<1> USE ThreadPoolAssumption DEF UnlockMain, Goto, Threads, IInv
<1>1. TypeOK'
  BY DEF TypeOK
<1>2. MutexGuardsQueue' /\ PopNonEmpty'
  BY DEF TypeOK, MutexGuardsQueue, PopNonEmpty, Holding
<1>3. OneOwner'
  BY DEF TypeOK, OneOwner, InQueue
<1>4. WorkConserving'
  <2>1. Heading' = Heading /\ Waiting' = Waiting /\ Unheard' = Unheard
    BY DEF TypeOK, Heading, Waiting, Unheard
  <2>2. QED
    BY <2>1 DEF WorkConserving
<1>5. QED
  BY <1>1, <1>2, <1>3, <1>4

LEMMA CheckIInv ==
  ASSUME IInv, NEW t \in Workers, Check(t)
  PROVE  IInv'
<1> USE ThreadPoolAssumption DEF Check, Goto, Threads, IInv
<1>1. TypeOK'
  BY DEF TypeOK
<1>2. MutexGuardsQueue' /\ PopNonEmpty'
  BY DEF TypeOK, MutexGuardsQueue, PopNonEmpty, Holding
<1>3. OneOwner'
  BY DEF TypeOK, OneOwner, InQueue
<1>4. WorkConserving'
  <2>1. CASE queue = <<>>
    <3>1. Len(queue') = 0 /\ Cardinality(Heading') \in Nat /\ Unheard' \in Nat
      BY <2>1, HeadingFinite DEF Unheard
    <3>2. QED
      BY <3>1 DEF WorkConserving
  <2>2. CASE queue # <<>>
    <3>1. Heading' = Heading /\ Waiting' = Waiting /\ Unheard' = Unheard
      BY <2>2 DEF TypeOK, Heading, Waiting, Unheard
    <3>2. QED
      BY <2>2, <3>1 DEF WorkConserving
  <2>3. QED
    BY <2>1, <2>2
<1>5. QED
  BY <1>1, <1>2, <1>3, <1>4

LEMMA SpuriousWakeupIInv ==
  ASSUME IInv, NEW t \in Workers, SpuriousWakeup(t)
  PROVE  IInv'
<1> USE ThreadPoolAssumption DEF SpuriousWakeup, Goto, Threads, IInv
<1>1. TypeOK'
  BY DEF TypeOK
<1>2. MutexGuardsQueue' /\ PopNonEmpty'
  BY DEF TypeOK, MutexGuardsQueue, PopNonEmpty, Holding
<1>3. OneOwner'
  BY DEF TypeOK, OneOwner, InQueue
<1>4. WorkConserving'
  <2>1. Heading' = Heading \cup {t} /\ t \notin Heading
    BY DEF TypeOK, Heading
  <2>2. Waiting' \subseteq Waiting /\ Unheard' = Unheard /\ Unheard \in Nat
    BY DEF TypeOK, Waiting, Unheard
  <2>3. Cardinality(Heading') = Cardinality(Heading) + 1
    BY <2>1, HeadingCount
  <2>4. Cardinality(Heading) \in Nat /\ Len(queue) \in Nat
    BY HeadingFinite, LenType
  <2>5. QED
    BY <2>2, <2>3, <2>4 DEF WorkConserving
<1>5. QED
  BY <1>1, <1>2, <1>3, <1>4

LEMMA RelockIInv ==
  ASSUME IInv, NEW t \in Workers, Relock(t)
  PROVE  IInv'
<1> USE ThreadPoolAssumption DEF Relock, Goto, Threads, IInv
<1>1. TypeOK'
  BY DEF TypeOK
<1>2. MutexGuardsQueue' /\ PopNonEmpty'
  BY DEF TypeOK, MutexGuardsQueue, PopNonEmpty, Holding
<1>3. OneOwner'
  BY DEF TypeOK, OneOwner, InQueue
<1>4. WorkConserving'
  <2>1. Heading' = Heading /\ Waiting' = Waiting /\ Unheard' = Unheard
    BY DEF TypeOK, Heading, Waiting, Unheard
  <2>2. QED
    BY <2>1 DEF WorkConserving
<1>5. QED
  BY <1>1, <1>2, <1>3, <1>4

LEMMA UnlockIInv ==
  ASSUME IInv, NEW t \in Workers, Unlock(t)
  PROVE  IInv'
<1> USE ThreadPoolAssumption DEF Unlock, Goto, Threads, IInv
<1>1. TypeOK'
  BY DEF TypeOK
<1>2. MutexGuardsQueue' /\ PopNonEmpty'
  BY DEF TypeOK, MutexGuardsQueue, PopNonEmpty, Holding
<1>3. OneOwner'
  BY DEF TypeOK, OneOwner, InQueue
<1>4. WorkConserving'
  <2>1. Heading' = Heading /\ Waiting' = Waiting /\ Unheard' = Unheard
    BY DEF TypeOK, Heading, Waiting, Unheard
  <2>2. QED
    BY <2>1 DEF WorkConserving
<1>5. QED
  BY <1>1, <1>2, <1>3, <1>4

LEMMA RunIInv ==
  ASSUME IInv, NEW t \in Workers, Run(t)
  PROVE  IInv'
<1> USE ThreadPoolAssumption DEF Run, Goto, Threads, IInv
<1>1. TypeOK'
  BY DEF TypeOK
<1>2. MutexGuardsQueue' /\ PopNonEmpty'
  BY DEF TypeOK, MutexGuardsQueue, PopNonEmpty, Holding
<1>3. OneOwner'
  BY DEF TypeOK, OneOwner, InQueue
<1>4. WorkConserving'
  <2>1. Heading' = Heading \cup {t} /\ t \notin Heading
    BY DEF TypeOK, Heading
  <2>2. Waiting' \subseteq Waiting /\ Unheard' = Unheard /\ Unheard \in Nat
    BY DEF TypeOK, Waiting, Unheard
  <2>3. Cardinality(Heading') = Cardinality(Heading) + 1
    BY <2>1, HeadingCount
  <2>4. Cardinality(Heading) \in Nat /\ Len(queue) \in Nat
    BY HeadingFinite, LenType
  <2>5. QED
    BY <2>2, <2>3, <2>4 DEF WorkConserving
<1>5. QED
  BY <1>1, <1>2, <1>3, <1>4

\* What Pop takes away from the deque, and what it leaves in place.
LEMMA PopQueue ==
  ASSUME IInv, NEW t \in Workers, Pop(t)
  PROVE  /\ queue # <<>> /\ queue' = Tail(queue) /\ cur' = [cur EXCEPT ![t] = Head(queue)]
         /\ Head(queue) \in Works /\ InQueue(Head(queue)) /\ queue' \in Seq(Works)
         /\ \A w : InQueue(w)' <=> InQueue(w) /\ w # Head(queue)
         /\ \A i, j \in DOMAIN queue' : queue'[i] = queue'[j] => i = j
         /\ Len(queue') = Len(queue) - 1
<1>1. /\ queue # <<>> /\ queue' = Tail(queue) /\ queue \in Seq(Works)
      /\ \A i, j \in DOMAIN queue : queue[i] = queue[j] => i = j
  BY DEF IInv, Pop, PopNonEmpty, TypeOK, OneOwner
<1>2. /\ Len(queue) \in Nat \ {0} /\ DOMAIN queue = 1..Len(queue)
      /\ Head(queue) = queue[1] /\ Head(queue) \in Works
      /\ Len(queue') = Len(queue) - 1 /\ DOMAIN queue' = 1..(Len(queue) - 1)
      /\ \A i \in 1..(Len(queue) - 1) : queue'[i] = queue[i + 1]
  BY <1>1
<1>3. \A i, j \in DOMAIN queue' : queue'[i] = queue'[j] => i = j
  BY <1>1, <1>2
<1>4. ASSUME NEW w
      PROVE  InQueue(w)' <=> InQueue(w) /\ w # Head(queue)
  <2>1. InQueue(w)' => InQueue(w) /\ w # Head(queue)
    BY <1>1, <1>2 DEF InQueue
  <2>2. ASSUME InQueue(w), w # Head(queue)
        PROVE  InQueue(w)'
    <3>1. PICK i \in 1..Len(queue) : queue[i] = w
      BY <1>2, <2>2 DEF InQueue
    <3>2. i - 1 \in 1..(Len(queue) - 1) /\ queue'[i - 1] = w
      BY <1>2, <2>2, <3>1
    <3>3. QED
      BY <1>2, <3>2 DEF InQueue
  <2>3. QED
    BY <2>1, <2>2
<1>5. QED
  <2>1. queue' \in Seq(Works) /\ InQueue(Head(queue))
    BY <1>1, <1>2 DEF InQueue
  <2>2. QED
    BY <1>1, <1>2, <1>3, <1>4, <2>1 DEF Pop

LEMMA PopIInv ==
  ASSUME IInv, NEW t \in Workers, Pop(t)
  PROVE  IInv'
<1> USE ThreadPoolAssumption DEF Pop, Goto, Threads, IInv
<1>1. TypeOK'
  <2>1. queue' \in Seq(Works) /\ Head(queue) \in Works
    BY PopQueue
  <2>2. QED
    BY <2>1 DEF TypeOK
<1>2. MutexGuardsQueue' /\ PopNonEmpty'
  BY DEF TypeOK, MutexGuardsQueue, PopNonEmpty, Holding
<1>3. OneOwner'
  <2>1. InQueue(Head(queue))
    BY PopQueue
  <2>2. \A u \in Workers : cur[u] # Head(queue)
    BY <2>1 DEF OneOwner
  <2>3. pc[Main] \in {"create", "idle", "lock"}
    BY DEF TypeOK, MutexGuardsQueue, Holding
  <2>4. cur[Main] # Head(queue)
    BY <2>1, <2>3, PopQueue DEF TypeOK, OneOwner
  <2>5. QED
    BY <2>2, <2>4, PopQueue DEF TypeOK, OneOwner
<1>4. WorkConserving'
  <2>1. Heading' = Heading \ {t} /\ t \in Heading
    BY DEF TypeOK, Heading
  <2>2. Waiting' = Waiting /\ Unheard' = Unheard /\ Unheard \in Nat
    BY DEF TypeOK, Waiting, Unheard
  <2>3. Cardinality(Heading') = Cardinality(Heading) - 1
    BY <2>1, HeadingCount
  <2>4. /\ Cardinality(Heading) \in Nat /\ Len(queue) \in Nat
        /\ Len(queue') = Len(queue) - 1
    BY HeadingFinite, LenType, PopQueue
  <2>5. QED
    BY <2>2, <2>3, <2>4 DEF WorkConserving
<1>5. QED
  BY <1>1, <1>2, <1>3, <1>4

\* The five invariants hold together in every reachable state, for any number
\* of workers and of works.
THEOREM IInvHolds == Spec => []IInv
<1>1. IInv /\ [Next]_vars => IInv'
  <2> SUFFICES ASSUME IInv, [Next]_vars PROVE IInv'
    OBVIOUS
  <2>1. CASE \E t \in Threads : Lock(t)
    BY <2>1, LockIInv
  <2>2. CASE \E t \in Workers : Create(t)
    BY <2>2, CreateIInv
  <2>3. CASE \E w \in Works : Submit(w)
    BY <2>3, SubmitIInv
  <2>4. CASE Push
    BY <2>4, PushIInv
  <2>5. CASE Signal
    BY <2>5, SignalIInv
  <2>6. CASE UnlockMain
    BY <2>6, UnlockMainIInv
  <2>7. ASSUME NEW t \in Workers,
               Check(t) \/ Relock(t) \/ Pop(t) \/ Unlock(t) \/ Run(t) \/ SpuriousWakeup(t)
        PROVE  IInv'
    BY <2>7, CheckIInv, RelockIInv, PopIInv, UnlockIInv, RunIInv, SpuriousWakeupIInv
  <2>8. CASE UNCHANGED vars
    <3> USE <2>8 DEF vars, IInv
    <3>1. TypeOK'
      BY DEF TypeOK
    <3>2. MutexGuardsQueue' /\ PopNonEmpty'
      BY DEF MutexGuardsQueue, PopNonEmpty, Holding
    <3>3. OneOwner'
      BY DEF OneOwner, InQueue
    <3>4. WorkConserving'
      BY DEF WorkConserving, Waiting, Heading, Unheard
    <3>5. QED
      BY <3>1, <3>2, <3>3, <3>4
  <2>9. QED
    BY <2>1, <2>2, <2>3, <2>4, <2>5, <2>6, <2>7, <2>8
    DEF Next, MainStep, WorkerStep, Threads
<1>2. QED
  BY <1>1, InitIInv, PTL DEF Spec

\* A thread holds a work exactly from taking it to handing it on.
THEOREM TypeOKHolds == Spec => []TypeOK
BY IInvHolds, PTL DEF IInv

\* One thread at a time at the deque; sleepers and running jobs keep nobody out.
THEOREM MutexGuardsQueueHolds == Spec => []MutexGuardsQueue
BY IInvHolds, PTL DEF IInv

\* No work is duplicated or run twice.
THEOREM OneOwnerHolds == Spec => []OneOwner
BY IInvHolds, PTL DEF IInv

\* front() is never called on an empty deque.
THEOREM PopNonEmptyHolds == Spec => []PopNonEmpty
BY IInvHolds, PTL DEF IInv

\* No wakeup is lost: one signal per push suffices for any number of workers.
THEOREM WorkConservingHolds == Spec => []WorkConserving
BY IInvHolds, PTL DEF IInv
-----------------------------------------------------------------------------
(* The pool implements the abstract queue of works *)

\* Works are started in the order of thread_pool_queue's calls, each once and
\* one at a time by a worker: the pool implements WorkQueue.
THEOREM PoolImplementsWorkQueue == Spec => ImplementsWorkQueue
<1> DEFINE doing == [t \in Workers |-> cur[t]]
<1>1. Init => Pool!Init
  BY ThreadPoolAssumption DEF Init, Pool!Init, Threads
<1>2. IInv /\ [Next]_vars => [Pool!Next]_(Pool!vars)
  <2> SUFFICES ASSUME IInv, [Next]_vars
               PROVE  Pool!Next \/ (queue' = queue /\ doing' = doing)
    BY DEF Pool!vars
  <2> USE ThreadPoolAssumption DEF Goto, Threads
  <2>1. CASE Push
    <3>1. ~InQueue(cur[Main]) /\ cur[Main] \in Works /\ doing' = doing
      BY <2>1 DEF Push, IInv, TypeOK, OneOwner
    <3>2. \A t \in Workers : cur[t] # cur[Main]
      BY <3>1 DEF IInv, OneOwner
    <3>3. Pool!Queue(cur[Main])
      BY <2>1, <3>1, <3>2 DEF Push, Pool!Queue, InQueue
    <3>4. QED
      BY <3>1, <3>3 DEF Pool!Next
  <2>2. ASSUME NEW t \in Workers, Pop(t)
        PROVE  Pool!Next
    <3>1. queue # <<>> /\ queue' = Tail(queue)
      BY <2>2, PopQueue
    <3>2. doing[t] = NoWork /\ doing' = [doing EXCEPT ![t] = Head(queue)]
      BY <2>2 DEF Pop, IInv, TypeOK
    <3>3. Pool!Start(t)
      BY <3>1, <3>2 DEF Pool!Start
    <3>4. QED
      BY <3>3 DEF Pool!Next
  <2>3. ASSUME NEW t \in Workers, Run(t)
        PROVE  Pool!Next
    <3>1. doing[t] # NoWork /\ doing' = [doing EXCEPT ![t] = NoWork] /\ queue' = queue
      BY <2>3 DEF Run, IInv, TypeOK
    <3>2. Pool!Finish(t)
      BY <3>1 DEF Pool!Finish
    <3>3. QED
      BY <3>2 DEF Pool!Next
  <2>4. CASE \/ \E t \in Threads : Lock(t)
             \/ Signal \/ UnlockMain
             \/ \E t \in Workers : \/ Create(t) \/ Check(t) \/ Relock(t)
                                   \/ Unlock(t) \/ SpuriousWakeup(t)
             \/ \E w \in Works : Submit(w)
             \/ UNCHANGED vars
    <3>1. queue' = queue /\ \A t \in Workers : cur'[t] = cur[t]
      BY <2>4 DEF Lock, Signal, UnlockMain, Create, Check, Relock, Unlock,
                  SpuriousWakeup, Submit, vars, IInv, TypeOK
    <3>2. QED
      BY <3>1
  <2>5. QED
    BY <2>1, <2>2, <2>3, <2>4 DEF Next, MainStep, WorkerStep
<1>3. QED
  BY <1>1, <1>2, IInvHolds, PTL DEF Spec, ImplementsWorkQueue, Pool!Spec
=============================================================================
