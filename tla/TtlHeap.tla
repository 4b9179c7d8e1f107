------------------------------ MODULE TtlHeap ------------------------------
(***************************************************************************)
(* heap.cpp and entry_set_ttl (server.cpp): a binary min-heap of deadlines *)
(* in an array.  An item knows where its entry keeps the item's position   *)
(* (`ref` is the address of the entry's heap_idx), and every move of an    *)
(* item writes the new position there: the array and the positions are two *)
(* copies of one fact, kept equal by hand.                                 *)
(*                                                                         *)
(* One step per iteration of the loops of heap_up and heap_down.  Between  *)
(* iterations the item being placed, t, is in no slot: slot pos still      *)
(* holds a copy of what was there.  The call under way and the last answer *)
(* read from the heap are kept, so that what a call does can be compared   *)
(* with what it was asked.                                                 *)
(***************************************************************************)
EXTENDS Integers

CONSTANTS Entries,      \* the entries of the key space
          Vals,         \* the deadlines (uint64_t microseconds)
          None          \* no entry, no deadline

ASSUME TtlHeapAssumption == Vals \subseteq Nat /\ None \notin Entries \cup Nat

VARIABLES len,          \* g_data.heap.size()
          heap,         \* g_data.heap
          heap_idx,     \* Entry::heap_idx, NoIdx when the entry has no TTL
          pc,           \* idle, or where entry_set_ttl is: its begin, the
                        \* loop of heap_up or of heap_down, its end
          pos,          \* the loop's position
          t,            \* the item it places
          call,         \* the entry and the deadline of the running call
          reply         \* the entry and the deadline last read

array == <<len, heap, heap_idx>>
vars == <<len, heap, heap_idx, pc, pos, t, call, reply>>

NoIdx == -1             \* (size_t)-1
NoItem == [val |-> 0, ref |-> None]
NoCall == [ent |-> None, val |-> None]
NoReply == [ref |-> None, val |-> None]

heap_parent(i) == (i + 1) \div 2 - 1
heap_left(i) == i * 2 + 1
heap_right(i) == i * 2 + 2
-----------------------------------------------------------------------------
Init == /\ len = 0
        /\ heap = [i \in 0..(len-1) |-> NoItem]
        /\ heap_idx = [e \in Entries |-> NoIdx]
        /\ pc = "idle"
        /\ pos = 0
        /\ t = NoItem
        /\ call = NoCall
        /\ reply = NoReply

\* entry_set_ttl is called with the deadline to set, or with None (ttl_ms < 0)
\* to remove the TTL.
entry_set_ttl(e, v) == /\ pc = "idle"
                       /\ pc' = "begin"
                       /\ call' = [ent |-> e, val |-> v]
                       /\ reply' = NoReply
                       /\ UNCHANGED <<array, pos, t>>

\* heap_update: the item at p of array a is taken out to be placed anew.
heap_update(a, p) ==
  /\ pc' = IF p > 0 /\ a[heap_parent(p)].val > a[p].val THEN "up" ELSE "down"
  /\ pos' = p
  /\ t' = a[p]

\* The array with an item for entry e put at its end, if e has none yet.
PushBack(e) == IF heap_idx[e] # NoIdx THEN heap
               ELSE [i \in 0..len |-> IF i = len THEN [NoItem EXCEPT !.ref = e] ELSE heap[i]]

\* A TTL is set: the entry's item, a new one if need be, gets the deadline.
SetTtl ==
  /\ pc = "begin"
  /\ call.val # None
  /\ LET e == call.ent
         new == heap_idx[e] = NoIdx
         p == IF new THEN len ELSE heap_idx[e]
         a == [PushBack(e) EXCEPT ![p] = [@ EXCEPT !.val = call.val]]
     IN  /\ len' = IF new THEN len + 1 ELSE len
         /\ heap' = a
         /\ heap_update(a, p)
  /\ UNCHANGED <<heap_idx, call, reply>>

\* Bug variant: no check that the erased item was not the last one.
EraseTtl_NoSizeCheck ==
  /\ pc = "begin"
  /\ call.val = None
  /\ LET p == heap_idx[call.ent]
     IN  /\ p # NoIdx
         /\ len' = len - 1
         /\ heap' = [i \in 0..(len-2) |-> IF i = p THEN heap[len-1] ELSE heap[i]]
         /\ pc' = "down"
         /\ pos' = p
         /\ t' = heap[len-1]
  /\ UNCHANGED <<heap_idx, call, reply>>

\* A TTL is removed: the last item takes the place of the entry's.
EraseTtl ==
  /\ pc = "begin"
  /\ call.val = None
  /\ LET p == heap_idx[call.ent]
         n == len - 1
         a == [i \in 0..(n-1) |-> IF i = p THEN heap[n] ELSE heap[i]]
     IN  /\ p # NoIdx
         /\ len' = n
         /\ heap' = a
         /\ \/ p < n /\ heap_update(a, p)
            \/ p = n /\ pc' = "end" /\ UNCHANGED <<pos, t>>
  /\ UNCHANGED <<heap_idx, call, reply>>

\* There is no TTL to remove.
NoTtl == /\ pc = "begin"
         /\ call.val = None
         /\ heap_idx[call.ent] = NoIdx
         /\ pc' = "end"
         /\ UNCHANGED <<array, pos, t, call, reply>>

\* Bug variant: the moved item is not told its new position.
MoveTo_NoRef(p) == /\ heap' = [heap EXCEPT ![pos] = heap[p]]
                   /\ pos' = p
                   /\ UNCHANGED <<len, heap_idx, pc, t, call, reply>>

\* The item at p moves into the slot at pos, and the search goes on from p.
MoveTo(p) == /\ heap' = [heap EXCEPT ![pos] = heap[p]]
             /\ heap_idx' = [heap_idx EXCEPT ![heap[p].ref] = pos]
             /\ pos' = p
             /\ UNCHANGED <<len, pc, t, call, reply>>

\* Bug variant: t is not put down.
Place_Forgets == /\ heap_idx' = [heap_idx EXCEPT ![t.ref] = pos]
                 /\ pc' = "end"
                 /\ pos' = 0
                 /\ t' = NoItem
                 /\ UNCHANGED <<len, heap, call, reply>>

\* After the loop: t is put down and its entry is told.
Place == /\ heap' = [heap EXCEPT ![pos] = t]
         /\ heap_idx' = [heap_idx EXCEPT ![t.ref] = pos]
         /\ pc' = "end"
         /\ pos' = 0
         /\ t' = NoItem
         /\ UNCHANGED <<len, call, reply>>

Rises == pos > 0 /\ heap[heap_parent(pos)].val > t.val

heap_up == /\ pc = "up"
           /\ \/ Rises /\ MoveTo(heap_parent(pos))
              \/ ~Rises /\ Place

\* Bug variant: the right child is compared with t only, not with the left.
MinChild_RightWins(c) ==
  LET less(i) == i < len /\ heap[i].val < t.val
  IN  IF less(heap_right(pos)) THEN c = heap_right(pos)
      ELSE less(heap_left(pos)) /\ c = heap_left(pos)

\* The child that goes up: the smaller one, the left one of two equals, if it
\* is smaller than t.
MinChild(c) ==
  LET l == heap_left(pos)
      r == heap_right(pos)
      down(i) == i < len /\ heap[i].val < t.val
  IN  \/ c = l /\ down(l) /\ ~(r < len /\ heap[r].val < heap[l].val)
      \/ c = r /\ down(r) /\ (down(l) => heap[r].val < heap[l].val)

Children == {heap_left(pos), heap_right(pos)}

heap_down == /\ pc = "down"
             /\ \/ \E c \in Children : MinChild(c) /\ MoveTo(c)
                \/ ~(\E c \in Children : MinChild(c)) /\ Place

\* entry_set_ttl returns; an entry that lost its TTL is told so last.
Return == /\ pc = "end"
          /\ heap_idx' = IF call.val = None THEN [heap_idx EXCEPT ![call.ent] = NoIdx]
                         ELSE heap_idx
          /\ pc' = "idle"
          /\ call' = NoCall
          /\ UNCHANGED <<len, heap, pos, t, reply>>

\* do_ttl reads an entry's deadline by its heap_idx.
ReadTtl(e) ==
  /\ pc = "idle"
  /\ reply' = [ref |-> e, val |-> IF heap_idx[e] = NoIdx THEN None ELSE heap[heap_idx[e]].val]
  /\ UNCHANGED <<array, pc, pos, t, call>>

\* process_timers reads the first item of a heap with any.
ReadTop == /\ pc = "idle"
           /\ reply' = IF len = 0 THEN NoReply ELSE heap[0]
           /\ UNCHANGED <<array, pc, pos, t, call>>

Next == \/ \E e \in Entries, v \in Vals \cup {None} : entry_set_ttl(e, v)
        \/ SetTtl \/ EraseTtl \/ NoTtl
        \/ heap_up \/ heap_down
        \/ Return
        \/ \E e \in Entries : ReadTtl(e)
        \/ ReadTop

Spec == Init /\ [][Next]_vars
-----------------------------------------------------------------------------
(* Properties *)

Item == [val : Nat, ref : Entries]

Moving == pc \in {"up", "down"}

\* Types; an item in flight exactly while a loop runs, at a position in the array.
TypeOK == /\ len \in Nat
          /\ heap \in [0..(len-1) -> Item]
          /\ heap_idx \in [Entries -> Nat \cup {NoIdx}]
          /\ pc \in {"idle", "begin", "up", "down", "end"}
          /\ IF Moving THEN pos \in 0..(len-1) /\ t \in Item
             ELSE pos = 0 /\ t = NoItem
          /\ IF pc = "idle" THEN call = NoCall
             ELSE call \in [ent : Entries, val : Vals \cup {None}]
          /\ reply \in [ref : Entries \cup {None}, val : Nat \cup {None}]

\* Between calls every item's entry knows where the item is, and an entry that
\* says it has a TTL has one: `heap[ent->heap_idx]` (server.cpp:344, :359, :404)
\* is the entry's own item, never another's nor past the end.
RefsConsistent ==
  pc = "idle" =>
     /\ \A i \in 0..(len-1) : heap_idx[heap[i].ref] = i
     /\ \A e \in Entries : heap_idx[e] # NoIdx =>
           heap_idx[e] < len /\ heap[heap_idx[e]].ref = e

\* Between calls the first item is the nearest deadline: process_timers may stop
\* at the first item that is not due (server.cpp:893).
TopIsNearest ==
  pc = "idle" => \A i \in 0..(len-1) : heap[0].val <= heap[i].val

\* The heap with the item in flight put down where the loop stands.
Settled == IF Moving THEN [heap EXCEPT ![pos] = t] ELSE heap

DeadlineOf(e) == IF \E i \in 0..(len-1) : Settled[i].ref = e
                 THEN Settled[CHOOSE i \in 0..(len-1) : Settled[i].ref = e].val
                 ELSE None

\* Whatever moves around in the array, entry_set_ttl gives the entry it was
\* called for the deadline it was called with, or takes its deadline away, by the
\* time it returns, and never touches another entry's; `ttl` (server.cpp:404) then
\* reads the deadline last set, and process_timers (server.cpp:893-894) one that
\* no other is nearer than, with the entry it was set for.
Timers == INSTANCE TimerSet WITH deadline <- [e \in Entries |-> DeadlineOf(e)]
ImplementsTimerSet == Timers!Spec

\* The entry whose item is gone and which has not been told yet.
leaving == IF call.val = None /\ pc \in {"up", "down", "end"} THEN call.ent ELSE None

\* The inductive invariant: the settled heap holds each entry once, and the item
\* a call sets once it is there; positions are right but for the item in flight;
\* the heap is ordered but for the edges at pos that the running loop has yet to
\* mend.
IdxState ==
  /\ \A i, j \in 0..(len-1) : Settled[i].ref = Settled[j].ref => i = j
  /\ \A i \in 0..(len-1) : ~Moving \/ i # pos => heap_idx[Settled[i].ref] = i
  /\ \A e \in Entries : heap_idx[e] # NoIdx /\ e # leaving =>
        \E i \in 0..(len-1) : Settled[i].ref = e
  /\ \A i \in 0..(len-1) : Settled[i].ref # leaving
  /\ pc \in {"up", "down", "end"} /\ call.val # None =>
        \E i \in 0..(len-1) : Settled[i] = [val |-> call.val, ref |-> call.ent]

Edge(i) == Settled[heap_parent(i)].val <= Settled[i].val

OrderState ==
  \A i \in 1..(len-1) :
     /\ ~Moving => Edge(i)
     /\ Moving /\ i # pos /\ heap_parent(i) # pos => Edge(i)
     /\ pc = "up" /\ heap_parent(i) = pos => Edge(i)
     /\ pc = "down" /\ i = pos => Edge(i)
     /\ Moving /\ pos > 0 /\ heap_parent(i) = pos =>
           Settled[heap_parent(pos)].val <= Settled[i].val

IInv == TypeOK /\ IdxState /\ OrderState
=============================================================================
