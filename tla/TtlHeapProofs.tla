--------------------------- MODULE TtlHeapProofs ---------------------------
(***************************************************************************)
(* Proofs about TtlHeap for any set of entries and any deadlines.          *)
(***************************************************************************)
EXTENDS TtlHeap, WellFoundedInduction, TLAPS

\* The shape of the tree: a parent comes before its two children.
LEMMA Tree ==
  \A i \in Nat \ {0} :
     /\ heap_parent(i) \in Nat /\ heap_parent(i) < i
     /\ \A p \in Nat : heap_parent(i) = p <=> i = heap_left(p) \/ i = heap_right(p)
BY DEF heap_parent, heap_left, heap_right

LEMMA ParentInArray ==
  ASSUME NEW n \in Nat, NEW i \in 0..(n-1), i > 0
  PROVE  heap_parent(i) \in 0..(n-1) /\ heap_parent(i) < i
<1>1. i \in Nat \ {0}
  OBVIOUS
<1>2. heap_parent(i) \in Nat /\ heap_parent(i) < i
  BY <1>1, Tree
<1>3. QED
  BY <1>2

LEMMA InitIInv == Init => IInv
<1> SUFFICES ASSUME Init PROVE IInv
  OBVIOUS
<1>1. TypeOK
  BY DEF Init, TypeOK, Moving, Item, NoIdx, NoReply
<1>2. IdxState /\ OrderState
  BY DEF Init, IdxState, OrderState
<1>3. QED
  BY <1>1, <1>2 DEF IInv

\* What the settled heap is between calls and while a loop runs.
LEMMA SettledType ==
  ASSUME TypeOK
  PROVE  /\ Settled \in [0..(len-1) -> Item]
         /\ ~Moving => Settled = heap
         /\ Moving => \A i \in 0..(len-1) : Settled[i] = IF i = pos THEN t ELSE heap[i]
BY DEF TypeOK, Settled

LEMMA RefsFromIInv == IInv => RefsConsistent
<1> SUFFICES ASSUME IInv, pc = "idle" PROVE RefsConsistent
  BY DEF RefsConsistent
<1>1. ~Moving /\ leaving = None
  BY DEF Moving, leaving
<1>2. /\ len \in Nat /\ Settled = heap
      /\ heap_idx \in [Entries -> Nat \cup {NoIdx}]
  BY <1>1, SettledType DEF IInv, TypeOK
<1>3. /\ \A i \in 0..(len-1) : heap_idx[heap[i].ref] = i
      /\ \A e \in Entries : heap_idx[e] # NoIdx => \E i \in 0..(len-1) : heap[i].ref = e
  BY <1>1, <1>2, TtlHeapAssumption DEF IInv, IdxState
<1>4. QED
  BY <1>2, <1>3 DEF RefsConsistent

\* An array of n items that may be out of order at p only.
Items(a, n) == n \in Nat /\ a \in [0..(n-1) -> Item]

LessEq(a, i, j) == a[i].val <= a[j].val

OrderedBut(a, n, p) ==
  \A i \in 1..(n-1) :
     /\ i # p /\ heap_parent(i) # p => LessEq(a, heap_parent(i), i)
     /\ p > 0 /\ heap_parent(i) = p => LessEq(a, heap_parent(p), i)

\* Positions that are right except perhaps for the item at p.
IndexedBut(a, n, p, idx, gone) ==
  /\ idx \in [Entries -> Nat \cup {NoIdx}] /\ gone \in Entries \cup {None}
  /\ \A i, j \in 0..(n-1) : a[i].ref = a[j].ref => i = j
  /\ \A i \in 0..(n-1) : i # p => idx[a[i].ref] = i
  /\ \A i \in 0..(n-1) : a[i].ref # gone
  /\ \A e \in Entries : idx[e] # NoIdx /\ e # gone => \E i \in 0..(n-1) : a[i].ref = e

\* heap_update takes the item at p out of an array: settled, the heap is that
\* array, and the loop it chooses has only the edges at p to mend.
LEMMA UpdateIInv ==
  ASSUME TypeOK, pc = "begin", UNCHANGED <<call, reply>>,
         NEW n, NEW a, Items(a, n), NEW p \in 0..(n-1),
         len' = n, heap' = a, heap_update(a, p), OrderedBut(a, n, p),
         IndexedBut(a, n, p, heap_idx', IF call.val = None THEN call.ent ELSE None),
         call.val # None => \E i \in 0..(n-1) : a[i] = [val |-> call.val, ref |-> call.ent]
  PROVE  IInv'
<1>1. /\ pc' \in {"up", "down"} /\ pos' = p /\ t' = a[p]
      /\ pc' = "up" <=> p > 0 /\ a[heap_parent(p)].val > a[p].val
      /\ Moving' /\ leaving' = IF call.val = None THEN call.ent ELSE None
      /\ call' = call /\ reply' = reply
  BY DEF heap_update, Moving, leaving
<1>2. TypeOK'
  <2>1. /\ call \in [ent : Entries, val : Vals \cup {None}]
        /\ reply \in [ref : Entries \cup {None}, val : Nat \cup {None}]
    BY DEF TypeOK
  <2>2. /\ n \in Nat /\ a \in [0..(n-1) -> Item] /\ a[p] \in Item
        /\ heap_idx' \in [Entries -> Nat \cup {NoIdx}]
    BY DEF Items, IndexedBut
  <2>3. IF Moving' THEN pos' \in 0..(len'-1) /\ t' \in Item ELSE pos' = 0 /\ t' = NoItem
    BY <1>1, <2>2
  <2>4. QED
    BY <1>1, <2>1, <2>2, <2>3 DEF TypeOK
<1>3. Settled' = a
  BY <1>1 DEF Settled, Items
<1>4. IdxState'
  BY <1>1, <1>3 DEF IdxState, IndexedBut
<1>5. OrderState'
  <2>1. ASSUME NEW i \in 1..(n-1)
        PROVE  /\ i # p /\ heap_parent(i) # p => LessEq(a, heap_parent(i), i)
               /\ pc' = "up" /\ heap_parent(i) = p => LessEq(a, heap_parent(i), i)
               /\ pc' = "down" /\ i = p => LessEq(a, heap_parent(i), i)
               /\ p > 0 /\ heap_parent(i) = p => LessEq(a, heap_parent(p), i)
    <3>1. /\ i \in 0..(n-1) /\ heap_parent(i) \in 0..(n-1)
          /\ p > 0 => heap_parent(p) \in 0..(n-1)
      <4>1. n \in Nat
        BY DEF Items
      <4>2. i \in 0..(n-1) /\ i > 0
        BY <4>1
      <4>3. QED
        BY <4>1, <4>2, ParentInArray
    <3>2. /\ a[i].val \in Nat /\ a[p].val \in Nat
          /\ a[heap_parent(i)].val \in Nat
          /\ p > 0 => a[heap_parent(p)].val \in Nat
      BY <3>1 DEF Items, Item
    <3>3. /\ i # p /\ heap_parent(i) # p => LessEq(a, heap_parent(i), i)
          /\ p > 0 /\ heap_parent(i) = p => LessEq(a, heap_parent(p), i)
      BY <2>1 DEF OrderedBut
    <3>4. QED
      BY <1>1, <2>1, <3>2, <3>3 DEF LessEq
  <2>2. QED
    BY <1>1, <1>3, <2>1 DEF OrderState, Edge, LessEq, Moving
<1>6. QED
  BY <1>2, <1>4, <1>5 DEF IInv

\* The array when entry_set_ttl begins.
LEMMA BeginState ==
  ASSUME IInv, pc = "begin"
  PROVE  /\ len \in Nat /\ heap \in [0..(len-1) -> Item]
         /\ heap_idx \in [Entries -> Nat \cup {NoIdx}]
         /\ Settled = heap /\ pos = 0 /\ t = NoItem
         /\ call \in [ent : Entries, val : Vals \cup {None}]
         /\ \A i, j \in 0..(len-1) : heap[i].ref = heap[j].ref => i = j
         /\ \A i \in 0..(len-1) : heap_idx[heap[i].ref] = i
         /\ \A x \in Entries : heap_idx[x] # NoIdx => \E i \in 0..(len-1) : heap[i].ref = x
         /\ \A j \in 1..(len-1) : LessEq(heap, heap_parent(j), j)
<1>1. ~Moving /\ leaving = None
  BY DEF Moving, leaving
<1>2. /\ len \in Nat /\ heap \in [0..(len-1) -> Item]
      /\ heap_idx \in [Entries -> Nat \cup {NoIdx}]
      /\ Settled = heap /\ pos = 0 /\ t = NoItem
      /\ call \in [ent : Entries, val : Vals \cup {None}]
  BY <1>1, SettledType DEF IInv, TypeOK
<1>3. /\ \A i, j \in 0..(len-1) : heap[i].ref = heap[j].ref => i = j
      /\ \A i \in 0..(len-1) : heap_idx[heap[i].ref] = i
      /\ \A x \in Entries : heap_idx[x] # NoIdx => \E i \in 0..(len-1) : heap[i].ref = x
  BY <1>1, <1>2, TtlHeapAssumption DEF IInv, IdxState
<1>4. \A j \in 1..(len-1) : LessEq(heap, heap_parent(j), j)
  BY <1>1, <1>2 DEF IInv, OrderState, Edge, LessEq
<1>5. QED
  BY <1>2, <1>3, <1>4

\* The array that entry_set_ttl makes: the entry's item has the new deadline,
\* at the end of the array if there was none.
LEMMA SetTtlArray ==
  ASSUME IInv, SetTtl
  PROVE  LET e == call.ent
             p == IF heap_idx[e] = NoIdx THEN len ELSE heap_idx[e]
             n == IF heap_idx[e] = NoIdx THEN len + 1 ELSE len
             a == [i \in 0..(n-1) |-> IF i = p THEN [val |-> call.val, ref |-> e] ELSE heap[i]]
         IN  /\ e \in Entries /\ call.val \in Vals /\ call.val \in Nat
             /\ pc = "begin" /\ len' = n /\ heap' = a /\ heap_update(a, p)
             /\ heap_idx' = heap_idx /\ call' = call /\ reply' = reply
<1> DEFINE e == call.ent
           p == IF heap_idx[e] = NoIdx THEN len ELSE heap_idx[e]
           n == IF heap_idx[e] = NoIdx THEN len + 1 ELSE len
           b == [PushBack(e) EXCEPT ![p] = [@ EXCEPT !.val = call.val]]
           a == [i \in 0..(n-1) |-> IF i = p THEN [val |-> call.val, ref |-> e] ELSE heap[i]]
<1>1. /\ pc = "begin" /\ call.val # None /\ len' = n /\ heap' = b /\ heap_update(b, p)
      /\ heap_idx' = heap_idx /\ call' = call /\ reply' = reply
  BY DEF SetTtl
<1>2. /\ len \in Nat /\ heap \in [0..(len-1) -> Item]
      /\ e \in Entries /\ call.val \in Vals /\ call.val \in Nat
      /\ heap_idx[e] \in Nat \cup {NoIdx}
      /\ \A i \in 0..(len-1) : heap_idx[heap[i].ref] = i
      /\ heap_idx[e] # NoIdx => \E i \in 0..(len-1) : heap[i].ref = e
  BY <1>1, BeginState, TtlHeapAssumption
<1>3. b = a
  <2>1. CASE heap_idx[e] = NoIdx
    <3>1. PushBack(e) = [i \in 0..len |-> IF i = len THEN [val |-> 0, ref |-> e] ELSE heap[i]]
      BY <2>1 DEF PushBack, NoItem
    <3>2. n - 1 = len /\ p = len /\ len \in 0..len
      BY <1>2, <2>1
    <3>3. PushBack(e)[len] = [val |-> 0, ref |-> e]
      BY <3>1, <3>2
    <3>4. b = [i \in 0..len |-> IF i = len THEN [val |-> call.val, ref |-> e] ELSE heap[i]]
      <4>1. [[val |-> 0, ref |-> e] EXCEPT !.val = call.val] = [val |-> call.val, ref |-> e]
        OBVIOUS
      <4>2. b = [PushBack(e) EXCEPT ![len] = [val |-> call.val, ref |-> e]]
        BY <3>2, <3>3, <4>1
      <4>3. QED
        BY <3>1, <3>2, <4>2
    <3>5. QED
      BY <3>2, <3>4
  <2>2. CASE heap_idx[e] # NoIdx
    <3>1. PushBack(e) = heap /\ n = len /\ p = heap_idx[e]
      BY <2>2 DEF PushBack
    <3>2. p \in 0..(len-1) /\ heap[p] \in Item /\ heap[p].ref = e
      BY <1>2, <2>2, <3>1
    <3>3. [heap[p] EXCEPT !.val = call.val] = [val |-> call.val, ref |-> e]
      BY <3>2 DEF Item
    <3>4. QED
      BY <1>2, <3>1, <3>2, <3>3
  <2>3. QED
    BY <2>1, <2>2
<1>4. QED
  BY <1>1, <1>2, <1>3

LEMMA SetTtlIInv ==
  ASSUME IInv, SetTtl
  PROVE  IInv'
<1> DEFINE e == call.ent
           v == call.val
           p == IF heap_idx[e] = NoIdx THEN len ELSE heap_idx[e]
           n == IF heap_idx[e] = NoIdx THEN len + 1 ELSE len
           a == [i \in 0..(n-1) |-> IF i = p THEN [val |-> v, ref |-> e] ELSE heap[i]]
<1>1. /\ pc = "begin" /\ len' = n /\ heap' = a /\ heap_update(a, p)
      /\ heap_idx' = heap_idx /\ call' = call /\ reply' = reply
      /\ e \in Entries /\ v \in Nat /\ v # None
  BY SetTtlArray, TtlHeapAssumption
<1>2. /\ len \in Nat /\ heap \in [0..(len-1) -> Item]
      /\ heap_idx \in [Entries -> Nat \cup {NoIdx}] /\ Settled = heap
  BY <1>1, BeginState
<1>3. /\ \A i, j \in 0..(len-1) : heap[i].ref = heap[j].ref => i = j
      /\ \A i \in 0..(len-1) : heap_idx[heap[i].ref] = i
      /\ \A x \in Entries : heap_idx[x] # NoIdx => \E i \in 0..(len-1) : heap[i].ref = x
  BY <1>1, BeginState
<1>4. /\ p \in 0..(n-1) /\ n \in Nat
      /\ \A i \in 0..(n-1) : i # p => i \in 0..(len-1)
      /\ heap_idx[e] # NoIdx => p \in 0..(len-1) /\ heap[p].ref = e /\ n = len
      /\ heap_idx[e] = NoIdx => p = len /\ n = len + 1
                                /\ \A i \in 0..(len-1) : heap[i].ref # e
  BY <1>1, <1>2, <1>3 DEF NoIdx
<1>5. /\ a[p] = [val |-> v, ref |-> e]
      /\ \A i \in 0..(n-1) : i # p => a[i] = heap[i]
  BY <1>4
<1>6. Items(a, n)
  BY <1>1, <1>2, <1>4 DEF Items, Item
<1>7. IndexedBut(a, n, p, heap_idx, None)
  <2>1. \A i \in 0..(n-1) : i # p => a[i].ref # e
    BY <1>3, <1>4, <1>5
  <2>2. \A i, j \in 0..(n-1) : a[i].ref = a[j].ref => i = j
    BY <1>3, <1>4, <1>5, <2>1
  <2>3. \A i \in 0..(n-1) : a[i].ref # None
    BY <1>6, TtlHeapAssumption DEF Items, Item
  <2>4. \A x \in Entries : heap_idx[x] # NoIdx => \E i \in 0..(n-1) : a[i].ref = x
    <3>1. ASSUME NEW x \in Entries, heap_idx[x] # NoIdx, x # e
          PROVE  \E i \in 0..(n-1) : a[i].ref = x
      <4>1. PICK i \in 0..(len-1) : heap[i].ref = x
        BY <1>3, <3>1
      <4>2. i # p /\ i \in 0..(n-1)
        BY <1>2, <1>4, <3>1, <4>1
      <4>3. QED
        BY <1>5, <4>1, <4>2
    <3>2. QED
      BY <1>4, <1>5, <3>1
  <2>5. QED
    BY <1>2, <1>3, <1>4, <1>5, <2>2, <2>3, <2>4 DEF IndexedBut
<1>8. OrderedBut(a, n, p)
  <2> SUFFICES ASSUME NEW i \in 1..(n-1)
               PROVE  /\ i # p /\ heap_parent(i) # p => LessEq(a, heap_parent(i), i)
                      /\ p > 0 /\ heap_parent(i) = p => LessEq(a, heap_parent(p), i)
    BY DEF OrderedBut
  <2>1. /\ i \in 0..(n-1) /\ heap_parent(i) \in 0..(n-1) /\ heap_parent(i) < i
        /\ p > 0 => heap_parent(p) \in 0..(n-1) /\ heap_parent(p) < p
    BY <1>4, ParentInArray
  <2>2. \A j \in 1..(len-1) : LessEq(heap, heap_parent(j), j)
    BY <1>1, BeginState
  <2>3. ASSUME i # p, heap_parent(i) # p
        PROVE  LessEq(a, heap_parent(i), i)
    <3>1. i \in 1..(len-1)
      BY <1>4, <2>1, <2>3
    <3>2. QED
      BY <1>5, <2>1, <2>2, <2>3, <3>1 DEF LessEq
  <2>4. ASSUME p > 0, heap_parent(i) = p
        PROVE  LessEq(a, heap_parent(p), i)
    <3>1. i \in 1..(len-1) /\ p \in 1..(len-1)
      BY <1>2, <1>4, <2>1, <2>4
    <3>2. /\ heap[heap_parent(p)].val <= heap[p].val
          /\ heap[p].val <= heap[i].val
      BY <2>2, <2>4, <3>1 DEF LessEq
    <3>3. heap[i].val \in Nat /\ heap[p].val \in Nat /\ heap[heap_parent(p)].val \in Nat
      <4>1. heap_parent(p) \in 0..(len-1) /\ p \in 0..(len-1) /\ i \in 0..(len-1)
        BY <1>4, <2>1, <2>4, <3>1
      <4>2. QED
        BY <1>2, <4>1 DEF Item
    <3>4. a[i] = heap[i] /\ a[heap_parent(p)] = heap[heap_parent(p)]
      BY <1>5, <2>1, <2>4
    <3>5. QED
      BY <3>2, <3>3, <3>4 DEF LessEq
  <2>5. QED
    BY <2>3, <2>4
<1>9. IndexedBut(a, n, p, heap_idx', IF call.val = None THEN call.ent ELSE None)
  BY <1>1, <1>7
<1>10. \E i \in 0..(n-1) : a[i] = [val |-> call.val, ref |-> call.ent]
  BY <1>4, <1>5
<1>11. TypeOK
  BY DEF IInv
<1>12. QED
  BY <1>1, <1>4, <1>6, <1>8, <1>9, <1>10, <1>11, UpdateIInv

LEMMA EraseTtlIInv ==
  ASSUME IInv, EraseTtl
  PROVE  IInv'
<1> DEFINE e == call.ent
           p == heap_idx[e]
           n == len - 1
           a == [i \in 0..(n-1) |-> IF i = p THEN heap[n] ELSE heap[i]]
<1>1. /\ pc = "begin" /\ call.val = None /\ p # NoIdx /\ len' = n /\ heap' = a
      /\ \/ p < n /\ heap_update(a, p)
         \/ p = n /\ pc' = "end" /\ pos' = pos /\ t' = t
      /\ heap_idx' = heap_idx /\ call' = call /\ reply' = reply
  BY DEF EraseTtl
<1>2. /\ len \in Nat /\ heap \in [0..(len-1) -> Item]
      /\ heap_idx \in [Entries -> Nat \cup {NoIdx}] /\ Settled = heap
      /\ pos = 0 /\ t = NoItem /\ e \in Entries
  BY <1>1, BeginState
<1>3. /\ \A i, j \in 0..(len-1) : heap[i].ref = heap[j].ref => i = j
      /\ \A i \in 0..(len-1) : heap_idx[heap[i].ref] = i
      /\ \A x \in Entries : heap_idx[x] # NoIdx => \E i \in 0..(len-1) : heap[i].ref = x
  BY <1>1, BeginState
<1>4. p \in 0..(len-1) /\ heap[p].ref = e /\ n \in Nat /\ n \in 0..(len-1)
  <2>1. PICK i \in 0..(len-1) : heap[i].ref = e
    BY <1>1, <1>2, <1>3
  <2>2. i = p
    BY <1>3, <2>1
  <2>3. QED
    BY <1>2, <2>1, <2>2
<1>5. /\ p < n => a[p] = heap[n]
      /\ \A i \in 0..(n-1) : i # p => a[i] = heap[i]
  BY <1>4
<1>6. Items(a, n)
  BY <1>2, <1>4 DEF Items
<1>7. \A j \in 1..(len-1) : LessEq(heap, heap_parent(j), j)
  BY <1>1, BeginState
<1>8. CASE p < n
  <2>1. IndexedBut(a, n, p, heap_idx, e)
    <3>1. \A i, j \in 0..(n-1) : a[i].ref = a[j].ref => i = j
      BY <1>2, <1>3, <1>4, <1>5
    <3>2. \A i \in 0..(n-1) : a[i].ref # e
      BY <1>2, <1>3, <1>4, <1>5, <1>8
    <3>3. \A x \in Entries : heap_idx[x] # NoIdx /\ x # e => \E i \in 0..(n-1) : a[i].ref = x
      <4>1. ASSUME NEW x \in Entries, heap_idx[x] # NoIdx, x # e
            PROVE  \E i \in 0..(n-1) : a[i].ref = x
        <5>1. PICK i \in 0..(len-1) : heap[i].ref = x
          BY <1>3, <4>1
        <5>2. CASE i = n
          BY <1>4, <1>5, <1>8, <5>1, <5>2
        <5>3. CASE i # n
          <6>1. i \in 0..(n-1) /\ i # p
            BY <1>2, <1>4, <4>1, <5>1, <5>3
          <6>2. QED
            BY <1>5, <5>1, <6>1
        <5>4. QED
          BY <5>2, <5>3
      <4>2. QED
        BY <4>1
    <3>4. \A i \in 0..(n-1) : i # p => heap_idx[a[i].ref] = i
      BY <1>2, <1>3, <1>4, <1>5
    <3>5. QED
      BY <1>2, <3>1, <3>2, <3>3, <3>4 DEF IndexedBut
  <2>2. OrderedBut(a, n, p)
    <3> SUFFICES ASSUME NEW i \in 1..(n-1)
                 PROVE  /\ i # p /\ heap_parent(i) # p => LessEq(a, heap_parent(i), i)
                        /\ p > 0 /\ heap_parent(i) = p => LessEq(a, heap_parent(p), i)
      BY DEF OrderedBut
    <3>1. /\ i \in 0..(n-1) /\ heap_parent(i) \in 0..(n-1) /\ heap_parent(i) < i
          /\ p > 0 => heap_parent(p) \in 0..(n-1) /\ heap_parent(p) < p
      <4>1. i \in 0..(n-1) /\ i > 0 /\ p \in 0..(n-1)
        BY <1>4, <1>8
      <4>2. QED
        BY <1>4, <4>1, ParentInArray
    <3>2. i \in 1..(len-1) /\ (p > 0 => p \in 1..(len-1))
      BY <1>2, <1>4, <3>1
    <3>3. ASSUME i # p, heap_parent(i) # p
          PROVE  LessEq(a, heap_parent(i), i)
      BY <1>5, <1>7, <3>1, <3>2, <3>3 DEF LessEq
    <3>4. ASSUME p > 0, heap_parent(i) = p
          PROVE  LessEq(a, heap_parent(p), i)
      <4>1. /\ heap[heap_parent(p)].val <= heap[p].val
            /\ heap[p].val <= heap[i].val
        BY <1>7, <3>2, <3>4 DEF LessEq
      <4>2. heap_parent(p) \in 0..(len-1) /\ i \in 0..(len-1)
        BY <1>2, <3>1, <3>2, <3>4
      <4>3. heap[i].val \in Nat /\ heap[p].val \in Nat /\ heap[heap_parent(p)].val \in Nat
        BY <1>2, <1>4, <4>2 DEF Item
      <4>4. a[i] = heap[i] /\ a[heap_parent(p)] = heap[heap_parent(p)]
        BY <1>5, <3>1, <3>4
      <4>5. QED
        BY <4>1, <4>3, <4>4 DEF LessEq
    <3>5. QED
      BY <3>3, <3>4
  <2>3. p \in 0..(n-1)
    BY <1>4, <1>8
  <2>4. heap_update(a, p) /\ TypeOK
    BY <1>1, <1>2, <1>4, <1>8 DEF IInv
  <2>5. IndexedBut(a, n, p, heap_idx', IF call.val = None THEN call.ent ELSE None)
    BY <1>1, <2>1
  <2>6. QED
    BY <1>1, <1>6, <2>2, <2>3, <2>4, <2>5, UpdateIInv
<1>9. CASE p = n
  <2>1. pc' = "end" /\ pos' = 0 /\ t' = NoItem /\ ~Moving' /\ leaving' = e
    BY <1>1, <1>2, <1>9 DEF Moving, leaving
  <2>2. \A i \in 0..(n-1) : a[i] = heap[i] /\ i \in 0..(len-1) /\ heap[i].ref # e
    BY <1>2, <1>3, <1>4, <1>5, <1>9
  <2>3. TypeOK'
    <3>1. /\ call \in [ent : Entries, val : Vals \cup {None}]
          /\ reply \in [ref : Entries \cup {None}, val : Nat \cup {None}]
      BY <1>1 DEF IInv, TypeOK
    <3>2. QED
      BY <1>1, <1>2, <1>6, <2>1, <3>1 DEF TypeOK, Items
  <2>4. Settled' = a
    BY <1>1, <2>1 DEF Settled
  <2>5. IdxState'
    <3>1. \A i, j \in 0..(n-1) : a[i].ref = a[j].ref => i = j
      BY <1>3, <2>2
    <3>2. \A i \in 0..(n-1) : heap_idx[a[i].ref] = i /\ a[i].ref # e
      BY <1>3, <2>2
    <3>3. ASSUME NEW x \in Entries, heap_idx[x] # NoIdx, x # e
          PROVE  \E i \in 0..(n-1) : a[i].ref = x
      <4>1. PICK i \in 0..(len-1) : heap[i].ref = x
        BY <1>3, <3>3
      <4>2. i \in 0..(n-1)
        BY <1>2, <1>4, <1>9, <3>3, <4>1
      <4>3. QED
        BY <2>2, <4>1, <4>2
    <3>4. QED
      BY <1>1, <2>1, <2>4, <3>1, <3>2, <3>3 DEF IdxState
  <2>6. OrderState'
    <3>1. ASSUME NEW i \in 1..(n-1)
          PROVE  LessEq(a, heap_parent(i), i)
      <4>1. i \in 0..(n-1) /\ i > 0 /\ i \in 1..(len-1)
        BY <1>2, <1>4
      <4>2. heap_parent(i) \in 0..(n-1)
        BY <1>4, <4>1, ParentInArray
      <4>3. QED
        BY <1>7, <2>2, <4>1, <4>2 DEF LessEq
    <3>2. QED
      BY <1>1, <2>1, <2>4, <3>1 DEF OrderState, Edge, LessEq
  <2>7. QED
    BY <2>3, <2>5, <2>6 DEF IInv
<1>10. QED
  BY <1>1, <1>8, <1>9

\* Steps outside the loops that leave the array as it is.
LEMMA SameArrayIInv ==
  ASSUME IInv, len' = len, heap' = heap, ~Moving, ~Moving', TypeOK', IdxState'
  PROVE  IInv'
<1>1. Settled' = Settled
  BY DEF Settled
<1>2. OrderState'
  BY <1>1 DEF IInv, OrderState, Edge, Moving
<1>3. QED
  BY <1>2 DEF IInv

LEMMA CallIInv ==
  ASSUME IInv, NEW e \in Entries, NEW v \in Vals \cup {None}, entry_set_ttl(e, v)
  PROVE  IInv'
<1>1. /\ len' = len /\ heap' = heap /\ heap_idx' = heap_idx /\ pos' = pos /\ t' = t
      /\ pc = "idle" /\ pc' = "begin" /\ call' = [ent |-> e, val |-> v] /\ reply' = NoReply
  BY DEF entry_set_ttl, array
<1>2. /\ ~Moving /\ ~Moving' /\ leaving' = None /\ leaving = None
      /\ Settled = heap /\ Settled' = heap
  BY <1>1 DEF Moving, leaving, Settled
<1>3. TypeOK'
  BY <1>1, <1>2 DEF IInv, TypeOK, NoReply
<1>4. IdxState'
  BY <1>1, <1>2 DEF IInv, IdxState
<1>5. QED
  BY <1>1, <1>2, <1>3, <1>4, SameArrayIInv

LEMMA NoTtlIInv ==
  ASSUME IInv, NoTtl
  PROVE  IInv'
<1>1. /\ len' = len /\ heap' = heap /\ heap_idx' = heap_idx /\ pos' = pos /\ t' = t
      /\ pc = "begin" /\ pc' = "end" /\ call' = call /\ reply' = reply
      /\ call.val = None /\ heap_idx[call.ent] = NoIdx
  BY DEF NoTtl, array
<1>2. ~Moving /\ ~Moving' /\ leaving' = call.ent /\ Settled' = heap
  BY <1>1 DEF Moving, leaving, Settled
<1>3. TypeOK'
  BY <1>1, <1>2 DEF IInv, TypeOK
<1>4. \A i \in 0..(len-1) : heap[i].ref # call.ent
  BY <1>1, BeginState DEF NoIdx
<1>5. /\ \A i, j \in 0..(len-1) : heap[i].ref = heap[j].ref => i = j
      /\ \A i \in 0..(len-1) : heap_idx[heap[i].ref] = i
      /\ \A x \in Entries : heap_idx[x] # NoIdx => \E i \in 0..(len-1) : heap[i].ref = x
  BY <1>1, BeginState
<1>6. IdxState'
  BY <1>1, <1>2, <1>4, <1>5 DEF IdxState
<1>7. QED
  BY <1>1, <1>2, <1>3, <1>6, SameArrayIInv

LEMMA ReturnIInv ==
  ASSUME IInv, Return
  PROVE  IInv'
<1>1. /\ len' = len /\ heap' = heap /\ pos' = pos /\ t' = t
      /\ pc = "end" /\ pc' = "idle" /\ call' = NoCall /\ reply' = reply
      /\ heap_idx' = IF call.val = None THEN [heap_idx EXCEPT ![call.ent] = NoIdx]
                     ELSE heap_idx
  BY DEF Return
<1>2. /\ ~Moving /\ ~Moving' /\ leaving' = None /\ Settled = heap /\ Settled' = heap
      /\ leaving = IF call.val = None THEN call.ent ELSE None
  BY <1>1 DEF Moving, leaving, Settled, NoCall
<1>3. /\ len \in Nat /\ heap \in [0..(len-1) -> Item]
      /\ heap_idx \in [Entries -> Nat \cup {NoIdx}]
      /\ call \in [ent : Entries, val : Vals \cup {None}]
  BY <1>1 DEF IInv, TypeOK
<1>4. TypeOK'
  BY <1>1, <1>2, <1>3 DEF IInv, TypeOK
<1>5. /\ \A i, j \in 0..(len-1) : heap[i].ref = heap[j].ref => i = j
      /\ \A i \in 0..(len-1) : heap_idx[heap[i].ref] = i
      /\ \A x \in Entries : heap_idx[x] # NoIdx /\ x # leaving =>
            \E i \in 0..(len-1) : heap[i].ref = x
      /\ \A i \in 0..(len-1) : heap[i].ref # leaving
      /\ \A i \in 0..(len-1) : heap[i].ref \in Entries
  BY <1>2, <1>3 DEF IInv, IdxState, Item
<1>6. IdxState'
  <2>1. \A i \in 0..(len-1) : heap_idx'[heap[i].ref] = i /\ heap[i].ref # None
    BY <1>1, <1>2, <1>3, <1>5, TtlHeapAssumption
  <2>2. ASSUME NEW x \in Entries, heap_idx'[x] # NoIdx
        PROVE  heap_idx[x] # NoIdx /\ x # leaving
    <3>1. CASE call.val = None
      BY <1>1, <1>2, <1>3, <2>2, <3>1
    <3>2. CASE call.val # None
      BY <1>1, <1>2, <2>2, <3>2, TtlHeapAssumption
    <3>3. QED
      BY <3>1, <3>2
  <2>3. QED
    BY <1>1, <1>2, <1>5, <2>1, <2>2 DEF IdxState
<1>7. QED
  BY <1>1, <1>2, <1>4, <1>6, SameArrayIInv

\* Reading changes the answer only.
LEMMA ReadIInv ==
  ASSUME IInv, UNCHANGED <<array, pc, pos, t, call>>,
         reply' \in [ref : Entries \cup {None}, val : Nat \cup {None}]
  PROVE  IInv'
<1>1. /\ len' = len /\ heap' = heap /\ heap_idx' = heap_idx /\ pc' = pc
      /\ pos' = pos /\ t' = t /\ call' = call
  BY DEF array
<1>2. Moving' = Moving /\ leaving' = leaving /\ Settled' = Settled
  BY <1>1 DEF Moving, leaving, Settled
<1>3. TypeOK' /\ IdxState' /\ OrderState'
  BY <1>1, <1>2 DEF IInv, TypeOK, IdxState, OrderState, Edge
<1>4. QED
  BY <1>3 DEF IInv

LEMMA ReadTtlIInv ==
  ASSUME IInv, NEW e \in Entries, ReadTtl(e)
  PROVE  IInv'
<1>1. /\ pc = "idle" /\ UNCHANGED <<array, pc, pos, t, call>>
      /\ reply' = [ref |-> e, val |-> IF heap_idx[e] = NoIdx THEN None
                                      ELSE heap[heap_idx[e]].val]
  BY DEF ReadTtl
<1>2. heap_idx[e] # NoIdx => heap[heap_idx[e]].val \in Nat
  BY <1>1, RefsFromIInv DEF IInv, TypeOK, RefsConsistent, Item
<1>3. reply' \in [ref : Entries \cup {None}, val : Nat \cup {None}]
  BY <1>1, <1>2
<1>4. QED
  BY <1>1, <1>3, ReadIInv

LEMMA ReadTopIInv ==
  ASSUME IInv, ReadTop
  PROVE  IInv'
<1>1. /\ UNCHANGED <<array, pc, pos, t, call>>
      /\ reply' = IF len = 0 THEN NoReply ELSE heap[0]
  BY DEF ReadTop
<1>2. len \in Nat /\ heap \in [0..(len-1) -> Item]
  BY DEF IInv, TypeOK
<1>3. reply' \in [ref : Entries \cup {None}, val : Nat \cup {None}]
  BY <1>1, <1>2 DEF Item, NoReply
<1>4. QED
  BY <1>1, <1>3, ReadIInv

\* One iteration of a loop exchanges t with the item at q: settled, the two
\* have changed places, and the positions say so.
LEMMA MoveToSwaps ==
  ASSUME IInv, Moving, NEW q \in 0..(len-1), q # pos, MoveTo(q)
  PROVE  /\ TypeOK' /\ IdxState'
         /\ len' = len /\ pos' = q /\ pc' = pc
         /\ Settled'[pos] = Settled[q] /\ Settled'[q] = t /\ Settled[pos] = t
         /\ \A i \in 0..(len-1) : i # pos /\ i # q => Settled'[i] = Settled[i]
<1>1. /\ len \in Nat /\ heap \in [0..(len-1) -> Item] /\ pos \in 0..(len-1)
      /\ heap_idx \in [Entries -> Nat \cup {NoIdx}] /\ t \in Item
      /\ \A i \in 0..(len-1) : Settled[i] = IF i = pos THEN t ELSE heap[i]
  BY SettledType DEF IInv, TypeOK
<1>2. /\ heap' = [heap EXCEPT ![pos] = heap[q]]
      /\ heap_idx' = [heap_idx EXCEPT ![heap[q].ref] = pos]
      /\ pos' = q /\ len' = len /\ pc' = pc /\ t' = t /\ leaving' = leaving
      /\ call' = call /\ reply' = reply /\ Moving'
  BY DEF MoveTo, leaving, Moving
<1>3. heap[q] \in Item /\ heap[q].ref \in Entries
  BY <1>1 DEF Item
<1>4. TypeOK'
  BY <1>1, <1>2, <1>3 DEF IInv, TypeOK
<1>5. \A i \in 0..(len-1) : Settled'[i] = IF i = q THEN t ELSE heap'[i]
  BY <1>2, <1>4, SettledType DEF Settled, TypeOK
<1>6. /\ Settled'[pos] = Settled[q] /\ Settled'[q] = t /\ Settled[pos] = t
      /\ \A i \in 0..(len-1) : i # pos /\ i # q => Settled'[i] = Settled[i]
  BY <1>1, <1>2, <1>5
<1>7. IdxState'
  <2>1. /\ \A i, j \in 0..(len-1) : Settled[i].ref = Settled[j].ref => i = j
        /\ \A i \in 0..(len-1) : i # pos => heap_idx[Settled[i].ref] = i
        /\ \A e \in Entries : heap_idx[e] # NoIdx /\ e # leaving =>
              \E i \in 0..(len-1) : Settled[i].ref = e
        /\ \A i \in 0..(len-1) : Settled[i].ref # leaving
        /\ \A i \in 0..(len-1) : Settled[i].ref \in Entries
        /\ call.val # None =>
              \E i \in 0..(len-1) : Settled[i] = [val |-> call.val, ref |-> call.ent]
    BY SettledType DEF IInv, IdxState, Item, Moving
  <2>2. \A i, j \in 0..(len-1) : Settled'[i].ref = Settled'[j].ref => i = j
    BY <1>1, <1>6, <2>1
  <2>3. \A i \in 0..(len-1) : i # q => heap_idx'[Settled'[i].ref] = i
    <3>1. heap[q].ref = Settled[q].ref
      BY <1>1
    <3>2. ASSUME NEW i \in 0..(len-1), i # q, i # pos
          PROVE  heap_idx'[Settled'[i].ref] = i
      BY <1>1, <1>2, <1>6, <2>1, <3>1, <3>2
    <3>3. heap_idx'[Settled'[pos].ref] = pos
      BY <1>1, <1>2, <1>3, <1>6, <3>1
    <3>4. QED
      BY <3>2, <3>3
  <2>4. \A x : (\E i \in 0..(len-1) : Settled[i].ref = x)
                  => \E i \in 0..(len-1) : Settled'[i].ref = x
    BY <1>1, <1>6
  <2>5. \A e \in Entries : heap_idx'[e] # NoIdx /\ e # leaving =>
           \E i \in 0..(len-1) : Settled'[i].ref = e
    <3>1. ASSUME NEW e \in Entries, heap_idx'[e] # NoIdx, e # leaving
          PROVE  \E i \in 0..(len-1) : Settled[i].ref = e
      <4>1. CASE e = heap[q].ref
        BY <1>1, <4>1
      <4>2. CASE e # heap[q].ref
        BY <1>1, <1>2, <2>1, <3>1, <4>2
      <4>3. QED
        BY <4>1, <4>2
    <3>2. QED
      BY <2>4, <3>1
  <2>6. \A i \in 0..(len-1) : Settled'[i].ref # leaving
    BY <1>1, <1>6, <2>1
  <2>7. call.val # None =>
           \E i \in 0..(len-1) : Settled'[i] = [val |-> call.val, ref |-> call.ent]
    BY <1>1, <1>6, <2>1
  <2>8. QED
    BY <1>2, <2>2, <2>3, <2>5, <2>6, <2>7 DEF IdxState
<1>8. QED
  BY <1>2, <1>4, <1>6, <1>7

\* The order between items is that of numbers.
LEMMA ValuesAreNat ==
  ASSUME TypeOK
  PROVE  \A i \in 0..(len-1) : Settled[i].val \in Nat
BY SettledType DEF Item

LEMMA UpMoveIInv ==
  ASSUME IInv, pc = "up", Rises, MoveTo(heap_parent(pos))
  PROVE  IInv'
<1> DEFINE q == heap_parent(pos)
           S == Settled
<1>1. len \in Nat /\ pos \in 0..(len-1) /\ pos > 0
  BY DEF IInv, TypeOK, Rises
<1>2. q \in 0..(len-1) /\ q < pos
  BY <1>1, ParentInArray
<1>3. /\ TypeOK' /\ IdxState'
      /\ len' = len /\ pos' = q /\ pc' = "up"
      /\ S'[pos] = S[q] /\ S'[q] = t /\ S[pos] = t
      /\ \A i \in 0..(len-1) : i # pos /\ i # q => S'[i] = S[i]
  BY <1>2, MoveToSwaps DEF Moving
<1>4. S[q].val > t.val
  BY <1>2, SettledType DEF IInv, Rises, Moving
<1>5. \A i \in 0..(len-1) : S[i].val \in Nat
  BY ValuesAreNat DEF IInv
<1>6. ASSUME NEW i \in 1..(len-1)
      PROVE  /\ i # pos /\ heap_parent(i) # pos => S[heap_parent(i)].val <= S[i].val
             /\ heap_parent(i) = pos => S[q].val <= S[i].val
  BY <1>1 DEF IInv, OrderState, Edge, Moving
<1>7. OrderState'
  <2>1. ASSUME NEW i \in 1..(len-1)
        PROVE  /\ i # q /\ heap_parent(i) # q => S'[heap_parent(i)].val <= S'[i].val
               /\ heap_parent(i) = q => S'[q].val <= S'[i].val
               /\ q > 0 /\ heap_parent(i) = q => S'[heap_parent(q)].val <= S'[i].val
    <3>1. i \in 0..(len-1) /\ heap_parent(i) \in 0..(len-1) /\ heap_parent(i) < i
      BY <1>1, ParentInArray
    <3>2. ASSUME i # q, heap_parent(i) # q
          PROVE  S'[heap_parent(i)].val <= S'[i].val
      BY <1>3, <1>6, <3>1, <3>2
    <3>3. ASSUME heap_parent(i) = q
          PROVE  S'[q].val <= S'[i].val
      <4>1. CASE i = pos
        BY <1>1, <1>2, <1>3, <1>4, <1>5, <4>1
      <4>2. CASE i # pos
        <5>1. S[q].val <= S[i].val
          BY <1>2, <1>6, <3>3, <4>2
        <5>2. S'[i] = S[i] /\ S'[q].val = S[pos].val
          BY <1>3, <3>1, <3>3, <4>2
        <5>3. S[i].val \in Nat /\ S[q].val \in Nat /\ S[pos].val \in Nat
          BY <1>1, <1>2, <1>5, <3>1
        <5>4. QED
          BY <1>3, <1>4, <5>1, <5>2, <5>3
      <4>3. QED
        BY <4>1, <4>2
    <3>4. ASSUME q > 0, heap_parent(i) = q
          PROVE  S'[heap_parent(q)].val <= S'[i].val
      <4>1. heap_parent(q) \in 0..(len-1) /\ heap_parent(q) < q /\ q \in 1..(len-1)
        BY <1>1, <1>2, <3>4, ParentInArray
      <4>2. S[heap_parent(q)].val <= S[q].val
        BY <1>2, <1>6, <4>1
      <4>3. S[q].val <= S'[i].val /\ S'[i].val \in Nat
        <5>1. CASE i = pos
          BY <1>2, <1>3, <1>5, <5>1
        <5>2. CASE i # pos
          BY <1>2, <1>3, <1>5, <1>6, <3>1, <3>4, <5>2
        <5>3. QED
          BY <5>1, <5>2
      <4>4. S'[heap_parent(q)] = S[heap_parent(q)]
        BY <1>2, <1>3, <4>1
      <4>5. S[heap_parent(q)].val \in Nat /\ S[q].val \in Nat
        BY <1>2, <1>5, <4>1
      <4>6. QED
        BY <4>2, <4>3, <4>4, <4>5
    <3>5. QED
      BY <3>2, <3>3, <3>4
  <2>2. QED
    BY <1>3, <2>1 DEF OrderState, Edge, Moving
<1>8. QED
  BY <1>3, <1>7 DEF IInv

LEMMA DownMoveIInv ==
  ASSUME IInv, pc = "down", NEW c \in Children, MinChild(c), MoveTo(c)
  PROVE  IInv'
<1> DEFINE S == Settled
<1>1. len \in Nat /\ pos \in 0..(len-1) /\ heap_left(pos) \in Nat /\ heap_right(pos) \in Nat
  BY DEF IInv, TypeOK, Moving, heap_left, heap_right
<1>2. c \in 0..(len-1) /\ c > pos /\ heap_parent(c) = pos /\ c \in 1..(len-1)
  <2>1. c \in Nat /\ c < len /\ c > pos
    BY <1>1 DEF MinChild, Children, heap_left, heap_right
  <2>2. heap_parent(c) = pos
    BY <1>1, <2>1, Tree DEF Children
  <2>3. QED
    BY <1>1, <2>1, <2>2
<1>3. /\ TypeOK' /\ IdxState'
      /\ len' = len /\ pos' = c /\ pc' = "down"
      /\ S'[pos] = S[c] /\ S'[c] = t /\ S[pos] = t
      /\ \A i \in 0..(len-1) : i # pos /\ i # c => S'[i] = S[i]
  BY <1>2, MoveToSwaps DEF Moving
<1>4. \A i \in 0..(len-1) : S[i].val \in Nat
  BY ValuesAreNat DEF IInv
<1>5. \A i \in 0..(len-1) : i # pos => S[i] = heap[i]
  BY SettledType DEF IInv
<1>6. S[c].val < t.val
  BY <1>2, <1>5 DEF MinChild
<1>7. ASSUME NEW i \in 1..(len-1), heap_parent(i) = pos
      PROVE  S[c].val <= S[i].val
  <2>1. i \in 0..(len-1) /\ i # pos /\ i \in {heap_left(pos), heap_right(pos)}
    BY <1>1, <1>7, ParentInArray, Tree
  <2>2. S[i] = heap[i] /\ S[c] = heap[c] /\ heap[i].val \in Nat /\ heap[c].val \in Nat
    BY <1>2, <1>4, <1>5, <2>1
  <2>3. t.val \in Nat
    BY <1>1, <1>3, <1>4
  <2>4. i < len /\ c < len
    BY <1>1, <1>2
  <2>5. QED
    BY <2>1, <2>2, <2>3, <2>4 DEF MinChild
<1>8. ASSUME NEW i \in 1..(len-1)
      PROVE  /\ i # pos /\ heap_parent(i) # pos => S[heap_parent(i)].val <= S[i].val
             /\ pos > 0 /\ heap_parent(i) = pos => S[heap_parent(pos)].val <= S[i].val
  BY DEF IInv, OrderState, Edge, Moving
<1>9. OrderState'
  <2>1. ASSUME NEW i \in 1..(len-1)
        PROVE  /\ i # c /\ heap_parent(i) # c => S'[heap_parent(i)].val <= S'[i].val
               /\ i = c => S'[heap_parent(i)].val <= S'[i].val
               /\ heap_parent(i) = c => S'[heap_parent(c)].val <= S'[i].val
    <3>1. i \in 0..(len-1) /\ heap_parent(i) \in 0..(len-1) /\ heap_parent(i) < i
      BY <1>1, ParentInArray
    <3>2. ASSUME i # c, heap_parent(i) # c
          PROVE  S'[heap_parent(i)].val <= S'[i].val
      <4>1. CASE i = pos
        <5>1. S[heap_parent(pos)].val <= S[c].val
          BY <1>2, <1>8, <3>1, <4>1
        <5>2. S'[heap_parent(i)] = S[heap_parent(pos)] /\ S'[i] = S[c]
          BY <1>2, <1>3, <3>1, <3>2, <4>1
        <5>3. QED
          BY <5>1, <5>2
      <4>2. CASE i # pos /\ heap_parent(i) = pos
        BY <1>3, <1>7, <3>1, <3>2, <4>2
      <4>3. CASE i # pos /\ heap_parent(i) # pos
        BY <1>3, <1>8, <3>1, <3>2, <4>3
      <4>4. QED
        BY <4>1, <4>2, <4>3
    <3>3. ASSUME i = c
          PROVE  S'[heap_parent(i)].val <= S'[i].val
      <4>1. S[c].val \in Nat /\ S[pos].val \in Nat
        BY <1>1, <1>2, <1>4
      <4>2. QED
        BY <1>2, <1>3, <1>6, <3>3, <4>1
    <3>4. ASSUME heap_parent(i) = c
          PROVE  S'[heap_parent(c)].val <= S'[i].val
      BY <1>2, <1>3, <1>8, <3>1, <3>4
    <3>5. QED
      BY <3>2, <3>3, <3>4
  <2>2. QED
    BY <1>3, <2>1 DEF OrderState, Edge, Moving
<1>10. QED
  BY <1>3, <1>9 DEF IInv

\* After the loop: once no edge is left to mend, t can be put down.
LEMMA PlaceIInv ==
  ASSUME IInv, Moving, Place,
         \A i \in 1..(len-1) : Settled[heap_parent(i)].val <= Settled[i].val
  PROVE  IInv'
<1> DEFINE S == Settled
<1>1. /\ len \in Nat /\ heap \in [0..(len-1) -> Item] /\ pos \in 0..(len-1)
      /\ heap_idx \in [Entries -> Nat \cup {NoIdx}] /\ t \in Item
      /\ S = [heap EXCEPT ![pos] = t] /\ S \in [0..(len-1) -> Item]
      /\ S[pos] = t /\ pc \in {"up", "down"}
  BY SettledType DEF IInv, TypeOK, Settled, Moving
<1>2. /\ heap' = S /\ len' = len /\ pc' = "end" /\ pos' = 0 /\ t' = NoItem
      /\ call' = call /\ reply' = reply /\ ~Moving' /\ leaving' = leaving
      /\ heap_idx' = [heap_idx EXCEPT ![t.ref] = pos]
  BY <1>1 DEF Place, Moving, leaving
<1>3. Settled' = S
  BY <1>2 DEF Settled
<1>4. TypeOK'
  <2>1. /\ call \in [ent : Entries, val : Vals \cup {None}]
        /\ reply \in [ref : Entries \cup {None}, val : Nat \cup {None}]
    BY <1>1 DEF IInv, TypeOK
  <2>2. t.ref \in Entries
    BY <1>1 DEF Item
  <2>3. QED
    BY <1>1, <1>2, <2>1, <2>2 DEF TypeOK
<1>5. /\ \A i, j \in 0..(len-1) : S[i].ref = S[j].ref => i = j
      /\ \A i \in 0..(len-1) : i # pos => heap_idx[S[i].ref] = i
      /\ \A e \in Entries : heap_idx[e] # NoIdx /\ e # leaving =>
            \E i \in 0..(len-1) : S[i].ref = e
      /\ \A i \in 0..(len-1) : S[i].ref # leaving /\ S[i].ref \in Entries
      /\ call.val # None =>
            \E i \in 0..(len-1) : S[i] = [val |-> call.val, ref |-> call.ent]
  BY <1>1 DEF IInv, IdxState, Item
<1>6. IdxState'
  <2>1. ASSUME NEW i \in 0..(len-1) PROVE heap_idx'[S[i].ref] = i
    BY <1>1, <1>2, <1>5
  <2>2. ASSUME NEW e \in Entries, heap_idx'[e] # NoIdx, e # leaving
        PROVE  \E i \in 0..(len-1) : S[i].ref = e
    <3>1. CASE e = t.ref
      BY <1>1, <3>1
    <3>2. CASE e # t.ref
      BY <1>1, <1>2, <1>5, <2>2, <3>2
    <3>3. QED
      BY <3>1, <3>2
  <2>3. QED
    BY <1>2, <1>3, <1>5, <2>1, <2>2 DEF IdxState
<1>7. OrderState'
  BY <1>2, <1>3 DEF OrderState, Edge
<1>8. QED
  BY <1>4, <1>6, <1>7 DEF IInv

LEMMA UpPlaceIInv ==
  ASSUME IInv, pc = "up", ~Rises, Place
  PROVE  IInv'
<1>1. len \in Nat /\ pos \in 0..(len-1)
  BY DEF IInv, TypeOK, Moving
<1>2. \A i \in 0..(len-1) : Settled[i].val \in Nat /\ Settled[i] = IF i = pos THEN t ELSE heap[i]
  BY ValuesAreNat, SettledType DEF IInv, Moving
<1>3. ASSUME NEW i \in 1..(len-1)
      PROVE  Settled[heap_parent(i)].val <= Settled[i].val
  <2>1. i \in 0..(len-1) /\ heap_parent(i) \in 0..(len-1) /\ heap_parent(i) < i
    BY <1>1, ParentInArray
  <2>2. CASE i = pos
    <3>1. ~(heap[heap_parent(pos)].val > t.val)
      BY <1>1, <2>2 DEF Rises
    <3>2. Settled[heap_parent(i)] = heap[heap_parent(pos)] /\ Settled[i] = t
      BY <1>2, <2>1, <2>2
    <3>3. Settled[heap_parent(i)].val \in Nat /\ Settled[i].val \in Nat
      BY <1>2, <2>1
    <3>4. QED
      BY <3>1, <3>2, <3>3
  <2>3. CASE i # pos
    BY <2>3 DEF IInv, OrderState, Edge
  <2>4. QED
    BY <2>2, <2>3
<1>4. QED
  BY <1>3, PlaceIInv DEF Moving

LEMMA DownPlaceIInv ==
  ASSUME IInv, pc = "down", ~(\E c \in Children : MinChild(c)), Place
  PROVE  IInv'
<1>1. len \in Nat /\ pos \in 0..(len-1)
  BY DEF IInv, TypeOK, Moving
<1>2. \A i \in 0..(len-1) : Settled[i].val \in Nat /\ Settled[i] = IF i = pos THEN t ELSE heap[i]
  BY ValuesAreNat, SettledType DEF IInv, Moving
<1>3. ASSUME NEW i \in 1..(len-1)
      PROVE  Settled[heap_parent(i)].val <= Settled[i].val
  <2>1. i \in 0..(len-1) /\ heap_parent(i) \in 0..(len-1) /\ heap_parent(i) < i
    BY <1>1, ParentInArray
  <2>2. CASE heap_parent(i) = pos
    <3>1. i \in {heap_left(pos), heap_right(pos)} /\ i # pos
      BY <1>1, <2>1, <2>2, Tree
    <3>2. Settled[i] = heap[i] /\ Settled[pos] = t /\ heap[i].val \in Nat /\ t.val \in Nat
      BY <1>1, <1>2, <2>1, <3>1
    <3>3. ~(heap[i].val < t.val)
      <4>1. SUFFICES ASSUME heap[i].val < t.val PROVE FALSE
        OBVIOUS
      <4>2. /\ heap_left(pos) \in Nat /\ heap_right(pos) \in Nat
            /\ heap_left(pos) # pos /\ heap_right(pos) # pos
        BY <1>1 DEF heap_left, heap_right
      <4>3. /\ ~MinChild(heap_left(pos)) /\ ~MinChild(heap_right(pos))
        BY DEF Children
      <4>4. /\ heap_left(pos) < len => heap[heap_left(pos)].val \in Nat
            /\ heap_right(pos) < len => heap[heap_right(pos)].val \in Nat
        BY <1>1, <1>2, <4>2
      <4>5. i < len
        BY <1>1, <2>1
      <4>6. QED
        BY <3>1, <3>2, <4>1, <4>3, <4>4, <4>5 DEF MinChild
    <3>4. QED
      BY <2>2, <3>2, <3>3
  <2>3. CASE heap_parent(i) # pos
    BY <2>3 DEF IInv, OrderState, Edge
  <2>4. QED
    BY <2>2, <2>3
<1>4. QED
  BY <1>3, PlaceIInv DEF Moving

LEMMA StutterIInv == IInv /\ UNCHANGED vars => IInv'
<1> SUFFICES ASSUME IInv, UNCHANGED vars PROVE IInv'
  OBVIOUS
<1>1. /\ len' = len /\ heap' = heap /\ heap_idx' = heap_idx /\ pc' = pc
      /\ pos' = pos /\ t' = t /\ call' = call /\ reply' = reply
  BY DEF vars
<1>2. reply' \in [ref : Entries \cup {None}, val : Nat \cup {None}]
  BY <1>1 DEF IInv, TypeOK
<1>3. QED
  BY <1>1, <1>2, ReadIInv DEF array

\* The settled heap is a heap and the positions are right, at every step of
\* every loop.
THEOREM IInvHolds == Spec => []IInv
<1>1. Init => IInv
  BY InitIInv
<1>2. IInv /\ [Next]_vars => IInv'
  <2> SUFFICES ASSUME IInv, [Next]_vars PROVE IInv'
    OBVIOUS
  <2>1. ASSUME NEW e \in Entries, NEW v \in Vals \cup {None}, entry_set_ttl(e, v)
        PROVE  IInv'
    BY <2>1, CallIInv
  <2>2. CASE SetTtl \/ EraseTtl \/ NoTtl \/ Return
    BY <2>2, SetTtlIInv, EraseTtlIInv, NoTtlIInv, ReturnIInv
  <2>3. CASE heap_up
    <3>1. CASE Rises
      BY <2>3, <3>1, UpMoveIInv DEF heap_up
    <3>2. CASE ~Rises
      BY <2>3, <3>2, UpPlaceIInv DEF heap_up
    <3>3. QED
      BY <3>1, <3>2
  <2>4. CASE heap_down
    <3>1. ASSUME NEW c \in Children, MinChild(c), MoveTo(c) PROVE IInv'
      BY <2>4, <3>1, DownMoveIInv DEF heap_down
    <3>2. CASE ~(\E c \in Children : MinChild(c)) /\ Place
      BY <2>4, <3>2, DownPlaceIInv DEF heap_down
    <3>3. QED
      BY <2>4, <3>1, <3>2 DEF heap_down
  <2>5. CASE UNCHANGED vars
    BY <2>5, StutterIInv
  <2>6. ASSUME NEW e \in Entries, ReadTtl(e) PROVE IInv'
    BY <2>6, ReadTtlIInv
  <2>7. CASE ReadTop
    BY <2>7, ReadTopIInv
  <2>8. QED
    BY <2>1, <2>2, <2>3, <2>4, <2>5, <2>6, <2>7 DEF Next
<1>3. QED
  BY <1>1, <1>2, PTL DEF Spec

\* The types of heap.cpp's data; an item is in flight exactly while a loop of
\* heap_up or heap_down runs.
THEOREM TypeOKHolds == Spec => []TypeOK
<1>1. IInv => TypeOK
  BY DEF IInv
<1>2. QED
  BY <1>1, IInvHolds, PTL

\* Between calls of heap_update an item and its entry's heap_idx point to each
\* other.
THEOREM RefsConsistentHolds == Spec => []RefsConsistent
<1>1. QED
  BY RefsFromIInv, IInvHolds, PTL

\* An ordered heap has its least item first: of the items below the first one,
\* the one nearest the root would be above its parent.
LEMMA TopIsLeast ==
  ASSUME NEW n \in Nat, NEW a \in [0..(n-1) -> Item],
         \A i \in 1..(n-1) : a[heap_parent(i)].val <= a[i].val
  PROVE  \A i \in 0..(n-1) : a[0].val <= a[i].val
<1> DEFINE Below == {i \in 0..(n-1) : ~(a[0].val <= a[i].val)}
<1>1. SUFFICES ASSUME Below # {} PROVE FALSE
  OBVIOUS
<1>2. Below \subseteq Nat
  OBVIOUS
<1>3. PICK i \in Below : \A j \in Below : ~(<<j, i>> \in OpToRel(<, Nat))
  BY <1>1, <1>2, WFMin, NatLessThanWellFounded, Zenon
<1>4. \A j \in Below : ~(j < i)
  <2>1. ASSUME NEW j \in Below, j < i PROVE <<j, i>> \in OpToRel(<, Nat)
    BY <2>1, <1>2, <1>3, Zenon DEF OpToRel
  <2>2. QED
    BY <1>3, <2>1
<1>5. \A j \in 0..(n-1) : a[j].val \in Nat
  BY DEF Item
<1>6. i \in 0..(n-1) /\ i > 0 /\ ~(a[0].val <= a[i].val)
  <2>1. i \in 0..(n-1) /\ ~(a[0].val <= a[i].val)
    BY <1>3, Zenon
  <2>2. 0 \in 0..(n-1) /\ a[0].val \in Nat
    BY <1>5, <2>1
  <2>3. i # 0
    BY <2>1, <2>2
  <2>4. QED
    BY <2>1, <2>3
<1>7. heap_parent(i) \in 0..(n-1) /\ heap_parent(i) < i /\ 0 \in 0..(n-1)
  BY <1>6, ParentInArray
<1>8. a[0].val <= a[heap_parent(i)].val /\ a[heap_parent(i)].val <= a[i].val
  BY <1>4, <1>6, <1>7
<1>9. QED
  BY <1>5, <1>6, <1>7, <1>8

LEMMA TopFromIInv == IInv => TopIsNearest
<1> SUFFICES ASSUME IInv, pc = "idle" PROVE TopIsNearest
  BY DEF TopIsNearest
<1>1. ~Moving
  BY DEF Moving
<1>2. len \in Nat /\ Settled = heap /\ heap \in [0..(len-1) -> Item]
  BY <1>1, SettledType DEF IInv, TypeOK
<1>3. \A i \in 1..(len-1) : heap[heap_parent(i)].val <= heap[i].val
  BY <1>1, <1>2 DEF IInv, OrderState, Edge
<1>4. QED
  BY <1>2, <1>3, TopIsLeast DEF TopIsNearest

\* process_timers need only look at the first item.
THEOREM TopIsNearestHolds == Spec => []TopIsNearest
<1>1. QED
  BY TopFromIInv, IInvHolds, PTL

\* The deadlines an array of items gives, which only depend on which items it
\* holds and not on their places.
Holds(a, n, e, v) == \E i \in 0..(n-1) : a[i].ref = e /\ a[i].val = v

DeadlineIn(a, n, e) == IF \E i \in 0..(n-1) : a[i].ref = e
                       THEN a[CHOOSE i \in 0..(n-1) : a[i].ref = e].val
                       ELSE None

Distinct(a, n) == \A i, j \in 0..(n-1) : a[i].ref = a[j].ref => i = j

LEMMA HeldDeadline ==
  ASSUME NEW a, NEW n, NEW e, Distinct(a, n)
  PROVE  /\ \A v : Holds(a, n, e, v) => DeadlineIn(a, n, e) = v
         /\ (\A v : ~Holds(a, n, e, v)) => DeadlineIn(a, n, e) = None
<1>1. ASSUME NEW v, Holds(a, n, e, v) PROVE DeadlineIn(a, n, e) = v
  <2>1. PICK i \in 0..(n-1) : a[i].ref = e /\ a[i].val = v
    BY <1>1 DEF Holds
  <2>2. (CHOOSE j \in 0..(n-1) : a[j].ref = e) = i
    BY <2>1 DEF Distinct
  <2>3. QED
    BY <2>1, <2>2 DEF DeadlineIn
<1>2. ASSUME \A v : ~Holds(a, n, e, v) PROVE DeadlineIn(a, n, e) = None
  BY <1>2 DEF Holds, DeadlineIn
<1>3. QED
  BY <1>1, <1>2

LEMMA SameItemsSameDeadline ==
  ASSUME NEW a, NEW n, NEW b, NEW k, NEW e, Distinct(a, n), Distinct(b, k),
         \A v : Holds(a, n, e, v) <=> Holds(b, k, e, v)
  PROVE  DeadlineIn(a, n, e) = DeadlineIn(b, k, e)
BY HeldDeadline

LEMMA DistinctItems == IInv => Distinct(Settled, len)
BY DEF IInv, IdxState, Distinct

\* The mapped state before and after a step.
Deadlines == [e \in Entries |-> DeadlineOf(e)]

LEMMA DeadlinesAre == Deadlines = [e \in Entries |-> DeadlineIn(Settled, len, e)]
BY DEF Deadlines, DeadlineOf, DeadlineIn

LEMMA DeadlinesBecome == Deadlines' = [e \in Entries |-> DeadlineIn(Settled', len', e)]
BY DEF Deadlines, DeadlineOf, DeadlineIn

\* A step that moves nothing in the settled heap changes no deadline.
LEMMA SameDeadlines ==
  ASSUME len' = len, Settled' = Settled
  PROVE  Deadlines' = Deadlines
BY DeadlinesAre, DeadlinesBecome

\* entry_set_ttl sets the deadline of the entry it was called for.
LEMMA SetTtlSets ==
  ASSUME IInv, IInv', SetTtl
  PROVE  Deadlines' = [Deadlines EXCEPT ![call.ent] = call.val]
<1> DEFINE e == call.ent
           v == call.val
           p == IF heap_idx[e] = NoIdx THEN len ELSE heap_idx[e]
           n == IF heap_idx[e] = NoIdx THEN len + 1 ELSE len
           a == [i \in 0..(n-1) |-> IF i = p THEN [val |-> v, ref |-> e] ELSE heap[i]]
<1>1. pc = "begin" /\ len' = n /\ heap' = a /\ heap_update(a, p) /\ e \in Entries
  BY SetTtlArray
<1>2. len \in Nat /\ Settled = heap /\ heap_idx \in [Entries -> Nat \cup {NoIdx}]
  BY <1>1, BeginState
<1>3. Distinct(heap, len) /\ Distinct(Settled', len')
  BY <1>2, DistinctItems DEF IInv, IdxState, Distinct
<1>4. Settled' = a
  BY <1>1 DEF heap_update, Settled, Moving
<1>5. /\ p \in 0..(n-1)
      /\ heap_idx[e] = NoIdx => \A i \in 0..(len-1) : heap[i].ref # e /\ p = len /\ n = len + 1
      /\ heap_idx[e] # NoIdx => p \in 0..(len-1) /\ heap[p].ref = e /\ n = len
  <2>1. /\ \A i \in 0..(len-1) : heap_idx[heap[i].ref] = i
        /\ heap_idx[e] # NoIdx => \E i \in 0..(len-1) : heap[i].ref = e
    BY <1>1, BeginState
  <2>2. QED
    BY <1>2, <2>1 DEF NoIdx
<1>6. Holds(a, n, e, v)
  BY <1>5 DEF Holds
<1>7. ASSUME NEW x \in Entries, x # e, NEW w
      PROVE  Holds(heap, len, x, w) <=> Holds(a, n, x, w)
  <2>1. ASSUME NEW i \in 0..(len-1), heap[i].ref = x, heap[i].val = w
        PROVE  Holds(a, n, x, w)
    <3>1. i # p /\ i \in 0..(n-1)
      BY <1>2, <1>5, <1>7, <2>1
    <3>2. QED
      BY <2>1, <3>1 DEF Holds
  <2>2. ASSUME NEW i \in 0..(n-1), a[i].ref = x, a[i].val = w
        PROVE  Holds(heap, len, x, w)
    <3>1. i # p
      BY <1>7, <2>2
    <3>2. i \in 0..(len-1)
      BY <1>2, <1>5, <3>1
    <3>3. QED
      BY <2>2, <3>1, <3>2 DEF Holds
  <2>3. QED
    BY <2>1, <2>2 DEF Holds
<1>8. DeadlineIn(a, n, e) = v
  BY <1>1, <1>3, <1>4, <1>6, HeldDeadline
<1>9. ASSUME NEW x \in Entries, x # e
      PROVE  DeadlineIn(a, n, x) = DeadlineIn(heap, len, x)
  BY <1>1, <1>3, <1>4, <1>7, <1>9, SameItemsSameDeadline
<1>10. QED
  BY <1>1, <1>2, <1>4, <1>8, <1>9, DeadlinesAre, DeadlinesBecome

\* Removing a TTL removes one deadline, also while the last item, which took the
\* place of the removed one, is being moved.
LEMMA EraseTtlRemoves ==
  ASSUME IInv, IInv', EraseTtl
  PROVE  Deadlines' = [Deadlines EXCEPT ![call.ent] = call.val]
<1> DEFINE e == call.ent
           p == heap_idx[e]
           n == len - 1
           a == [i \in 0..(n-1) |-> IF i = p THEN heap[n] ELSE heap[i]]
<1>1. /\ pc = "begin" /\ call.val = None /\ p # NoIdx /\ len' = n /\ heap' = a
      /\ \/ p < n /\ heap_update(a, p)
         \/ p = n /\ pc' = "end"
  BY DEF EraseTtl
<1>2. /\ len \in Nat /\ Settled = heap /\ heap_idx \in [Entries -> Nat \cup {NoIdx}]
      /\ e \in Entries
  BY <1>1, BeginState
<1>3. Distinct(heap, len) /\ Distinct(Settled', len')
  BY <1>2, DistinctItems DEF IInv, IdxState, Distinct
<1>4. Settled' = a
  BY <1>1 DEF heap_update, Settled, Moving
<1>5. p \in 0..(len-1) /\ heap[p].ref = e /\ n \in 0..(len-1) /\ n \in Nat
  <2>1. /\ \A i \in 0..(len-1) : heap_idx[heap[i].ref] = i
        /\ \E i \in 0..(len-1) : heap[i].ref = e
    BY <1>1, <1>2, BeginState
  <2>2. QED
    BY <1>2, <2>1
<1>6. ASSUME NEW w PROVE ~Holds(a, n, e, w)
  BY <1>3, <1>5 DEF Holds, Distinct
<1>7. ASSUME NEW x \in Entries, x # e, NEW w
      PROVE  Holds(heap, len, x, w) <=> Holds(a, n, x, w)
  <2>1. ASSUME NEW i \in 0..(len-1), heap[i].ref = x, heap[i].val = w
        PROVE  Holds(a, n, x, w)
    <3>1. i # p
      BY <1>5, <1>7, <2>1
    <3>2. CASE i = n
      <4>1. p \in 0..(n-1) /\ a[p] = heap[n]
        BY <1>5, <3>1, <3>2
      <4>2. QED
        BY <2>1, <3>2, <4>1 DEF Holds
    <3>3. CASE i # n
      <4>1. i \in 0..(n-1) /\ a[i] = heap[i]
        BY <1>2, <3>1, <3>3
      <4>2. QED
        BY <2>1, <4>1 DEF Holds
    <3>4. QED
      BY <3>2, <3>3
  <2>2. ASSUME NEW i \in 0..(n-1), a[i].ref = x, a[i].val = w
        PROVE  Holds(heap, len, x, w)
    <3>1. CASE i = p
      BY <1>5, <2>2, <3>1 DEF Holds
    <3>2. CASE i # p
      <4>1. i \in 0..(len-1)
        BY <1>2
      <4>2. QED
        BY <2>2, <3>2, <4>1 DEF Holds
    <3>3. QED
      BY <3>1, <3>2
  <2>3. QED
    BY <2>1, <2>2 DEF Holds
<1>8. DeadlineIn(a, n, e) = None
  BY <1>1, <1>3, <1>4, <1>6, HeldDeadline
<1>9. ASSUME NEW x \in Entries, x # e
      PROVE  DeadlineIn(a, n, x) = DeadlineIn(heap, len, x)
  BY <1>1, <1>3, <1>4, <1>7, <1>9, SameItemsSameDeadline
<1>10. QED
  BY <1>1, <1>2, <1>4, <1>8, <1>9, DeadlinesAre, DeadlinesBecome

\* The loops move items and change no deadline.
LEMMA MoveToKeeps ==
  ASSUME IInv, IInv', Moving, NEW q \in 0..(len-1), q # pos, MoveTo(q)
  PROVE  Deadlines' = Deadlines
<1>1. /\ len' = len
      /\ Settled'[pos] = Settled[q] /\ Settled'[q] = Settled[pos]
      /\ \A i \in 0..(len-1) : i # pos /\ i # q => Settled'[i] = Settled[i]
  BY MoveToSwaps
<1>2. pos \in 0..(len-1) /\ Distinct(Settled, len) /\ Distinct(Settled', len)
  BY <1>1, DistinctItems DEF IInv, TypeOK, IdxState, Distinct
<1>3. ASSUME NEW x \in Entries, NEW w
      PROVE  Holds(Settled, len, x, w) <=> Holds(Settled', len, x, w)
  BY <1>1, <1>2 DEF Holds
<1>4. ASSUME NEW x \in Entries
      PROVE  DeadlineIn(Settled', len, x) = DeadlineIn(Settled, len, x)
  BY <1>2, <1>3, SameItemsSameDeadline
<1>5. QED
  BY <1>1, <1>4, DeadlinesAre, DeadlinesBecome

LEMMA PlaceKeeps ==
  ASSUME IInv, Moving, Place
  PROVE  Deadlines' = Deadlines
<1>1. Settled' = Settled /\ len' = len
  BY DEF Place, Settled, Moving
<1>2. QED
  BY <1>1, SameDeadlines

LEMMA UpKeeps ==
  ASSUME IInv, IInv', heap_up
  PROVE  Deadlines' = Deadlines
<1>1. CASE Rises /\ MoveTo(heap_parent(pos))
  <2>1. heap_parent(pos) \in 0..(len-1) /\ heap_parent(pos) # pos
    <3>1. len \in Nat /\ pos \in 0..(len-1) /\ pos > 0
      BY <1>1 DEF IInv, TypeOK, heap_up, Rises
    <3>2. QED
      BY <3>1, ParentInArray
  <2>2. QED
    BY <1>1, <2>1, MoveToKeeps DEF Moving, heap_up
<1>2. CASE ~Rises /\ Place
  BY <1>2, PlaceKeeps DEF Moving, heap_up
<1>3. QED
  BY <1>1, <1>2 DEF heap_up

LEMMA DownKeeps ==
  ASSUME IInv, IInv', heap_down
  PROVE  Deadlines' = Deadlines
<1>1. ASSUME NEW c \in Children, MinChild(c), MoveTo(c)
      PROVE  Deadlines' = Deadlines
  <2>1. c \in 0..(len-1) /\ c # pos
    BY <1>1 DEF IInv, TypeOK, heap_down, MinChild, Children, heap_left, heap_right
  <2>2. QED
    BY <1>1, <2>1, MoveToKeeps DEF Moving, heap_down
<1>2. CASE Place
  BY <1>2, PlaceKeeps DEF Moving, heap_down
<1>3. QED
  BY <1>1, <1>2 DEF heap_down

\* A call begins with the deadlines as they are.
LEMMA CallCalls ==
  ASSUME NEW e \in Entries, NEW v \in Vals \cup {None}, entry_set_ttl(e, v)
  PROVE  call = NoCall => Timers!Call(e, v)
<1>1. /\ len' = len /\ heap' = heap /\ pc = "idle" /\ pc' = "begin"
      /\ call' = [ent |-> e, val |-> v] /\ reply' = NoReply
  BY DEF entry_set_ttl, array
<1>2. Deadlines' = Deadlines
  BY <1>1, SameDeadlines DEF Settled, Moving
<1>3. QED
  BY <1>1, <1>2 DEF Timers!Call, Timers!NoCall, Timers!NoReply, NoCall, NoReply, Deadlines

\* When it returns the entry has the deadline of the call.
LEMMA ReturnReturns ==
  ASSUME IInv, Return
  PROVE  Timers!Return
<1>1. /\ len' = len /\ heap' = heap /\ pc = "end" /\ pc' = "idle"
      /\ call' = NoCall /\ reply' = reply
  BY DEF Return
<1>2. /\ Settled = heap /\ call \in [ent : Entries, val : Vals \cup {None}]
      /\ leaving = IF call.val = None THEN call.ent ELSE None
  BY <1>1 DEF Settled, Moving, IInv, TypeOK, leaving
<1>3. Deadlines' = Deadlines
  BY <1>1, SameDeadlines DEF Settled, Moving
<1>4. call # NoCall
  BY <1>2, TtlHeapAssumption DEF NoCall
<1>5. Deadlines[call.ent] = DeadlineIn(heap, len, call.ent)
  BY <1>2, DeadlinesAre
<1>6. Distinct(heap, len)
  BY <1>2, DistinctItems
<1>7. DeadlineIn(heap, len, call.ent) = call.val
  <2>1. CASE call.val = None
    <3>1. ASSUME NEW v PROVE ~Holds(heap, len, call.ent, v)
      BY <1>2, <2>1 DEF IInv, IdxState, Holds
    <3>2. QED
      BY <1>6, <2>1, <3>1, HeldDeadline
  <2>2. CASE call.val # None
    <3>1. PICK i \in 0..(len-1) : heap[i] = [val |-> call.val, ref |-> call.ent]
      BY <1>1, <1>2, <2>2 DEF IInv, IdxState
    <3>2. Holds(heap, len, call.ent, call.val)
      BY <3>1 DEF Holds
    <3>3. QED
      BY <1>6, <3>2, HeldDeadline
  <2>3. QED
    BY <2>1, <2>2
<1>8. QED
  BY <1>1, <1>3, <1>4, <1>5, <1>7 DEF Timers!Return, Timers!NoCall, NoCall, Deadlines

\* Between calls heap_idx leads to an entry's deadline.
LEMMA DeadlineRead ==
  ASSUME IInv, pc = "idle", NEW e \in Entries
  PROVE  Deadlines[e] = IF heap_idx[e] = NoIdx THEN None ELSE heap[heap_idx[e]].val
<1>1. /\ Settled = heap /\ len \in Nat /\ Deadlines[e] = DeadlineIn(heap, len, e)
      /\ heap_idx \in [Entries -> Nat \cup {NoIdx}] /\ Distinct(heap, len)
  BY DeadlinesAre, DistinctItems DEF Settled, Moving, IInv, TypeOK
<1>2. /\ \A i \in 0..(len-1) : heap_idx[heap[i].ref] = i
      /\ heap_idx[e] # NoIdx => heap_idx[e] < len /\ heap[heap_idx[e]].ref = e
  BY RefsFromIInv DEF RefsConsistent
<1>3. CASE heap_idx[e] = NoIdx
  <2>1. ASSUME NEW v PROVE ~Holds(heap, len, e, v)
    BY <1>1, <1>2, <1>3 DEF Holds, NoIdx
  <2>2. QED
    BY <1>1, <1>3, <2>1, HeldDeadline
<1>4. CASE heap_idx[e] # NoIdx
  <2>1. heap_idx[e] \in 0..(len-1)
    BY <1>1, <1>2, <1>4
  <2>2. Holds(heap, len, e, heap[heap_idx[e]].val)
    BY <1>2, <1>4, <2>1 DEF Holds
  <2>3. QED
    BY <1>1, <1>4, <2>2, HeldDeadline
<1>5. QED
  BY <1>3, <1>4

LEMMA ReadTtlReads ==
  ASSUME IInv, NEW e \in Entries, ReadTtl(e)
  PROVE  Timers!Ttl(e)
<1>1. /\ pc = "idle" /\ len' = len /\ heap' = heap /\ pc' = pc /\ pos' = pos /\ t' = t
      /\ call' = call
      /\ reply' = [ref |-> e, val |-> IF heap_idx[e] = NoIdx THEN None
                                      ELSE heap[heap_idx[e]].val]
  BY DEF ReadTtl, array
<1>2. call = NoCall
  BY <1>1 DEF IInv, TypeOK
<1>3. Deadlines' = Deadlines
  BY <1>1, SameDeadlines DEF Settled, Moving
<1>4. reply' = [ref |-> e, val |-> Deadlines[e]]
  BY <1>1, DeadlineRead
<1>5. QED
  BY <1>1, <1>2, <1>3, <1>4 DEF Timers!Ttl, Timers!NoCall, NoCall, Deadlines

LEMMA ReadTopReads ==
  ASSUME IInv, ReadTop
  PROVE  Timers!Nearest
<1>1. /\ pc = "idle" /\ len' = len /\ heap' = heap /\ pc' = pc /\ pos' = pos /\ t' = t
      /\ call' = call /\ reply' = IF len = 0 THEN NoReply ELSE heap[0]
  BY DEF ReadTop, array
<1>2. /\ call = NoCall /\ len \in Nat /\ heap \in [0..(len-1) -> Item]
      /\ heap_idx \in [Entries -> Nat \cup {NoIdx}]
  BY <1>1 DEF IInv, TypeOK
<1>3. Deadlines' = Deadlines
  BY <1>1, SameDeadlines DEF Settled, Moving
<1>4. /\ \A i \in 0..(len-1) : heap_idx[heap[i].ref] = i
      /\ \A e \in Entries : heap_idx[e] # NoIdx => heap_idx[e] < len
  BY <1>1, RefsFromIInv DEF RefsConsistent
<1>5. \A e \in Entries : Deadlines[e] = IF heap_idx[e] = NoIdx THEN None
                                        ELSE heap[heap_idx[e]].val
  BY <1>1, DeadlineRead
<1>6. CASE len = 0
  <2>1. ASSUME NEW e \in Entries PROVE Deadlines[e] = None
    <3>1. heap_idx[e] = NoIdx
      BY <1>2, <1>4, <1>6
    <3>2. QED
      BY <1>5, <3>1
  <2>2. QED
    BY <1>1, <1>2, <1>3, <1>6, <2>1
    DEF Timers!Nearest, Timers!NoCall, Timers!NoReply, NoCall, NoReply, Deadlines
<1>7. CASE len # 0
  <2> DEFINE e == heap[0].ref
  <2>1. 0 \in 0..(len-1) /\ heap[0] \in Item /\ e \in Entries /\ heap_idx[e] = 0
    BY <1>2, <1>4, <1>7 DEF Item
  <2>2. Deadlines[e] = heap[0].val /\ heap[0].val # None
    BY <1>5, <2>1, TtlHeapAssumption DEF Item, NoIdx
  <2>3. ASSUME NEW f \in Entries, Deadlines[f] # None
        PROVE  Deadlines[e] <= Deadlines[f]
    <3>1. heap_idx[f] \in 0..(len-1) /\ Deadlines[f] = heap[heap_idx[f]].val
      BY <1>2, <1>4, <1>5, <2>3
    <3>2. QED
      BY <1>1, <2>2, <3>1, TopFromIInv DEF TopIsNearest
  <2>4. reply' = [ref |-> e, val |-> Deadlines[e]]
    BY <1>1, <1>7, <2>1, <2>2 DEF Item
  <2>5. Timers!IsNearest(e)
    BY <2>2, <2>3 DEF Timers!IsNearest, Deadlines
  <2>6. QED
    BY <1>1, <1>2, <1>3, <2>1, <2>4, <2>5
    DEF Timers!Nearest, Timers!NoCall, NoCall, Deadlines
<1>8. QED
  BY <1>6, <1>7

\* The array with its positions implements a table of deadlines in which a call
\* of entry_set_ttl changes the deadline it names and no other, and in which do_ttl
\* and process_timers read the deadline they mean to.
THEOREM HeapImplementsTimerSet == Spec => ImplementsTimerSet
<1>1. Init => Timers!Init
  BY TtlHeapAssumption DEF Init, Timers!Init, Timers!NoCall, Timers!NoReply, NoCall,
     NoReply, DeadlineOf
<1>2. IInv /\ IInv' /\ [Next]_vars => [Timers!Next]_<<Deadlines, call, reply>>
  <2> SUFFICES ASSUME IInv, IInv', [Next]_vars
               PROVE  Timers!Next \/ UNCHANGED <<Deadlines, call, reply>>
    OBVIOUS
  <2>1. ASSUME NEW e \in Entries, NEW v \in Vals \cup {None}, entry_set_ttl(e, v)
        PROVE  Timers!Next
    <3>1. call = NoCall
      BY <2>1 DEF entry_set_ttl, IInv, TypeOK
    <3>2. QED
      BY <2>1, <3>1, CallCalls DEF Timers!Next
  <2>2. CASE SetTtl \/ EraseTtl
    <3>1. /\ Deadlines' = [Deadlines EXCEPT ![call.ent] = call.val]
          /\ pc = "begin" /\ call' = call /\ reply' = reply
      BY <2>2, SetTtlSets, EraseTtlRemoves DEF SetTtl, EraseTtl
    <3>2. call # NoCall
      BY <3>1, BeginState, TtlHeapAssumption DEF NoCall
    <3>3. QED
      BY <3>1, <3>2 DEF Timers!Next, Timers!Effect, Timers!NoCall, NoCall, Deadlines
  <2>3. CASE NoTtl
    <3>1. len' = len /\ heap' = heap /\ pc = "begin" /\ pc' = "end"
      BY <2>3 DEF NoTtl, array
    <3>2. Deadlines' = Deadlines
      BY <3>1, SameDeadlines DEF Settled, Moving
    <3>3. QED
      BY <2>3, <3>2 DEF NoTtl
  <2>4. CASE heap_up
    BY <2>4, UpKeeps DEF heap_up, MoveTo, Place
  <2>5. CASE heap_down
    BY <2>5, DownKeeps DEF heap_down, MoveTo, Place
  <2>6. CASE Return
    BY <2>6, ReturnReturns DEF Timers!Next
  <2>7. ASSUME NEW e \in Entries, ReadTtl(e) PROVE Timers!Next
    BY <2>7, ReadTtlReads DEF Timers!Next
  <2>8. CASE ReadTop
    BY <2>8, ReadTopReads DEF Timers!Next
  <2>9. CASE UNCHANGED vars
    <3>1. len' = len /\ Settled' = Settled /\ call' = call /\ reply' = reply
      BY <2>9 DEF vars, Settled, Moving
    <3>2. QED
      BY <3>1, SameDeadlines
  <2>10. QED
    BY <2>1, <2>2, <2>3, <2>4, <2>5, <2>6, <2>7, <2>8, <2>9 DEF Next
<1>3. QED
  BY <1>1, <1>2, IInvHolds, PTL DEF Spec, ImplementsTimerSet, Timers!Spec, Deadlines
=============================================================================
