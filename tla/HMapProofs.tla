----------------------------- MODULE HMapProofs -----------------------------
(***************************************************************************)
(* Proofs about HMap for every set of nodes, every hash function and every *)
(* value of the three constants of hashtable.cpp.                          *)
(***************************************************************************)
EXTENDS HMap, FiniteSetTheorems, TLAPS

Sound(ht) == IsTable(ht) /\ WellPlaced(ht) /\ SizeCounts(ht)

\* A slot number computed by `hcode & mask` is in the table.
LEMMA SlotInTable ==
  ASSUME NEW ht, IsTable(ht), ht.slots # 0, NEW n \in Nodes
  PROVE  Slot(ht, n) \in 0..(ht.slots-1)
<1>1. hcode[n] \in Nat /\ ht.slots \in Nat \ {0}
  BY HMapAssumption DEF IsTable
<1>2. QED
  BY <1>1 DEF Slot

\* h_init and HTab{} are sound tables without members.
LEMMA EmptyTableSound ==
  /\ Sound(NoTable) /\ Members(NoTable) = {}
  /\ \A s \in Nat : Sound(h_init(s)) /\ Members(h_init(s)) = {}
<1>1. NoTable = h_init(0)
  BY DEF NoTable, h_init
<1>2. ASSUME NEW s \in Nat
      PROVE  Sound(h_init(s)) /\ Members(h_init(s)) = {}
  <2>1. Members(h_init(s)) = {}
    BY DEF Members, h_init
  <2>2. IsTable(h_init(s)) /\ WellPlaced(h_init(s))
    BY DEF h_init, IsTable, WellPlaced
  <2>3. SizeCounts(h_init(s))
    BY <2>1, FS_EmptySet DEF SizeCounts, h_init
  <2>4. QED
    BY <2>1, <2>2, <2>3 DEF Sound
<1>3. QED
  BY <1>1, <1>2

\* In a sound table the search of one chain decides membership.
LEMMA LookupFindsMembers ==
  ASSUME NEW ht, Sound(ht), NEW n \in Nodes
  PROVE  h_lookup(ht, n) <=> n \in Members(ht)
<1>1. CASE ht.slots = 0
  BY <1>1 DEF Sound, IsTable, Members, h_lookup
<1>2. CASE ht.slots # 0
  BY <1>2, SlotInTable DEF Sound, IsTable, WellPlaced, Members, h_lookup
<1>3. QED
  BY <1>1, <1>2

\* h_insert of a node that is not there adds exactly that node.
LEMMA InsertSound ==
  ASSUME NEW ht, Sound(ht), ht.slots # 0, NEW n \in Nodes, n \notin Members(ht)
  PROVE  /\ Sound(h_insert(ht, n))
         /\ Members(h_insert(ht, n)) = Members(ht) \cup {n}
         /\ h_insert(ht, n).slots = ht.slots
         /\ h_insert(ht, n).size = ht.size + 1
<1> DEFINE new == h_insert(ht, n)
           s   == Slot(ht, n)
<1>1. s \in 0..(ht.slots-1)
  BY SlotInTable DEF Sound
<1>2. /\ new.slots = ht.slots
      /\ new.size = ht.size + 1
      /\ new.tab = [ht.tab EXCEPT ![s] = @ \cup {n}]
      /\ new = [slots |-> new.slots, size |-> new.size, tab |-> new.tab]
  BY DEF h_insert, Sound, IsTable
<1>3. IsTable(new)
  BY <1>1, <1>2 DEF Sound, IsTable
<1>4. Members(new) = Members(ht) \cup {n}
  BY <1>1, <1>2 DEF Members, Sound, IsTable
<1>5. WellPlaced(new)
  BY <1>1, <1>2 DEF WellPlaced, Slot, Sound, IsTable
<1>6. SizeCounts(new)
  BY <1>2, <1>4, FS_AddElement DEF SizeCounts, Sound
<1>7. QED
  BY <1>2, <1>3, <1>4, <1>5, <1>6 DEF Sound

\* h_detach of a node removes exactly that node, and only from its chain.
LEMMA DetachSound ==
  ASSUME NEW ht, Sound(ht), NEW i \in 0..(ht.slots-1), NEW n \in ht.tab[i]
  PROVE  /\ Sound(h_detach(ht, i, n))
         /\ Members(h_detach(ht, i, n)) = Members(ht) \ {n}
         /\ h_detach(ht, i, n).slots = ht.slots
         /\ h_detach(ht, i, n).size = ht.size - 1
         /\ ht.size > 0
         /\ h_detach(ht, i, n).tab = [ht.tab EXCEPT ![i] = @ \ {n}]
<1> DEFINE new == h_detach(ht, i, n)
<1>1. n \in Members(ht) /\ n \in Nodes
  BY DEF Members, Sound, IsTable
<1>2. IsFiniteSet(Members(ht)) /\ ht.size = Cardinality(Members(ht)) /\ ht.size \in Nat
  BY DEF Sound, SizeCounts, IsTable
<1>3. ht.size > 0
  BY <1>1, <1>2, FS_EmptySet
<1>4. /\ new.slots = ht.slots
      /\ new.size = ht.size - 1
      /\ new.tab = [ht.tab EXCEPT ![i] = @ \ {n}]
      /\ new = [slots |-> new.slots, size |-> new.size, tab |-> new.tab]
  BY DEF h_detach, Sound, IsTable
<1>5. IsTable(new)
  BY <1>2, <1>3, <1>4 DEF Sound, IsTable
<1>6. \A j \in 0..(ht.slots-1) : n \in ht.tab[j] => j = i
  BY DEF Sound, WellPlaced
<1>7. Members(new) = Members(ht) \ {n}
  BY <1>4, <1>6 DEF Members, Sound, IsTable
<1>8. WellPlaced(new)
  BY <1>4 DEF WellPlaced, Slot, Sound, IsTable
<1>9. SizeCounts(new)
  BY <1>1, <1>2, <1>4, <1>7, FS_RemoveElement DEF SizeCounts
<1>10. QED
  BY <1>3, <1>4, <1>5, <1>7, <1>8, <1>9 DEF Sound

\* A sound table is counted empty exactly when it has no member.
LEMMA EmptyBySize ==
  ASSUME NEW ht, Sound(ht)
  PROVE  ht.size = 0 <=> Members(ht) = {}
BY FS_EmptySet DEF Sound, SizeCounts
-----------------------------------------------------------------------------
(* Arithmetic of the load limit *)

\* Dividing by the slots and multiplying the limit by them compare alike.
LEMMA DivLimit ==
  ASSUME NEW a \in Nat, NEW s \in Nat \ {0}, NEW k \in Nat
  PROVE  a \div s >= k <=> a >= k * s
<1> DEFINE q == a \div s
<1>1. a = s * q + (a % s) /\ a % s \in 0..(s-1) /\ q \in Nat
  OBVIOUS
<1>2. CASE q >= k
  <2>1. s * k <= s * q /\ s * k = k * s
    BY <1>1, <1>2
  <2>2. QED
    BY <1>1, <1>2, <2>1
<1>3. CASE q < k
  <2>1. s * (q + 1) <= s * k /\ s * k = k * s /\ s * (q + 1) = s * q + s
    BY <1>1, <1>3
  <2>2. QED
    BY <1>1, <1>3, <2>1
<1>4. QED
  BY <1>1, <1>2, <1>3

\* A table of twice the slots has twice the limit, and no limit is zero.
LEMMA LimitOf ==
  ASSUME NEW s \in Nat \ {0}
  PROVE  /\ k_max_load_factor * s \in Nat \ {0}
         /\ k_max_load_factor * (s * 2) = 2 * (k_max_load_factor * s)
BY HMapAssumption
-----------------------------------------------------------------------------
(* The inductive invariant *)

\* The two tables, as the lemmas above speak of them.
LEMMA TablesOfIInv ==
  ASSUME IInv
  PROVE  /\ Sound(ht1) /\ Sound(ht2)
         /\ Members(ht1) \cap Members(ht2) = {}
BY DEF IInv, TypeOK, TablesSound, Sound

LEMMA InitIInv == Init => IInv
<1> SUFFICES ASSUME Init PROVE IInv
  OBVIOUS
<1>1. TypeOK /\ TablesSound
  BY EmptyTableSound DEF Init, TypeOK, TablesSound, Sound
<1>2. ScanInBounds
  BY DEF Init, ScanInBounds, NoTable
<1>3. CallState /\ LoadState
  BY HMapAssumption DEF Init, CallState, LoadState, NoTable
<1>4. QED
  BY <1>1, <1>2, <1>3 DEF IInv

LEMMA CallIInv ==
  ASSUME IInv, NEW o \in {"lookup", "add", "pop"}, NEW n \in Nodes, Call(o, n)
  PROVE  IInv'
<1> USE DEF Call, tables
<1>1. TypeOK'
  BY DEF IInv, TypeOK, IsTable
<1>2. TablesSound' /\ ScanInBounds'
  BY DEF IInv, TablesSound, ScanInBounds, WellPlaced, SizeCounts, Members, Slot
<1>3. CallState'
  BY HMapAssumption DEF IInv, CallState, Members
<1>4. LoadState'
  BY DEF IInv, LoadState
<1>5. QED
  BY <1>1, <1>2, <1>3, <1>4 DEF IInv

\* The scan never leaves ht2 while it holds a node: a member sits at or after
\* resizing_pos, and after it when that slot is empty.
LEMMA HelpSkipIInv ==
  ASSUME IInv, HelpSkip
  PROVE  IInv'
<1> USE DEF HelpSkip, Helping
<1>1. TypeOK'
  BY DEF IInv, TypeOK, IsTable
<1>2. TablesSound'
  BY DEF IInv, TablesSound, WellPlaced, SizeCounts, Members, Slot
<1>3. ScanInBounds'
  <2>1. PICK n : n \in Members(ht2)
    BY TablesOfIInv, EmptyBySize DEF IInv, TypeOK, IsTable
  <2>2. PICK i \in 0..(ht2.slots-1) : n \in ht2.tab[i]
    BY <2>1 DEF Members
  <2>3. i > resizing_pos
    BY <2>2 DEF IInv, TypeOK, IsTable, ScanInBounds
  <2>4. QED
    BY <2>2, <2>3 DEF IInv, TypeOK, IsTable, ScanInBounds
<1>4. CallState'
  BY DEF IInv, CallState, Members
<1>5. LoadState'
  BY DEF IInv, LoadState
<1>6. QED
  BY <1>1, <1>2, <1>3, <1>4, <1>5 DEF IInv

LEMMA HelpMoveIInv ==
  ASSUME IInv, HelpMove
  PROVE  IInv'
<1>1. PICK n \in ht2.tab[resizing_pos] :
         /\ ht2' = h_detach(ht2, resizing_pos, n)
         /\ ht1' = h_insert(ht1, n)
  BY DEF HelpMove
<1>2. /\ Helping
      /\ nwork' = nwork + 1
      /\ UNCHANGED <<resizing_pos, pc, op, key, found>>
  BY DEF HelpMove
<1>3. resizing_pos \in 0..(ht2.slots-1) /\ ht2.slots # 0 /\ ht1.slots # 0
  BY <1>2 DEF Helping, IInv, ScanInBounds, TypeOK, IsTable, CallState
<1>4. n \in Members(ht2) /\ n \in Nodes /\ n \notin Members(ht1)
  BY <1>3, TablesOfIInv DEF Members, IInv, TypeOK, IsTable
<1>5. /\ Sound(ht1')
      /\ Members(ht1)' = Members(ht1) \cup {n}
      /\ ht1'.slots = ht1.slots
      /\ ht1'.size = ht1.size + 1
  BY <1>1, <1>3, <1>4, TablesOfIInv, InsertSound
<1>6. /\ Sound(ht2')
      /\ Members(ht2)' = Members(ht2) \ {n}
      /\ ht2'.slots = ht2.slots
      /\ ht2'.size = ht2.size - 1
      /\ ht2'.tab = [ht2.tab EXCEPT ![resizing_pos] = @ \ {n}]
  BY <1>1, <1>3, TablesOfIInv, DetachSound
<1>7. TypeOK'
  BY <1>2, <1>5, <1>6 DEF IInv, TypeOK, Sound
<1>8. TablesSound'
  BY <1>4, <1>5, <1>6, TablesOfIInv DEF TablesSound, Sound
<1>9. ScanInBounds'
  BY <1>2, <1>3, <1>6 DEF IInv, ScanInBounds, TypeOK, IsTable
<1>10. CallState'
  BY <1>2, <1>4, <1>5, <1>6 DEF IInv, CallState, Helping
<1>11. LoadState'
  <2>1. k_max_load_factor * ht1.slots \in Nat
    BY <1>3, LimitOf DEF IInv, TypeOK, IsTable
  <2>2. ht1.size \in Nat /\ ht2.size \in Nat
    BY DEF IInv, TypeOK, IsTable
  <2>3. QED
    BY <1>2, <1>3, <1>5, <1>6, <2>1, <2>2 DEF IInv, LoadState
<1>12. QED
  BY <1>7, <1>8, <1>9, <1>10, <1>11 DEF IInv

LEMMA HelpDoneIInv ==
  ASSUME IInv, HelpDone
  PROVE  IInv'
<1> USE DEF HelpDone, Return
<1>1. /\ ht1' = ht1
      /\ ht2' = IF ht2.size = 0 THEN NoTable ELSE ht2
      /\ resizing_pos' = resizing_pos
      /\ nwork' = nwork
  OBVIOUS
<1>2. Sound(ht2') /\ Members(ht2') = Members(ht2) /\ ht2'.size = ht2.size
  BY <1>1, TablesOfIInv, EmptyTableSound, EmptyBySize DEF NoTable
<1>3. TypeOK'
  BY <1>1, <1>2 DEF IInv, TypeOK, Sound, IsTable
<1>4. TablesSound'
  BY <1>1, <1>2, TablesOfIInv DEF TablesSound, Sound
<1>5. ScanInBounds'
  BY <1>1 DEF IInv, ScanInBounds, NoTable
<1>6. CallState'
  BY <1>1, <1>2, HMapAssumption
  DEF IInv, TypeOK, IsTable, CallState, NoTable
<1>7. LoadState'
  <2>1. ~(pc = "help2" /\ nwork = 0 /\ ht2.size > 0)
    BY HMapAssumption DEF Helping
  <2>2. QED
    BY <1>1, <1>2, <2>1 DEF IInv, LoadState
<1>8. QED
  BY <1>3, <1>4, <1>5, <1>6, <1>7 DEF IInv

LEMMA LookupIInv ==
  ASSUME IInv, Lookup
  PROVE  IInv'
<1> USE DEF Lookup, Return, tables
<1>1. TypeOK'
  BY DEF IInv, TypeOK, IsTable
<1>2. TablesSound' /\ ScanInBounds'
  BY DEF IInv, TablesSound, ScanInBounds, WellPlaced, SizeCounts, Members, Slot
<1>3. CallState'
  <2>1. key \in Nodes /\ InMap(key) <=> key \in Members(ht1) \cup Members(ht2)
    BY TablesOfIInv, LookupFindsMembers DEF IInv, TypeOK, CallState, InMap
  <2>2. Members(ht1') = Members(ht1) /\ Members(ht2') = Members(ht2)
    OBVIOUS
  <2>3. QED
    BY <2>1, <2>2, HMapAssumption DEF IInv, TypeOK, CallState
<1>4. LoadState'
  BY DEF IInv, LoadState
<1>5. QED
  BY <1>1, <1>2, <1>3, <1>4 DEF IInv

\* What hm_pop does to the table its search found the node in.
LEMMA DetachFound ==
  ASSUME NEW h, Sound(h), NEW n \in Nodes, h_lookup(h, n)
  PROVE  /\ Sound(h_detach(h, Slot(h, n), n))
         /\ Members(h_detach(h, Slot(h, n), n)) = Members(h) \ {n}
         /\ h_detach(h, Slot(h, n), n).slots = h.slots
         /\ h_detach(h, Slot(h, n), n).size = h.size - 1
         /\ h.size > 0
         /\ \A i \in 0..(h.slots-1) :
               h_detach(h, Slot(h, n), n).tab[i] \subseteq h.tab[i]
<1>1. h.slots # 0 /\ IsTable(h) /\ n \in h.tab[Slot(h, n)]
  BY DEF h_lookup, Sound
<1>2. Slot(h, n) \in 0..(h.slots-1)
  BY <1>1, SlotInTable
<1>3. h_detach(h, Slot(h, n), n).tab = [h.tab EXCEPT ![Slot(h, n)] = @ \ {n}]
  BY <1>1, <1>2, DetachSound
<1>4. \A i \in 0..(h.slots-1) :
         h_detach(h, Slot(h, n), n).tab[i] \subseteq h.tab[i]
  BY <1>1, <1>2, <1>3 DEF IsTable
<1>5. QED
  BY <1>1, <1>2, <1>4, DetachSound

\* A pop that finds its node in one of the tables detaches it there.
LEMMA PopIInv ==
  ASSUME IInv, Pop
  PROVE  IInv'
<1> DEFINE From(h, g) == /\ h_lookup(h, key)
                         /\ h' = h_detach(h, Slot(h, key), key)
                         /\ g' = g
<1>1. /\ pc = "pop"
      /\ pc' = "idle" /\ op' = "none" /\ key' = NoKey /\ found' \in {"hit", "miss"}
      /\ resizing_pos' = resizing_pos /\ nwork' = nwork
      /\ From(ht1, ht2) \/ From(ht2, ht1) \/ (ht1' = ht1 /\ ht2' = ht2)
  BY DEF Pop, Return
<1>2. key \in Nodes
  BY <1>1 DEF IInv, TypeOK, CallState
<1>3. /\ Sound(ht1') /\ Sound(ht2')
      /\ Members(ht1') \subseteq Members(ht1) /\ Members(ht2') \subseteq Members(ht2)
      /\ ht1'.slots = ht1.slots /\ ht2'.slots = ht2.slots
      /\ ht1'.size <= ht1.size /\ ht2'.size <= ht2.size
      /\ \A i \in 0..(ht2.slots-1) : ht2'.tab[i] \subseteq ht2.tab[i]
  BY <1>1, <1>2, TablesOfIInv, DetachFound DEF IInv, TypeOK, IsTable
<1>4. TypeOK'
  BY <1>1, <1>3 DEF IInv, TypeOK, Sound
<1>5. TablesSound'
  BY <1>3, TablesOfIInv DEF TablesSound, Sound
<1>6. ScanInBounds'
  BY <1>1, <1>3 DEF IInv, ScanInBounds, TypeOK, IsTable, Sound
<1>7. CallState'
  BY <1>1, <1>3 DEF IInv, CallState
<1>8. LoadState'
  <2>1. /\ ht1'.size + 2 * ht2'.size <= ht1.size + 2 * ht2.size
        /\ ht1.size + 2 * ht2.size \in Nat /\ ht1'.size + 2 * ht2'.size \in Nat
    <3>1. ht1.size \in Nat /\ ht2.size \in Nat
      BY DEF IInv, TypeOK, IsTable
    <3>2. ht1'.size \in Nat /\ ht2'.size \in Nat
      BY <1>3 DEF Sound, IsTable
    <3>3. ht1'.size <= ht1.size /\ ht2'.size <= ht2.size
      BY <1>3
    <3>4. QED
      BY <3>1, <3>2, <3>3
  <2>2. ht1.slots # 0 => k_max_load_factor * ht1.slots \in Nat
    BY LimitOf DEF IInv, TypeOK, IsTable
  <2>3. QED
    BY <1>1, <1>3, <2>1, <2>2 DEF IInv, LoadState
<1>9. QED
  BY <1>4, <1>5, <1>6, <1>7, <1>8 DEF IInv

LEMMA DestroyIInv ==
  ASSUME IInv, Destroy
  PROVE  IInv'
<1>1. Sound(NoTable) /\ Members(NoTable) = {}
  BY EmptyTableSound
<1> USE DEF Destroy
<1>2. TypeOK'
  BY <1>1 DEF IInv, TypeOK, Sound
<1>3. TablesSound'
  BY <1>1 DEF TablesSound, Sound
<1>4. ScanInBounds' /\ LoadState'
  BY DEF ScanInBounds, LoadState, NoTable
<1>5. CallState'
  BY DEF IInv, CallState, NoTable
<1>6. QED
  BY <1>2, <1>3, <1>4, <1>5 DEF IInv
\* The insertion proper; it starts a resize exactly when the limit is met.
LEMMA InsertIInv ==
  ASSUME IInv, Insert
  PROVE  IInv'
<1> DEFINE base == IF ht1.slots = 0 THEN h_init(k_init_slots) ELSE ht1
           new  == h_insert(base, key)
           max  == k_max_load_factor * base.slots
<1>1. /\ pc = "insert" /\ nwork' = 0 /\ pc' = "help2"
      /\ op' = op /\ key' = key /\ found' = found
      /\ IF ht2.slots = 0 /\ TooFull(new)
         THEN StartResizing(new)
         ELSE ht1' = new /\ ht2' = ht2 /\ resizing_pos' = resizing_pos
  BY DEF Insert
<1>2. key \in Nodes /\ key \notin Members(ht1) /\ key \notin Members(ht2)
  BY <1>1 DEF IInv, TypeOK, CallState
<1>3. /\ Sound(base) /\ Members(base) = Members(ht1)
      /\ base.slots \in Nat \ {0} /\ base.size \in Nat
      /\ ht1.slots # 0 => base = ht1
      /\ ht1.slots = 0 => base.size = 0 /\ ht2.slots = 0
  <2>1. CASE ht1.slots = 0
    <3>1. Members(ht1) = {}
      BY <2>1 DEF Members, IInv, TypeOK, IsTable
    <3>2. QED
      BY <2>1, <3>1, EmptyTableSound, HMapAssumption DEF IInv, CallState, h_init
  <2>2. CASE ht1.slots # 0
    BY <2>2, TablesOfIInv DEF IInv, TypeOK, IsTable
  <2>3. QED
    BY <2>1, <2>2
<1>4. /\ Sound(new) /\ Members(new) = Members(ht1) \cup {key}
      /\ new.slots = base.slots /\ new.size = base.size + 1
  BY <1>2, <1>3, InsertSound
<1>5. max \in Nat \ {0} /\ k_max_load_factor * (base.slots * 2) = 2 * max
  BY <1>3, LimitOf
<1>6. TooFull(new) <=> new.size >= max
  BY <1>3, <1>4, DivLimit, HMapAssumption DEF TooFull
<1>7. /\ ht2.size \in Nat
      /\ ht2.slots # 0 => ht2.size > 0
      /\ ht2.slots = 0 => ht2.size = 0
      /\ base.size + 2 * ht2.size < max
  <2>1. /\ ht2.size \in Nat
        /\ ht2.slots # 0 => ht2.size > 0
    BY <1>1 DEF IInv, TypeOK, IsTable, CallState
  <2>2. ht2.slots = 0 => ht2.size = 0
    BY TablesOfIInv, EmptyBySize DEF Members, IInv, TypeOK, IsTable
  <2>3. base.size + 2 * ht2.size < max
    BY <1>1, <1>3, <1>5, <2>1, <2>2 DEF IInv, LoadState
  <2>4. QED
    BY <2>1, <2>2, <2>3
<1>8. CASE ht2.slots = 0 /\ TooFull(new)
  <2>1. /\ ht2' = new /\ ht1' = h_init(new.slots * 2) /\ resizing_pos' = 0
    BY <1>1, <1>8 DEF StartResizing
  <2>2. /\ Sound(ht1') /\ Sound(ht2') /\ Members(ht1') = {}
        /\ ht1'.slots = base.slots * 2 /\ ht1'.size = 0
        /\ ht2'.slots = base.slots /\ ht2'.size = max
    <3>1. new.size = max
      BY <1>3, <1>4, <1>5, <1>6, <1>7, <1>8
    <3>2. new.slots * 2 \in Nat
      BY <1>3, <1>4
    <3>3. QED
      BY <1>4, <2>1, <3>1, <3>2, EmptyTableSound DEF h_init
  <2>3. TypeOK'
    BY <1>1, <2>1, <2>2 DEF IInv, TypeOK, Sound
  <2>4. TablesSound'
    BY <2>2 DEF TablesSound, Sound
  <2>5. ScanInBounds'
    BY <1>3, <2>1, <2>2 DEF ScanInBounds
  <2>6. CallState'
    BY <1>1, <1>3, <1>4, <2>1, <2>2 DEF IInv, CallState
  <2>7. LoadState'
    BY <1>1, <1>3, <1>5, <2>2 DEF LoadState
  <2>8. QED
    BY <2>3, <2>4, <2>5, <2>6, <2>7 DEF IInv
<1>9. CASE ~(ht2.slots = 0 /\ TooFull(new))
  <2>1. ht1' = new /\ ht2' = ht2 /\ resizing_pos' = resizing_pos
    BY <1>1, <1>9
  <2>2. TypeOK'
    BY <1>1, <1>4, <2>1 DEF IInv, TypeOK, Sound
  <2>3. TablesSound'
    BY <1>2, <1>4, <2>1, TablesOfIInv DEF TablesSound, Sound
  <2>4. ScanInBounds'
    BY <2>1 DEF IInv, ScanInBounds
  <2>5. CallState'
    BY <1>1, <1>3, <1>4, <2>1 DEF IInv, CallState
  <2>6. LoadState'
    <3>1. CASE ht2.slots = 0
      BY <1>3, <1>4, <1>5, <1>6, <1>7, <1>9, <2>1, <3>1 DEF LoadState
    <3>2. CASE ht2.slots # 0
      BY <1>1, <1>3, <1>4, <1>5, <1>7, <2>1, <3>2 DEF LoadState
    <3>3. QED
      BY <3>1, <3>2
  <2>7. QED
    BY <2>2, <2>3, <2>4, <2>5, <2>6 DEF IInv
<1>10. QED
  BY <1>8, <1>9

LEMMA StutterIInv ==
  ASSUME IInv, UNCHANGED vars
  PROVE  IInv'
<1> USE DEF vars
<1>1. TypeOK'
  BY DEF IInv, TypeOK, IsTable
<1>2. TablesSound'
  BY DEF IInv, TablesSound, WellPlaced, SizeCounts, Members, Slot
<1>3. ScanInBounds' /\ LoadState'
  BY DEF IInv, ScanInBounds, LoadState
<1>4. CallState'
  BY DEF IInv, CallState, Members
<1>5. QED
  BY <1>1, <1>2, <1>3, <1>4 DEF IInv

\* The inductive invariant of the map holds in every reachable state.
THEOREM IInvHolds == Spec => []IInv
<1>1. IInv /\ [Next]_vars => IInv'
  <2> SUFFICES ASSUME IInv, [Next]_vars PROVE IInv'
    OBVIOUS
  <2>1. CASE \E o \in {"lookup", "add", "pop"}, n \in Nodes : Call(o, n)
    BY <2>1, CallIInv
  <2>2. CASE HelpSkip
    BY <2>2, HelpSkipIInv
  <2>3. CASE HelpMove
    BY <2>3, HelpMoveIInv
  <2>4. CASE HelpDone
    BY <2>4, HelpDoneIInv
  <2>5. CASE Lookup
    BY <2>5, LookupIInv
  <2>6. CASE Pop
    BY <2>6, PopIInv
  <2>7. CASE Insert
    BY <2>7, InsertIInv
  <2>8. CASE Destroy
    BY <2>8, DestroyIInv
  <2>9. CASE UNCHANGED vars
    BY <2>9, StutterIInv
  <2>10. QED
    BY <2>1, <2>2, <2>3, <2>4, <2>5, <2>6, <2>7, <2>8, <2>9 DEF Next, Run
<1>2. QED
  BY <1>1, InitIInv, PTL DEF Spec
-----------------------------------------------------------------------------
(* The five invariants *)

\* Type correctness of both tables and of the call's state.
THEOREM TypeOKHolds == Spec => []TypeOK
BY IInvHolds, PTL DEF IInv

\* Whatever is inserted, popped and moved, in whatever order: every node is in
\* the slot its hash selects, the sizes are right and no node is in both tables.
THEOREM TablesSoundHolds == Spec => []TablesSound
BY IInvHolds, PTL DEF IInv

\* hm_help_resizing never reads a slot past the end of the older table.
THEOREM ScanInBoundsHolds == Spec => []ScanInBounds
BY IInvHolds, PTL DEF IInv

\* A second resize is never due while one is under way, for every load factor
\* and every amount of work per call, one node per call included.
THEOREM ResizeKeepsAheadHolds == Spec => []ResizeKeepsAhead
<1>1. IInv => ResizeKeepsAhead
  BY DEF IInv, LoadState, ResizeKeepsAhead
<1>2. QED
  BY <1>1, IInvHolds, PTL

\* keys announces as many keys as it sends, at every stage of a resize.
THEOREM ScanMatchesSizeHolds == Spec => []ScanMatchesSize
<1>1. IInv => ScanMatchesSize
  <2> SUFFICES ASSUME IInv PROVE ScanMatchesSize
    OBVIOUS
  <2>1. h_scan(ht1) = Members(ht1) /\ h_scan(ht2) = Members(ht2)
    BY TablesOfIInv, EmptyBySize DEF h_scan, Members
  <2>2. /\ IsFiniteSet(Members(ht1)) /\ IsFiniteSet(Members(ht2))
        /\ ht1.size = Cardinality(Members(ht1)) /\ ht2.size = Cardinality(Members(ht2))
        /\ Members(ht1) \cap Members(ht2) = {}
    BY DEF IInv, TablesSound, SizeCounts
  <2>3. Cardinality(Members(ht1) \cup Members(ht2))
           = Cardinality(Members(ht1)) + Cardinality(Members(ht2))
    <3>1. /\ Cardinality(Members(ht1) \cap Members(ht2)) = 0
          /\ Cardinality(Members(ht1)) \in Nat /\ Cardinality(Members(ht2)) \in Nat
      BY <2>2, FS_EmptySet, FS_CardinalityType
    <3>2. Cardinality(Members(ht1) \cup Members(ht2))
             = Cardinality(Members(ht1)) + Cardinality(Members(ht2))
                  - Cardinality(Members(ht1) \cap Members(ht2))
      BY <2>2, FS_Union
    <3>3. QED
      BY <2>2, <3>1, <3>2
  <2>4. QED
    BY <2>1, <2>2, <2>3 DEF ScanMatchesSize, hm_size
<1>2. QED
  BY <1>1, IInvHolds, PTL
-----------------------------------------------------------------------------
(* The map implements the abstract set of nodes *)

\* The nodes in either table.
Both == Members(ht1) \cup Members(ht2)

LEMMA HelpMoveKeepsMembers ==
  ASSUME IInv, HelpMove
  PROVE  Both' = Both
<1>1. PICK n \in ht2.tab[resizing_pos] :
         /\ ht2' = h_detach(ht2, resizing_pos, n)
         /\ ht1' = h_insert(ht1, n)
  BY DEF HelpMove
<1>2. resizing_pos \in 0..(ht2.slots-1) /\ ht2.slots # 0 /\ ht1.slots # 0
  BY DEF HelpMove, Helping, IInv, ScanInBounds, TypeOK, IsTable, CallState
<1>3. n \in Members(ht2) /\ n \in Nodes /\ n \notin Members(ht1)
  BY <1>2, TablesOfIInv DEF Members, IInv, TypeOK, IsTable
<1>4. Members(ht1') = Members(ht1) \cup {n}
  BY <1>1, <1>2, <1>3, TablesOfIInv, InsertSound
<1>5. /\ Members(ht2') = Members(ht2) \ {n}
      /\ ht2'.tab = [ht2.tab EXCEPT ![resizing_pos] = @ \ {n}]
  BY <1>1, <1>2, TablesOfIInv, DetachSound
<1>6. QED
  BY <1>3, <1>4, <1>5 DEF Both

LEMMA HelpDoneKeepsMembers ==
  ASSUME IInv, HelpDone
  PROVE  Both' = Both
<1>1. Members(ht2') = Members(ht2)
  BY TablesOfIInv, EmptyTableSound, EmptyBySize DEF HelpDone
<1>2. QED
  BY <1>1 DEF Both, HelpDone

\* A pop answers whether the key was there, and takes it away.
LEMMA PopMembers ==
  ASSUME IInv, Pop
  PROVE  /\ Both' = Both \ {key}
         /\ found' = IF key \in Both THEN "hit" ELSE "miss"
<1>1. key \in Nodes
  BY DEF Pop, IInv, TypeOK, CallState
<1>2. /\ h_lookup(ht1, key) <=> key \in Members(ht1)
      /\ h_lookup(ht2, key) <=> key \in Members(ht2)
  BY <1>1, TablesOfIInv, LookupFindsMembers
<1>3. CASE h_lookup(ht1, key)
  <2>1. Members(ht1') = Members(ht1) \ {key} /\ ht2' = ht2 /\ found' = "hit"
    BY <1>1, <1>3, TablesOfIInv, DetachFound DEF Pop, Return, InMap
  <2>2. QED
    BY <1>2, <1>3, <2>1, TablesOfIInv DEF Both
<1>4. CASE ~h_lookup(ht1, key) /\ h_lookup(ht2, key)
  <2>1. Members(ht2') = Members(ht2) \ {key} /\ ht1' = ht1 /\ found' = "hit"
    BY <1>1, <1>4, TablesOfIInv, DetachFound DEF Pop, Return, InMap
  <2>2. QED
    BY <1>2, <1>4, <2>1, TablesOfIInv DEF Both
<1>5. CASE ~h_lookup(ht1, key) /\ ~h_lookup(ht2, key)
  BY <1>2, <1>5 DEF Both, Pop, Return
<1>6. QED
  BY <1>3, <1>4, <1>5

LEMMA InsertMembers ==
  ASSUME IInv, Insert
  PROVE  Both' = Both \cup {key} /\ key \notin Both
<1> DEFINE base == IF ht1.slots = 0 THEN h_init(k_init_slots) ELSE ht1
           new  == h_insert(base, key)
<1>1. key \in Nodes /\ key \notin Members(ht1) /\ key \notin Members(ht2)
  BY DEF Insert, IInv, TypeOK, CallState
<1>2. Sound(base) /\ Members(base) = Members(ht1) /\ base.slots \in Nat \ {0}
  <2>1. ht1.slots = 0 => Members(ht1) = {}
    BY DEF Members, IInv, TypeOK, IsTable
  <2>2. QED
    BY <2>1, EmptyTableSound, TablesOfIInv, HMapAssumption
    DEF h_init, IInv, TypeOK, IsTable
<1>3. Members(new) = Members(ht1) \cup {key} /\ new.slots \in Nat \ {0}
  BY <1>1, <1>2, InsertSound
<1>4. CASE ht2.slots = 0 /\ TooFull(new)
  <2>1. Members(ht2) = {}
    BY <1>4 DEF Members, IInv, TypeOK, IsTable
  <2>2. ht2' = new /\ ht1' = h_init(new.slots * 2)
    BY <1>4 DEF Insert, StartResizing
  <2>3. Members(ht1') = {}
    BY <1>3, <2>2, EmptyTableSound
  <2>4. QED
    BY <1>1, <1>3, <2>1, <2>2, <2>3 DEF Both
<1>5. CASE ~(ht2.slots = 0 /\ TooFull(new))
  <2>1. ht1' = new /\ ht2' = ht2
    BY <1>5 DEF Insert
  <2>2. QED
    BY <1>1, <1>3, <2>1 DEF Both
<1>6. QED
  BY <1>4, <1>5

\* hm_lookup, hm_insert and hm_pop answer as a set of nodes would, whatever
\* the resize does behind them: the map implements NodeSet.
THEOREM MapImplementsNodeSet == Spec => ImplementsNodeSet
<1> DEFINE present == Both \ (IF pc = "help2" THEN {key} ELSE {})
           reply   == IF pc = "idle" THEN found ELSE "none"
<1>1. Init => Abstract!Init
  BY EmptyTableSound DEF Init, Abstract!Init
<1>2. IInv /\ IInv' /\ [Next]_vars => [Abstract!Next]_(Abstract!vars)
  <2> SUFFICES ASSUME IInv, IInv', [Next]_vars
               PROVE  Abstract!Next \/ Abstract!vars' = Abstract!vars
    OBVIOUS
  <2> USE DEF Both, Abstract!Next, Abstract!vars
  <2>1. CASE \E o \in {"lookup", "add", "pop"}, n \in Nodes : Call(o, n)
    BY <2>1 DEF Call, tables, Abstract!Request, IInv, CallState
  <2>2. CASE HelpSkip
    BY <2>2 DEF HelpSkip
  <2>3. CASE HelpMove
    BY <2>3, HelpMoveKeepsMembers DEF HelpMove
  <2>4. CASE HelpDone
    BY <2>4, HelpDoneKeepsMembers DEF HelpDone, Return, Abstract!Respond, IInv, CallState
  <2>5. CASE Lookup
    <3>1. InMap(key) <=> key \in Both
      BY <2>5, TablesOfIInv, LookupFindsMembers
      DEF Lookup, InMap, IInv, TypeOK, CallState
    <3>2. QED
      BY <2>5, <3>1 DEF Lookup, Return, tables, Abstract!Respond, IInv, CallState
  <2>6. CASE Pop
    BY <2>6, PopMembers DEF Pop, Return, Abstract!Respond, IInv, CallState
  <2>7. CASE Insert
    BY <2>7, InsertMembers DEF Insert
  <2>8. CASE Destroy
    BY <2>8, EmptyTableSound DEF Destroy, Abstract!Clear, IInv, CallState
  <2>9. CASE UNCHANGED vars
    BY <2>9 DEF vars
  <2>10. QED
    BY <2>1, <2>2, <2>3, <2>4, <2>5, <2>6, <2>7, <2>8, <2>9 DEF Next, Run
<1>3. QED
  BY <1>1, <1>2, IInvHolds, PTL DEF Spec, ImplementsNodeSet, Abstract!Spec
=============================================================================
