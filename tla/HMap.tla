-------------------------------- MODULE HMap --------------------------------
(***************************************************************************)
(* hashtable.cpp: a chained hash table resized progressively.  When ht1 is *)
(* too full it becomes ht2 and a table of twice the slots takes its place; *)
(* every later call moves up to k_resizing_work nodes from ht2 to ht1.     *)
(*                                                                         *)
(* A node stands for its key: eq() holds of a node and itself.  A chain is *)
(* the set of its nodes (no property depends on the order inside a chain). *)
(* A table with no slots is HTab{}: tab == NULL.  `hcode & mask` is the    *)
(* remainder by the number of slots, which is a power of two.              *)
(*                                                                         *)
(* One step per iteration of hm_help_resizing's loop and one per remaining *)
(* part of a call, so that the loop's termination and bounds are checked   *)
(* rather than assumed.                                                    *)
(***************************************************************************)
EXTENDS Naturals, FiniteSets

CONSTANTS Nodes,               \* the nodes callers use, one per key
          hcode,               \* the hash cached in each node
          k_init_slots,        \* slots of the first table (4 in hm_insert)
          k_resizing_work,     \* nodes moved by one call (128)
          k_max_load_factor,   \* nodes per slot that start a resize (8)
          NoKey                \* `key` between calls

ASSUME HMapAssumption == /\ hcode \in [Nodes -> Nat]
                         /\ k_init_slots \in Nat \ {0}
                         /\ k_resizing_work \in Nat \ {0}
                         /\ k_max_load_factor \in Nat \ {0}
                         /\ NoKey \notin Nodes

VARIABLES ht1,            \* newer table
          ht2,            \* older table, being emptied
          resizing_pos,   \* next slot of ht2 to empty
          nwork,          \* nodes moved by the running hm_help_resizing
          pc,             \* where the running call is
          op,             \* which call runs: lookup, add, pop
          key,            \* its argument
          found           \* its answer

tables == <<ht1, ht2, resizing_pos>>
vars == <<ht1, ht2, resizing_pos, nwork, pc, op, key, found>>
-----------------------------------------------------------------------------
(* The tables *)

\* Bug variant: one chain too many is allocated.
h_init_LongTable(n) == [slots |-> n, size |-> 0, tab |-> [i \in 0..n |-> {}]]

\* h_init: a table of n empty chains.
h_init(n) == [slots |-> n, size |-> 0, tab |-> [i \in 0..(n-1) |-> {}]]

\* HTab{}: no table at all.
NoTable == [slots |-> 0, size |-> 0, tab |-> [i \in 0..(0-1) |-> {}]]

Slot(ht, n) == hcode[n] % ht.slots

\* Bug variant: the size is not counted.
h_insert_NoCount(ht, n) ==
  [ht EXCEPT !.tab = [@ EXCEPT ![Slot(ht, n)] = @ \cup {n}]]

h_insert(ht, n) ==
  [slots |-> ht.slots,
   size  |-> ht.size + 1,
   tab   |-> [ht.tab EXCEPT ![Slot(ht, n)] = @ \cup {n}]]

\* h_lookup: the chain of the key's slot holds it; never in a NULL table.
h_lookup(ht, n) == ht.slots # 0 /\ n \in ht.tab[Slot(ht, n)]

\* h_detach: node n leaves chain i.
h_detach(ht, i, n) ==
  [slots |-> ht.slots,
   size  |-> ht.size - 1,
   tab   |-> [ht.tab EXCEPT ![i] = @ \ {n}]]

\* h_scan: what a scan of one table visits, empty tables skipped.
h_scan(ht) == IF ht.size = 0 THEN {} ELSE UNION {ht.tab[i] : i \in 0..(ht.slots-1)}

hm_size == ht1.size + ht2.size
-----------------------------------------------------------------------------
(* The calls *)

Init == /\ ht1 = NoTable
        /\ ht2 = NoTable
        /\ resizing_pos = 0
        /\ nwork = 0
        /\ pc = "idle"
        /\ op = "none"
        /\ key = NoKey
        /\ found = "none"

\* hm_lookup, hm_pop and the callers' "look up, insert when missing"
\* (do_set, do_zadd, zset_add: "add") all begin with hm_help_resizing.
Call(o, n) == /\ pc = "idle"
              /\ op' = o
              /\ key' = n
              /\ found' = "none"
              /\ nwork' = 0
              /\ pc' = "help"
              /\ UNCHANGED tables

Return(answer) == /\ pc' = "idle"
                  /\ op' = "none"
                  /\ key' = NoKey
                  /\ found' = answer

\* "help" is the loop a lookup or a pop starts with, "help2" hm_insert's last.
Helping == pc \in {"help", "help2"} /\ nwork < k_resizing_work /\ ht2.size > 0

\* Bug variant: the scan does not advance.
HelpSkip_NoAdvance == /\ Helping
                      /\ ht2.tab[resizing_pos] = {}
                      /\ UNCHANGED vars

\* An empty slot: go to the next one, which is not counted as work.
HelpSkip == /\ Helping
            /\ ht2.tab[resizing_pos] = {}
            /\ resizing_pos' = resizing_pos + 1
            /\ UNCHANGED <<ht1, ht2, nwork, pc, op, key, found>>

\* A node moves to the newer table.
HelpMove == /\ Helping
            /\ \E n \in ht2.tab[resizing_pos] :
                  /\ ht2' = h_detach(ht2, resizing_pos, n)
                  /\ ht1' = h_insert(ht1, n)
            /\ nwork' = nwork + 1
            /\ UNCHANGED <<resizing_pos, pc, op, key, found>>

\* The loop ends; an emptied ht2 is freed.
HelpDone == /\ pc \in {"help", "help2"}
            /\ ~Helping
            /\ ht2' = IF ht2.size = 0 THEN NoTable ELSE ht2
            /\ \/ /\ pc = "help"
                  /\ pc' = IF op = "pop" THEN "pop" ELSE "lookup"
                  /\ UNCHANGED <<op, key, found>>
               \/ /\ pc = "help2"
                  /\ Return(found)
            /\ UNCHANGED <<ht1, resizing_pos, nwork>>

\* Bug variant: the older table is forgotten.
InMap_NewerOnly(n) == h_lookup(ht1, n)

\* hm_lookup's search of both tables.
InMap(n) == h_lookup(ht1, n) \/ h_lookup(ht2, n)

Lookup == /\ pc = "lookup"
          /\ \/ /\ InMap(key)
                /\ Return("hit")
             \/ /\ ~InMap(key)
                /\ op = "lookup"
                /\ Return("miss")
             \/ /\ ~InMap(key)
                /\ op = "add"
                /\ found' = "miss"
                /\ pc' = "insert"
                /\ UNCHANGED <<op, key>>
          /\ UNCHANGED <<tables, nwork>>

\* hm_pop after its hm_help_resizing: detach from the newer table or the older.
Pop == /\ pc = "pop"
       /\ \/ /\ h_lookup(ht1, key)
             /\ ht1' = h_detach(ht1, Slot(ht1, key), key)
             /\ UNCHANGED ht2
             /\ Return("hit")
          \/ /\ ~h_lookup(ht1, key)
             /\ h_lookup(ht2, key)
             /\ ht2' = h_detach(ht2, Slot(ht2, key), key)
             /\ UNCHANGED ht1
             /\ Return("hit")
          \/ /\ ~InMap(key)
             /\ UNCHANGED <<ht1, ht2>>
             /\ Return("miss")
       /\ UNCHANGED <<resizing_pos, nwork>>

\* Bug variant: the limit is compared with > instead of >=.
TooFull_OffByOne(ht) == ht.size \div ht.slots > k_max_load_factor

TooFull(ht) == ht.size \div ht.slots >= k_max_load_factor

\* Bug variant: resizing_pos keeps its value of the previous resize.
StartResizing_KeepPos(ht) == /\ ht2' = ht
                             /\ ht1' = h_init(ht.slots * 2)
                             /\ UNCHANGED resizing_pos

\* hm_start_resizing: the full table becomes the older one.
StartResizing(ht) == /\ ht2' = ht
                     /\ ht1' = h_init(ht.slots * 2)
                     /\ resizing_pos' = 0

\* hm_insert up to its hm_help_resizing.
Insert == /\ pc = "insert"
          /\ LET base == IF ht1.slots = 0 THEN h_init(k_init_slots) ELSE ht1
                 new  == h_insert(base, key)
             IN IF ht2.slots = 0 /\ TooFull(new)
                THEN StartResizing(new)
                ELSE ht1' = new /\ UNCHANGED <<ht2, resizing_pos>>
          /\ nwork' = 0
          /\ pc' = "help2"
          /\ UNCHANGED <<op, key, found>>

\* hm_destroy: both tables are freed (the map of a sorted set that goes away).
Destroy == /\ pc = "idle"
           /\ ht1' = NoTable
           /\ ht2' = NoTable
           /\ resizing_pos' = 0
           /\ UNCHANGED <<nwork, pc, op, key, found>>

Run == HelpSkip \/ HelpMove \/ HelpDone \/ Lookup \/ Pop \/ Insert

Next == \/ \E o \in {"lookup", "add", "pop"}, n \in Nodes : Call(o, n)
        \/ Run
        \/ Destroy

Spec == Init /\ [][Next]_vars

\* A call runs to its end on the server's only thread.
FairSpec == Spec /\ WF_vars(Run)
-----------------------------------------------------------------------------
(* Properties *)

IsTable(ht) == /\ ht.slots \in Nat
               /\ ht.size \in Nat
               /\ ht.tab \in [0..(ht.slots-1) -> SUBSET Nodes]
               /\ ht = [slots |-> ht.slots, size |-> ht.size, tab |-> ht.tab]

\* Types: the two tables have a chain per slot, counters are naturals.
TypeOK == /\ IsTable(ht1)
          /\ IsTable(ht2)
          /\ resizing_pos \in Nat
          /\ nwork \in Nat
          /\ pc \in {"idle", "help", "lookup", "pop", "insert", "help2"}
          /\ op \in {"none", "lookup", "add", "pop"}
          /\ key \in Nodes \cup {NoKey}
          /\ found \in {"none", "hit", "miss"}

Members(ht) == UNION {ht.tab[i] : i \in 0..(ht.slots-1)}

\* Every node sits in the slot its hash selects, or h_lookup would miss it.
WellPlaced(ht) == \A i \in 0..(ht.slots-1) : \A n \in ht.tab[i] : Slot(ht, n) = i

SizeCounts(ht) == IsFiniteSet(Members(ht)) /\ ht.size = Cardinality(Members(ht))

\* The tables are sound: placement, sizes, and no node in both at once, so
\* that hm_pop cannot leave a second copy behind (hashtable.cpp:70, :123-132).
TablesSound == /\ WellPlaced(ht1) /\ WellPlaced(ht2)
               /\ SizeCounts(ht1) /\ SizeCounts(ht2)
               /\ Members(ht1) \cap Members(ht2) = {}

\* The slots of ht2 before resizing_pos are empty: what is behind the scan is
\* never filled again.  With the sizes right, the scan finds a node before it
\* leaves the table: `ht2.tab[resizing_pos]` stays in bounds (hashtable.cpp:62).
ScanInBounds == /\ \A i \in 0..(ht2.slots-1) : i < resizing_pos => ht2.tab[i] = {}
                /\ ht2.size > 0 => resizing_pos < ht2.slots

\* Between calls the resize is always ahead of the insertions: the newer table
\* is below its limit even if the rest of ht2 were moved and as many nodes
\* were added meanwhile, so a second resize can never be due during the first
\* (the reason hm_insert may skip the load check while ht2 is there).
ResizeKeepsAhead == pc = "idle" /\ ht1.slots # 0 =>
                       ht1.size + 2 * ht2.size < k_max_load_factor * ht1.slots

\* The count do_keys sends before the keys (hm_size) is the number of keys
\* the two scans then write, whatever the state of the resize.
ScanMatchesSize == /\ h_scan(ht1) \cap h_scan(ht2) = {}
                   /\ hm_size = Cardinality(h_scan(ht1) \cup h_scan(ht2))

\* hm_lookup, hm_insert and hm_pop behave as on a set of nodes: the resize is
\* invisible.  A call takes effect when it returns; a node inserted by a call
\* still running is not there yet.
Abstract == INSTANCE NodeSet WITH
               present <- (Members(ht1) \cup Members(ht2))
                             \ (IF pc = "help2" THEN {key} ELSE {}),
               call    <- op,
               arg     <- key,
               reply   <- IF pc = "idle" THEN found ELSE "none"
ImplementsNodeSet == Abstract!Spec

\* The inductive invariant behind the five invariants above: what holds at each
\* point of a call, and the load bound of ResizeKeepsAhead at every point (it
\* is met exactly, for one step, by the insertion that starts a resize).
CallState ==
  /\ pc = "idle" <=> op = "none"
  /\ pc = "idle" <=> key = NoKey
  /\ pc = "lookup" => op \in {"lookup", "add"}
  /\ pc = "pop" => op = "pop"
  /\ pc \in {"insert", "help2"} => op = "add" /\ found = "miss"
  /\ pc = "insert" => key \notin Members(ht1) \cup Members(ht2)
  /\ pc = "help2" => key \in Members(ht1) \cup Members(ht2)
  /\ ht1.slots = 0 => ht2.slots = 0
  /\ pc \in {"lookup", "pop", "insert"} /\ ht2.slots # 0 => ht2.size > 0

LoadState ==
  ht1.slots # 0 =>
     LET load  == ht1.size + 2 * ht2.size
         limit == k_max_load_factor * ht1.slots
     IN  load < limit \/ (pc = "help2" /\ nwork = 0 /\ ht2.size > 0 /\ load = limit)

IInv == TypeOK /\ TablesSound /\ ScanInBounds /\ CallState /\ LoadState

\* Every call returns: the loop of hm_help_resizing, whose skips are not
\* counted against k_resizing_work, ends (hashtable.cpp:60-72).
CallsReturn == (pc # "idle") ~> (pc = "idle")
=============================================================================
