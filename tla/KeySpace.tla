------------------------------ MODULE KeySpace ------------------------------
(***************************************************************************)
(* server.cpp's key space: the commands, the entries they create and       *)
(* destroy, the TTL of each entry, process_timers and the workers that     *)
(* free large sorted sets.                                                 *)
(*                                                                         *)
(* A command runs to its end on the main thread before anything else there *)
(* happens, so it is one step.  process_timers is one step per iteration:  *)
(* the clock goes on and workers free entries in between.  The hash map is *)
(* the set HMap is shown to implement, the heap the table of deadlines     *)
(* TtlHeap implements, the pool a set of works that ThreadPool finishes.   *)
(***************************************************************************)
EXTENDS SortedSet, Replies

CONSTANTS Addrs,                  \* memory for entries (a bound: new needs a free one)
          Keys, Vals,             \* keys, string values
          Names, Scores,          \* members of sorted sets and their scores
          Queries,                \* what zquery is asked: score, name, offset, limit
          Ttls,                   \* the ttl_ms a client may send
          NoKey, Nil, None,       \* no key, no value, no deadline
          USEC,                   \* clock units in a millisecond (1000)
          Range64,                \* 2^64 in those units: times wrap around
          k_large_container_size, \* more members than that go to the pool
          k_max_works,            \* process_timers stops after one more than that
          MaxClock                \* bound on the clock

ASSUME KeySpaceAssumption ==
  /\ IsFiniteSet(Names)
  /\ USEC \in Nat \ {0} /\ MaxClock \in Nat /\ Range64 \in Nat
  /\ MaxClock + USEC < Range64      \* the server is not up for 2^64 microseconds
  /\ Ttls \subseteq Int
  /\ k_large_container_size \in Nat /\ k_max_works \in Nat
  /\ NoKey \notin Keys /\ Nil \notin Vals /\ None \notin Nat

VARIABLES ent,        \* the entry at each address
          db,         \* g_data.db: the entries in the map
          deadline,   \* g_data.heap by entry (Entry::heap_idx)
          queued,     \* the entries handed to the pool and not freed yet
          clock,      \* get_monotonic_usec()
          pc,         \* "io" for the commands, "timers" in process_timers
          now_us, nworks,   \* its locals
          reply       \* what the last command answered

timers == <<pc, now_us, nworks>>
vars == <<ent, db, deadline, queued, clock, timers, reply>>

Str(v) == [type |-> "T_STR", val |-> v, zset |-> NoTuples]

\* Bug variant: do_zadd's new entry keeps the type an entry has at first.
ZSet_NoType(z) == [type |-> "T_STR", val |-> Nil, zset |-> z]

ZSet(z) == [type |-> "T_ZSET", val |-> Nil, zset |-> z]

\* What an entry can hold.
Values == [type : {"T_STR"}, val : Vals \cup {Nil}, zset : {NoTuples}]
            \cup [type : {"T_ZSET"}, val : {Nil}, zset : ZSets(Names, Scores)]

ASSUME NilAssumption == Nil \notin Values

NewEntry(k, x) == [key |-> k, value |-> x]
Blank == NewEntry(NoKey, Str(Nil))      \* free memory

\* hm_lookup with entry_eq.
Find(k) == {a \in db : ent[a].key = k}
Type(a) == ent[a].value.type
Times == 0..(Range64-1)
-----------------------------------------------------------------------------
Init == /\ ent = [a \in Addrs |-> Blank]
        /\ db = {}
        /\ deadline = [a \in Addrs |-> None]
        /\ queued = {}
        /\ clock = 0
        /\ pc = "io" /\ now_us = 0 /\ nworks = 0
        /\ reply = out_nil

\* A handler runs on the main thread, between two calls of process_timers.
Handler(r) == pc = "io" /\ reply' = r /\ UNCHANGED <<clock, timers>>
Answer(r) == Handler(r) /\ UNCHANGED <<ent, db, deadline, queued>>

Store(a, x, r) == /\ Handler(r)
                  /\ ent' = [ent EXCEPT ![a].value = x]
                  /\ UNCHANGED <<db, deadline, queued>>

Insert(k, x, r) == /\ Handler(r)
                   /\ \E a \in Addrs : /\ ent[a] = Blank
                                       /\ ent' = [ent EXCEPT ![a] = NewEntry(k, x)]
                                       /\ db' = db \cup {a}
                   /\ UNCHANGED <<deadline, queued>>

do_get(k) ==
  \/ Find(k) = {} /\ Answer(out_nil)
  \/ \E a \in Find(k) :
        Answer(IF Type(a) # "T_STR" THEN out_err("ERR_TYPE") ELSE out_str(ent[a].value.val))

do_set(k, v) ==
  \/ \E a \in Find(k) : \/ Type(a) # "T_STR" /\ Answer(out_err("ERR_TYPE"))
                        \/ Type(a) = "T_STR" /\ Store(a, Str(v), out_nil)
  \/ Find(k) = {} /\ Insert(k, Str(v), out_nil)

\* The sum of entry_set_ttl, in uint64_t.
Deadline(ttl_ms) == (clock + ttl_ms * USEC) % Range64

\* A negative TTL removes the one there is.
do_expire(k, ttl_ms) ==
  \/ Find(k) = {} /\ Answer(out_int(0))
  \/ \E a \in Find(k) :
        /\ Handler(out_int(1))
        /\ deadline' = [deadline EXCEPT ![a] = IF ttl_ms < 0 THEN None ELSE Deadline(ttl_ms)]
        /\ UNCHANGED <<ent, db, queued>>

do_ttl(k) ==
  \/ Find(k) = {} /\ Answer(out_int(-2))
  \/ \E a \in Find(k) :
        Answer(out_int(IF deadline[a] = None THEN -1
                       ELSE IF deadline[a] > clock THEN (deadline[a] - clock) \div USEC
                       ELSE 0))

too_big(a) == Type(a) = "T_ZSET" /\ Cardinality(DOMAIN ent[a].value.zset) > k_large_container_size

\* Bug variant: the TTL stays in the heap.
entry_del_KeepTtl(a) ==
  /\ UNCHANGED deadline
  /\ \/ too_big(a) /\ queued' = queued \cup {a} /\ UNCHANGED ent
     \/ ~too_big(a) /\ ent' = [ent EXCEPT ![a] = Blank] /\ UNCHANGED queued

\* Bug variant: a large sorted set is not handed to the pool.
entry_del_Leak(a) ==
  /\ deadline' = [deadline EXCEPT ![a] = None]
  /\ UNCHANGED queued
  /\ IF too_big(a) THEN UNCHANGED ent ELSE ent' = [ent EXCEPT ![a] = Blank]

\* entry_del: the entry's TTL is removed; it is freed here or by the pool.
entry_del(a) ==
  /\ deadline' = [deadline EXCEPT ![a] = None]
  /\ \/ too_big(a) /\ queued' = queued \cup {a} /\ UNCHANGED ent
     \/ ~too_big(a) /\ ent' = [ent EXCEPT ![a] = Blank] /\ UNCHANGED queued

\* Bug variant: the entry is looked up and not popped.
do_del_Lookup(k) ==
  \/ Find(k) = {} /\ Answer(out_int(0))
  \/ \E a \in Find(k) : Handler(out_int(1)) /\ entry_del(a) /\ UNCHANGED db

do_del(k) ==
  \/ Find(k) = {} /\ Answer(out_int(0))
  \/ \E a \in Find(k) : Handler(out_int(1)) /\ db' = db \ {a} /\ entry_del(a)

do_keys == Answer(out_arr({ent[a].key : a \in db}))

\* Whether the sorted set at a has n.
Member(a, n) == n \in DOMAIN ent[a].value.zset

do_zadd(k, n, s) ==
  \/ Find(k) = {} /\ Insert(k, ZSet(PutTuple(NoTuples, n, s)), out_int(1))
  \/ \E a \in Find(k) :
        \/ Type(a) # "T_ZSET" /\ Answer(out_err("ERR_TYPE"))
        \/ /\ Type(a) = "T_ZSET"
           /\ Store(a, ZSet(PutTuple(ent[a].value.zset, n, s)),
                    out_int(IF Member(a, n) THEN 0 ELSE 1))

\* expect_zset: r is what a command answers when there is no sorted set at k.
expect_zset(k, r) == IF Find(k) = {} THEN r = out_nil
                     ELSE r = out_err("ERR_TYPE") /\ \E a \in Find(k) : Type(a) # "T_ZSET"

do_zrem(k, n) ==
  \/ \E r \in {out_nil, out_err("ERR_TYPE")} : expect_zset(k, r) /\ Answer(r)
  \/ \E a \in Find(k) :
        /\ Type(a) = "T_ZSET"
        /\ Store(a, ZSet(DropTuple(ent[a].value.zset, n)),
                 out_int(IF Member(a, n) THEN 1 ELSE 0))

do_zscore(k, n) ==
  \/ \E r \in {out_nil, out_err("ERR_TYPE")} : expect_zset(k, r) /\ Answer(r)
  \/ \E a \in Find(k) :
        /\ Type(a) = "T_ZSET"
        /\ Answer(IF Member(a, n) THEN out_dbl(ent[a].value.zset[n]) ELSE out_nil)

\* A missing key is an empty sorted set here.
do_zquery(k, q) ==
  \/ Find(k) = {} /\ Answer(out_tuples(<<>>))
  \/ \E a \in Find(k) :
        \/ Type(a) # "T_ZSET" /\ Answer(out_err("ERR_TYPE"))
        \/ /\ Type(a) = "T_ZSET"
           /\ Answer(out_tuples(QueryTuples(ent[a].value.zset, q.score, q.name,
                                            q.offset, q.limit)))

\* str2int or str2dbl fails: nothing is looked up.
bad_arg == Answer(out_err("ERR_ARG"))

\* No such command, or not with that number of arguments.
unknown_cmd == Answer(out_err("ERR_UNKNOWN"))
-----------------------------------------------------------------------------
(* process_timers and the pool *)

\* Bug variant: the allowance for poll()'s resolution is a millisecond too much.
process_timers_Early == /\ pc = "io"
                        /\ pc' = "timers"
                        /\ now_us' = clock + 2 * USEC
                        /\ nworks' = 0
                        /\ UNCHANGED <<ent, db, deadline, queued, clock, reply>>

process_timers == /\ pc = "io"
                  /\ pc' = "timers"
                  /\ now_us' = clock + USEC
                  /\ nworks' = 0
                  /\ UNCHANGED <<ent, db, deadline, queued, clock, reply>>

\* Bug variant: the heap is ordered the other way.
Top_Furthest(a) == /\ deadline[a] # None
                   /\ \A b \in Addrs : deadline[b] # None => deadline[b] <= deadline[a]

\* heap[0]: the nearest deadline (of equal ones, any can be first).
Top(a) == /\ deadline[a] # None
          /\ \A b \in Addrs : deadline[b] # None => deadline[a] <= deadline[b]

Return == pc' = "io" /\ now_us' = 0 /\ nworks' = 0

\* One iteration of the loop on the TTL timers; the assertion needs the entry
\* to be in the map.
ExpireTop(a) ==
  /\ pc = "timers"
  /\ Top(a) /\ deadline[a] < now_us
  /\ UNCHANGED <<clock, reply>>
  /\ \/ /\ a \notin db
        /\ pc' = "abort"
        /\ UNCHANGED <<ent, db, deadline, queued, now_us, nworks>>
     \/ /\ a \in db
        /\ db' = db \ {a}
        /\ entry_del(a)
        /\ \/ nworks >= k_max_works /\ Return
           \/ nworks < k_max_works /\ nworks' = nworks + 1 /\ UNCHANGED <<pc, now_us>>

\* The heap is empty or its first item is not due.
NoneDue == /\ pc = "timers"
           /\ ~(\E a \in Addrs : Top(a) /\ deadline[a] < now_us)
           /\ Return
           /\ UNCHANGED <<ent, db, deadline, queued, clock, reply>>

\* A worker of the pool runs entry_destroy.
entry_del_async(a) == /\ a \in queued
                      /\ ent' = [ent EXCEPT ![a] = Blank]
                      /\ queued' = queued \ {a}
                      /\ UNCHANGED <<db, deadline, clock, timers, reply>>

Tick == /\ clock < MaxClock
        /\ clock' = clock + 1
        /\ UNCHANGED <<ent, db, deadline, queued, timers, reply>>

\* do_request: the command of one request.
do_request == \/ \E k \in Keys :
                    \/ do_get(k) \/ do_del(k) \/ do_ttl(k)
                    \/ \E v \in Vals : do_set(k, v)
                    \/ \E ttl \in Ttls : do_expire(k, ttl)
                    \/ \E n \in Names : do_zrem(k, n) \/ do_zscore(k, n)
                    \/ \E n \in Names, s \in Scores : do_zadd(k, n, s)
                    \/ \E q \in Queries : do_zquery(k, q)
              \/ do_keys \/ bad_arg \/ unknown_cmd

\* A step inside process_timers.
TimerStep == NoneDue \/ \E a \in Addrs : ExpireTop(a)

Next == \/ do_request
        \/ process_timers \/ TimerStep
        \/ \E a \in Addrs : entry_del_async(a)
        \/ Tick

Spec == Init /\ [][Next]_vars

\* process_timers once begun goes on, workers do not stall (ThreadPool's
\* EveryWorkRuns), time goes on.  That main comes to process_timers at all is not
\* assumed: state_req's loop (server.cpp:772) goes on while a client keeps sending.
FairSpec == /\ Spec
            /\ WF_vars(TimerStep)
            /\ \A a \in Addrs : WF_vars(entry_del_async(a))
            /\ WF_vars(Tick)
-----------------------------------------------------------------------------
(* Properties *)

\* Types; above all an entry holds what its type says, so that entry_destroy and
\* the commands, which trust `type` (server.cpp:412, :518, :540), never take a string
\* for a sorted set or forget to dispose of one.
TypeOK == /\ ent \in [Addrs -> [key : Keys \cup {NoKey}, value : Values]]
          /\ db \subseteq Addrs /\ queued \subseteq Addrs
          /\ deadline \in [Addrs -> Times \cup {None}]
          /\ clock \in 0..MaxClock
          /\ pc \in {"io", "timers", "abort"}
          /\ now_us \in Times
          /\ nworks \in 0..k_max_works

\* Every entry is in exactly one place: in the map under a key of its own, or
\* with the pool, which only gets large sorted sets, or free.  Only an entry in
\* the map has a TTL, so no item of the heap points to memory that was given
\* away, and the assertion of process_timers (server.cpp:896) holds.
EntriesAccounted ==
  /\ \A a \in Addrs : ent[a] # Blank <=> a \in db \cup queued
  /\ db \cap queued = {}
  /\ \A a, b \in db : ent[a].key = ent[b].key => a = b
  /\ \A a \in db : ent[a].key \in Keys
  /\ \A a \in Addrs : deadline[a] # None => a \in db
  /\ \A a \in queued : too_big(a)
  /\ pc # "abort"

\* The main thread never writes to an entry it has handed to the pool, nor
\* reuses its memory before a worker has freed it: the two threads share no
\* entry (entry_del is called after hm_pop, server.cpp:450-453 and :895-897).
HandedOver ==
  [][\A a \in queued : ent'[a] = ent[a] \/ (a \notin queued' /\ ent'[a] = Blank)]_vars

\* process_timers returns when nothing was due at the time it started with, or
\* after its k_max_works + 1 works (server.cpp:893, :898).
TimersKeepUp ==
  [][pc = "timers" /\ pc' = "io" =>
        \/ nworks >= k_max_works
        \/ \A a \in Addrs : deadline'[a] # None => deadline'[a] >= now_us]_vars

\* The clients see a key-value store: an entry's address, its way to the pool
\* and the reuse of its memory never show, a TTL belongs to the key until it is
\* removed or the key goes, and no key goes more than a millisecond early.
ValueOf(k) == IF Find(k) = {} THEN Nil ELSE ent[CHOOSE a \in Find(k) : TRUE].value
ExpiryOf(k) == IF Find(k) = {} THEN None ELSE deadline[CHOOSE a \in Find(k) : TRUE]

KV == INSTANCE KVStore WITH store <- [k \in Keys |-> ValueOf(k)],
                            expiry <- [k \in Keys |-> ExpiryOf(k)],
                            ms <- USEC, Moments <- Times
ImplementsKVStore == KV!Spec

\* A TTL whose sum wraps around (server.cpp:359) ends before it was set.
SetToPast == \E a \in Addrs : /\ deadline'[a] \notin {None, deadline[a]}
                             /\ deadline'[a] < clock

\* However many keys are due at once and however often TTLs are set that end in
\* the future, a key whose time has come goes or gets another deadline, although
\* one call of process_timers takes k_max_works + 1 keys at most: as long as main
\* keeps coming to process_timers, and from some time on no TTL wraps around
\* (those would be nearer than the keys that wait, again and again).
Overdue(a, d) == deadline[a] = d /\ d <= clock
ExpiredKeysGo ==
  \A a \in Addrs, d \in 0..(MaxClock-1) :
     []<>(pc = "timers") /\ <>[][~SetToPast]_vars => (Overdue(a, d) ~> deadline[a] # d)

\* The memory of an entry that has left the map is freed.
DeletedFreed == \A a \in Addrs : ent[a] # Blank /\ a \notin db ~> ent[a] = Blank
=============================================================================
