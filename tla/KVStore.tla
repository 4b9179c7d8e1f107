------------------------------ MODULE KVStore ------------------------------
(***************************************************************************)
(* What a client of the server sees of the key space: a value and at most  *)
(* one expiry time per key, changed by one command at a time, and keys     *)
(* that go away by themselves, never more than a millisecond early.        *)
(* Nothing is said of entries, of the hash map, of the heap of timers or   *)
(* of the memory of what is gone.                                          *)
(***************************************************************************)
EXTENDS SortedSet, Replies

CONSTANTS Keys,         \* the keys
          Vals,         \* the values of strings
          Names,        \* the members of sorted sets
          Scores,       \* their scores
          Queries,      \* what may be asked of a sorted set
          Ttls,         \* the TTLs a client may ask for, in ms
          Nil,          \* no value
          None,         \* no expiry time
          ms,           \* a millisecond on the clock
          Moments       \* the times that can be told

VARIABLES store,        \* the value of each key
          expiry,       \* when it goes
          clock,        \* the time
          reply         \* what the last command answered

vars == <<store, expiry, clock, reply>>

Str(v) == [type |-> "T_STR", val |-> v, zset |-> NoTuples]
ZSet(z) == [type |-> "T_ZSET", val |-> Nil, zset |-> z]
\* Whether the sorted set at k has n.
Has(k, n) == n \in DOMAIN store[k].zset

IsType(k, ty) == store[k] # Nil /\ store[k].type = ty

Init == /\ store = [k \in Keys |-> Nil]
        /\ expiry = [k \in Keys |-> None]
        /\ clock = 0
        /\ reply = out_nil

\* A command that answers r and changes nothing.
Answer(r) == reply' = r /\ UNCHANGED <<store, expiry, clock>>

Put(k, x, r) == /\ store' = [store EXCEPT ![k] = x]
                /\ reply' = r
                /\ UNCHANGED <<expiry, clock>>

Gone(k) == /\ store' = [store EXCEPT ![k] = Nil]
           /\ expiry' = [expiry EXCEPT ![k] = None]

Get(k) == \/ store[k] = Nil /\ Answer(out_nil)
          \/ IsType(k, "T_STR") /\ Answer(out_str(store[k].val))
          \/ IsType(k, "T_ZSET") /\ Answer(out_err("ERR_TYPE"))

\* A new value leaves the expiry time alone.
Set(k, v) == \/ ~IsType(k, "T_ZSET") /\ Put(k, Str(v), out_nil)
             \/ IsType(k, "T_ZSET") /\ Answer(out_err("ERR_TYPE"))

Del(k) == Gone(k) /\ reply' = out_int(IF store[k] = Nil THEN 0 ELSE 1) /\ UNCHANGED clock

\* A TTL is kept exactly, unless the time it ends is one that cannot be told.
PExpire(k, ttl) ==
  \/ store[k] = Nil /\ Answer(out_int(0))
  \/ /\ store[k] # Nil
     /\ \E at \in Moments \cup {None} :
           /\ ttl < 0 => at = None
           /\ ttl >= 0 => at # None
           /\ ttl >= 0 /\ clock + ttl * ms \in Moments => at = clock + ttl * ms
           /\ expiry' = [expiry EXCEPT ![k] = at]
     /\ reply' = out_int(1)
     /\ UNCHANGED <<store, clock>>

PTtl(k) ==
  Answer(out_int(IF store[k] = Nil THEN -2
                 ELSE IF expiry[k] = None THEN -1
                 ELSE IF expiry[k] > clock THEN (expiry[k] - clock) \div ms ELSE 0))

ZAdd(k, n, s) ==
  \/ store[k] = Nil /\ Put(k, ZSet(PutTuple(NoTuples, n, s)), out_int(1))
  \/ /\ IsType(k, "T_ZSET")
     /\ Put(k, ZSet(PutTuple(store[k].zset, n, s)), out_int(IF Has(k, n) THEN 0 ELSE 1))
  \/ IsType(k, "T_STR") /\ Answer(out_err("ERR_TYPE"))

\* A sorted set without members is still there.
ZRem(k, n) ==
  \/ store[k] = Nil /\ Answer(out_nil)
  \/ /\ IsType(k, "T_ZSET")
     /\ Put(k, ZSet(DropTuple(store[k].zset, n)), out_int(IF Has(k, n) THEN 1 ELSE 0))
  \/ IsType(k, "T_STR") /\ Answer(out_err("ERR_TYPE"))

ZScore(k, n) ==
  Answer(IF store[k] = Nil THEN out_nil
         ELSE IF store[k].type # "T_ZSET" THEN out_err("ERR_TYPE")
         ELSE IF Has(k, n) THEN out_dbl(store[k].zset[n]) ELSE out_nil)

ZQuery(k, q) ==
  \/ store[k] = Nil /\ Answer(out_tuples(<<>>))
  \/ /\ IsType(k, "T_ZSET")
     /\ Answer(out_tuples(QueryTuples(store[k].zset, q.score, q.name, q.offset, q.limit)))
  \/ IsType(k, "T_STR") /\ Answer(out_err("ERR_TYPE"))

KeysCmd == Answer(out_arr({k \in Keys : store[k] # Nil}))

\* An argument that is not a number.
BadArg == Answer(out_err("ERR_ARG"))

Unknown == Answer(out_err("ERR_UNKNOWN"))

Expire(k) == /\ expiry[k] # None
             /\ expiry[k] < clock + ms
             /\ Gone(k)
             /\ UNCHANGED <<clock, reply>>

Tick == clock' = clock + 1 /\ UNCHANGED <<store, expiry, reply>>

Next == \/ \E k \in Keys :
              \/ Get(k) \/ Del(k) \/ PTtl(k) \/ Expire(k)
              \/ \E v \in Vals : Set(k, v)
              \/ \E ttl \in Ttls : PExpire(k, ttl)
              \/ \E n \in Names : ZRem(k, n) \/ ZScore(k, n)
              \/ \E n \in Names, s \in Scores : ZAdd(k, n, s)
              \/ \E q \in Queries : ZQuery(k, q)
        \/ KeysCmd \/ BadArg \/ Unknown \/ Tick

Spec == Init /\ [][Next]_vars
=============================================================================
