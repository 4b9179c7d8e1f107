--------------------------- MODULE KeySpaceProofs ---------------------------
(***************************************************************************)
(* Proofs about KeySpace: the types, who owns which entry and that it      *)
(* implements KVStore, for every number of keys, entries and works, every  *)
(* set of TTLs and every clock.                                            *)
(***************************************************************************)
EXTENDS KeySpace, FiniteSetTheorems, WellFoundedInduction, NaturalsInduction, TLAPS

\* TypeOK in two parts: what the commands change, and process_timers' own state.
EntryTypes == /\ ent \in [Addrs -> [key : Keys \cup {NoKey}, value : Values]]
              /\ db \subseteq Addrs /\ queued \subseteq Addrs
              /\ deadline \in [Addrs -> Times \cup {None}]
TimerTypes == /\ clock \in 0..MaxClock
              /\ pc \in {"io", "timers", "abort"}
              /\ now_us \in Times
              /\ nworks \in 0..k_max_works

\* EntriesAccounted without the assertion of process_timers.
Accounted ==
  /\ \A a \in Addrs : ent[a] # Blank <=> a \in db \cup queued
  /\ db \cap queued = {}
  /\ \A a, b \in db : ent[a].key = ent[b].key => a = b
  /\ \A a \in db : ent[a].key \in Keys
  /\ \A a \in Addrs : deadline[a] # None => a \in db
  /\ \A a \in queued : too_big(a)

EntryState == EntryTypes /\ Accounted
TimerState == TimerTypes /\ pc # "abort"

LEMMA StateParts == TypeOK /\ EntriesAccounted <=> EntryState /\ TimerState
BY DEF TypeOK, EntriesAccounted, EntryState, TimerState, EntryTypes, TimerTypes, Accounted

\* An entry under a key is not free memory.
LEMMA KeyNotBlank ==
  ASSUME NEW e, e.key \in Keys
  PROVE  e # Blank
BY KeySpaceAssumption DEF Blank, NewEntry

LEMMA BlankType == Blank \in [key : Keys \cup {NoKey}, value : Values]
BY DEF Blank, NewEntry, Str, Values

LEMMA StrType == \A v \in Vals : Str(v) \in Values
BY DEF Str, Values

LEMMA ZSetType == \A z \in ZSets(Names, Scores) : ZSet(z) \in Values
BY DEF ZSet, Values

\* too_big is said of one entry.
LEMMA TooBigKept ==
  ASSUME NEW a, ent'[a] = ent[a]
  PROVE  too_big(a)' <=> too_big(a)
BY DEF too_big, Type

\* Times wrap around into their range.
LEMMA DeadlineIsTime ==
  ASSUME clock \in Nat, NEW ttl \in Ttls
  PROVE  Deadline(ttl) \in Times
<1>1. ttl \in Int /\ USEC \in Int /\ Range64 \in Nat \ {0}
  BY KeySpaceAssumption, SMT
<1>2. ttl * USEC \in Int
  BY <1>1, SMT
<1> DEFINE x == clock + ttl * USEC
<1>3. x \in Int
  BY <1>2, SMT
<1> HIDE DEF x
<1>4. x % Range64 \in 0..(Range64-1)
  BY <1>1, <1>3, SMT
<1>5. QED
  BY <1>4 DEF Deadline, Times, x

\* A tuple put in or dropped leaves a sorted set.
LEMMA PutTupleType ==
  ASSUME NEW names, NEW scores, NEW z \in ZSets(names, scores),
         NEW n \in names, NEW s \in scores
  PROVE  PutTuple(z, n, s) \in ZSets(names, scores)
<1>1. PICK D \in SUBSET names : z \in [D -> scores]
  BY DEF ZSets
<1>2. PutTuple(z, n, s) \in [D \cup {n} -> scores]
  BY <1>1 DEF PutTuple
<1>3. D \cup {n} \in SUBSET names
  BY <1>1
<1>4. QED
  BY <1>2, <1>3 DEF ZSets

LEMMA DropTupleType ==
  ASSUME NEW names, NEW scores, NEW z \in ZSets(names, scores), NEW n
  PROVE  DropTuple(z, n) \in ZSets(names, scores)
<1>1. PICK D \in SUBSET names : z \in [D -> scores]
  BY DEF ZSets
<1>2. DropTuple(z, n) \in [D \ {n} -> scores]
  BY <1>1 DEF DropTuple
<1>3. D \ {n} \in SUBSET names
  BY <1>1
<1>4. QED
  BY <1>2, <1>3 DEF ZSets

LEMMA NoTuplesType == \A names, scores : NoTuples \in ZSets(names, scores)
<1> SUFFICES ASSUME NEW names, NEW scores PROVE NoTuples \in ZSets(names, scores)
  OBVIOUS
<1>1. NoTuples \in [{} -> scores] /\ {} \in SUBSET names
  BY DEF NoTuples
<1>2. QED
  BY <1>1 DEF ZSets
-----------------------------------------------------------------------------
(* What a step does to the entries *)

LEMMA EntryStateKept ==
  EntryState /\ UNCHANGED <<ent, db, deadline, queued>> => EntryState'
<1> SUFFICES ASSUME EntryState, UNCHANGED <<ent, db, deadline, queued>>
             PROVE  EntryState'
  OBVIOUS
<1>1. EntryTypes'
  BY DEF EntryState, EntryTypes
<1>2. \A a \in queued' : too_big(a)'
  BY TooBigKept DEF EntryState, Accounted
<1>3. QED
  BY <1>1, <1>2 DEF EntryState, Accounted

\* A new value for an entry that is in the map.
LEMMA StoreEntryState ==
  ASSUME EntryState, NEW a \in db, NEW x \in Values, NEW r, Store(a, x, r)
  PROVE  EntryState'
<1> USE DEF EntryState
<1>1. a \in Addrs /\ a \notin queued /\ ent[a].key \in Keys
  BY DEF EntryTypes, Accounted
<1>2. /\ ent' = [ent EXCEPT ![a].value = x]
      /\ UNCHANGED <<db, deadline, queued>>
  BY DEF Store
<1>3. /\ ent'[a] = [key |-> ent[a].key, value |-> x]
      /\ \A b \in Addrs : b # a => ent'[b] = ent[b]
  BY <1>1, <1>2 DEF EntryTypes
<1>4. ent' \in [Addrs -> [key : Keys \cup {NoKey}, value : Values]]
  BY <1>1, <1>2, <1>3 DEF EntryTypes
<1>5. EntryTypes'
  BY <1>2, <1>4 DEF EntryTypes
<1>6. \A b \in Addrs : ent'[b].key = ent[b].key
  BY <1>3
<1>7. ent'[a] # Blank /\ ent[a] # Blank
  BY <1>1, <1>3, KeyNotBlank
<1>8. \A b \in queued' : too_big(b)'
  BY <1>1, <1>2, <1>3, TooBigKept DEF EntryTypes, Accounted
<1>9. \A b \in Addrs : ent'[b] # Blank <=> b \in db' \cup queued'
  BY <1>2, <1>3, <1>7 DEF Accounted
<1>10. Accounted'
  BY <1>2, <1>6, <1>8, <1>9 DEF Accounted, EntryTypes
<1>11. QED
  BY <1>5, <1>10

\* A new entry under a key that is not in the map.
LEMMA InsertEntryState ==
  ASSUME EntryState, NEW k \in Keys, Find(k) = {}, NEW x \in Values, NEW r, Insert(k, x, r)
  PROVE  EntryState'
<1> USE DEF EntryState
<1>1. PICK a \in Addrs : /\ ent[a] = Blank
                         /\ ent' = [ent EXCEPT ![a] = NewEntry(k, x)]
                         /\ db' = db \cup {a}
  BY DEF Insert
<1>2. UNCHANGED <<deadline, queued>>
  BY DEF Insert
<1>3. a \notin db /\ a \notin queued
  BY <1>1 DEF Accounted
<1>4. /\ ent'[a] = [key |-> k, value |-> x]
      /\ \A b \in Addrs : b # a => ent'[b] = ent[b]
      /\ ent' \in [Addrs -> [key : Keys \cup {NoKey}, value : Values]]
  BY <1>1 DEF EntryTypes, NewEntry
<1>5. EntryTypes'
  BY <1>1, <1>2, <1>4 DEF EntryTypes
<1>6. ent'[a] # Blank
  BY <1>4, KeyNotBlank
<1>7. \A b \in queued' : too_big(b)'
  BY <1>2, <1>3, <1>4, TooBigKept DEF EntryTypes, Accounted
<1>8. \A b \in db : b \in Addrs /\ ent'[b] = ent[b] /\ ent[b].key # k
  BY <1>3, <1>4 DEF EntryTypes, Find
<1>9. \A b \in Addrs : ent'[b] # Blank <=> b \in db' \cup queued'
  BY <1>1, <1>2, <1>3, <1>4, <1>6 DEF Accounted
<1>10. \A b, c \in db' : ent'[b].key = ent'[c].key => b = c
  BY <1>1, <1>4, <1>8 DEF Accounted
<1>11. \A b \in db' : ent'[b].key \in Keys
  BY <1>1, <1>4, <1>8 DEF Accounted
<1>12. db' \cap queued' = {} /\ \A b \in Addrs : deadline'[b] # None => b \in db'
  BY <1>1, <1>2, <1>3 DEF Accounted
<1>13. QED
  BY <1>5, <1>7, <1>9, <1>10, <1>11, <1>12 DEF Accounted

\* An entry leaves the map and is destroyed: by do_del or by process_timers.
LEMMA DelEntryState ==
  ASSUME EntryState, NEW a \in db, db' = db \ {a}, entry_del(a)
  PROVE  EntryState'
<1> USE DEF EntryState
<1>1. a \in Addrs /\ a \notin queued
  BY DEF EntryTypes, Accounted
<1>2. /\ deadline' = [deadline EXCEPT ![a] = None]
      /\ \/ too_big(a) /\ queued' = queued \cup {a} /\ ent' = ent
         \/ ent' = [ent EXCEPT ![a] = Blank] /\ queued' = queued
  BY DEF entry_del
<1>3. /\ \A b \in Addrs : b # a => ent'[b] = ent[b] /\ deadline'[b] = deadline[b]
      /\ deadline'[a] = None
      /\ \/ too_big(a) /\ queued' = queued \cup {a} /\ ent'[a] = ent[a]
         \/ ent'[a] = Blank /\ queued' = queued
  BY <1>1, <1>2 DEF EntryTypes
<1>4. /\ ent' \in [Addrs -> [key : Keys \cup {NoKey}, value : Values]]
      /\ deadline' \in [Addrs -> Times \cup {None}]
  BY <1>1, <1>2, BlankType DEF EntryTypes
<1>5. EntryTypes'
  BY <1>1, <1>3, <1>4 DEF EntryTypes
<1>6. \A b \in queued' : too_big(b)'
  BY <1>1, <1>3, TooBigKept DEF EntryTypes, Accounted
<1>7. ent[a] # Blank
  BY <1>1 DEF Accounted
<1>8. \A b \in Addrs : ent'[b] # Blank <=> b \in db' \cup queued'
  BY <1>1, <1>3, <1>7 DEF Accounted
<1>9. \A b \in db' : b \in db /\ b # a /\ ent'[b] = ent[b]
  BY <1>3 DEF EntryTypes
<1>10. \A b \in Addrs : deadline'[b] # None => b \in db'
  BY <1>3 DEF Accounted
<1>11. db' \cap queued' = {}
  BY <1>3 DEF Accounted
<1>12. QED
  BY <1>5, <1>6, <1>8, <1>9, <1>10, <1>11 DEF Accounted

\* do_expire sets or removes the TTL of an entry in the map.
LEMMA ExpireEntryState ==
  ASSUME EntryState, NEW a \in db, NEW d \in Times \cup {None},
         deadline' = [deadline EXCEPT ![a] = d], UNCHANGED <<ent, db, queued>>
  PROVE  EntryState'
<1> USE DEF EntryState
<1>1. a \in Addrs
  BY DEF EntryTypes
<1>2. EntryTypes'
  BY <1>1 DEF EntryTypes
<1>3. \A b \in queued' : too_big(b)'
  BY TooBigKept DEF Accounted
<1>4. \A b \in Addrs : deadline'[b] # None => b \in db'
  BY <1>1 DEF EntryTypes, Accounted
<1>5. QED
  BY <1>2, <1>3, <1>4 DEF Accounted

\* A worker frees an entry it was given.
LEMMA AsyncEntryState ==
  ASSUME EntryState, NEW a \in Addrs, entry_del_async(a)
  PROVE  EntryState'
<1> USE DEF EntryState
<1>1. /\ a \in queued /\ a \notin db
      /\ ent' = [ent EXCEPT ![a] = Blank]
      /\ queued' = queued \ {a}
      /\ UNCHANGED <<db, deadline>>
  BY DEF entry_del_async, Accounted
<1>2. /\ \A b \in Addrs : b # a => ent'[b] = ent[b]
      /\ ent'[a] = Blank
      /\ ent' \in [Addrs -> [key : Keys \cup {NoKey}, value : Values]]
  BY <1>1, BlankType DEF EntryTypes
<1>3. EntryTypes'
  BY <1>1, <1>2 DEF EntryTypes
<1>4. \A b \in queued' : too_big(b)'
  BY <1>1, <1>2, TooBigKept DEF EntryTypes, Accounted
<1>5. \A b \in db' : b \in db /\ ent'[b] = ent[b]
  BY <1>1, <1>2 DEF EntryTypes
<1>6. \A b \in Addrs : ent'[b] # Blank <=> b \in db' \cup queued'
  BY <1>1, <1>2 DEF Accounted
<1>7. QED
  BY <1>1, <1>3, <1>4, <1>5, <1>6 DEF Accounted
-----------------------------------------------------------------------------
(* The commands *)

\* Every command is a handler: it leaves the clock and process_timers alone.
LEMMA HandlerTimerState ==
  ASSUME TimerState, NEW r, Handler(r)
  PROVE  TimerState'
BY DEF TimerState, TimerTypes, Handler, timers

LEMMA AnswerEntryState ==
  ASSUME EntryState, NEW r, Answer(r)
  PROVE  EntryState'
BY EntryStateKept DEF Answer

\* What the value of an entry in the map can be.
LEMMA ValueTypes ==
  ASSUME EntryState, NEW a \in db
  PROVE  /\ a \in Addrs
         /\ ent[a].value \in Values
         /\ Type(a) = "T_ZSET" => ent[a].value.zset \in ZSets(Names, Scores)
BY DEF EntryState, EntryTypes, Type, Values

LEMMA FoundInMap == \A k : Find(k) \subseteq db
BY DEF Find

LEMMA GetState ==
  ASSUME EntryState, TimerState, NEW k \in Keys, do_get(k)
  PROVE  EntryState' /\ TimerState'
BY AnswerEntryState, HandlerTimerState DEF do_get, Answer

LEMMA SetState ==
  ASSUME EntryState, TimerState, NEW k \in Keys, NEW v \in Vals, do_set(k, v)
  PROVE  EntryState' /\ TimerState'
<1>1. CASE Find(k) = {} /\ Insert(k, Str(v), out_nil)
  BY <1>1, InsertEntryState, HandlerTimerState, StrType DEF Insert
<1>2. CASE \E a \in Find(k) : \/ Type(a) # "T_STR" /\ Answer(out_err("ERR_TYPE"))
                              \/ Type(a) = "T_STR" /\ Store(a, Str(v), out_nil)
  <2>1. PICK a \in db : Answer(out_err("ERR_TYPE")) \/ Store(a, Str(v), out_nil)
    BY <1>2, FoundInMap
  <2>2. CASE Answer(out_err("ERR_TYPE"))
    BY <2>2, AnswerEntryState, HandlerTimerState DEF Answer
  <2>3. CASE Store(a, Str(v), out_nil)
    BY <2>3, StoreEntryState, HandlerTimerState, StrType DEF Store
  <2>4. QED
    BY <2>1, <2>2, <2>3
<1>3. QED
  BY <1>1, <1>2 DEF do_set

LEMMA ExpireState ==
  ASSUME EntryState, TimerState, NEW k \in Keys, NEW ttl \in Ttls, do_expire(k, ttl)
  PROVE  EntryState' /\ TimerState'
<1>1. CASE Answer(out_int(0))
  BY <1>1, AnswerEntryState, HandlerTimerState DEF Answer
<1>2. CASE \E a \in Find(k) :
             /\ Handler(out_int(1))
             /\ deadline' = [deadline EXCEPT ![a] = IF ttl < 0 THEN None ELSE Deadline(ttl)]
             /\ UNCHANGED <<ent, db, queued>>
  <2> DEFINE d == IF ttl < 0 THEN None ELSE Deadline(ttl)
  <2>1. PICK a \in db : /\ Handler(out_int(1))
                        /\ deadline' = [deadline EXCEPT ![a] = d]
                        /\ UNCHANGED <<ent, db, queued>>
    BY <1>2, FoundInMap
  <2>2. clock \in Nat
    BY KeySpaceAssumption DEF TimerState, TimerTypes
  <2>3. d \in Times \cup {None}
    BY <2>2, DeadlineIsTime
  <2> HIDE DEF d
  <2>4. EntryState'
    BY <2>1, <2>3, ExpireEntryState
  <2>5. QED
    BY <2>1, <2>4, HandlerTimerState
<1>3. QED
  BY <1>1, <1>2 DEF do_expire

LEMMA TtlState ==
  ASSUME EntryState, TimerState, NEW k \in Keys, do_ttl(k)
  PROVE  EntryState' /\ TimerState'
BY AnswerEntryState, HandlerTimerState DEF do_ttl, Answer

LEMMA DelState ==
  ASSUME EntryState, TimerState, NEW k \in Keys, do_del(k)
  PROVE  EntryState' /\ TimerState'
<1>1. CASE Answer(out_int(0))
  BY <1>1, AnswerEntryState, HandlerTimerState DEF Answer
<1>2. CASE \E a \in Find(k) : Handler(out_int(1)) /\ db' = db \ {a} /\ entry_del(a)
  <2>1. PICK a \in db : Handler(out_int(1)) /\ db' = db \ {a} /\ entry_del(a)
    BY <1>2, FoundInMap
  <2>2. QED
    BY <2>1, DelEntryState, HandlerTimerState
<1>3. QED
  BY <1>1, <1>2 DEF do_del

LEMMA ZAddState ==
  ASSUME EntryState, TimerState, NEW k \in Keys, NEW n \in Names, NEW s \in Scores,
         do_zadd(k, n, s)
  PROVE  EntryState' /\ TimerState'
<1>1. CASE Find(k) = {} /\ Insert(k, ZSet(PutTuple(NoTuples, n, s)), out_int(1))
  BY <1>1, InsertEntryState, HandlerTimerState, ZSetType, NoTuplesType, PutTupleType DEF Insert
<1>2. CASE Answer(out_err("ERR_TYPE"))
  BY <1>2, AnswerEntryState, HandlerTimerState DEF Answer
<1>3. ASSUME NEW a \in Find(k), Type(a) = "T_ZSET", NEW r,
             Store(a, ZSet(PutTuple(ent[a].value.zset, n, s)), r)
      PROVE  EntryState' /\ TimerState'
  <2>1. a \in db
    BY FoundInMap
  <2>2. ZSet(PutTuple(ent[a].value.zset, n, s)) \in Values
    BY <1>3, <2>1, ValueTypes, ZSetType, PutTupleType
  <2>3. QED
    BY <1>3, <2>1, <2>2, StoreEntryState, HandlerTimerState DEF Store
<1>4. QED
  BY <1>1, <1>2, <1>3 DEF do_zadd

LEMMA ZRemState ==
  ASSUME EntryState, TimerState, NEW k \in Keys, NEW n \in Names, do_zrem(k, n)
  PROVE  EntryState' /\ TimerState'
<1>1. CASE \E r : Answer(r)
  BY <1>1, AnswerEntryState, HandlerTimerState DEF Answer
<1>2. ASSUME NEW a \in Find(k), Type(a) = "T_ZSET", NEW r,
             Store(a, ZSet(DropTuple(ent[a].value.zset, n)), r)
      PROVE  EntryState' /\ TimerState'
  <2>1. a \in db
    BY FoundInMap
  <2>2. ZSet(DropTuple(ent[a].value.zset, n)) \in Values
    BY <1>2, <2>1, ValueTypes, ZSetType, DropTupleType
  <2>3. QED
    BY <1>2, <2>1, <2>2, StoreEntryState, HandlerTimerState DEF Store
<1>3. QED
  BY <1>1, <1>2 DEF do_zrem

LEMMA ZScoreState ==
  ASSUME EntryState, TimerState, NEW k \in Keys, NEW n \in Names, do_zscore(k, n)
  PROVE  EntryState' /\ TimerState'
BY AnswerEntryState, HandlerTimerState DEF do_zscore, Answer

LEMMA ZQueryState ==
  ASSUME EntryState, TimerState, NEW k \in Keys, NEW q \in Queries, do_zquery(k, q)
  PROVE  EntryState' /\ TimerState'
BY AnswerEntryState, HandlerTimerState DEF do_zquery, Answer

LEMMA RequestState ==
  ASSUME EntryState, TimerState, do_request
  PROVE  EntryState' /\ TimerState'
<1>1. CASE do_keys \/ bad_arg \/ unknown_cmd
  BY <1>1, AnswerEntryState, HandlerTimerState DEF do_keys, bad_arg, unknown_cmd, Answer
<1>2. CASE \E k \in Keys :
             \/ do_get(k) \/ do_del(k) \/ do_ttl(k)
             \/ \E v \in Vals : do_set(k, v)
             \/ \E ttl \in Ttls : do_expire(k, ttl)
             \/ \E n \in Names : do_zrem(k, n) \/ do_zscore(k, n)
             \/ \E n \in Names, s \in Scores : do_zadd(k, n, s)
             \/ \E q \in Queries : do_zquery(k, q)
  BY <1>2, GetState, DelState, TtlState, SetState, ExpireState, ZAddState, ZRemState,
     ZScoreState, ZQueryState
<1>3. QED
  BY <1>1, <1>2 DEF do_request
-----------------------------------------------------------------------------
(* process_timers *)

LEMMA ProcessTimersState ==
  ASSUME EntryState, TimerState, process_timers
  PROVE  EntryState' /\ TimerState'
<1>1. clock + USEC \in Times
  BY KeySpaceAssumption DEF TimerState, TimerTypes, Times
<1>2. 0 \in 0..k_max_works
  BY KeySpaceAssumption
<1>3. TimerState'
  BY <1>1, <1>2 DEF process_timers, TimerState, TimerTypes
<1>4. QED
  BY <1>3, EntryStateKept DEF process_timers

LEMMA ReturnTimerState ==
  ASSUME TimerState, Return, UNCHANGED clock
  PROVE  TimerState'
<1>1. 0 \in Times /\ 0 \in 0..k_max_works
  BY KeySpaceAssumption DEF Times
<1>2. QED
  BY <1>1 DEF TimerState, TimerTypes, Return

LEMMA ExpireTopState ==
  ASSUME EntryState, TimerState, NEW a \in Addrs, ExpireTop(a)
  PROVE  EntryState' /\ TimerState'
<1>1. a \in db
  BY DEF EntryState, Accounted, ExpireTop, Top
<1>2. /\ db' = db \ {a}
      /\ entry_del(a)
      /\ UNCHANGED clock
      /\ \/ Return
         \/ nworks < k_max_works /\ nworks' = nworks + 1 /\ UNCHANGED <<pc, now_us>>
  BY <1>1 DEF ExpireTop
<1>3. EntryState'
  BY <1>1, <1>2, DelEntryState
<1>4. CASE Return
  BY <1>2, <1>3, <1>4, ReturnTimerState
<1>5. CASE nworks < k_max_works /\ nworks' = nworks + 1 /\ UNCHANGED <<pc, now_us>>
  <2>1. nworks' \in 0..k_max_works
    BY <1>5, KeySpaceAssumption DEF TimerState, TimerTypes
  <2>2. QED
    BY <1>2, <1>3, <1>5, <2>1 DEF TimerState, TimerTypes
<1>6. QED
  BY <1>2, <1>4, <1>5

LEMMA NoneDueState ==
  ASSUME EntryState, TimerState, NoneDue
  PROVE  EntryState' /\ TimerState'
BY EntryStateKept, ReturnTimerState DEF NoneDue

LEMMA AsyncState ==
  ASSUME EntryState, TimerState, NEW a \in Addrs, entry_del_async(a)
  PROVE  EntryState' /\ TimerState'
<1>1. TimerState'
  BY DEF entry_del_async, timers, TimerState, TimerTypes
<1>2. QED
  BY <1>1, AsyncEntryState

LEMMA TickState ==
  ASSUME EntryState, TimerState, Tick
  PROVE  EntryState' /\ TimerState'
<1>1. clock' \in 0..MaxClock
  BY KeySpaceAssumption DEF Tick, TimerState, TimerTypes
<1>2. TimerState'
  BY <1>1 DEF Tick, timers, TimerState, TimerTypes
<1>3. QED
  BY <1>2, EntryStateKept DEF Tick
-----------------------------------------------------------------------------
LEMMA InitState == Init => EntryState /\ TimerState
<1> SUFFICES ASSUME Init PROVE EntryState /\ TimerState
  OBVIOUS
<1>1. 0 \in 0..MaxClock /\ 0 \in Times /\ 0 \in 0..k_max_works
  BY KeySpaceAssumption DEF Times
<1>2. TimerState
  BY <1>1 DEF Init, TimerState, TimerTypes
<1>3. EntryState
  BY BlankType DEF Init, EntryState, EntryTypes, Accounted
<1>4. QED
  BY <1>2, <1>3

LEMMA NextState == EntryState /\ TimerState /\ [Next]_vars => EntryState' /\ TimerState'
<1> SUFFICES ASSUME EntryState, TimerState, [Next]_vars
             PROVE  EntryState' /\ TimerState'
  OBVIOUS
<1>1. CASE do_request
  BY <1>1, RequestState
<1>2. CASE process_timers \/ TimerStep
  BY <1>2, ProcessTimersState, NoneDueState, ExpireTopState DEF TimerStep
<1>3. CASE \E a \in Addrs : entry_del_async(a)
  BY <1>3, AsyncState
<1>4. CASE Tick
  BY <1>4, TickState
<1>5. CASE UNCHANGED vars
  <2>1. TimerState'
    BY <1>5 DEF vars, timers, TimerState, TimerTypes
  <2>2. QED
    BY <1>5, <2>1, EntryStateKept DEF vars
<1>6. QED
  BY <1>1, <1>2, <1>3, <1>4, <1>5 DEF Next

\* The types and the ownership of entries are inductive together.
THEOREM StateHolds == Spec => [](EntryState /\ TimerState)
BY InitState, NextState, PTL DEF Spec

\* Deadlines and the times process_timers goes by fit their uint64_t, whatever
\* TTLs clients send (entry_set_ttl, server.cpp:359).
THEOREM TypeOKHolds == Spec => []TypeOK
BY StateHolds, StateParts, PTL

\* Every entry is in the map, with the pool or free, and only what is in the map
\* has a TTL: the assertion of process_timers (server.cpp:896) never fails.
THEOREM EntriesAccountedHolds == Spec => []EntriesAccounted
BY StateHolds, StateParts, PTL
\* The main thread never touches an entry that is with the pool.
THEOREM HandedOverHolds == Spec => HandedOver
<1> DEFINE Untouched == \A a \in queued : \/ ent'[a] = ent[a]
                                          \/ a \notin queued' /\ ent'[a] = Blank
<1>1. EntryState /\ [Next]_vars => Untouched
  <2> SUFFICES ASSUME EntryState, [Next]_vars PROVE Untouched
    OBVIOUS
  <2>1. /\ \A a \in queued : a \in Addrs /\ a \notin db /\ ent[a] # Blank
        /\ ent \in [Addrs -> [key : Keys \cup {NoKey}, value : Values]]
    BY DEF EntryState, EntryTypes, Accounted
  <2>2. ASSUME UNCHANGED ent PROVE Untouched
    BY <2>2
  <2>3. ASSUME NEW a \in db, NEW x, NEW r, Store(a, x, r) PROVE Untouched
    BY <2>1, <2>3 DEF Store
  <2>4. ASSUME NEW k, NEW x, NEW r, Insert(k, x, r) PROVE Untouched
    BY <2>1, <2>4 DEF Insert
  <2>5. ASSUME NEW a \in db, entry_del(a) PROVE Untouched
    BY <2>1, <2>5 DEF entry_del
  <2>6. ASSUME NEW r, Answer(r) PROVE Untouched
    BY <2>2, <2>6 DEF Answer
  <2>7. ASSUME NEW a \in Addrs, entry_del_async(a) PROVE Untouched
    BY <2>1, <2>7 DEF entry_del_async
  <2>8. CASE do_request
    <3>1. ASSUME NEW k \in Keys, do_get(k) \/ do_del(k) \/ do_ttl(k) PROVE Untouched
      BY <3>1, <2>5, <2>6, FoundInMap DEF do_get, do_del, do_ttl
    <3>2. ASSUME NEW k \in Keys, NEW v \in Vals, do_set(k, v) PROVE Untouched
      BY <3>2, <2>3, <2>4, <2>6, FoundInMap DEF do_set
    <3>3. ASSUME NEW k \in Keys, NEW ttl \in Ttls, do_expire(k, ttl) PROVE Untouched
      BY <3>3, <2>2, <2>6 DEF do_expire
    <3>4. ASSUME NEW k \in Keys, NEW n \in Names, do_zrem(k, n) \/ do_zscore(k, n)
          PROVE  Untouched
      BY <3>4, <2>3, <2>6, FoundInMap DEF do_zrem, do_zscore
    <3>5. ASSUME NEW k \in Keys, NEW n \in Names, NEW s \in Scores, do_zadd(k, n, s)
          PROVE  Untouched
      BY <3>5, <2>3, <2>4, <2>6, FoundInMap DEF do_zadd
    <3>6. ASSUME NEW k \in Keys, NEW q \in Queries, do_zquery(k, q)
          PROVE  Untouched
      BY <3>6, <2>6 DEF do_zquery
    <3>7. CASE do_keys \/ bad_arg \/ unknown_cmd
      BY <3>7, <2>6 DEF do_keys, bad_arg, unknown_cmd
    <3>8. QED
      BY <2>8, <3>1, <3>2, <3>3, <3>4, <3>5, <3>6, <3>7 DEF do_request
  <2>9. CASE process_timers \/ TimerStep
    <3>1. ASSUME NEW a \in Addrs, ExpireTop(a) PROVE Untouched
      BY <3>1, <2>2, <2>5 DEF ExpireTop
    <3>2. CASE process_timers \/ NoneDue
      BY <3>2, <2>2 DEF process_timers, NoneDue
    <3>3. QED
      BY <2>9, <3>1, <3>2 DEF TimerStep
  <2>10. CASE Tick \/ UNCHANGED vars
    BY <2>10, <2>2 DEF Tick, vars
  <2>11. QED
    BY <2>7, <2>8, <2>9, <2>10 DEF Next
<1>2. EntryState /\ [Next]_vars =>
        [\A a \in queued : ent'[a] = ent[a] \/ (a \notin queued' /\ ent'[a] = Blank)]_vars
  BY <1>1
<1>3. QED
  BY <1>2, StateHolds, PTL DEF Spec, HandedOver

\* Of the entries with a deadline one has the nearest.
LEMMA NearestExists ==
  ASSUME EntryState, NEW a \in Addrs, deadline[a] # None
  PROVE  \E b \in Addrs : Top(b) /\ deadline[b] <= deadline[a]
<1> DEFINE D == {deadline[b] : b \in {c \in Addrs : deadline[c] # None}}
<1>1. D \subseteq Nat /\ deadline[a] \in D
  BY DEF EntryState, EntryTypes, Times
<1>2. PICK d \in D : \A x \in D : ~(<<x, d>> \in OpToRel(<, Nat))
  BY <1>1, WFMin, NatLessThanWellFounded, Zenon
<1>3. \A x \in D : ~(x < d)
  <2>1. ASSUME NEW x \in D, x < d PROVE <<x, d>> \in OpToRel(<, Nat)
    BY <2>1, <1>1, <1>2, Zenon DEF OpToRel
  <2>2. QED
    BY <1>2, <2>1
<1>4. PICK b \in Addrs : deadline[b] # None /\ deadline[b] = d
  BY <1>2
<1>5. \A x \in D : x \in Nat /\ d \in Nat /\ d <= x
  <2>1. ASSUME NEW x \in Nat, d \in Nat, ~(x < d) PROVE d <= x
    BY <2>1
  <2>2. d \in Nat /\ \A x \in D : x \in Nat
    BY <1>1, <1>2, Zenon
  <2>3. QED
    BY <1>3, <2>1, <2>2, Zenon
<1>6. \A c \in Addrs : deadline[c] # None => deadline[b] <= deadline[c]
  BY <1>4, <1>5
<1>7. QED
  BY <1>4, <1>6 DEF Top

\* process_timers leaves nothing that was due, or has done all it may do at once.
THEOREM TimersKeepUpHolds == Spec => TimersKeepUp
<1> DEFINE KeptUp == \/ nworks >= k_max_works
                     \/ \A a \in Addrs : deadline'[a] # None => deadline'[a] >= now_us
<1>1. EntryState /\ TimerState /\ [Next]_vars => (pc = "timers" /\ pc' = "io" => KeptUp)
  <2> SUFFICES ASSUME EntryState, TimerState, [Next]_vars, pc = "timers", pc' = "io"
               PROVE  KeptUp
    OBVIOUS
  <2>1. CASE NoneDue
    <3> SUFFICES ASSUME NEW a \in Addrs, deadline'[a] # None PROVE deadline'[a] >= now_us
      OBVIOUS
    <3>1. deadline[a] # None /\ deadline'[a] = deadline[a]
      BY <2>1 DEF NoneDue
    <3>2. PICK b \in Addrs : Top(b) /\ deadline[b] <= deadline[a]
      BY <3>1, NearestExists
    <3>3. ~(deadline[b] < now_us)
      BY <2>1, <3>2 DEF NoneDue
    <3>4. deadline[a] \in Nat /\ deadline[b] \in Nat /\ now_us \in Nat
      BY <3>1, <3>2 DEF EntryState, EntryTypes, TimerState, TimerTypes, Times, Top
    <3>5. QED
      BY <3>1, <3>2, <3>3, <3>4
  <2>2. ASSUME NEW a \in Addrs, ExpireTop(a) PROVE KeptUp
    BY <2>2 DEF ExpireTop
  <2>3. ASSUME NEW r, Handler(r) PROVE FALSE
    BY <2>3 DEF Handler
  <2>4. CASE do_request
    BY <2>3, <2>4 DEF do_request, do_get, do_set, do_expire, do_ttl, do_del, do_keys, do_zadd,
       do_zrem, do_zscore, do_zquery, bad_arg, unknown_cmd, Answer, Store, Insert
  <2>5. CASE process_timers \/ Tick \/ UNCHANGED vars \/ \E a \in Addrs : entry_del_async(a)
    BY <2>5 DEF process_timers, Tick, entry_del_async, vars, timers
  <2>6. QED
    BY <2>1, <2>2, <2>4, <2>5 DEF Next, TimerStep
<1>2. EntryState /\ TimerState /\ [Next]_vars =>
        [pc = "timers" /\ pc' = "io" =>
           \/ nworks >= k_max_works
           \/ \A a \in Addrs : deadline'[a] # None => deadline'[a] >= now_us]_vars
  BY <1>1
<1>3. QED
  BY <1>2, StateHolds, PTL DEF Spec, TimersKeepUp
-----------------------------------------------------------------------------
(* KeySpace implements KVStore: each command of the server is the store's      *)
(* command, each key that process_timers deletes is one that expires, and      *)
(* nothing else shows.                                                         *)

\* What entries e, a map d of them and deadlines h say of a key.
AtKey(e, d, k) == {a \in d : e[a].key = k}
ValueIn(e, d, k) == IF AtKey(e, d, k) = {} THEN Nil
                    ELSE e[CHOOSE a \in AtKey(e, d, k) : TRUE].value
ExpiryIn(e, d, h, k) == IF AtKey(e, d, k) = {} THEN None
                        ELSE h[CHOOSE a \in AtKey(e, d, k) : TRUE]

\* The mapped state, before and after a step.
MStore == [k \in Keys |-> ValueOf(k)]
MExpiry == [k \in Keys |-> ExpiryOf(k)]

LEMMA MappedIs == /\ MStore = [k \in Keys |-> ValueIn(ent, db, k)]
                  /\ MExpiry = [k \in Keys |-> ExpiryIn(ent, db, deadline, k)]
BY DEF MStore, MExpiry, ValueOf, ExpiryOf, Find, AtKey, ValueIn, ExpiryIn

LEMMA MappedBecomes == /\ MStore' = [k \in Keys |-> ValueIn(ent', db', k)]
                       /\ MExpiry' = [k \in Keys |-> ExpiryIn(ent', db', deadline', k)]
BY DEF MStore, MExpiry, ValueOf, ExpiryOf, Find, AtKey, ValueIn, ExpiryIn

\* A key with one entry has its value and its deadline.
LEMMA OneAt ==
  ASSUME NEW e, NEW d, NEW k, NEW a, AtKey(e, d, k) = {a}
  PROVE  /\ ValueIn(e, d, k) = e[a].value
         /\ \A h : ExpiryIn(e, d, h, k) = h[a]
BY DEF ValueIn, ExpiryIn

LEMMA NoneAt ==
  ASSUME NEW e, NEW d, NEW h, NEW k, AtKey(e, d, k) = {}
  PROVE  ValueIn(e, d, k) = Nil /\ ExpiryIn(e, d, h, k) = None
BY DEF ValueIn, ExpiryIn

\* A key whose entries are left alone keeps what it has.
LEMMA SameAt ==
  ASSUME NEW e, NEW d, NEW h, NEW f, NEW c, NEW g, NEW k,
         AtKey(f, c, k) = AtKey(e, d, k),
         \A a \in AtKey(e, d, k) : f[a].value = e[a].value /\ g[a] = h[a]
  PROVE  ValueIn(f, c, k) = ValueIn(e, d, k) /\ ExpiryIn(f, c, g, k) = ExpiryIn(e, d, h, k)
<1>1. CASE AtKey(e, d, k) = {}
  BY <1>1 DEF ValueIn, ExpiryIn
<1>2. CASE AtKey(e, d, k) # {}
  <2>1. PICK a \in AtKey(e, d, k) : a = CHOOSE b \in AtKey(e, d, k) : TRUE
    BY <1>2
  <2>2. QED
    BY <1>2, <2>1 DEF ValueIn, ExpiryIn
<1>3. QED
  BY <1>1, <1>2

\* The entry that a lookup finds is the only one under its key.
LEMMA FoundAlone ==
  ASSUME EntryState, NEW k, NEW a \in Find(k)
  PROVE  a \in db /\ ent[a].key = k /\ AtKey(ent, db, k) = {a}
BY DEF Find, AtKey, EntryState, Accounted

LEMMA Found ==
  ASSUME EntryState, NEW k \in Keys, NEW a \in Find(k)
  PROVE  /\ a \in db /\ a \in Addrs /\ ent[a].key = k
         /\ MStore[k] = ent[a].value
         /\ MExpiry[k] = deadline[a]
         /\ MStore[k] # Nil
         /\ MStore[k].type \in {"T_STR", "T_ZSET"}
<1>1. a \in db /\ ent[a].key = k /\ MStore[k] = ent[a].value /\ MExpiry[k] = deadline[a]
  <2>1. a \in db /\ ent[a].key = k /\ AtKey(ent, db, k) = {a}
    BY FoundAlone
  <2>2. ValueIn(ent, db, k) = ent[a].value /\ ExpiryIn(ent, db, deadline, k) = deadline[a]
    BY <2>1, OneAt
  <2>3. MStore[k] = ValueIn(ent, db, k) /\ MExpiry[k] = ExpiryIn(ent, db, deadline, k)
    BY MappedIs
  <2>4. QED
    BY <2>1, <2>2, <2>3
<1>2. a \in Addrs /\ ent[a].value \in Values
  BY <1>1, ValueTypes
<1>3. MStore[k] # Nil
  BY <1>1, <1>2, NilAssumption
<1>4. MStore[k].type \in {"T_STR", "T_ZSET"}
  BY <1>1, <1>2 DEF Values
<1>5. QED
  BY <1>1, <1>2, <1>3, <1>4

LEMMA NotFound ==
  ASSUME NEW k \in Keys, Find(k) = {}
  PROVE  MStore[k] = Nil /\ MExpiry[k] = None
<1>1. AtKey(ent, db, k) = {}
  BY DEF Find, AtKey
<1>2. QED
  BY <1>1, NoneAt, MappedIs

LEMMA FindOrNil ==
  ASSUME EntryState, NEW k \in Keys
  PROVE  MStore[k] = Nil <=> Find(k) = {}
BY Found, NotFound
-----------------------------------------------------------------------------
(* What the steps do to the mapped state *)

LEMMA KeptMaps ==
  UNCHANGED <<ent, db, deadline>> => MStore' = MStore /\ MExpiry' = MExpiry
BY MappedIs, MappedBecomes

\* A function of keys that changes at one key only.
LEMMA ChangeAtKey ==
  ASSUME NEW f, NEW g, f = [j \in Keys |-> f[j]], g = [j \in Keys |-> g[j]],
         NEW k \in Keys, NEW x, g[k] = x, \A j \in Keys : j # k => g[j] = f[j]
  PROVE  g = [f EXCEPT ![k] = x]
OBVIOUS

LEMMA MappedFunctions ==
  /\ MStore = [j \in Keys |-> MStore[j]]
  /\ MExpiry = [j \in Keys |-> MExpiry[j]]
  /\ MStore' = [j \in Keys |-> (MStore')[j]]
  /\ MExpiry' = [j \in Keys |-> (MExpiry')[j]]
BY DEF MStore, MExpiry

\* A key no entry of which is touched.
LEMMA OtherKey ==
  ASSUME NEW j \in Keys,
         AtKey(ent', db', j) = AtKey(ent, db, j),
         \A a \in AtKey(ent, db, j) : /\ ent'[a].value = ent[a].value
                                      /\ deadline'[a] = deadline[a]
  PROVE  (MStore')[j] = MStore[j] /\ (MExpiry')[j] = MExpiry[j]
<1>1. /\ ValueIn(ent', db', j) = ValueIn(ent, db, j)
      /\ ExpiryIn(ent', db', deadline', j) = ExpiryIn(ent, db, deadline, j)
  BY SameAt
<1>2. /\ MStore[j] = ValueIn(ent, db, j)
      /\ MExpiry[j] = ExpiryIn(ent, db, deadline, j)
  BY MappedIs
<1>3. /\ (MStore')[j] = ValueIn(ent', db', j)
      /\ (MExpiry')[j] = ExpiryIn(ent', db', deadline', j)
  BY MappedBecomes
<1>4. QED
  BY <1>1, <1>2, <1>3

LEMMA StoreMaps ==
  ASSUME EntryState, NEW k \in Keys, NEW a \in Find(k), NEW x, NEW r, Store(a, x, r)
  PROVE  MStore' = [MStore EXCEPT ![k] = x] /\ MExpiry' = MExpiry
<1>1. a \in db /\ a \in Addrs /\ ent[a].key = k /\ AtKey(ent, db, k) = {a}
  BY FoundAlone DEF EntryState, EntryTypes
<1>2. /\ \A b \in Addrs : b # a => ent'[b] = ent[b]
      /\ ent'[a].key = k /\ ent'[a].value = x
      /\ UNCHANGED <<db, deadline>> /\ db \subseteq Addrs
  BY <1>1 DEF Store, EntryState, EntryTypes
<1>3. \A j : AtKey(ent', db', j) = AtKey(ent, db, j)
  BY <1>1, <1>2 DEF AtKey
<1>4. \A j \in Keys : j # k => (MStore')[j] = MStore[j] /\ (MExpiry')[j] = MExpiry[j]
  <2> SUFFICES ASSUME NEW j \in Keys, j # k
               PROVE  (MStore')[j] = MStore[j] /\ (MExpiry')[j] = MExpiry[j]
    OBVIOUS
  <2>1. \A b \in AtKey(ent, db, j) : ent'[b] = ent[b] /\ deadline'[b] = deadline[b]
    BY <1>1, <1>2 DEF AtKey
  <2>2. QED
    BY <1>3, <2>1, OtherKey
<1>5. (MStore')[k] = x /\ (MExpiry')[k] = MExpiry[k]
  <2>1. ValueIn(ent', db', k) = x /\ ExpiryIn(ent', db', deadline', k) = deadline[a]
    BY <1>1, <1>2, <1>3, OneAt
  <2>2. (MStore')[k] = ValueIn(ent', db', k) /\ (MExpiry')[k] = ExpiryIn(ent', db', deadline', k)
    BY MappedBecomes
  <2>3. QED
    BY <2>1, <2>2, Found
<1>6. MStore' = [MStore EXCEPT ![k] = x]
  BY <1>4, <1>5, MappedFunctions, ChangeAtKey
<1>7. MExpiry' = MExpiry
  BY <1>4, <1>5, MappedFunctions
<1>8. QED
  BY <1>6, <1>7

LEMMA InsertMaps ==
  ASSUME EntryState, NEW k \in Keys, Find(k) = {}, NEW x, NEW r, Insert(k, x, r)
  PROVE  MStore' = [MStore EXCEPT ![k] = x] /\ MExpiry' = MExpiry
<1>1. PICK a \in Addrs : /\ ent[a] = Blank
                         /\ ent' = [ent EXCEPT ![a] = NewEntry(k, x)]
                         /\ db' = db \cup {a}
  BY DEF Insert
<1>2. /\ a \notin db /\ deadline[a] = None /\ db \subseteq Addrs
      /\ deadline' = deadline
  BY <1>1 DEF Insert, EntryState, EntryTypes, Accounted
<1>3. /\ \A b \in db : ent'[b] = ent[b]
      /\ ent'[a].key = k /\ ent'[a].value = x
  BY <1>1, <1>2 DEF EntryState, EntryTypes, NewEntry
<1>4. AtKey(ent, db, k) = {} /\ AtKey(ent', db', k) = {a}
  BY <1>1, <1>2, <1>3 DEF AtKey, Find
<1>5. \A j \in Keys : j # k => (MStore')[j] = MStore[j] /\ (MExpiry')[j] = MExpiry[j]
  <2> SUFFICES ASSUME NEW j \in Keys, j # k
               PROVE  (MStore')[j] = MStore[j] /\ (MExpiry')[j] = MExpiry[j]
    OBVIOUS
  <2>1. AtKey(ent', db', j) = AtKey(ent, db, j)
    BY <1>1, <1>2, <1>3 DEF AtKey
  <2>2. \A b \in AtKey(ent, db, j) : ent'[b] = ent[b] /\ deadline'[b] = deadline[b]
    BY <1>2, <1>3 DEF AtKey
  <2>3. QED
    BY <2>1, <2>2, OtherKey
<1>6. (MStore')[k] = x /\ (MExpiry')[k] = MExpiry[k]
  <2>1. ValueIn(ent', db', k) = x /\ ExpiryIn(ent', db', deadline', k) = None
    BY <1>2, <1>3, <1>4, OneAt
  <2>2. (MStore')[k] = ValueIn(ent', db', k) /\ (MExpiry')[k] = ExpiryIn(ent', db', deadline', k)
    BY MappedBecomes
  <2>3. QED
    BY <2>1, <2>2, NotFound
<1>7. MStore' = [MStore EXCEPT ![k] = x]
  BY <1>5, <1>6, MappedFunctions, ChangeAtKey
<1>8. MExpiry' = MExpiry
  BY <1>5, <1>6, MappedFunctions
<1>9. QED
  BY <1>7, <1>8

\* An entry that leaves the map takes its value and its deadline from its key.
LEMMA DelMaps ==
  ASSUME EntryState, NEW k \in Keys, NEW a \in Find(k), db' = db \ {a}, entry_del(a)
  PROVE  MStore' = [MStore EXCEPT ![k] = Nil] /\ MExpiry' = [MExpiry EXCEPT ![k] = None]
<1>1. a \in db /\ a \in Addrs /\ ent[a].key = k /\ AtKey(ent, db, k) = {a}
  BY FoundAlone DEF EntryState, EntryTypes
<1>2. \A b \in db : b # a => ent'[b] = ent[b] /\ deadline'[b] = deadline[b]
  BY <1>1 DEF entry_del, EntryState, EntryTypes
<1>3. AtKey(ent', db', k) = {}
  BY <1>1, <1>2 DEF AtKey
<1>4. \A j \in Keys : j # k => (MStore')[j] = MStore[j] /\ (MExpiry')[j] = MExpiry[j]
  <2> SUFFICES ASSUME NEW j \in Keys, j # k
               PROVE  (MStore')[j] = MStore[j] /\ (MExpiry')[j] = MExpiry[j]
    OBVIOUS
  <2>1. AtKey(ent', db', j) = AtKey(ent, db, j)
    BY <1>1, <1>2 DEF AtKey
  <2>2. \A b \in AtKey(ent, db, j) : ent'[b] = ent[b] /\ deadline'[b] = deadline[b]
    BY <1>1, <1>2 DEF AtKey
  <2>3. QED
    BY <2>1, <2>2, OtherKey
<1>5. (MStore')[k] = Nil /\ (MExpiry')[k] = None
  <2>1. ValueIn(ent', db', k) = Nil /\ ExpiryIn(ent', db', deadline', k) = None
    BY <1>3, NoneAt
  <2>2. QED
    BY <2>1, MappedBecomes
<1>6. QED
  BY <1>4, <1>5, MappedFunctions, ChangeAtKey

\* A new deadline is the key's.
LEMMA ExpireMaps ==
  ASSUME EntryState, NEW k \in Keys, NEW a \in Find(k), NEW x,
         deadline' = [deadline EXCEPT ![a] = x], ent' = ent, db' = db
  PROVE  MStore' = MStore /\ MExpiry' = [MExpiry EXCEPT ![k] = x]
<1>1. a \in db /\ a \in Addrs /\ ent[a].key = k /\ AtKey(ent, db, k) = {a}
  BY FoundAlone DEF EntryState, EntryTypes
<1>2. \A b \in db : b # a => deadline'[b] = deadline[b]
  BY <1>1 DEF EntryState, EntryTypes
<1>3. deadline'[a] = x
  BY <1>1 DEF EntryState, EntryTypes
<1>4. \A j \in Keys : j # k => (MStore')[j] = MStore[j] /\ (MExpiry')[j] = MExpiry[j]
  <2> SUFFICES ASSUME NEW j \in Keys, j # k
               PROVE  (MStore')[j] = MStore[j] /\ (MExpiry')[j] = MExpiry[j]
    OBVIOUS
  <2>1. \A b \in AtKey(ent, db, j) : deadline'[b] = deadline[b]
    BY <1>1, <1>2 DEF AtKey
  <2>2. QED
    BY <2>1, OtherKey
<1>5. (MStore')[k] = MStore[k] /\ (MExpiry')[k] = x
  <2>1. ValueIn(ent', db', k) = ent[a].value
    <3>1. AtKey(ent', db', k) = {a} /\ ent' = ent
      BY <1>1 DEF AtKey
    <3>2. ValueIn(ent', db', k) = ent'[a].value
      BY <3>1 DEF ValueIn
    <3>3. QED
      BY <3>1, <3>2
  <2>3. ExpiryIn(ent', db', deadline', k) = x
    <3>1. AtKey(ent', db', k) = {a}
      BY <1>1 DEF AtKey
    <3>2. \A h : ExpiryIn(ent', db', h, k) = h[a]
      BY <3>1 DEF ExpiryIn
    <3>3. QED
      BY <1>3, <3>2
  <2>2. (MStore')[k] = ValueIn(ent', db', k) /\ (MExpiry')[k] = ExpiryIn(ent', db', deadline', k)
    BY MappedBecomes
  <2>4. QED
    BY <2>1, <2>2, <2>3, Found
<1>6. MExpiry' = [MExpiry EXCEPT ![k] = x]
  BY <1>4, <1>5, MappedFunctions, ChangeAtKey
<1>7. MStore' = MStore
  BY <1>4, <1>5, MappedFunctions
<1>8. QED
  BY <1>6, <1>7

\* What a worker frees is under no key.
LEMMA AsyncMaps ==
  ASSUME EntryState, NEW a \in Addrs, entry_del_async(a)
  PROVE  MStore' = MStore /\ MExpiry' = MExpiry
<1>1. /\ \A b \in db : ent'[b] = ent[b]
      /\ UNCHANGED <<db, deadline>>
  BY DEF entry_del_async, EntryState, EntryTypes, Accounted
<1>2. \A j \in Keys : (MStore')[j] = MStore[j] /\ (MExpiry')[j] = MExpiry[j]
  <2> SUFFICES ASSUME NEW j \in Keys
               PROVE  (MStore')[j] = MStore[j] /\ (MExpiry')[j] = MExpiry[j]
    OBVIOUS
  <2>1. /\ AtKey(ent', db', j) = AtKey(ent, db, j)
        /\ \A b \in AtKey(ent, db, j) : ent'[b] = ent[b] /\ deadline'[b] = deadline[b]
    BY <1>1 DEF AtKey
  <2>2. QED
    BY <2>1, OtherKey
<1>3. QED
  BY <1>2, MappedFunctions
-----------------------------------------------------------------------------
(* Each command is the store's *)

\* The replies of the two modules are the same.
LEMMA SameReplies ==
  /\ KV!out_nil = out_nil
  /\ \A x : /\ KV!out_err(x) = out_err(x) /\ KV!out_str(x) = out_str(x)
           /\ KV!out_int(x) = out_int(x) /\ KV!out_dbl(x) = out_dbl(x)
           /\ KV!out_arr(x) = out_arr(x) /\ KV!out_tuples(x) = out_tuples(x)
BY DEF out_nil, out_err, out_str, out_int, out_dbl, out_arr, out_tuples, KV!out_nil,
   KV!out_err, KV!out_str, KV!out_int, KV!out_dbl, KV!out_arr, KV!out_tuples

\* So are the sorted sets.
LEMMA SameTuples ==
  /\ KV!NoTuples = NoTuples
  /\ \A z, n, s : KV!PutTuple(z, n, s) = PutTuple(z, n, s)
  /\ \A z, n : KV!DropTuple(z, n) = DropTuple(z, n)
  /\ \A z, s, n, i, j : KV!QueryTuples(z, s, n, i, j) = QueryTuples(z, s, n, i, j)
<1>1. \A s, m, t, n : KV!zless(s, m, t, n) = zless(s, m, t, n)
  BY DEF zless, KV!zless
<1>7. \A S : KV!Cardinality(S) = Cardinality(S)
  BY Zenon DEF Cardinality, KV!Cardinality
<1>8. \A z, s, n : KV!Preceding(z, s, n) = Preceding(z, s, n)
  BY <1>1 DEF Preceding, KV!Preceding
<1>2. \A z, s, n : KV!Rank(z, s, n) = Rank(z, s, n)
  BY <1>7, <1>8 DEF Rank, KV!Rank
<1>3. \A z, i : KV!NameAt(z, i) = NameAt(z, i)
  BY <1>2 DEF NameAt, KV!NameAt
<1>4. \A i, j, l : KV!Listed(i, j, l) = Listed(i, j, l)
  BY DEF Listed, KV!Listed
<1>5. \A z, s, n, i, j : KV!QueryTuples(z, s, n, i, j) = QueryTuples(z, s, n, i, j)
  BY <1>2, <1>3, <1>4, <1>7 DEF QueryTuples, KV!QueryTuples
<1>6. QED
  BY <1>5 DEF NoTuples, KV!NoTuples, PutTuple, KV!PutTuple, DropTuple, KV!DropTuple

\* The reply a handler gives, and the clock it leaves alone.
LEMMA HandlerReplies ==
  ASSUME NEW r, Handler(r)
  PROVE  reply' = r /\ clock' = clock
BY DEF Handler

LEMMA AnswerMaps ==
  ASSUME NEW r, Answer(r)
  PROVE  KV!Answer(r)
<1>1. MStore' = MStore /\ MExpiry' = MExpiry
  BY KeptMaps DEF Answer
<1>2. reply' = r /\ clock' = clock
  BY HandlerReplies DEF Answer
<1>3. QED
  BY <1>1, <1>2 DEF KV!Answer, MStore, MExpiry

LEMMA StorePuts ==
  ASSUME EntryState, NEW k \in Keys, NEW a \in Find(k), NEW x, NEW r, Store(a, x, r)
  PROVE  KV!Put(k, x, r)
<1>1. MStore' = [MStore EXCEPT ![k] = x] /\ MExpiry' = MExpiry
  BY StoreMaps
<1>2. reply' = r /\ clock' = clock
  BY HandlerReplies DEF Store
<1>3. QED
  BY <1>1, <1>2 DEF KV!Put, MStore, MExpiry

LEMMA InsertPuts ==
  ASSUME EntryState, NEW k \in Keys, Find(k) = {}, NEW x, NEW r, Insert(k, x, r)
  PROVE  KV!Put(k, x, r)
<1>1. MStore' = [MStore EXCEPT ![k] = x] /\ MExpiry' = MExpiry
  BY InsertMaps
<1>2. reply' = r /\ clock' = clock
  BY HandlerReplies DEF Insert
<1>3. QED
  BY <1>1, <1>2 DEF KV!Put, MStore, MExpiry

\* What the store says of a key, by what a lookup finds.
LEMMA StoreTypes ==
  ASSUME EntryState, NEW k \in Keys
  PROVE  /\ Find(k) = {} => MStore[k] = Nil /\ MExpiry[k] = None
         /\ \A a \in Find(k) : /\ MStore[k] # Nil
                               /\ MStore[k] = ent[a].value /\ MExpiry[k] = deadline[a]
                               /\ Type(a) \in {"T_STR", "T_ZSET"}
                               /\ KV!IsType(k, "T_STR") <=> Type(a) = "T_STR"
                               /\ KV!IsType(k, "T_ZSET") <=> Type(a) = "T_ZSET"
<1>1. ASSUME NEW a \in Find(k)
      PROVE  /\ MStore[k] # Nil
             /\ MStore[k] = ent[a].value /\ MExpiry[k] = deadline[a]
             /\ Type(a) \in {"T_STR", "T_ZSET"}
             /\ KV!IsType(k, "T_STR") <=> Type(a) = "T_STR"
             /\ KV!IsType(k, "T_ZSET") <=> Type(a) = "T_ZSET"
  <2>1. /\ MStore[k] = ent[a].value /\ MExpiry[k] = deadline[a]
        /\ MStore[k] # Nil
        /\ MStore[k].type \in {"T_STR", "T_ZSET"}
    BY <1>1, Found
  <2>2. Type(a) = MStore[k].type
    BY <2>1 DEF Type
  <2>3. \A ty : KV!IsType(k, ty) <=> MStore[k] # Nil /\ MStore[k].type = ty
    BY DEF KV!IsType, MStore
  <2>4. QED
    BY <2>1, <2>2, <2>3
<1>2. QED
  BY <1>1, NotFound

LEMMA GetMaps ==
  ASSUME EntryState, NEW k \in Keys, do_get(k)
  PROVE  KV!Get(k)
<1>0. KV!Get(k) <=> \/ MStore[k] = Nil /\ KV!Answer(out_nil)
                    \/ KV!IsType(k, "T_STR") /\ KV!Answer(out_str(MStore[k].val))
                    \/ KV!IsType(k, "T_ZSET") /\ KV!Answer(out_err("ERR_TYPE"))
  BY SameReplies DEF KV!Get, MStore
<1>1. CASE Find(k) = {} /\ Answer(out_nil)
  BY <1>0, <1>1, StoreTypes, AnswerMaps
<1>2. ASSUME NEW a \in Find(k),
             Answer(IF Type(a) # "T_STR" THEN out_err("ERR_TYPE") ELSE out_str(ent[a].value.val))
      PROVE  KV!Get(k)
  BY <1>0, <1>2, StoreTypes, AnswerMaps
<1>3. QED
  BY <1>1, <1>2 DEF do_get

LEMMA SetMaps ==
  ASSUME EntryState, NEW k \in Keys, NEW v \in Vals, do_set(k, v)
  PROVE  KV!Set(k, v)
<1>0. KV!Set(k, v) <=> \/ ~KV!IsType(k, "T_ZSET") /\ KV!Put(k, Str(v), out_nil)
                       \/ KV!IsType(k, "T_ZSET") /\ KV!Answer(out_err("ERR_TYPE"))
  BY SameReplies, SameTuples DEF KV!Set, KV!Str, Str
<1>1. CASE Find(k) = {} /\ Insert(k, Str(v), out_nil)
  <2>1. ~KV!IsType(k, "T_ZSET")
    BY <1>1, NotFound DEF KV!IsType, MStore
  <2>2. QED
    BY <1>0, <1>1, <2>1, InsertPuts
<1>2. ASSUME NEW a \in Find(k), Type(a) # "T_STR", Answer(out_err("ERR_TYPE"))
      PROVE  KV!Set(k, v)
  BY <1>0, <1>2, StoreTypes, AnswerMaps
<1>3. ASSUME NEW a \in Find(k), Type(a) = "T_STR", Store(a, Str(v), out_nil)
      PROVE  KV!Set(k, v)
  BY <1>0, <1>3, StoreTypes, StorePuts
<1>4. QED
  BY <1>1, <1>2, <1>3 DEF do_set

LEMMA DelGone ==
  ASSUME EntryState, NEW k \in Keys, NEW a \in Find(k), db' = db \ {a}, entry_del(a)
  PROVE  KV!Gone(k)
BY DelMaps DEF KV!Gone, MStore, MExpiry

LEMMA DelCmdMaps ==
  ASSUME EntryState, NEW k \in Keys, do_del(k)
  PROVE  KV!Del(k)
<1>0. KV!Del(k) <=> /\ KV!Gone(k)
                    /\ reply' = out_int(IF MStore[k] = Nil THEN 0 ELSE 1)
                    /\ clock' = clock
  BY SameReplies DEF KV!Del, MStore
<1>1. CASE Find(k) = {} /\ Answer(out_int(0))
  <2>1. MStore[k] = Nil /\ MExpiry[k] = None
    BY <1>1, NotFound
  <2>2. MStore' = MStore /\ MExpiry' = MExpiry
    BY <1>1, KeptMaps DEF Answer
  <2>3. MStore' = [MStore EXCEPT ![k] = Nil] /\ MExpiry' = [MExpiry EXCEPT ![k] = None]
    BY <2>1, <2>2, MappedFunctions, ChangeAtKey
  <2>4. KV!Gone(k)
    BY <2>3 DEF KV!Gone, MStore, MExpiry
  <2>5. QED
    BY <1>0, <1>1, <2>1, <2>4, HandlerReplies DEF Answer
<1>2. ASSUME NEW a \in Find(k), Handler(out_int(1)), db' = db \ {a}, entry_del(a)
      PROVE  KV!Del(k)
  BY <1>0, <1>2, StoreTypes, DelGone, HandlerReplies
<1>3. QED
  BY <1>1, <1>2 DEF do_del

LEMMA TtlMaps ==
  ASSUME EntryState, NEW k \in Keys, do_ttl(k)
  PROVE  KV!PTtl(k)
<1>0. KV!PTtl(k) <=>
        KV!Answer(out_int(IF MStore[k] = Nil THEN -2
                          ELSE IF MExpiry[k] = None THEN -1
                          ELSE IF MExpiry[k] > clock THEN (MExpiry[k] - clock) \div USEC ELSE 0))
  BY SameReplies DEF KV!PTtl, MStore, MExpiry
<1>1. CASE Find(k) = {} /\ Answer(out_int(-2))
  <2>1. KV!Answer(out_int(-2)) /\ MStore[k] = Nil
    BY <1>1, AnswerMaps, NotFound
  <2>2. QED
    BY <1>0, <2>1
<1>2. ASSUME NEW a \in Find(k),
             Answer(out_int(IF deadline[a] = None THEN -1
                            ELSE IF deadline[a] > clock THEN (deadline[a] - clock) \div USEC
                            ELSE 0))
      PROVE  KV!PTtl(k)
  <2>1. MStore[k] # Nil /\ MExpiry[k] = deadline[a]
    BY <1>2, StoreTypes
  <2>2. KV!Answer(out_int(IF deadline[a] = None THEN -1
                          ELSE IF deadline[a] > clock THEN (deadline[a] - clock) \div USEC
                          ELSE 0))
    BY <1>2, AnswerMaps
  <2>3. QED
    BY <1>0, <2>1, <2>2
<1>3. QED
  BY <1>1, <1>2 DEF do_ttl

\* The deadline that is set is the one asked for, if it can be told.
LEMMA DeadlineExact ==
  ASSUME clock \in Nat, NEW ttl \in Ttls, clock + ttl * USEC \in Times
  PROVE  Deadline(ttl) = clock + ttl * USEC
<1> DEFINE x == clock + ttl * USEC
<1>1. x \in 0..(Range64-1) /\ Range64 \in Nat
  BY KeySpaceAssumption DEF Times
<1>2. Deadline(ttl) = x % Range64
  BY DEF Deadline
<1> HIDE DEF x
<1>3. x % Range64 = x
  BY <1>1, SMT
<1>4. QED
  BY <1>2, <1>3 DEF x

LEMMA ExpireCmdMaps ==
  ASSUME EntryState, TimerState, NEW k \in Keys, NEW ttl \in Ttls, do_expire(k, ttl)
  PROVE  KV!PExpire(k, ttl)
<1> DEFINE d == IF ttl < 0 THEN None ELSE Deadline(ttl)
<1>1. CASE Find(k) = {} /\ Answer(out_int(0))
  <2>1. KV!Answer(out_int(0)) /\ MStore[k] = Nil
    BY <1>1, AnswerMaps, NotFound
  <2>2. QED
    BY <2>1, SameReplies DEF KV!PExpire, MStore
<1>2. ASSUME NEW a \in Find(k), Handler(out_int(1)),
             deadline' = [deadline EXCEPT ![a] = d], UNCHANGED <<ent, db, queued>>
      PROVE  KV!PExpire(k, ttl)
  <2>1. clock \in Nat /\ ttl \in Int /\ None \notin Times
    BY KeySpaceAssumption DEF TimerState, TimerTypes, Times
  <2>2. Deadline(ttl) \in Times
    BY <2>1, DeadlineIsTime
  <2>3. /\ d \in Times \cup {None}
        /\ ttl < 0 => d = None
        /\ ttl >= 0 => d # None
    BY <2>1, <2>2
  <2>4. ttl >= 0 /\ clock + ttl * USEC \in Times => d = clock + ttl * USEC
    <3> SUFFICES ASSUME ttl >= 0, clock + ttl * USEC \in Times
                 PROVE  d = clock + ttl * USEC
      OBVIOUS
    <3>1. Deadline(ttl) = clock + ttl * USEC
      BY <2>1, DeadlineExact
    <3>2. ~(ttl < 0)
      BY <2>1
    <3>3. QED
      BY <3>1, <3>2
  <2> HIDE DEF d
  <2>5. MStore' = MStore /\ MExpiry' = [MExpiry EXCEPT ![k] = d]
    BY <1>2, ExpireMaps
  <2>6. reply' = out_int(1) /\ clock' = clock /\ MStore[k] # Nil
    BY <1>2, HandlerReplies, StoreTypes
  <2>7. QED
    BY <2>3, <2>4, <2>5, <2>6, SameReplies DEF KV!PExpire, MStore, MExpiry
<1>3. QED
  BY <1>1, <1>2 DEF do_expire

\* What expect_zset answers is what the store says of a key without a sorted set.
LEMMA ExpectMaps ==
  ASSUME EntryState, NEW k \in Keys, NEW r, expect_zset(k, r)
  PROVE  \/ MStore[k] = Nil /\ r = out_nil
         \/ KV!IsType(k, "T_STR") /\ MStore[k] # Nil /\ MStore[k].type # "T_ZSET"
              /\ r = out_err("ERR_TYPE")
<1>1. CASE Find(k) = {}
  BY <1>1, NotFound DEF expect_zset
<1>2. CASE Find(k) # {}
  <2>1. PICK a \in Find(k) : Type(a) # "T_ZSET" /\ r = out_err("ERR_TYPE")
    BY <1>2 DEF expect_zset
  <2>2. KV!IsType(k, "T_STR") /\ MStore[k] # Nil /\ MStore[k] = ent[a].value
    BY <2>1, StoreTypes
  <2>3. QED
    BY <2>1, <2>2 DEF Type
<1>3. QED
  BY <1>1, <1>2

LEMMA ZAddMaps ==
  ASSUME EntryState, NEW k \in Keys, NEW n \in Names, NEW s \in Scores, do_zadd(k, n, s)
  PROVE  KV!ZAdd(k, n, s)
<1>0. KV!ZAdd(k, n, s) <=>
        \/ MStore[k] = Nil /\ KV!Put(k, ZSet(PutTuple(NoTuples, n, s)), out_int(1))
        \/ /\ KV!IsType(k, "T_ZSET")
           /\ KV!Put(k, ZSet(PutTuple(MStore[k].zset, n, s)),
                     out_int(IF n \in DOMAIN MStore[k].zset THEN 0 ELSE 1))
        \/ KV!IsType(k, "T_STR") /\ KV!Answer(out_err("ERR_TYPE"))
  BY SameReplies, SameTuples DEF KV!ZAdd, KV!ZSet, ZSet, KV!Has, MStore
<1>1. CASE Find(k) = {} /\ Insert(k, ZSet(PutTuple(NoTuples, n, s)), out_int(1))
  BY <1>0, <1>1, NotFound, InsertPuts
<1>2. ASSUME NEW a \in Find(k), Type(a) # "T_ZSET", Answer(out_err("ERR_TYPE"))
      PROVE  KV!ZAdd(k, n, s)
  BY <1>0, <1>2, StoreTypes, AnswerMaps
<1>3. ASSUME NEW a \in Find(k), Type(a) = "T_ZSET",
             Store(a, ZSet(PutTuple(ent[a].value.zset, n, s)),
                   out_int(IF Member(a, n) THEN 0 ELSE 1))
      PROVE  KV!ZAdd(k, n, s)
  <2>1. KV!IsType(k, "T_ZSET") /\ MStore[k] = ent[a].value
    BY <1>3, StoreTypes
  <2>2. KV!Put(k, ZSet(PutTuple(ent[a].value.zset, n, s)),
               out_int(IF Member(a, n) THEN 0 ELSE 1))
    BY <1>3, StorePuts
  <2>3. QED
    BY <1>0, <2>1, <2>2 DEF Member
<1>4. QED
  BY <1>1, <1>2, <1>3 DEF do_zadd

LEMMA ZRemMaps ==
  ASSUME EntryState, NEW k \in Keys, NEW n \in Names, do_zrem(k, n)
  PROVE  KV!ZRem(k, n)
<1>0. KV!ZRem(k, n) <=>
        \/ MStore[k] = Nil /\ KV!Answer(out_nil)
        \/ /\ KV!IsType(k, "T_ZSET")
           /\ KV!Put(k, ZSet(DropTuple(MStore[k].zset, n)),
                     out_int(IF n \in DOMAIN MStore[k].zset THEN 1 ELSE 0))
        \/ KV!IsType(k, "T_STR") /\ KV!Answer(out_err("ERR_TYPE"))
  BY SameReplies, SameTuples DEF KV!ZRem, KV!ZSet, ZSet, KV!Has, MStore
<1>1. ASSUME NEW r, expect_zset(k, r), Answer(r)
      PROVE  KV!ZRem(k, n)
  <2>1. KV!Answer(r)
    BY <1>1, AnswerMaps
  <2>2. QED
    BY <1>0, <1>1, <2>1, ExpectMaps
<1>2. ASSUME NEW a \in Find(k), Type(a) = "T_ZSET",
             Store(a, ZSet(DropTuple(ent[a].value.zset, n)),
                   out_int(IF Member(a, n) THEN 1 ELSE 0))
      PROVE  KV!ZRem(k, n)
  <2>1. KV!IsType(k, "T_ZSET") /\ MStore[k] = ent[a].value
    BY <1>2, StoreTypes
  <2>2. KV!Put(k, ZSet(DropTuple(ent[a].value.zset, n)),
               out_int(IF Member(a, n) THEN 1 ELSE 0))
    BY <1>2, StorePuts
  <2>3. QED
    BY <1>0, <2>1, <2>2 DEF Member
<1>3. QED
  BY <1>1, <1>2 DEF do_zrem

LEMMA ZScoreMaps ==
  ASSUME EntryState, NEW k \in Keys, NEW n \in Names, do_zscore(k, n)
  PROVE  KV!ZScore(k, n)
<1>0. KV!ZScore(k, n) <=>
        KV!Answer(IF MStore[k] = Nil THEN out_nil
                  ELSE IF MStore[k].type # "T_ZSET" THEN out_err("ERR_TYPE")
                  ELSE IF n \in DOMAIN MStore[k].zset THEN out_dbl(MStore[k].zset[n])
                  ELSE out_nil)
  BY SameReplies DEF KV!ZScore, KV!Has, MStore
<1>1. ASSUME NEW r, expect_zset(k, r), Answer(r)
      PROVE  KV!ZScore(k, n)
  <2>1. KV!Answer(r)
    BY <1>1, AnswerMaps
  <2>2. QED
    BY <1>0, <1>1, <2>1, ExpectMaps
<1>2. ASSUME NEW a \in Find(k), Type(a) = "T_ZSET",
             Answer(IF Member(a, n) THEN out_dbl(ent[a].value.zset[n]) ELSE out_nil)
      PROVE  KV!ZScore(k, n)
  <2>1. MStore[k] # Nil /\ MStore[k] = ent[a].value /\ MStore[k].type = "T_ZSET"
    BY <1>2, StoreTypes DEF Type
  <2>2. KV!Answer(IF Member(a, n) THEN out_dbl(ent[a].value.zset[n]) ELSE out_nil)
    BY <1>2, AnswerMaps
  <2>3. QED
    BY <1>0, <2>1, <2>2 DEF Member
<1>3. QED
  BY <1>1, <1>2 DEF do_zscore

LEMMA ZQueryMaps ==
  ASSUME EntryState, NEW k \in Keys, NEW q \in Queries, do_zquery(k, q)
  PROVE  KV!ZQuery(k, q)
<1>0. KV!ZQuery(k, q) <=>
        \/ MStore[k] = Nil /\ KV!Answer(out_tuples(<<>>))
        \/ /\ KV!IsType(k, "T_ZSET")
           /\ KV!Answer(out_tuples(QueryTuples(MStore[k].zset, q.score, q.name,
                                               q.offset, q.limit)))
        \/ KV!IsType(k, "T_STR") /\ KV!Answer(out_err("ERR_TYPE"))
  BY SameReplies, SameTuples DEF KV!ZQuery, MStore
<1>1. CASE Find(k) = {} /\ Answer(out_tuples(<<>>))
  BY <1>0, <1>1, NotFound, AnswerMaps
<1>2. ASSUME NEW a \in Find(k), Type(a) # "T_ZSET", Answer(out_err("ERR_TYPE"))
      PROVE  KV!ZQuery(k, q)
  BY <1>0, <1>2, StoreTypes, AnswerMaps
<1>3. ASSUME NEW a \in Find(k), Type(a) = "T_ZSET",
             Answer(out_tuples(QueryTuples(ent[a].value.zset, q.score, q.name,
                                           q.offset, q.limit)))
      PROVE  KV!ZQuery(k, q)
  <2>1. KV!IsType(k, "T_ZSET") /\ MStore[k] = ent[a].value
    BY <1>3, StoreTypes
  <2>2. QED
    BY <1>0, <1>3, <2>1, AnswerMaps
<1>4. QED
  BY <1>1, <1>2, <1>3 DEF do_zquery

\* keys lists the keys that have a value.
LEMMA KeysMaps ==
  ASSUME EntryState, do_keys
  PROVE  KV!KeysCmd
<1>1. {ent[a].key : a \in db} = {k \in Keys : MStore[k] # Nil}
  <2>1. ASSUME NEW a \in db PROVE ent[a].key \in Keys /\ MStore[ent[a].key] # Nil
    <3>1. ent[a].key \in Keys /\ a \in Find(ent[a].key)
      BY DEF EntryState, Accounted, Find
    <3>2. QED
      BY <3>1, Found
  <2>2. ASSUME NEW k \in Keys, MStore[k] # Nil PROVE \E a \in db : ent[a].key = k
    BY <2>2, NotFound DEF Find
  <2>3. QED
    BY <2>1, <2>2
<1>2. KV!Answer(out_arr({ent[a].key : a \in db}))
  BY AnswerMaps DEF do_keys
<1>3. KV!KeysCmd <=> KV!Answer(out_arr({k \in Keys : MStore[k] # Nil}))
  BY SameReplies DEF KV!KeysCmd, MStore
<1>4. QED
  BY <1>1, <1>2, <1>3

LEMMA RequestMaps ==
  ASSUME EntryState, TimerState, do_request
  PROVE  KV!Next
<1>1. ASSUME NEW k \in Keys, do_get(k) \/ do_del(k) \/ do_ttl(k)
      PROVE  KV!Next
  BY <1>1, GetMaps, DelCmdMaps, TtlMaps DEF KV!Next
<1>2. ASSUME NEW k \in Keys, NEW v \in Vals, do_set(k, v)
      PROVE  KV!Next
  BY <1>2, SetMaps DEF KV!Next
<1>3. ASSUME NEW k \in Keys, NEW ttl \in Ttls, do_expire(k, ttl)
      PROVE  KV!Next
  BY <1>3, ExpireCmdMaps DEF KV!Next
<1>4. ASSUME NEW k \in Keys, NEW n \in Names, do_zrem(k, n) \/ do_zscore(k, n)
      PROVE  KV!Next
  BY <1>4, ZRemMaps, ZScoreMaps DEF KV!Next
<1>8. ASSUME NEW k \in Keys, NEW n \in Names, NEW s \in Scores, do_zadd(k, n, s)
      PROVE  KV!Next
  BY <1>8, ZAddMaps DEF KV!Next
<1>9. ASSUME NEW k \in Keys, NEW q \in Queries, do_zquery(k, q)
      PROVE  KV!Next
  BY <1>9, ZQueryMaps DEF KV!Next
<1>5. CASE do_keys
  BY <1>5, KeysMaps DEF KV!Next
<1>6. CASE bad_arg \/ unknown_cmd
  BY <1>6, AnswerMaps, SameReplies DEF bad_arg, unknown_cmd, KV!Next, KV!BadArg, KV!Unknown
<1>7. QED
  BY <1>1, <1>2, <1>3, <1>4, <1>5, <1>6, <1>8, <1>9 DEF do_request
-----------------------------------------------------------------------------
(* Expiry *)

\* process_timers never goes by a time more than a millisecond ahead.
TimeState == now_us <= clock + USEC

LEMMA TimeStateHolds == Spec => []TimeState
<1>1. Init => TimeState
  BY KeySpaceAssumption DEF Init, TimeState
<1>2. TimerState /\ TimeState /\ [Next]_vars => TimeState'
  <2> SUFFICES ASSUME TimerState, TimeState, [Next]_vars PROVE TimeState'
    OBVIOUS
  <2>0. clock \in Nat /\ now_us \in Nat /\ USEC \in Nat
    BY KeySpaceAssumption DEF TimerState, TimerTypes, Times
  <2>1. ASSUME UNCHANGED <<now_us, clock>> PROVE TimeState'
    BY <2>1 DEF TimeState
  <2>2. ASSUME NEW r, Handler(r) PROVE TimeState'
    BY <2>1, <2>2 DEF Handler, timers
  <2>3. CASE do_request
    BY <2>2, <2>3 DEF do_request, do_get, do_set, do_expire, do_ttl, do_del, do_keys, do_zadd,
       do_zrem, do_zscore, do_zquery, bad_arg, unknown_cmd, Answer, Store, Insert
  <2>4. CASE process_timers
    BY <2>0, <2>4 DEF process_timers, TimeState
  <2>5. ASSUME Return, UNCHANGED clock PROVE TimeState'
    BY <2>0, <2>5 DEF Return, TimeState
  <2>6. CASE NoneDue
    BY <2>5, <2>6 DEF NoneDue
  <2>7. ASSUME NEW a \in Addrs, ExpireTop(a) PROVE TimeState'
    BY <2>1, <2>5, <2>7 DEF ExpireTop
  <2>8. CASE Tick
    BY <2>0, <2>8 DEF Tick, timers, TimeState
  <2>9. CASE UNCHANGED vars \/ \E a \in Addrs : entry_del_async(a)
    BY <2>1, <2>9 DEF vars, entry_del_async, timers
  <2>10. QED
    BY <2>3, <2>4, <2>6, <2>7, <2>8, <2>9 DEF Next, TimerStep
<1>3. QED
  BY <1>1, <1>2, StateHolds, PTL DEF Spec

\* A key that process_timers deletes is due, but for a millisecond.
LEMMA ExpireTopMaps ==
  ASSUME EntryState, TimerState, TimeState, NEW a \in Addrs, ExpireTop(a)
  PROVE  KV!Next
<1> DEFINE k == ent[a].key
<1>1. /\ a \in db /\ db' = db \ {a} /\ entry_del(a)
      /\ UNCHANGED <<clock, reply>>
      /\ deadline[a] # None /\ deadline[a] < now_us
  BY DEF ExpireTop, Top, EntryState, Accounted
<1>2. k \in Keys /\ a \in Find(k)
  BY <1>1 DEF EntryState, Accounted, Find
<1> HIDE DEF k
<1>3. MExpiry[k] = deadline[a] /\ KV!Gone(k)
  BY <1>1, <1>2, Found, DelGone
<1>4. deadline[a] < clock + USEC
  <2>1. deadline[a] \in Nat /\ now_us \in Nat /\ clock + USEC \in Nat
    BY <1>1, KeySpaceAssumption DEF EntryState, EntryTypes, TimerState, TimerTypes, Times
  <2>2. QED
    BY <1>1, <2>1 DEF TimeState
<1>5. KV!Expire(k)
  BY <1>1, <1>3, <1>4 DEF KV!Expire, MExpiry
<1>6. QED
  BY <1>2, <1>5 DEF KV!Next

\* Clients see a key-value store, for all keys, values and TTLs.
THEOREM KeySpaceImplementsKVStore == Spec => ImplementsKVStore
<1>1. Init => KV!Init
  <2> SUFFICES ASSUME Init PROVE KV!Init
    OBVIOUS
  <2>1. \A k \in Keys : Find(k) = {}
    BY DEF Init, Find
  <2>2. MStore = [k \in Keys |-> Nil] /\ MExpiry = [k \in Keys |-> None]
    BY <2>1 DEF MStore, MExpiry, ValueOf, ExpiryOf
  <2>3. QED
    BY <2>2, SameReplies DEF Init, KV!Init, MStore, MExpiry
<1>2. EntryState /\ TimerState /\ TimeState /\ [Next]_vars =>
        [KV!Next]_<<MStore, MExpiry, clock, reply>>
  <2> SUFFICES ASSUME EntryState, TimerState, TimeState, [Next]_vars
               PROVE  [KV!Next]_<<MStore, MExpiry, clock, reply>>
    OBVIOUS
  <2>1. CASE do_request
    BY <2>1, RequestMaps
  <2>2. CASE \E a \in Addrs : ExpireTop(a)
    BY <2>2, ExpireTopMaps
  <2>3. CASE process_timers \/ NoneDue \/ UNCHANGED vars
    BY <2>3, KeptMaps DEF process_timers, NoneDue, vars
  <2>4. CASE \E a \in Addrs : entry_del_async(a)
    BY <2>4, AsyncMaps DEF entry_del_async
  <2>5. CASE Tick
    <3>1. MStore' = MStore /\ MExpiry' = MExpiry
      BY <2>5, KeptMaps DEF Tick
    <3>2. KV!Tick
      BY <2>5, <3>1 DEF Tick, KV!Tick, MStore, MExpiry
    <3>3. QED
      BY <3>2 DEF KV!Next
  <2>6. QED
    BY <2>1, <2>2, <2>3, <2>4, <2>5 DEF Next, TimerStep
<1>3. QED
  BY <1>1, <1>2, StateHolds, TimeStateHolds, PTL
     DEF Spec, ImplementsKVStore, KV!Spec, KV!vars, MStore, MExpiry
=============================================================================
