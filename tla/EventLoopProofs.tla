-------------------------- MODULE EventLoopProofs ---------------------------
(***************************************************************************)
(* Proofs about EventLoop for any number of connections and of             *)
(* descriptors.  IInv is inductive: the types, the two maps, the list and  *)
(* its order, and what holds of every connection that is there: it has a   *)
(* descriptor and its timer was started in the past.                       *)
(***************************************************************************)
EXTENDS EventLoop, WellFoundedInduction, TLAPS

-----------------------------------------------------------------------------
(* Sequences: an element removed, an element appended *)

\* What RemoveAt returns: the elements before the place, then those after it.
LEMMA RemoveAtFacts ==
  ASSUME NEW S, NEW s \in Seq(S), NEW k \in 1..Len(s)
  PROVE  /\ RemoveAt(s, k) \in Seq(S)
         /\ Len(RemoveAt(s, k)) = Len(s) - 1
         /\ \A i \in 1..(Len(s)-1) : RemoveAt(s, k)[i] = IF i < k THEN s[i] ELSE s[i+1]
<1>1. SubSeq(s, 1, k-1) \in Seq(S) /\ Len(SubSeq(s, 1, k-1)) = k - 1
        /\ \A i \in 1..(k-1) : SubSeq(s, 1, k-1)[i] = s[i]
  OBVIOUS
<1>2. SubSeq(s, k+1, Len(s)) \in Seq(S) /\ Len(SubSeq(s, k+1, Len(s))) = Len(s) - k
        /\ \A i \in 1..(Len(s)-k) : SubSeq(s, k+1, Len(s))[i] = s[k+i]
  OBVIOUS
<1> DEFINE t == SubSeq(s, 1, k-1)
           u == SubSeq(s, k+1, Len(s))
<1>3. ASSUME NEW x \in Seq(S), NEW y \in Seq(S)
      PROVE  /\ x \o y \in Seq(S)
             /\ Len(x \o y) = Len(x) + Len(y)
             /\ \A i \in 1..(Len(x) + Len(y)) :
                   (x \o y)[i] = IF i <= Len(x) THEN x[i] ELSE y[i - Len(x)]
  OBVIOUS
<1>4. RemoveAt(s, k) = t \o u
  BY DEF RemoveAt
<1>5. t \in Seq(S) /\ u \in Seq(S) /\ Len(t) = k - 1 /\ Len(u) = Len(s) - k
  BY <1>1, <1>2
<1> HIDE DEF t, u
<1>6. t \o u \in Seq(S) /\ Len(t \o u) = Len(s) - 1
        /\ \A i \in 1..(Len(s) - 1) :
              (t \o u)[i] = IF i <= Len(t) THEN t[i] ELSE u[i - Len(t)]
  <2>1. Len(s) \in Nat /\ Len(t) + Len(u) = Len(s) - 1
    BY <1>5
  <2>2. QED
    BY <1>3, <1>5, <2>1
<1>7. ASSUME NEW i \in 1..(Len(s) - 1)
      PROVE  (t \o u)[i] = IF i < k THEN s[i] ELSE s[i+1]
  <2>1. CASE i < k
    <3>1. i \in 1..(k-1) /\ i <= Len(t)
      BY <1>5, <2>1
    <3>2. t[i] = s[i]
      BY <1>1, <3>1 DEF t
    <3>3. QED
      BY <1>6, <2>1, <3>1, <3>2
  <2>2. CASE ~(i < k)
    <3>1. i - (k-1) \in 1..(Len(s)-k) /\ ~(i <= Len(t)) /\ k + (i - (k-1)) = i + 1
      BY <1>5, <2>2
    <3>2. u[i - (k-1)] = s[i + 1]
      BY <1>2, <3>1 DEF u
    <3>3. QED
      BY <1>5, <1>6, <2>2, <3>1, <3>2
  <2>3. QED
    BY <2>1, <2>2
<1>8. QED
  BY <1>4, <1>6, <1>7
-----------------------------------------------------------------------------
(* Lists of connections *)

Once(l) == \A i, j \in DOMAIN l : l[i] = l[j] => i = j
Lists(l, S) == \A c \in Conns : c \in S <=> \E i \in DOMAIN l : l[i] = c
Ordered(l, f) == \A i, j \in DOMAIN l : i < j => f[l[i]].idle_start <= f[l[j]].idle_start

\* l has each connection of S once, by the idle_start that f gives to it.
GoodList(l, S, f) == l \in Seq(Conns) /\ Once(l) /\ Lists(l, S) /\ Ordered(l, f)

LEMMA GoodListRemove ==
  ASSUME NEW l, NEW S, NEW f, GoodList(l, S, f), NEW k \in 1..Len(l)
  PROVE  GoodList(RemoveAt(l, k), S \ {l[k]}, f)
<1> DEFINE r == RemoveAt(l, k)
           at(i) == IF i < k THEN i ELSE i + 1
<1>1. l \in Seq(Conns) /\ Len(l) \in Nat /\ DOMAIN l = 1..Len(l)
  BY DEF GoodList
<1>2. r \in Seq(Conns) /\ Len(r) = Len(l) - 1
        /\ \A i \in 1..(Len(l)-1) : r[i] = IF i < k THEN l[i] ELSE l[i+1]
  BY <1>1, RemoveAtFacts
<1>3. DOMAIN r = 1..(Len(l)-1)
  BY <1>2
<1> HIDE DEF r
<1>4. \A i \in DOMAIN r : at(i) \in DOMAIN l /\ at(i) # k /\ r[i] = l[at(i)]
  BY <1>1, <1>2, <1>3
<1>5. \A i, j \in DOMAIN r : (at(i) = at(j) => i = j) /\ (i < j => at(i) < at(j))
  BY <1>3
<1>6. \A j \in DOMAIN l : j # k => \E i \in DOMAIN r : at(i) = j
  <2>1. SUFFICES ASSUME NEW j \in DOMAIN l, j # k PROVE \E i \in DOMAIN r : at(i) = j
    OBVIOUS
  <2>2. CASE j < k
    BY <1>1, <1>3, <2>1, <2>2
  <2>3. CASE j > k
    <3>1. j - 1 \in DOMAIN r /\ at(j - 1) = j
      BY <1>1, <1>3, <2>1, <2>3
    <3>2. QED
      BY <3>1
  <2>4. QED
    BY <1>1, <2>1, <2>2, <2>3
<1> HIDE DEF at
<1>7. Once(r)
  BY <1>4, <1>5 DEF Once, GoodList
<1>8. Lists(r, S \ {l[k]})
  BY <1>1, <1>4, <1>6 DEF Lists, Once, GoodList
<1>9. Ordered(r, f)
  BY <1>4, <1>5 DEF Ordered, GoodList
<1>10. QED
  BY <1>2, <1>7, <1>8, <1>9 DEF GoodList, r

LEMMA GoodListAppend ==
  ASSUME NEW l, NEW S, NEW f, GoodList(l, S, f), NEW c \in Conns, c \notin S,
         \A i \in DOMAIN l : f[l[i]].idle_start <= f[c].idle_start
  PROVE  GoodList(Append(l, c), S \cup {c}, f)
<1> DEFINE r == Append(l, c)
<1>1. l \in Seq(Conns) /\ Len(l) \in Nat /\ DOMAIN l = 1..Len(l)
  BY DEF GoodList
<1>2. r \in Seq(Conns) /\ DOMAIN r = 1..(Len(l)+1) /\ r[Len(l)+1] = c
        /\ \A i \in 1..Len(l) : r[i] = l[i]
  BY <1>1
<1> HIDE DEF r
<1>3. \A i \in DOMAIN l : l[i] # c
  BY DEF GoodList, Lists
<1>4. \A i \in DOMAIN r : i \in DOMAIN l \/ i = Len(l) + 1
  BY <1>1, <1>2
<1>5. Len(l) + 1 \in DOMAIN r /\ Len(l) + 1 \notin DOMAIN l /\ DOMAIN l \subseteq DOMAIN r
  BY <1>1, <1>2
<1>6. Once(r)
  BY <1>1, <1>2, <1>3, <1>4 DEF Once, GoodList
<1>7. Lists(r, S \cup {c})
  BY <1>1, <1>2, <1>4, <1>5 DEF Lists, GoodList
<1>8. Ordered(r, f)
  <2>1. SUFFICES ASSUME NEW i \in DOMAIN r, NEW j \in DOMAIN r, i < j
                 PROVE  f[r[i]].idle_start <= f[r[j]].idle_start
    BY DEF Ordered
  <2>2. i \in DOMAIN l
    BY <1>1, <1>2, <2>1
  <2>3. CASE j \in DOMAIN l
    BY <1>1, <1>2, <2>1, <2>2, <2>3 DEF Ordered, GoodList
  <2>4. CASE j = Len(l) + 1
    BY <1>1, <1>2, <2>2, <2>4
  <2>5. QED
    BY <1>4, <2>3, <2>4
<1>9. QED
  BY <1>2, <1>6, <1>7, <1>8 DEF GoodList, r

LEMMA GoodListChange ==
  ASSUME NEW l, NEW S, NEW f, NEW g, GoodList(l, S, f),
         \A c \in S : g[c].idle_start = f[c].idle_start
  PROVE  GoodList(l, S, g)
<1>1. \A i \in DOMAIN l : l[i] \in S
  <2>1. \A i \in DOMAIN l : l[i] \in Conns
    BY DEF GoodList
  <2>2. QED
    BY <2>1 DEF GoodList, Lists
<1>2. QED
  BY <1>1 DEF GoodList, Ordered

LEMMA GoodListFacts ==
  ASSUME NEW l, NEW S, NEW f, GoodList(l, S, f)
  PROVE  /\ l \in Seq(Conns) /\ Len(l) \in Nat /\ DOMAIN l = 1..Len(l)
         /\ \A i \in DOMAIN l : l[i] \in S
         /\ \A c \in Conns : c \in S => \E i \in DOMAIN l : l[i] = c
<1>1. l \in Seq(Conns) /\ \A i \in DOMAIN l : l[i] \in Conns
  BY DEF GoodList
<1>2. QED
  BY <1>1 DEF GoodList, Lists
-----------------------------------------------------------------------------
(* The inductive invariant *)

LiveSound == \A c \in live : conn[c].fd \in Fds /\ conn[c].idle_start <= clock

Maps == /\ \A fd \in Fds, c \in Conns : g_fd2conn[fd] = c <=> c \in live /\ conn[c].fd = fd
        /\ \A c \in live : fd2conn[conn[c].fd] = c

IInv == TypeOK /\ LiveSound /\ Maps /\ GoodList(idle_list, live, conn)

LEMMA IInvImplies == IInv => ConnsAccounted /\ IdleListSorted
BY DEF IInv, Maps, GoodList, Once, Lists, Ordered, ConnsAccounted, IdleListSorted

LEMMA InitIInv == Init => IInv
<1> SUFFICES ASSUME Init PROVE IInv
  OBVIOUS
<1> USE EventLoopAssumption DEF Init
<1>1. TypeOK
  BY DEF TypeOK, NoConn
<1>2. LiveSound /\ Maps
  BY DEF LiveSound, Maps
<1>3. GoodList(idle_list, live, conn)
  BY DEF GoodList, Once, Lists, Ordered
<1>4. QED
  BY <1>1, <1>2, <1>3 DEF IInv

\* What conn_done and connection_io take out of the list is where it should be.
LEMMA PlaceFacts ==
  ASSUME IInv, NEW c \in live
  PROVE  Place(c) \in 1..Len(idle_list) /\ idle_list[Place(c)] = c /\ c \in Conns
<1>1. c \in Conns
  BY DEF IInv, TypeOK
<1>2. DOMAIN idle_list = 1..Len(idle_list) /\ \E i \in DOMAIN idle_list : idle_list[i] = c
  BY <1>1, GoodListFacts DEF IInv
<1>3. QED
  BY <1>1, <1>2 DEF Place

LEMMA DetachedGood ==
  ASSUME IInv, NEW c \in live
  PROVE  GoodList(Detached(c), live \ {c}, conn)
BY PlaceFacts, GoodListRemove DEF Detached, IInv

\* conn_done, while at most the contents of the connection itself change.
LEMMA DoneIInv ==
  ASSUME IInv, NEW c \in live, conn_done(c), TypeOK', UNCHANGED <<fd2conn, clock>>,
         \A d \in Conns \ {c} : conn'[d] = conn[d]
  PROVE  IInv'
<1> USE EventLoopAssumption DEF conn_done
<1>1. c \in Conns /\ live \subseteq Conns /\ live' = live \ {c}
  BY DEF IInv, TypeOK
<1>2. GoodList(idle_list', live', conn')
  <2>1. GoodList(idle_list', live', conn)
    BY DetachedGood
  <2>2. \A d \in live' : conn'[d].idle_start = conn[d].idle_start
    BY <1>1
  <2>3. QED
    BY <2>1, <2>2, GoodListChange
<1>3. LiveSound'
  BY <1>1 DEF IInv, LiveSound
<1>4. Maps'
  <2>1. conn[c].fd \in Fds /\ DOMAIN g_fd2conn = Fds
    BY DEF IInv, LiveSound, TypeOK
  <2>2. QED
    BY <1>1, <2>1 DEF IInv, Maps, LiveSound
<1>5. QED
  BY <1>2, <1>3, <1>4 DEF IInv

LEMMA LiveIoIInv ==
  ASSUME IInv, NEW c, LiveIo(c), UNCHANGED <<fd2conn, clock, now_us>>
  PROVE  IInv'
<1> USE EventLoopAssumption DEF LiveIo
<1>1. c \in live /\ c \in Conns
  BY DEF IInv, TypeOK
<1>2. PICK s \in {"STATE_REQ", "STATE_RES", "STATE_END"} :
         /\ conn' = [conn EXCEPT ![c] = [fd |-> @.fd, state |-> s, idle_start |-> clock]]
         /\ \/ s = "STATE_END" /\ conn_done(c)
            \/ s # "STATE_END" /\ idle_list' = Touched(c) /\ UNCHANGED <<g_fd2conn, live>>
  OBVIOUS
<1>3. /\ conn'[c] = [fd |-> conn[c].fd, state |-> s, idle_start |-> clock]
      /\ \A d \in Conns \ {c} : conn'[d] = conn[d]
      /\ conn' \in [Conns -> [fd : Fds \cup {-1}, idle_start : 0..MaxClock,
                              state : {"STATE_REQ", "STATE_RES", "STATE_END"}]]
  BY <1>1, <1>2 DEF IInv, TypeOK
<1>4. GoodList(Detached(c), live \ {c}, conn)
  BY <1>1, DetachedGood
<1>5. CASE conn_done(c)
  <2>1. TypeOK'
    BY <1>1, <1>3, <1>4, <1>5 DEF IInv, TypeOK, conn_done, GoodList
  <2>2. QED
    BY <1>1, <1>3, <1>5, <2>1, DoneIInv
<1>6. CASE idle_list' = Touched(c) /\ UNCHANGED <<g_fd2conn, live>>
  <2>1. GoodList(Detached(c), live \ {c}, conn')
    BY <1>1, <1>3, <1>4, GoodListChange DEF IInv, TypeOK
  <2>2. \A i \in DOMAIN Detached(c) : conn'[Detached(c)[i]].idle_start <= conn'[c].idle_start
    BY <1>3, <1>4, GoodListFacts DEF IInv, LiveSound, TypeOK
  <2>3. GoodList(idle_list', (live \ {c}) \cup {c}, conn')
    BY <1>1, <1>6, <2>1, <2>2, GoodListAppend DEF Touched
  <2>4. GoodList(idle_list', live', conn')
    <3>1. (live \ {c}) \cup {c} = live'
      BY <1>1, <1>6
    <3>2. QED
      BY <2>3, <3>1
  <2>5. TypeOK'
    BY <1>1, <1>3, <1>6, <2>4 DEF IInv, TypeOK, GoodList
  <2>6. LiveSound'
    BY <1>3, <1>6 DEF IInv, LiveSound, TypeOK
  <2>7. Maps'
    <3>1. \A d \in Conns : conn'[d].fd = conn[d].fd
      BY <1>3
    <3>2. QED
      BY <1>6, <3>1 DEF IInv, Maps, TypeOK
  <2>8. QED
    BY <2>4, <2>5, <2>6, <2>7 DEF IInv
<1>7. QED
  BY <1>2, <1>5, <1>6
\* The steps that leave the connections alone.
LEMMA CoreUnchanged ==
  ASSUME IInv, UNCHANGED <<fd2conn, g_fd2conn, idle_list, live, conn, clock>>,
         pc' \in {"scan", "poll", "io", "timers", "accept", "abort", "undefined"},
         now_us' \in Nat
  PROVE  IInv'
BY DEF IInv, TypeOK, LiveSound, Maps

LEMMA IoIInv ==
  ASSUME IInv, Io
  PROVE  IInv'
<1> DEFINE fd == Head(todo)
<1>1. UNCHANGED <<fd2conn, clock, now_us>> /\ pc = "io"
  BY DEF Io
<1>2. CASE UNCHANGED <<conn, g_fd2conn, idle_list, live, pc>>
  BY <1>1, <1>2, CoreUnchanged DEF IInv, TypeOK
<1>3. CASE LiveIo(fd2conn[fd])
  BY <1>1, <1>3, LiveIoIInv
<1>4. CASE FreedIo(fd2conn[fd])
  BY <1>1, <1>4, CoreUnchanged DEF IInv, TypeOK, FreedIo
<1>5. QED
  BY <1>2, <1>3, <1>4 DEF Io

LEMMA CloseIdleIInv ==
  ASSUME IInv, CloseIdle
  PROVE  IInv'
<1> DEFINE c == Head(idle_list)
<1>1. c \in live /\ c \in Conns
  <2>1. idle_list \in Seq(Conns) /\ idle_list # <<>>
    BY DEF IInv, TypeOK, CloseIdle
  <2>2. 1 \in DOMAIN idle_list /\ c = idle_list[1]
    BY <2>1
  <2>3. QED
    BY <2>2, GoodListFacts DEF IInv, TypeOK
<1>2. conn_done(c) /\ UNCHANGED <<fd2conn, conn, pc, now_us, clock>>
  BY DEF CloseIdle
<1>3. TypeOK'
  <2>1. idle_list' \in Seq(Conns)
    BY <1>1, <1>2, DetachedGood DEF conn_done, GoodList
  <2>2. QED
    BY <1>1, <1>2, <2>1 DEF IInv, TypeOK, conn_done
<1>4. QED
  BY <1>1, <1>2, <1>3, DoneIInv

\* The least free descriptor is free.
LEMMA LeastOfFree ==
  ASSUME NEW F, F \subseteq Nat, F # {}
  PROVE  LeastOf(F) \in F
<1>1. PICK x \in F : \A y \in F : ~(<<y, x>> \in OpToRel(<, Nat))
  BY WFMin, NatLessThanWellFounded, Zenon
<1>2. \A y \in F : ~(y < x)
  <2>1. ASSUME NEW y \in F, y < x PROVE <<y, x>> \in OpToRel(<, Nat)
    BY <2>1, <1>1, Zenon DEF OpToRel
  <2>2. QED
    BY <1>1, <2>1
<1>3. \A y \in F : x <= y
  <2>1. x \in Nat /\ \A y \in F : y \in Nat
    OBVIOUS
  <2>2. QED
    BY <1>2, <2>1
<1>4. QED
  BY <1>1, <1>3 DEF LeastOf

LEMMA AcceptIInv ==
  ASSUME IInv, Accept
  PROVE  IInv'
<1> USE EventLoopAssumption
<1>1. UNCHANGED <<now_us, clock>> /\ pc' = "scan"
  BY DEF Accept
<1>2. CASE NoAccept
  BY <1>1, <1>2, CoreUnchanged DEF IInv, TypeOK, NoAccept
<1>3. CASE accept_new_conn
  <2> DEFINE fd == LeastOf(Fds \ OpenFds)
  <2>1. PICK c \in Conns \ live :
           /\ Fds \ OpenFds # {}
           /\ conn' = [conn EXCEPT ![c] = Accepted(fd)]
           /\ fd2conn' = [fd2conn EXCEPT ![fd] = c]
           /\ g_fd2conn' = [g_fd2conn EXCEPT ![fd] = c]
           /\ live' = live \cup {c}
           /\ idle_list' = Append(idle_list, c)
    BY <1>3 DEF accept_new_conn
  <2>2. fd \in Fds /\ fd \notin OpenFds
    BY <2>1, LeastOfFree
  <2> HIDE DEF fd
  <2>3. /\ conn'[c] = Accepted(fd) /\ \A d \in Conns \ {c} : conn'[d] = conn[d]
        /\ conn' \in [Conns -> [fd : Fds \cup {-1}, idle_start : 0..MaxClock,
                                state : {"STATE_REQ", "STATE_RES", "STATE_END"}]]
    BY <2>1, <2>2 DEF IInv, TypeOK, Accepted
  <2>4. \A d \in live : d \in Conns /\ d # c /\ conn[d].fd # fd /\ conn'[d] = conn[d]
    BY <2>1, <2>2, <2>3 DEF IInv, TypeOK, OpenFds
  <2>5. GoodList(idle_list', live', conn')
    <3>1. GoodList(idle_list, live, conn')
      BY <2>4, GoodListChange DEF IInv
    <3>2. \A i \in DOMAIN idle_list : conn'[idle_list[i]].idle_start <= conn'[c].idle_start
      BY <2>3, <2>4, GoodListFacts DEF IInv, LiveSound, Accepted
    <3>3. QED
      BY <2>1, <3>1, <3>2, GoodListAppend
  <2>6. TypeOK'
    BY <1>1, <2>1, <2>2, <2>3, <2>5 DEF IInv, TypeOK, GoodList
  <2>7. LiveSound'
    BY <1>1, <2>1, <2>2, <2>3, <2>4 DEF IInv, LiveSound, TypeOK, Accepted
  <2>8. Maps'
    <3>1. conn'[c].fd = fd
      BY <2>3 DEF Accepted
    <3>2. g_fd2conn'[fd] = c /\ \A e \in Fds \ {fd} : g_fd2conn'[e] = g_fd2conn[e]
      BY <2>1, <2>2 DEF IInv, TypeOK
    <3>3. fd2conn'[fd] = c /\ \A e \in Fds \ {fd} : fd2conn'[e] = fd2conn[e]
      BY <2>1, <2>2 DEF IInv, TypeOK
    <3>4. ASSUME NEW e \in Fds, NEW d \in Conns
          PROVE  g_fd2conn'[e] = d <=> d \in live' /\ conn'[d].fd = e
      BY <2>1, <2>2, <2>3, <2>4, <3>1, <3>2 DEF IInv, Maps
    <3>5. ASSUME NEW d \in live' PROVE fd2conn'[conn'[d].fd] = d
      BY <2>1, <2>2, <2>4, <3>1, <3>3 DEF IInv, Maps, LiveSound
    <3>6. QED
      BY <3>4, <3>5 DEF Maps
  <2>9. QED
    BY <2>5, <2>6, <2>7, <2>8 DEF IInv
<1>4. QED
  BY <1>2, <1>3 DEF Accept

LEMMA TickIInv ==
  ASSUME IInv, Tick
  PROVE  IInv'
<1> USE EventLoopAssumption DEF Tick, IInv, TypeOK
<1>1. TypeOK' /\ Maps'
  BY DEF Maps
<1>2. LiveSound'
  BY DEF LiveSound
<1>3. GoodList(idle_list, live, conn)'
  OBVIOUS
<1>4. QED
  BY <1>1, <1>2, <1>3

LEMMA NextIInv == IInv /\ [Next]_vars => IInv'
<1> SUFFICES ASSUME IInv, [Next]_vars PROVE IInv'
  OBVIOUS
<1>1. CASE Scan
  BY <1>1, CoreUnchanged DEF Scan, IInv, TypeOK
<1>2. CASE Poll
  BY <1>2, CoreUnchanged DEF Poll, IInv, TypeOK
<1>3. CASE Io
  BY <1>3, IoIInv
<1>4. CASE process_timers
  <2>1. now_us' \in Nat
    BY <1>4, EventLoopAssumption DEF process_timers, IInv, TypeOK
  <2>2. QED
    BY <1>4, <2>1, CoreUnchanged DEF process_timers
<1>5. CASE CloseIdle
  BY <1>5, CloseIdleIInv
<1>6. CASE NoneIdle
  BY <1>6, CoreUnchanged DEF NoneIdle
<1>7. CASE Accept
  BY <1>7, AcceptIInv
<1>8. CASE Tick
  BY <1>8, TickIInv
<1>9. CASE UNCHANGED vars
  BY <1>9, CoreUnchanged DEF vars, IInv, TypeOK
<1>10. QED
  BY <1>1, <1>2, <1>3, <1>4, <1>5, <1>6, <1>7, <1>8, <1>9 DEF Next, MainStep

\* The inductive invariant holds of every reachable state.
THEOREM IInvHolds == Spec => []IInv
BY InitIInv, NextIInv, PTL DEF Spec
-----------------------------------------------------------------------------
(* The properties *)

\* g_data knows exactly the allocated connections, each by its descriptor and
\* with one timer, and main's map has those too, whatever freed ones it keeps.
THEOREM ConnsAccountedHolds == Spec => []ConnsAccounted
<1>1. IInv => ConnsAccounted
  BY IInvImplies
<1>2. QED
  BY IInvHolds, <1>1, PTL

\* The list of idle timers is in the order they run out.
THEOREM IdleListSortedHolds == Spec => []IdleListSorted
<1>1. IInv => IdleListSorted
  BY IInvImplies
<1>2. QED
  BY IInvHolds, <1>1, PTL

\* The first connection of the list is idle if any is.
LEMMA FirstIsIdlest ==
  ASSUME IInv, now_us \in Nat, ~(idle_list # <<>> /\ IsIdle(Head(idle_list))), NEW c \in live
  PROVE  ~IsIdle(c)
<1>1. c \in Conns /\ conn[c].idle_start \in Nat
  BY EventLoopAssumption DEF IInv, TypeOK
<1>2. PICK i \in 1..Len(idle_list) : idle_list[i] = c
  BY <1>1, GoodListFacts DEF IInv
<1>3. 1 \in DOMAIN idle_list /\ i \in DOMAIN idle_list /\ idle_list # <<>>
        /\ Head(idle_list) = idle_list[1] /\ idle_list[1] \in Conns
  BY <1>2 DEF IInv, TypeOK
<1>4. conn[idle_list[1]].idle_start <= conn[c].idle_start
  <2>1. CASE i = 1
    BY <1>1, <1>2, <2>1
  <2>2. CASE 1 < i
    BY <1>2, <1>3, <2>2 DEF IInv, GoodList, Ordered
  <2>3. QED
    BY <1>2, <2>1, <2>2
<1>5. conn[idle_list[1]].idle_start \in Nat
  BY <1>3, EventLoopAssumption DEF IInv, TypeOK
<1>6. QED
  BY <1>1, <1>3, <1>4, <1>5, EventLoopAssumption DEF IsIdle

\* process_timers may stop at the first connection that was not idle for too
\* long: no other was.
THEOREM NoIdleLeftHolds == Spec => NoIdleLeft
<1>1. ASSUME IInv, [Next]_vars, pc = "timers", pc' = "accept"
      PROVE  \A c \in live : ~IsIdle(c)
  <2>1. NoneIdle
    BY <1>1 DEF Next, MainStep, Scan, Poll, Io, process_timers, CloseIdle, Accept, Tick, vars
  <2>2. now_us \in Nat
    BY <1>1 DEF IInv, TypeOK
  <2>3. QED
    BY <1>1, <2>1, <2>2, FirstIsIdlest DEF NoneIdle
<1>2. IInv /\ [Next]_vars
        => [pc = "timers" /\ pc' = "accept" => \A c \in live : ~IsIdle(c)]_vars
  BY <1>1
<1>3. QED
  BY IInvHolds, <1>2, PTL DEF Spec, NoIdleLeft
=============================================================================
