---------------------------- MODULE ClientProofs ----------------------------
(***************************************************************************)
(* Proofs about Client for any requests and answers, any sizes of messages *)
(* and of the socket's buffers, and any way the stream is cut.             *)
(*                                                                         *)
(* The contents of messages come first: where FlattenSeq puts the parts of *)
(* a message, that parse_req gives back the command send_req was given,    *)
(* and that on_response takes the items of an answer one by one, whatever  *)
(* follows them. What is recursive in Wire is a recursive function, which  *)
(* stands for a CHOOSE; Recursion gives the function that is chosen.       *)
(*                                                                         *)
(* ClientInv then says how much of the reply the client has read in each   *)
(* place, how many items it has printed, and that its loops wait for as    *)
(* many elements as the answer has still to come. That what it has read is *)
(* the start of the reply is known from ConnectionProofs: every step of    *)
(* the program is one of the client there.                                 *)
(***************************************************************************)
EXTENDS Client, ConnectionProofs
-----------------------------------------------------------------------------
(* Recursive functions, and sequences laid end to end *)

\* Induction, as the smallest counterexample.
LEMMA LeastOf ==
  ASSUME NEW S, S \subseteq Nat, S # {}
  PROVE  \E n \in S : \A m \in S : n <= m
<1>1. PICK n \in S : \A m \in S : ~(<<m, n>> \in OpToRel(<, Nat))
  BY WFMin, NatLessThanWellFounded, Zenon
<1>2. \A m \in S : ~(m < n)
  BY <1>1 DEF OpToRel
<1>3. QED
  BY <1>2

\* f begins with c, and step gives each value from the one before.
IsStep(step, n, V) == step \in [(1..n) \X V -> V]
Follows(f, n, V, c, step) ==
  f \in [0..n -> V] /\ f[0] = c /\ \A i \in 1..n : f[i] = step[<<i, f[i - 1]>>]

\* There is such a function.
LEMMA Recursion ==
  ASSUME NEW V, NEW n \in Nat, NEW c \in V, NEW step, IsStep(step, n, V)
  PROVE  \E f : Follows(f, n, V, c, step)
<1> USE DEF IsStep, Follows
<1> DEFINE Good(k, f) == f[0] = c /\ \A i \in 1..k : f[i] = step[<<i, f[i - 1]>>]
           Bad == {k \in 0..n : ~\E f \in [0..k -> V] : Good(k, f)}
<1>1. ASSUME NEW k \in Bad, \A m \in Bad : k <= m
      PROVE  FALSE
  <2>1. CASE k = 0
    <3> DEFINE f == [i \in 0..0 |-> c]
    <3>1. f \in [0..0 -> V] /\ Good(0, f)
      OBVIOUS
    <3>2. QED
      BY <2>1, <3>1
  <2>2. CASE k # 0
    <3>1. k \in 1..n /\ k - 1 \in 0..n /\ k - 1 \notin Bad
      BY <1>1, <2>2
    <3>2. PICK f \in [0..(k - 1) -> V] : Good(k - 1, f)
      BY <3>1
    <3> DEFINE g == [i \in 0..k |-> IF i = k THEN step[<<k, f[k - 1]>>] ELSE f[i]]
    <3>3. f[k - 1] \in V /\ step[<<k, f[k - 1]>>] \in V
      BY <3>1
    <3>4. g \in [0..k -> V]
      BY <3>1, <3>3
    <3>5. g[0] = c
      BY <3>1, <3>2
    <3>6. ASSUME NEW i \in 1..k
          PROVE  g[i] = step[<<i, g[i - 1]>>]
      <4>1. CASE i = k
        <5>1. i \in 0..k /\ i - 1 \in 0..k /\ i - 1 # k
          BY <3>1, <4>1
        <5>2. g[i] = step[<<k, f[k - 1]>>] /\ g[i - 1] = f[i - 1]
          BY <4>1, <5>1
        <5>3. QED
          BY <4>1, <5>2
      <4>2. CASE i # k
        <5>1. i \in 1..(k - 1) /\ i - 1 \in 0..(k - 1) /\ i - 1 # k /\ i \in 0..k /\ i - 1 \in 0..k
          BY <3>1, <4>2
        <5>2. g[i] = f[i] /\ g[i - 1] = f[i - 1]
          BY <4>2, <5>1
        <5>3. QED
          BY <3>2, <5>1, <5>2
      <4>3. QED
        BY <4>1, <4>2
    <3>7. Good(k, g)
      BY <3>5, <3>6
    <3>8. QED
      BY <3>4, <3>7
  <2>3. QED
    BY <2>1, <2>2
<1>2. Bad = {}
  <2>1. Bad \subseteq Nat
    OBVIOUS
  <2> HIDE DEF Bad
  <2>2. QED
    BY <1>1, <2>1, LeastOf
<1>3. n \in 0..n
  OBVIOUS
<1>4. PICK f \in [0..n -> V] : Good(n, f)
  BY <1>2, <1>3
<1>5. QED
  BY <1>4

\* Where the parts of a message end: part i begins after ends[i - 1].
IsPlaces(ends, parts) ==
  /\ ends \in [0..Len(parts) -> Nat] /\ ends[0] = 0
  /\ \A i \in 1..Len(parts) : ends[i] = ends[i - 1] + Len(parts[i])

\* The first k parts are at their places in s, and are all of it.
Laid(s, ends, parts, k) ==
  /\ s \in Seq(Int) /\ Len(s) = ends[k]
  /\ \A i \in 1..k : /\ ends[i] <= Len(s)
                     /\ \A j \in 1..Len(parts[i]) : s[ends[i - 1] + j] = parts[i][j]

LEMMA JoinAt ==
  ASSUME NEW S, NEW s \in Seq(S), NEW t \in Seq(S)
  PROVE  /\ \A i \in 1..Len(s) : (s \o t)[i] = s[i]
         /\ \A i \in 1..Len(t) : (s \o t)[Len(s) + i] = t[i]
OBVIOUS

LEMMA PartTypes ==
  ASSUME NEW parts \in Seq(Seq(Int))
  PROVE  /\ Len(parts) \in Nat
         /\ \A i \in 1..Len(parts) : parts[i] \in Seq(Int) /\ Len(parts[i]) \in Nat
<1>1. Len(parts) \in Nat /\ \A i \in 1..Len(parts) : parts[i] \in Seq(Int)
  OBVIOUS
<1>2. \A q \in Seq(Int) : Len(q) \in Nat
  OBVIOUS
<1>3. QED
  BY <1>1, <1>2

LEMMA LaidNext ==
  ASSUME NEW parts \in Seq(Seq(Int)), NEW ends, IsPlaces(ends, parts), NEW k \in 1..Len(parts),
         NEW s, Laid(s, ends, parts, k - 1)
  PROVE  Laid(s \o parts[k], ends, parts, k)
<1> DEFINE p == parts[k]
           t == s \o p
           n == Len(parts)
<1>1. n \in Nat /\ k \in 1..n /\ p \in Seq(Int) /\ Len(p) \in Nat
  BY PartTypes
<1>2. k \in Nat /\ k - 1 \in 0..n /\ k \in 0..n
  BY <1>1
<1>3. ends[k - 1] \in Nat /\ ends[k] \in Nat /\ ends[k] = ends[k - 1] + Len(p)
  BY <1>1, <1>2 DEF IsPlaces
<1>4. s \in Seq(Int) /\ Len(s) = ends[k - 1]
  BY DEF Laid
<1> HIDE DEF p, n
<1>5. t \in Seq(Int) /\ Len(t) = ends[k]
  BY <1>1, <1>3, <1>4, Join
<1>6. /\ \A i \in 1..Len(s) : t[i] = s[i]
      /\ \A i \in 1..Len(p) : t[Len(s) + i] = p[i]
  <2>1. p \in Seq(Int) /\ s \in Seq(Int)
    BY <1>1, <1>4
  <2>2. QED
    BY <2>1
<1> HIDE DEF t
<1>7. ASSUME NEW i \in 1..k
      PROVE  /\ ends[i] <= Len(t)
             /\ \A j \in 1..Len(parts[i]) : t[ends[i - 1] + j] = parts[i][j]
  <2>1. CASE i = k
    BY <1>3, <1>4, <1>5, <1>6, <2>1 DEF p
  <2>2. CASE i # k
    <3>1. i \in 1..(k - 1) /\ i \in 1..n /\ i - 1 \in 0..n /\ i \in 0..n
      BY <1>1, <1>2, <2>2
    <3>2. /\ ends[i] <= Len(s)
          /\ \A j \in 1..Len(parts[i]) : s[ends[i - 1] + j] = parts[i][j]
      BY <3>1 DEF Laid
    <3>3. /\ ends[i - 1] \in Nat /\ ends[i] \in Nat /\ ends[i] = ends[i - 1] + Len(parts[i])
      BY <3>1 DEF IsPlaces, n
    <3>4. Len(parts[i]) \in Nat
      BY <3>1, PartTypes DEF n
    <3>5. ASSUME NEW j \in 1..Len(parts[i])
          PROVE  t[ends[i - 1] + j] = parts[i][j]
      <4>1. Len(s) \in Nat /\ ends[i] <= Len(s)
        BY <1>3, <1>4, <3>2
      <4>2. ends[i - 1] + j \in 1..Len(s)
        <5>1. \A a, b, l, m \in Nat : b = a + l /\ b <= m => \A x \in 1..l : a + x \in 1..m
          OBVIOUS
        <5>2. QED
          BY <3>3, <3>4, <4>1, <5>1
      <4>3. QED
        BY <1>6, <3>2, <4>2
    <3>6. ends[i] <= Len(t)
      <4>1. \A a, b, c, l \in Nat : a <= b /\ c = b + l => a <= c
        OBVIOUS
      <4>2. QED
        BY <1>1, <1>3, <1>4, <1>5, <3>2, <3>3, <4>1
    <3>7. QED
      BY <3>5, <3>6
  <2>3. QED
    BY <2>1, <2>2
<1>8. QED
  BY <1>5, <1>7 DEF Laid, t, p

\* FlattenSeq lays the parts one after the other.
LEMMA FlattenLaid ==
  ASSUME NEW parts \in Seq(Seq(Int))
  PROVE  \E ends : IsPlaces(ends, parts) /\ Laid(FlattenSeq(parts), ends, parts, Len(parts))
<1> DEFINE n == Len(parts)
           add == [p \in (1..n) \X Nat |-> p[2] + Len(parts[p[1]])]
           join == [p \in (1..n) \X Seq(Int) |-> p[2] \o parts[p[1]]]
<1>1. n \in Nat /\ \A i \in 1..n : parts[i] \in Seq(Int) /\ Len(parts[i]) \in Nat
  BY PartTypes
<1> HIDE DEF n
<1>2. PICK ends : IsPlaces(ends, parts)
  <2>1. IsStep(add, n, Nat) /\ 0 \in Nat
    BY <1>1 DEF IsStep
  <2> HIDE DEF add
  <2>2. PICK f : Follows(f, n, Nat, 0, add)
    BY <1>1, <2>1, Recursion, Zenon
  <2>3. \A i \in 1..n : f[i] = f[i - 1] + Len(parts[i])
    <3>1. \A i \in 1..n : i - 1 \in 0..n
      BY <1>1
    <3>2. \A i \in 1..n : <<i, f[i - 1]>> \in (1..n) \X Nat
      BY <2>2, <3>1 DEF Follows
    <3>3. QED
      BY <2>2, <3>2 DEF add, Follows
  <2>4. QED
    BY <2>2, <2>3 DEF IsPlaces, n, Follows
<1>3. CASE n = 0
  <2>1. parts = <<>> /\ FlattenSeq(parts) = <<>>
    BY <1>3 DEF FlattenSeq, n
  <2>2. <<>> \in Seq(Int) /\ Len(<<>>) = ends[0]
    BY <1>2 DEF IsPlaces
  <2>3. 1..0 = {}
    OBVIOUS
  <2>4. Laid(FlattenSeq(parts), ends, parts, n)
    BY <1>3, <2>1, <2>2, <2>3 DEF Laid
  <2>5. QED
    BY <1>2, <2>4 DEF n
<1>4. CASE n # 0
  <2>1. IsStep(join, n, Seq(Int))
    BY <1>1 DEF IsStep
  <2>2. <<>> \in Seq(Int)
    OBVIOUS
  <2> HIDE DEF join
  <2>3. PICK g : Follows(g, n, Seq(Int), <<>>, join)
    BY <1>1, <2>1, <2>2, Recursion, Zenon
  <2>4. \A i \in 1..n : g[i] = g[i - 1] \o parts[i]
    <3>1. \A i \in 1..n : i - 1 \in 0..n
      BY <1>1
    <3>2. \A i \in 1..n : <<i, g[i - 1]>> \in (1..n) \X Seq(Int)
      BY <2>3, <3>1 DEF Follows
    <3>3. QED
      BY <2>3, <3>2 DEF join, Follows
  <2> DEFINE Step(h, i) == IF i = 1 THEN parts[i] ELSE h[i - 1] \o parts[i]
             flatten == CHOOSE h : h = [i \in 1..n |-> Step(h, i)]
             f == [i \in 1..n |-> g[i]]
  <2>5. f = [i \in 1..n |-> Step(f, i)]
    <3>1. ASSUME NEW i \in 1..n PROVE f[i] = Step(f, i)
      <4>1. CASE i = 1
        <5>1. g[1] = g[0] \o parts[1] /\ g[0] = <<>> /\ parts[1] \in Seq(Int)
          <6>1. i - 1 = 0 /\ i \in 1..n
            BY <4>1
          <6>2. g[i] = g[0] \o parts[i] /\ parts[i] \in Seq(Int)
            BY <1>1, <2>4, <6>1
          <6>3. QED
            BY <2>3, <4>1, <6>2 DEF Follows
        <5>2. <<>> \o parts[1] = parts[1]
          BY <5>1, ConcatEmptySeq
        <5>3. QED
          BY <4>1, <5>1, <5>2, Zenon
      <4>2. CASE i # 1
        <5>1. i - 1 \in 1..n
          BY <1>1, <4>2
        <5>2. QED
          BY <2>4, <4>2, <5>1
      <4>3. QED
        BY <4>1, <4>2
    <3>2. QED
      BY <3>1, Zenon
  <2>6. flatten = [i \in 1..n |-> Step(flatten, i)]
    BY <2>5, Zenon
  <2>7. FlattenSeq(parts) = flatten[n]
    BY <1>4, Zenon DEF FlattenSeq, n
  <2> HIDE DEF flatten
  <2> DEFINE Bad == {k \in 1..n : ~Laid(flatten[k], ends, parts, k)}
  <2>8. Laid(<<>>, ends, parts, 0)
    BY <1>2 DEF Laid, IsPlaces
  <2>9. ASSUME NEW k \in Bad, \A m \in Bad : k <= m PROVE FALSE
    <3>1. k \in 1..n /\ flatten[k] = Step(flatten, k)
      BY <2>6, Zenon
    <3>2. CASE k = 1
      <4>1. parts[1] \in Seq(Int) /\ <<>> \o parts[1] = parts[1] /\ k - 1 = 0
        BY <1>1, <3>1, <3>2, ConcatEmptySeq
      <4>2. flatten[k] = <<>> \o parts[k]
        BY <3>1, <3>2, <4>1
      <4>3. Laid(flatten[k], ends, parts, k)
        BY <1>2, <2>8, <3>1, <4>1, <4>2, LaidNext DEF n
      <4>4. QED
        BY <4>3
    <3>3. CASE k # 1
      <4>1. k - 1 \in 1..n /\ k - 1 \notin Bad
        BY <1>1, <2>9, <3>1, <3>3
      <4>2. Laid(flatten[k - 1], ends, parts, k - 1)
        BY <4>1
      <4>3. flatten[k] = flatten[k - 1] \o parts[k]
        BY <3>1, <3>3
      <4>4. QED
        BY <1>2, <3>1, <4>2, <4>3, LaidNext DEF n
    <3>4. QED
      BY <3>2, <3>3
  <2>10. Bad = {}
    <3>1. Bad \subseteq Nat
      OBVIOUS
    <3> HIDE DEF Bad
    <3>2. QED
      BY <2>9, <3>1, LeastOf
  <2>11. n \in 1..n
    BY <1>1, <1>4
  <2>12. Laid(flatten[n], ends, parts, n)
    BY <2>10, <2>11
  <2>13. QED
    BY <1>2, <2>7, <2>12 DEF n
<1>5. QED
  BY <1>3, <1>4
-----------------------------------------------------------------------------
(* Requests: parse_req undoes send_req *)

\* Where the strings of a body end.
IsBody(body, ends, cmd) ==
  /\ body \in Seq(Int) /\ Len(body) = ends[Len(cmd)] /\ body[1] = Len(cmd)
  /\ ends \in [0..Len(cmd) -> Nat] /\ ends[0] = 1
  /\ \A i \in 1..Len(cmd) :
        /\ ends[i] = ends[i - 1] + 1 + Len(cmd[i]) /\ ends[i] <= Len(body)
        /\ body[ends[i - 1] + 1] = Len(cmd[i])
        /\ \A j \in 1..Len(cmd[i]) : body[ends[i - 1] + 1 + j] = cmd[i][j]

LEMMA StringUnitsFacts ==
  ASSUME NEW q \in Seq(Int)
  PROVE  /\ StringUnits(q) \in Seq(Int) /\ Len(StringUnits(q)) = 1 + Len(q)
         /\ StringUnits(q)[1] = Len(q)
         /\ \A j \in 1..Len(q) : StringUnits(q)[1 + j] = q[j]
<1>1. Len(q) \in Nat /\ <<Len(q)>> \in Seq(Int) /\ Len(<<Len(q)>>) = 1 /\ <<Len(q)>>[1] = Len(q)
  OBVIOUS
<1>2. QED
  BY <1>1, Join, JoinAt DEF StringUnits

LEMMA BodyPlaces ==
  ASSUME NEW cmd \in Seq(Seq(Int))
  PROVE  \E ends : IsBody(RequestBody(cmd), ends, cmd)
<1> DEFINE n == Len(cmd)
           parts == [i \in DOMAIN cmd |-> StringUnits(cmd[i])]
           flat == FlattenSeq(parts)
           body == <<n>> \o flat
<1>1. n \in Nat /\ DOMAIN cmd = 1..n /\ \A i \in 1..n : cmd[i] \in Seq(Int) /\ Len(cmd[i]) \in Nat
  BY PartTypes
<1> HIDE DEF n
<1>2. parts = [i \in 1..n |-> StringUnits(cmd[i])]
  BY <1>1
<1>3. /\ parts \in Seq(Seq(Int)) /\ Len(parts) = n
      /\ \A i \in 1..n : parts[i] = StringUnits(cmd[i])
  <2>1. \A i \in 1..n : StringUnits(cmd[i]) \in Seq(Int)
    BY <1>1, StringUnitsFacts
  <2> HIDE DEF parts
  <2>2. QED
    BY <1>1, <1>2, <2>1
<1> HIDE DEF parts
<1>4. PICK places : IsPlaces(places, parts) /\ Laid(flat, places, parts, n)
  BY <1>3, FlattenLaid
<1>5. flat \in Seq(Int) /\ Len(flat) = places[n] /\ places \in [0..n -> Nat] /\ places[0] = 0
  BY <1>3, <1>4 DEF IsPlaces, Laid
<1> HIDE DEF flat
<1>6. /\ body \in Seq(Int) /\ Len(body) = 1 + Len(flat) /\ body[1] = n
      /\ \A i \in 1..Len(flat) : body[1 + i] = flat[i]
  <2>1. <<n>> \in Seq(Int) /\ Len(<<n>>) = 1 /\ <<n>>[1] = n
    BY <1>1
  <2>2. QED
    BY <1>5, <2>1, Join, JoinAt
<1>7. body = RequestBody(cmd)
  BY DEF RequestBody, flat, parts, n
<1> HIDE DEF body
<1> DEFINE ends == [i \in 0..n |-> 1 + places[i]]
<1>8. ends \in [0..n -> Nat] /\ ends[0] = 1 /\ Len(body) = ends[n]
  BY <1>1, <1>5, <1>6
<1>9. ASSUME NEW i \in 1..n
      PROVE  /\ ends[i] = ends[i - 1] + 1 + Len(cmd[i]) /\ ends[i] <= Len(body)
             /\ body[ends[i - 1] + 1] = Len(cmd[i])
             /\ \A j \in 1..Len(cmd[i]) : body[ends[i - 1] + 1 + j] = cmd[i][j]
  <2> DEFINE c == Len(cmd[i])
             a == places[i - 1]
             b == places[i]
             m == Len(flat)
  <2>1. /\ c \in Nat /\ i - 1 \in 0..n /\ i \in 0..n /\ a \in Nat /\ b \in Nat /\ m \in Nat
        /\ ends[i - 1] = 1 + a /\ ends[i] = 1 + b
    BY <1>1, <1>5
  <2>2. /\ Len(parts[i]) = 1 + c /\ parts[i][1] = c
        /\ \A j \in 1..c : parts[i][1 + j] = cmd[i][j]
    <3>1. cmd[i] \in Seq(Int) /\ parts[i] = StringUnits(cmd[i])
      BY <1>1, <1>3
    <3>2. QED
      BY <3>1, StringUnitsFacts
  <2>3. b = a + (1 + c) /\ b <= m /\ \A j \in 1..(1 + c) : flat[a + j] = parts[i][j]
    BY <1>3, <1>4, <2>2 DEF IsPlaces, Laid
  <2> HIDE DEF a, b, c, m, ends
  <2>4. \A j \in 1..(1 + c) : a + j \in 1..m /\ (1 + a) + j = 1 + (a + j)
    BY <2>1, <2>3
  <2>5. \A j \in 1..(1 + c) : body[(1 + a) + j] = parts[i][j]
    BY <1>6, <2>3, <2>4 DEF m
  <2>6. ends[i] = ends[i - 1] + 1 + c /\ ends[i] <= Len(body)
    <3>1. Len(body) = 1 + m
      BY <1>6 DEF m
    <3>2. QED
      BY <2>1, <2>3, <3>1
  <2>7. body[ends[i - 1] + 1] = c
    BY <2>1, <2>2, <2>5
  <2>8. ASSUME NEW j \in 1..c PROVE body[ends[i - 1] + 1 + j] = cmd[i][j]
    <3>1. 1 + j \in 1..(1 + c) /\ ends[i - 1] + 1 + j = (1 + a) + (1 + j)
      BY <2>1
    <3>2. QED
      BY <2>2, <2>5, <3>1
  <2>9. QED
    BY <2>6, <2>7, <2>8 DEF c
<1> HIDE DEF ends
<1>10. IsBody(body, ends, cmd)
  BY <1>6, <1>8, <1>9 DEF IsBody, n
<1>11. QED
  BY <1>7, <1>10

\* c elements of s after the first a.
LEMMA Piece ==
  ASSUME NEW S, NEW s \in Seq(S), NEW a \in Nat, NEW c \in Nat, a + c <= Len(s)
  PROVE  /\ SubSeq(s, a + 1, a + c) \in Seq(S) /\ Len(SubSeq(s, a + 1, a + c)) = c
         /\ \A j \in 1..c : SubSeq(s, a + 1, a + c)[j] = s[a + j]
<1>1. Len(s) \in Nat /\ \A j \in (a + 1)..(a + c) : j \in 1..Len(s) /\ s[j] \in S
  OBVIOUS
<1>2. Len(SubSeq(s, a + 1, a + c)) = c
  <2>1. (a + c) - (a + 1) + 1 = c
    OBVIOUS
  <2>2. QED
    BY <1>1, <2>1, SubSeqProperties
<1>3. SubSeq(s, a + 1, a + c) \in Seq(S)
  BY <1>1, SubSeqProperties
<1>4. \A j \in 1..c : SubSeq(s, a + 1, a + c)[j] = s[a + j]
  BY <1>1, <1>2
<1>5. QED
  BY <1>2, <1>3, <1>4

\* An item more of s.
LEMMA OneMore ==
  ASSUME NEW S, NEW s \in Seq(S), NEW i \in Nat, i + 1 \in 1..Len(s)
  PROVE  Append(SubSeq(s, 1, i), s[i + 1]) = SubSeq(s, 1, i + 1)
<1> DEFINE p == SubSeq(s, 1, i)
           q == Append(p, s[i + 1])
           t == SubSeq(s, 1, i + 1)
<1>1. Len(s) \in Nat /\ i <= Len(s) /\ i + 1 <= Len(s) /\ s[i + 1] \in S
  OBVIOUS
<1>2. p \in Seq(S) /\ Len(p) = i /\ \A j \in 1..i : p[j] = s[j]
  BY <1>1
<1>3. t \in Seq(S) /\ Len(t) = i + 1 /\ \A j \in 1..(i + 1) : t[j] = s[j]
  BY <1>1
<1> HIDE DEF p, t
<1>4. /\ q \in Seq(S) /\ Len(q) = i + 1 /\ q[i + 1] = s[i + 1]
      /\ \A j \in 1..i : q[j] = p[j]
  BY <1>1, <1>2
<1> HIDE DEF q
<1>5. ASSUME NEW j \in 1..(i + 1) PROVE q[j] = t[j]
  <2>1. j \in 1..i \/ j = i + 1
    OBVIOUS
  <2>2. QED
    BY <1>2, <1>3, <1>4, <2>1
<1>6. q = t
  BY <1>3, <1>4, <1>5, SeqEqual
<1>7. QED
  BY <1>6 DEF p, q, t

\* One iteration of the loop takes the next string.
LEMMA TakesString ==
  ASSUME NEW cmd \in Seq(Seq(Int)), NEW body, NEW ends, IsBody(body, ends, cmd),
         NEW i \in 1..Len(cmd)
  PROVE  /\ Fits(body, ends[i - 1])
         /\ TakeString(body, [pos |-> ends[i - 1], out |-> SubSeq(cmd, 1, i - 1)])
               = [pos |-> ends[i], out |-> SubSeq(cmd, 1, i)]
<1> DEFINE a == ends[i - 1]
           c == Len(cmd[i])
           s == [pos |-> a, out |-> SubSeq(cmd, 1, i - 1)]
           string == SubSeq(body, a + 2, a + 1 + c)
<1>1. /\ Len(cmd) \in Nat /\ cmd[i] \in Seq(Int) /\ c \in Nat /\ i \in Nat /\ i - 1 \in 0..Len(cmd)
      /\ i \in 0..Len(cmd)
  BY PartTypes
<1>2. /\ a \in Nat /\ ends[i] \in Nat /\ ends[i] = a + 1 + c /\ ends[i] <= Len(body)
      /\ body[a + 1] = c /\ body \in Seq(Int)
      /\ \A j \in 1..c : body[a + 1 + j] = cmd[i][j]
  BY <1>1 DEF IsBody
<1>3. /\ Len(body) \in Nat /\ a < Len(body)
      /\ a + 1 + body[a + 1] <= Len(body) /\ a + 1 + c <= Len(body)
  <2>1. Len(body) \in Nat
    BY <1>2
  <2> HIDE DEF a, c
  <2>2. QED
    BY <1>1, <1>2, <2>1
<1>4. Fits(body, a)
  BY <1>3 DEF Fits
<1>5. string = cmd[i]
  <2>1. /\ string \in Seq(Int) /\ Len(string) = c
        /\ \A j \in 1..c : string[j] = body[a + 1 + j]
    <3> HIDE DEF a, c
    <3> DEFINE b == a + 1
    <3>1. b \in Nat /\ b + 1 = a + 2 /\ b + c <= Len(body) /\ c \in Nat /\ body \in Seq(Int)
      BY <1>1, <1>2, <1>3
    <3>2. string = SubSeq(body, b + 1, b + c)
      BY <3>1
    <3> HIDE DEF b
    <3>3. /\ SubSeq(body, b + 1, b + c) \in Seq(Int) /\ Len(SubSeq(body, b + 1, b + c)) = c
          /\ \A j \in 1..c : SubSeq(body, b + 1, b + c)[j] = body[b + j]
      BY <3>1, Piece, Zenon
    <3>4. QED
      BY <3>2, <3>3 DEF b
  <2> HIDE DEF string
  <2>2. QED
    BY <1>1, <1>2, <2>1, SeqEqual
<1>6. Append(SubSeq(cmd, 1, i - 1), cmd[i]) = SubSeq(cmd, 1, i)
  <2> DEFINE t == Append(SubSeq(cmd, 1, i - 1), cmd[i])
             u == SubSeq(cmd, 1, i)
  <2>1. t \in Seq(Seq(Int)) /\ u \in Seq(Seq(Int)) /\ Len(t) = i /\ Len(u) = i
    BY <1>1
  <2>2. \A j \in 1..i : t[j] = u[j]
    BY <1>1
  <2> HIDE DEF t, u
  <2>3. QED
    BY <2>1, <2>2, SeqEqual DEF t, u
<1>7. TakeString(body, s) = [pos |-> a + 1 + c, out |-> Append(SubSeq(cmd, 1, i - 1), string)]
  BY <1>2 DEF TakeString
<1>8. QED
  BY <1>2, <1>4, <1>5, <1>6, <1>7

\* Whatever the strings of a command are, the body that send_req makes of them
\* is parsed to the same strings (client.cpp:63-92, server.cpp:172-210).
THEOREM ParseUndoes ==
  ASSUME NEW cmd \in Seq(Seq(Int)), Len(cmd) <= k_max_args
  PROVE  parse_req(RequestBody(cmd)) = {cmd}
<1> DEFINE body == RequestBody(cmd)
           n == Len(cmd)
<1>1. PICK ends : IsBody(body, ends, cmd)
  BY BodyPlaces
<1> DEFINE At(i) == [pos |-> ends[i], out |-> SubSeq(cmd, 1, i)]
           Step(h, i) == IF i = 0 THEN {[pos |-> 1, out |-> <<>>]}
                         ELSE {TakeString(body, s) : s \in {t \in h[i - 1] : Fits(body, t.pos)}}
           g == [i \in 0..n |-> {At(i)}]
           loop == CHOOSE h : h = [i \in 0..n |-> Step(h, i)]
<1>2. /\ n \in Nat /\ body # <<>> /\ body[1] = n /\ Len(body) = ends[n] /\ ends[0] = 1
      /\ SubSeq(cmd, 1, n) = cmd /\ SubSeq(cmd, 1, 0) = <<>>
  <2>1. n \in Nat /\ body[1] = n /\ Len(body) = ends[n] /\ ends[0] = 1
    BY <1>1 DEF IsBody
  <2>2. ends[n] \in Nat /\ ends[n] # 0
    <3>1. CASE n = 0
      BY <2>1, <3>1
    <3>2. CASE n # 0
      <4>1. n \in 1..n /\ n - 1 \in 0..n
        BY <2>1, <3>2
      <4>2. Len(cmd[n]) \in Nat /\ ends[n - 1] \in Nat /\ ends[n] = ends[n - 1] + 1 + Len(cmd[n])
        BY <1>1, <4>1, PartTypes DEF IsBody
      <4>3. QED
        BY <4>2
    <3>3. QED
      BY <3>1, <3>2
  <2>3. body # <<>>
    BY <2>1, <2>2
  <2>4. SubSeq(cmd, 1, n) = cmd /\ SubSeq(cmd, 1, 0) = <<>>
    BY SubSeqFull
  <2>5. QED
    BY <2>1, <2>3, <2>4
<1> HIDE DEF body, n
<1>3. ASSUME NEW h, NEW i \in 1..n, h[i - 1] = {At(i - 1)}
      PROVE  Step(h, i) = {At(i)}
  <2> DEFINE s == At(i - 1)
  <2>1. Fits(body, s.pos) /\ TakeString(body, s) = At(i)
    BY <1>1, TakesString DEF n
  <2> HIDE DEF s
  <2>2. {t \in h[i - 1] : Fits(body, t.pos)} = {s}
    BY <1>3, <2>1 DEF s
  <2>3. Step(h, i) = {TakeString(body, t) : t \in {s}}
    BY <1>2, <2>2
  <2>4. QED
    BY <2>1, <2>3
<1>4. {At(0)} = {[pos |-> 1, out |-> <<>>]}
  BY <1>2
<1>5. g = [i \in 0..n |-> Step(g, i)]
  <2>1. ASSUME NEW i \in 0..n PROVE g[i] = Step(g, i)
    <3>1. CASE i = 0
      BY <1>4, <3>1
    <3>2. CASE i # 0
      <4>1. i \in 1..n /\ i - 1 \in 0..n
        BY <1>2, <3>2
      <4>2. g[i - 1] = {At(i - 1)} /\ g[i] = {At(i)}
        BY <4>1
      <4> HIDE DEF g
      <4>3. QED
        BY <1>3, <4>1, <4>2
    <3>3. QED
      BY <3>1, <3>2
  <2>2. QED
    BY <2>1, Zenon
<1>6. loop = [i \in 0..n |-> Step(loop, i)]
  BY <1>5, Zenon
<1>7. parse_req(body) = {s.out : s \in {t \in loop[n] : t.pos = Len(body)}}
  BY <1>2, WireAssumption DEF parse_req, n
<1> HIDE DEF loop, g
<1> DEFINE Bad == {k \in 0..n : loop[k] # {At(k)}}
<1>8. ASSUME NEW k \in Bad, \A m \in Bad : k <= m PROVE FALSE
  <2>1. k \in 0..n /\ loop[k] = Step(loop, k)
    BY <1>6, Zenon
  <2>2. CASE k = 0
    BY <1>4, <2>1, <2>2
  <2>3. CASE k # 0
    <3>1. k \in 1..n /\ k - 1 \in 0..n /\ ~(k <= k - 1)
      BY <1>2, <2>1, <2>3
    <3>2. loop[k - 1] = {At(k - 1)}
      BY <1>8, <3>1
    <3>3. QED
      BY <1>3, <2>1, <3>1, <3>2
  <2>4. QED
    BY <2>2, <2>3
<1>9. Bad = {}
  <2>1. Bad \subseteq Nat
    OBVIOUS
  <2> HIDE DEF Bad
  <2>2. QED
    BY <1>8, <2>1, LeastOf
<1>10. loop[n] = {At(n)}
  <2>1. n \in 0..n
    BY <1>2
  <2>2. QED
    BY <1>9, <2>1
<1>11. {t \in {At(n)} : t.pos = Len(body)} = {At(n)}
  BY <1>2
<1>12. parse_req(body) = {At(n).out}
  BY <1>7, <1>10, <1>11
<1>13. QED
  BY <1>2, <1>12 DEF body
-----------------------------------------------------------------------------
(* Answers: on_response undoes the out_* functions *)

LEMMA Tags ==
  /\ SER.SER_NIL = 0 /\ SER.SER_ERR = 1 /\ SER.SER_STR = 2 /\ SER.SER_INT = 3
  /\ SER.SER_DBL = 4 /\ SER.SER_ARR = 5
BY DEF SER

LEMMA Codes ==
  /\ \A e \in DOMAIN Code : Code[e] \in Int
  /\ \A e, f \in DOMAIN Code : Code[e] = Code[f] => e = f
<1>1. /\ DOMAIN Code = {"ERR_UNKNOWN", "ERR_2BIG", "ERR_TYPE", "ERR_ARG"}
      /\ Code["ERR_UNKNOWN"] = 1 /\ Code["ERR_2BIG"] = 2 /\ Code["ERR_TYPE"] = 3
      /\ Code["ERR_ARG"] = 4
  BY DEF Code
<1>2. QED
  BY <1>1

\* The data begin with the units u.
StartsWith(data, u) ==
  /\ data \in Seq(Int) /\ u \in Seq(Int) /\ 0 < Len(u) /\ Len(u) <= Len(data)
  /\ \A j \in 1..Len(u) : data[j] = u[j]

LEMMA NilPrinted ==
  /\ ItemUnits(out_nil) \in Seq(Int) /\ Len(ItemUnits(out_nil)) = 1
  /\ \A d : StartsWith(d, ItemUnits(out_nil)) => on_response(d) = Printed(1, out_nil)
<1>1. ItemUnits(out_nil) = <<0>>
  BY Tags DEF ItemUnits, out_nil
<1>2. ASSUME NEW d, StartsWith(d, ItemUnits(out_nil))
      PROVE  on_response(d) = Printed(1, out_nil)
  <2>1. d # <<>> /\ d[1] = 0
    BY <1>1, <1>2 DEF StartsWith
  <2>2. QED
    BY <2>1, Tags DEF on_response
<1>3. QED
  BY <1>1, <1>2

LEMMA NumberPrinted ==
  ASSUME NEW x \in Int
  PROVE  /\ ItemUnits(out_int(x)) = <<3, x>> /\ ItemUnits(out_dbl(x)) = <<4, x>>
         /\ ItemUnits(out_arr(x)) = <<5, x>>
         /\ \A d : StartsWith(d, <<3, x>>) => on_response(d) = Printed(2, out_int(x))
         /\ \A d : StartsWith(d, <<4, x>>) => on_response(d) = Printed(2, out_dbl(x))
         /\ \A d : StartsWith(d, <<5, x>>) => on_response(d) = Printed(2, out_arr(x))
<1>1. /\ ItemUnits(out_int(x)) = <<3, x>> /\ ItemUnits(out_dbl(x)) = <<4, x>>
      /\ ItemUnits(out_arr(x)) = <<5, x>>
  BY Tags DEF ItemUnits, out_int, out_dbl, out_arr
<1>2. ASSUME NEW d, NEW t \in {3, 4, 5}, StartsWith(d, <<t, x>>)
      PROVE  d # <<>> /\ d[1] = t /\ d[2] = x /\ ~(Len(d) < 1 + 1)
  <2>1. Len(<<t, x>>) = 2 /\ <<t, x>>[1] = t /\ <<t, x>>[2] = x /\ 1 \in 1..2 /\ 2 \in 1..2
    OBVIOUS
  <2>2. d \in Seq(Int) /\ 2 <= Len(d) /\ d[1] = t /\ d[2] = x
    BY <1>2, <2>1 DEF StartsWith
  <2>3. QED
    BY <2>2
<1>3. \A d : StartsWith(d, <<3, x>>) => on_response(d) = Printed(2, out_int(x))
  <2> SUFFICES ASSUME NEW d, StartsWith(d, <<3, x>>)
               PROVE  on_response(d) = Printed(2, out_int(x))
    OBVIOUS
  <2>1. d # <<>> /\ d[1] = 3 /\ d[2] = x /\ ~(Len(d) < 1 + 1)
    BY <1>2
  <2>2. QED
    BY <2>1, Tags DEF on_response, PrintNumber
<1>4. \A d : StartsWith(d, <<4, x>>) => on_response(d) = Printed(2, out_dbl(x))
  <2> SUFFICES ASSUME NEW d, StartsWith(d, <<4, x>>)
               PROVE  on_response(d) = Printed(2, out_dbl(x))
    OBVIOUS
  <2>1. d # <<>> /\ d[1] = 4 /\ d[2] = x /\ ~(Len(d) < 1 + 1)
    BY <1>2
  <2>2. QED
    BY <2>1, Tags DEF on_response, PrintNumber
<1>5. \A d : StartsWith(d, <<5, x>>) => on_response(d) = Printed(2, out_arr(x))
  <2> SUFFICES ASSUME NEW d, StartsWith(d, <<5, x>>)
               PROVE  on_response(d) = Printed(2, out_arr(x))
    OBVIOUS
  <2>1. d # <<>> /\ d[1] = 5 /\ d[2] = x /\ ~(Len(d) < 1 + 1)
    BY <1>2
  <2>2. QED
    BY <2>1, Tags DEF on_response, PrintNumber
<1>6. QED
  BY <1>1, <1>3, <1>4, <1>5

LEMMA StrPrinted ==
  ASSUME NEW x \in Seq(Int)
  PROVE  /\ ItemUnits(out_str(x)) \in Seq(Int) /\ Len(ItemUnits(out_str(x))) = 2 + Len(x)
         /\ \A d : StartsWith(d, ItemUnits(out_str(x))) =>
                      on_response(d) = Printed(2 + Len(x), out_str(x))
<1> DEFINE u == <<2>> \o StringUnits(x)
<1>1. ItemUnits(out_str(x)) = u
  BY Tags DEF ItemUnits, out_str
<1>2. Len(x) \in Nat /\ StringUnits(x) \in Seq(Int) /\ Len(StringUnits(x)) = 1 + Len(x)
  BY StringUnitsFacts
<1>3. <<2>> \in Seq(Int) /\ Len(<<2>>) = 1 /\ <<2>>[1] = 2
  OBVIOUS
<1>4. /\ u \in Seq(Int) /\ Len(u) = 2 + Len(x) /\ u[1] = 2
      /\ \A j \in 1..(1 + Len(x)) : u[1 + j] = StringUnits(x)[j]
  BY <1>2, <1>3, Join, JoinAt
<1> HIDE DEF u
<1>5. u[2] = Len(x) /\ \A j \in 1..Len(x) : u[2 + j] = x[j]
  <2>1. /\ 1 \in 1..(1 + Len(x))
        /\ \A j \in 1..Len(x) : 1 + j \in 1..(1 + Len(x)) /\ 2 + j = 1 + (1 + j)
    BY <1>2
  <2>2. /\ StringUnits(x)[1] = Len(x)
        /\ \A j \in 1..Len(x) : StringUnits(x)[1 + j] = x[j]
    BY StringUnitsFacts
  <2>3. u[1 + 1] = Len(x)
    BY <1>4, <2>1, <2>2
  <2>4. ASSUME NEW j \in 1..Len(x) PROVE u[2 + j] = x[j]
    <3>1. u[1 + (1 + j)] = StringUnits(x)[1 + j]
      BY <1>4, <2>1
    <3>2. QED
      BY <2>1, <2>2, <3>1
  <2>5. QED
    BY <2>3, <2>4
<1>6. ASSUME NEW d, StartsWith(d, u)
      PROVE  on_response(d) = Printed(2 + Len(x), out_str(x))
  <2>1. /\ d \in Seq(Int) /\ Len(d) \in Nat /\ 2 + Len(x) <= Len(d) /\ d[1] = 2 /\ d[2] = Len(x)
        /\ \A j \in 1..Len(x) : d[2 + j] = x[j]
    <3>1. /\ 1 \in 1..Len(u) /\ 2 \in 1..Len(u) /\ \A j \in 1..Len(x) : 2 + j \in 1..Len(u)
      BY <1>2, <1>4
    <3>2. /\ d \in Seq(Int) /\ Len(d) \in Nat /\ Len(u) <= Len(d)
          /\ \A j \in 1..Len(u) : d[j] = u[j]
      BY <1>6 DEF StartsWith
    <3>3. d[1] = u[1] /\ d[2] = u[2] /\ \A j \in 1..Len(x) : d[2 + j] = u[2 + j]
      BY <3>1, <3>2
    <3>4. QED
      BY <1>4, <1>5, <3>2, <3>3
  <2>2. SubSeq(d, 3, 2 + d[2]) = x
    <3> DEFINE c == Len(x)
               y == SubSeq(d, 2 + 1, 2 + c)
    <3>1. c \in Nat /\ 2 \in Nat /\ 2 + c <= Len(d) /\ d \in Seq(Int)
      BY <1>2, <2>1
    <3> HIDE DEF c
    <3>2. y \in Seq(Int) /\ Len(y) = c /\ \A j \in 1..c : y[j] = d[2 + j]
      BY <3>1, Piece, ZenonT(30)
    <3>3. y = SubSeq(d, 3, 2 + d[2])
      BY <2>1 DEF c
    <3> HIDE DEF y
    <3>4. y = x
      BY <2>1, <3>2, SeqEqual DEF c
    <3>5. QED
      BY <3>3, <3>4
  <2>3. d # <<>> /\ ~(Len(d) < 1 + 1) /\ ~(Len(d) < 1 + 1 + d[2]) /\ 1 + 1 + d[2] = 2 + Len(x)
    BY <1>2, <2>1
  <2>4. on_response(d) = PrintStr(d)
    BY <2>1, <2>3, Tags DEF on_response
  <2>5. QED
    BY <2>2, <2>3, <2>4 DEF PrintStr
<1>7. QED
  BY <1>1, <1>4, <1>6

LEMMA ErrPrinted ==
  ASSUME NEW e \in DOMAIN Code
  PROVE  /\ ItemUnits(out_err(e)) \in Seq(Int) /\ Len(ItemUnits(out_err(e))) = 4
         /\ \A d : StartsWith(d, ItemUnits(out_err(e))) => on_response(d) = Printed(4, out_err(e))
<1> DEFINE c == Code[e]
           v == StringUnits(Text(c))
           u == <<1, c>> \o v
<1>1. c \in Int
  BY Codes
<1>2. ItemUnits(out_err(e)) = u
  BY Tags DEF ItemUnits, out_err
<1> HIDE DEF c
<1>3. u \in Seq(Int) /\ Len(u) = 4 /\ u[1] = 1 /\ u[2] = c /\ u[3] = 1
  <2>1. Text(c) \in Seq(Int) /\ Len(Text(c)) = 1
    BY <1>1 DEF Text
  <2>2. v \in Seq(Int) /\ Len(v) = 2 /\ v[1] = 1
    <3> DEFINE t == Text(c)
    <3>1. t \in Seq(Int) /\ Len(t) = 1
      BY <2>1
    <3> HIDE DEF t
    <3>2. /\ StringUnits(t) \in Seq(Int) /\ Len(StringUnits(t)) = 1 + Len(t)
          /\ StringUnits(t)[1] = Len(t)
      BY <3>1, StringUnitsFacts, Zenon
    <3>3. Len(StringUnits(t)) = 2 /\ StringUnits(t)[1] = 1
      BY <3>1, <3>2
    <3>4. v = StringUnits(t)
      BY DEF t
    <3>5. QED
      BY <3>2, <3>3, <3>4
  <2> DEFINE w == <<1, c>>
  <2>3. w \in Seq(Int) /\ Len(w) = 2 /\ w[1] = 1 /\ w[2] = c
    BY <1>1
  <2> HIDE DEF v, w
  <2>4. w \o v \in Seq(Int) /\ Len(w \o v) = Len(w) + Len(v)
    BY <2>2, <2>3, Join
  <2>5. /\ \A i \in 1..Len(w) : (w \o v)[i] = w[i]
        /\ \A i \in 1..Len(v) : (w \o v)[Len(w) + i] = v[i]
    <3>1. w \in Seq(Int) /\ v \in Seq(Int)
      BY <2>2, <2>3
    <3>2. QED
      BY <3>1
  <2>6. (w \o v)[1] = 1 /\ (w \o v)[2] = c /\ (w \o v)[2 + 1] = 1
    <3>1. 1 \in 1..2 /\ 2 \in 1..2
      OBVIOUS
    <3>2. QED
      BY <2>2, <2>3, <2>5, <3>1
  <2>7. QED
    BY <2>2, <2>3, <2>4, <2>6 DEF w
<1>4. ASSUME NEW d, StartsWith(d, u)
      PROVE  on_response(d) = Printed(4, out_err(e))
  <2>1. d \in Seq(Int) /\ Len(d) \in Nat /\ 4 <= Len(d) /\ d[1] = 1 /\ d[2] = c /\ d[3] = 1
    <3>1. 1 \in 1..4 /\ 2 \in 1..4 /\ 3 \in 1..4
      OBVIOUS
    <3> HIDE DEF u
    <3>2. QED
      BY <1>3, <1>4, <3>1 DEF StartsWith
  <2>2. d # <<>> /\ ~(Len(d) < 1 + 2) /\ ~(Len(d) < 1 + 2 + d[3]) /\ 1 + 2 + d[3] = 4
    BY <2>1
  <2>3. {f \in DOMAIN Code : Code[f] = d[2]} = {e}
    BY <2>1, Codes DEF c
  <2>4. on_response(d) = PrintErr(d)
    BY <2>1, <2>2, Tags DEF on_response
  <2>5. PrintErr(d) = UNION {Printed(4, out_err(f)) : f \in {e}}
    BY <2>2, <2>3 DEF PrintErr
  <2>6. QED
    BY <2>4, <2>5
<1>5. QED
  BY <1>2, <1>3, <1>4

\* Whatever follows them, the units that a call of out_* appends are taken by
\* on_response, no more and no fewer, and printed as what the call was given
\* (server.cpp:244-296, client.cpp:95-182).
THEOREM ItemPrinted ==
  ASSUME NEW a \in Item
  PROVE  /\ ItemUnits(a) \in Seq(Int) /\ 0 < Len(ItemUnits(a))
         /\ \A d : StartsWith(d, ItemUnits(a)) => on_response(d) = Printed(Len(ItemUnits(a)), a)
<1>1. CASE a = out_nil
  BY <1>1, NilPrinted
<1>2. CASE \E e \in DOMAIN Code : a = out_err(e)
  <2>1. PICK e \in DOMAIN Code : a = out_err(e)
    BY <1>2
  <2>2. /\ ItemUnits(a) \in Seq(Int) /\ Len(ItemUnits(a)) = 4
        /\ \A d : StartsWith(d, ItemUnits(a)) => on_response(d) = Printed(4, a)
    BY <2>1, ErrPrinted, Zenon
  <2>3. 0 < Len(ItemUnits(a))
    BY <2>2
  <2>4. QED
    BY <2>2, <2>3, Zenon
<1>3. CASE a = out_str(a[2]) /\ a[2] \in Seq(Int)
  <2>1. PICK x \in Seq(Int) : a = out_str(x)
    BY <1>3
  <2>2. Len(x) \in Nat
    OBVIOUS
  <2>3. ItemUnits(a) \in Seq(Int) /\ Len(ItemUnits(a)) = 2 + Len(x)
    BY <2>1, StrPrinted
  <2>4. \A d : StartsWith(d, ItemUnits(a)) => on_response(d) = Printed(2 + Len(x), a)
    BY <2>1, StrPrinted
  <2>5. QED
    BY <2>2, <2>3, <2>4
<1>4. CASE \/ a = out_int(a[2]) /\ a[2] \in Int
           \/ a = out_dbl(a[2]) /\ a[2] \in Int
           \/ a = out_arr(a[2]) /\ a[2] \in Nat
  <2>1. PICK x \in Int : a = out_int(x) \/ a = out_dbl(x) \/ a = out_arr(x)
    BY <1>4
  <2>2. PICK t \in Int : /\ ItemUnits(a) = <<t, x>>
                         /\ \A d : StartsWith(d, <<t, x>>) => on_response(d) = Printed(2, a)
    BY <2>1, NumberPrinted
  <2> DEFINE u == <<t, x>>
  <2>3. u \in Seq(Int) /\ Len(u) = 2
    OBVIOUS
  <2> HIDE DEF u
  <2>4. /\ ItemUnits(a) = u
        /\ \A d : StartsWith(d, u) => on_response(d) = Printed(2, a)
    BY <2>2 DEF u
  <2>5. \A d : StartsWith(d, ItemUnits(a)) => on_response(d) = Printed(Len(ItemUnits(a)), a)
    BY <2>3, <2>4, Zenon
  <2>6. ItemUnits(a) \in Seq(Int) /\ Len(ItemUnits(a)) = 2
    BY <2>3, <2>4, Zenon
  <2>7. 0 < Len(ItemUnits(a))
    BY <2>6
  <2>8. QED
    BY <2>5, <2>6, <2>7
<1>5. \/ a = out_nil
      \/ \E e \in DOMAIN Code : a = out_err(e)
      \/ a = out_str(a[2]) /\ a[2] \in Seq(Int)
      \/ a = out_int(a[2]) /\ a[2] \in Int
      \/ a = out_dbl(a[2]) /\ a[2] \in Int
      \/ a = out_arr(a[2]) /\ a[2] \in Nat
  BY DEF Item, out_err, out_str, out_int, out_dbl, out_arr
<1>6. QED
  BY <1>1, <1>2, <1>3, <1>4, <1>5, Zenon

\* Where the items of an answer end in its output, and that each is there.
IsOutput(out, ends, a) ==
  /\ out \in Seq(Int) /\ ends \in [0..Len(a) -> Nat] /\ ends[0] = 0 /\ ends[Len(a)] = Len(out)
  /\ \A i \in 1..Len(a) :
        /\ ends[i] = ends[i - 1] + Len(ItemUnits(a[i]))
        /\ StartsWith(SubSeq(out, ends[i - 1] + 1, Len(out)), ItemUnits(a[i]))

LEMMA OutputPlaces ==
  ASSUME NEW a \in Seq(Item)
  PROVE  \E ends : IsOutput(Output(a), ends, a)
<1> DEFINE n == Len(a)
           parts == [i \in DOMAIN a |-> ItemUnits(a[i])]
           out == FlattenSeq(parts)
<1>1. n \in Nat /\ DOMAIN a = 1..n /\ \A i \in 1..n : a[i] \in Item
  OBVIOUS
<1>2. out = Output(a)
  BY DEF Output
<1> HIDE DEF n
<1>3. \A i \in 1..n : ItemUnits(a[i]) \in Seq(Int) /\ 0 < Len(ItemUnits(a[i]))
  BY <1>1, ItemPrinted
<1>4. /\ parts \in Seq(Seq(Int)) /\ Len(parts) = n
      /\ \A i \in 1..n : parts[i] = ItemUnits(a[i])
  <2>1. parts = [i \in 1..n |-> ItemUnits(a[i])]
    BY <1>1
  <2> HIDE DEF parts
  <2>2. QED
    BY <1>1, <1>3, <2>1
<1> HIDE DEF parts
<1>5. PICK ends : IsPlaces(ends, parts) /\ Laid(out, ends, parts, n)
  BY <1>4, FlattenLaid
<1>6. /\ out \in Seq(Int) /\ ends[n] = Len(out) /\ ends \in [0..n -> Nat] /\ ends[0] = 0
      /\ Len(out) \in Nat
  BY <1>4, <1>5 DEF IsPlaces, Laid
<1> HIDE DEF out
<1>7. ASSUME NEW i \in 1..n
      PROVE  /\ ends[i] = ends[i - 1] + Len(ItemUnits(a[i]))
             /\ StartsWith(SubSeq(out, ends[i - 1] + 1, Len(out)), ItemUnits(a[i]))
  <2> DEFINE u == ItemUnits(a[i])
             p == ends[i - 1]
             c == Len(out) - p
             d == SubSeq(out, p + 1, p + c)
  <2>1. u \in Seq(Int) /\ 0 < Len(u) /\ u = parts[i]
    BY <1>3, <1>4
  <2>2. Len(u) \in Nat /\ i - 1 \in 0..n /\ i \in 0..n
    BY <1>1, <2>1
  <2>3. p \in Nat /\ ends[i] \in Nat
    BY <1>6, <2>2
  <2>4. ends[i] = p + Len(u) /\ ends[i] <= Len(out) /\ \A j \in 1..Len(u) : out[p + j] = u[j]
    BY <1>4, <1>5, <2>1 DEF IsPlaces, Laid
  <2> HIDE DEF u, p
  <2>5. c \in Nat /\ p + c = Len(out) /\ Len(u) <= c
    BY <1>6, <2>2, <2>3, <2>4
  <2> HIDE DEF c
  <2>6. d \in Seq(Int) /\ Len(d) = c /\ \A j \in 1..c : d[j] = out[p + j]
    <3>1. out \in Seq(Int) /\ p \in Nat /\ c \in Nat /\ p + c <= Len(out)
      BY <1>6, <2>3, <2>5
    <3>2. QED
      BY <3>1, Piece, ZenonT(30)
  <2> HIDE DEF d
  <2>7. ASSUME NEW j \in 1..Len(u) PROVE d[j] = u[j]
    <3>1. j \in 1..c
      BY <2>2, <2>5
    <3>2. QED
      BY <2>4, <2>6, <3>1
  <2>8. StartsWith(d, u)
    BY <2>1, <2>5, <2>6, <2>7 DEF StartsWith
  <2>9. QED
    BY <2>4, <2>5, <2>8 DEF d, u, p
<1>8. IsOutput(out, ends, a)
  BY <1>6, <1>7 DEF IsOutput, n
<1>9. QED
  BY <1>2, <1>8

\* The count of the elements to come, as a recursion.
LEMMA MissingFacts ==
  ASSUME NEW a \in Seq(Item)
  PROVE  /\ Missing(a)[0] = 1 /\ \A i \in 0..Len(a) : Missing(a)[i] \in Int
         /\ \A i \in 1..Len(a) : Missing(a)[i] = Missing(a)[i - 1] - 1 + Elements(a[i])
<1> DEFINE n == Len(a)
           add == [p \in (1..n) \X Int |-> p[2] - 1 + Elements(a[p[1]])]
           Step(h, i) == IF i = 0 THEN 1 ELSE h[i - 1] - 1 + Elements(a[i])
           missing == CHOOSE h : h = [i \in 0..n |-> Step(h, i)]
<1>1. n \in Nat /\ \A i \in 1..n : Elements(a[i]) \in Nat
  <2>1. \A x \in Item : Elements(x) \in Nat
    BY DEF Item, Elements, out_nil
  <2>2. QED
    BY <2>1
<1>2. Missing(a) = missing
  BY DEF Missing
<1> HIDE DEF n
<1>3. PICK f : Follows(f, n, Int, 1, add)
  <2>1. IsStep(add, n, Int) /\ 1 \in Int
    BY <1>1 DEF IsStep
  <2> HIDE DEF add
  <2>2. QED
    BY <1>1, <2>1, Recursion, Zenon
<1>4. f = [i \in 0..n |-> Step(f, i)]
  <2>1. ASSUME NEW i \in 0..n PROVE f[i] = Step(f, i)
    <3>1. CASE i = 0
      BY <1>3, <3>1 DEF Follows
    <3>2. CASE i # 0
      <4>1. i \in 1..n /\ i - 1 \in 0..n /\ f[i - 1] \in Int
        BY <1>1, <1>3, <3>2 DEF Follows
      <4>2. f[i] = add[<<i, f[i - 1]>>] /\ <<i, f[i - 1]>> \in (1..n) \X Int
        BY <1>3, <4>1 DEF Follows
      <4>3. QED
        BY <3>2, <4>2
    <3>3. QED
      BY <3>1, <3>2
  <2>2. f = [i \in 0..n |-> f[i]]
    BY <1>3 DEF Follows
  <2>3. QED
    BY <2>1, <2>2, Zenon
<1>5. missing = [i \in 0..n |-> Step(missing, i)]
  BY <1>4, Zenon
<1> HIDE DEF missing
<1> DEFINE Bad == {k \in 0..n : missing[k] \notin Int}
<1>6. ASSUME NEW i \in 1..n
      PROVE  missing[i] = missing[i - 1] - 1 + Elements(a[i])
  <2>1. i \in 0..n /\ i # 0
    BY <1>1
  <2>2. missing[i] = Step(missing, i)
    BY <1>5, <2>1, Zenon
  <2>3. QED
    BY <2>1, <2>2
<1>7. missing[0] = 1
  <2>1. 0 \in 0..n
    BY <1>1
  <2>2. missing[0] = Step(missing, 0)
    BY <1>5, <2>1, Zenon
  <2>3. QED
    BY <2>2
<1>8. ASSUME NEW k \in Bad, \A m \in Bad : k <= m PROVE FALSE
  <2>1. k \in 1..n /\ k - 1 \in 0..n /\ ~(k <= k - 1)
    BY <1>1, <1>7
  <2>2. missing[k - 1] \in Int
    BY <1>8, <2>1
  <2>3. missing[k] \in Int
    BY <1>1, <1>6, <2>1, <2>2
  <2>4. QED
    BY <2>3
<1>9. Bad = {}
  <2>1. Bad \subseteq Nat
    OBVIOUS
  <2> HIDE DEF Bad
  <2>2. QED
    BY <1>8, <2>1, LeastOf
<1>10. QED
  BY <1>2, <1>6, <1>7, <1>9 DEF n

\* An error is an answer.
LEMMA TooBigAnswers == IsAnswer(TooBig)
<1> DEFINE e == out_err("ERR_2BIG")
<1>1. e \in Item /\ Elements(e) = 0
  BY DEF Item, out_err, Code, Elements
<1>2. TooBig = <<e>>
  BY DEF TooBig
<1> HIDE DEF e
<1>3. TooBig \in Seq(Item) /\ Len(TooBig) = 1 /\ TooBig[1] = e /\ DOMAIN TooBig = 1..1
  BY <1>1, <1>2
<1>4. Missing(TooBig)[0] = 1 /\ Missing(TooBig)[1] = Missing(TooBig)[1 - 1] - 1 + Elements(e)
  <2>1. 1 \in 1..1
    OBVIOUS
  <2>2. QED
    BY <1>3, <2>1, MissingFacts
<1>5. Missing(TooBig)[1] = 0 /\ \A i \in 1..1 : Missing(TooBig)[i - 1] > 0
  <2>1. 1 - 1 = 0 /\ \A i \in 1..1 : i - 1 = 0
    OBVIOUS
  <2>2. QED
    BY <1>1, <1>4, <2>1
<1>6. QED
  BY <1>3, <1>5 DEF IsAnswer

-----------------------------------------------------------------------------
(* Requests and answers of the model *)

\* Every string of a body takes a unit at least, and so does their number.
LEMMA BodySize ==
  ASSUME NEW cmd \in Seq(Seq(Int))
  PROVE  Len(RequestBody(cmd)) \in Nat /\ Len(cmd) \in Nat /\ Len(cmd) + 1 <= Len(RequestBody(cmd))
<1> DEFINE n == Len(cmd)
           body == RequestBody(cmd)
<1>1. n \in Nat /\ \A i \in 1..n : Len(cmd[i]) \in Nat
  BY PartTypes
<1>2. PICK ends : IsBody(body, ends, cmd)
  BY BodyPlaces
<1> HIDE DEF n, body
<1>3. /\ ends \in [0..n -> Nat] /\ ends[0] = 1 /\ Len(body) = ends[n]
      /\ \A i \in 1..n : ends[i] = ends[i - 1] + 1 + Len(cmd[i])
  BY <1>2 DEF IsBody, n
<1> DEFINE Bad == {k \in 0..n : ~(k + 1 <= ends[k])}
<1>4. ASSUME NEW k \in Bad, \A m \in Bad : k <= m PROVE FALSE
  <2>1. k \in 1..n /\ k - 1 \in 0..n /\ k \in 0..n /\ ~(k <= k - 1)
    BY <1>1, <1>3
  <2>2. k - 1 + 1 <= ends[k - 1]
    BY <1>4, <2>1
  <2>3. k + 1 <= ends[k]
    <3> DEFINE l == Len(cmd[k])
    <3>1. /\ k \in Nat /\ ends[k] \in Nat /\ ends[k - 1] \in Nat /\ l \in Nat
          /\ ends[k] = ends[k - 1] + 1 + l
      BY <1>1, <1>3, <2>1
    <3> HIDE DEF l
    <3>2. QED
      BY <2>2, <3>1
  <2>4. QED
    BY <2>3
<1>5. Bad = {}
  <2>1. Bad \subseteq Nat
    OBVIOUS
  <2> HIDE DEF Bad
  <2>2. QED
    BY <1>4, <2>1, LeastOf
<1>6. n \in 0..n
  BY <1>1
<1>7. n + 1 <= ends[n] /\ ends[n] \in Nat
  BY <1>3, <1>5, <1>6
<1>8. QED
  BY <1>1, <1>3, <1>7 DEF n, body

LEMMA RequestFacts ==
  ASSUME NEW r \in Requests
  PROVE  /\ r.cmd \in Seq(Seq(Int)) /\ IsAnswer(r.answer)
         /\ r.len = Len(RequestBody(r.cmd)) /\ r.out = Len(Output(r.answer))
         /\ r.ok = (parse_req(RequestBody(r.cmd)) # {})
<1>1. r = RequestFor(r.cmd, r.answer) /\ r.cmd \in Seq(Seq(Int)) /\ IsAnswer(r.answer)
  BY ClientAssumption
<1> DEFINE c == r.cmd
           a == r.answer
<1> HIDE DEF c, a
<1>2. r = RequestFor(c, a)
  BY <1>1 DEF c, a
<1>3. /\ r.len = Len(RequestBody(c)) /\ r.out = Len(Output(a))
      /\ r.ok = (parse_req(RequestBody(c)) # {})
  BY <1>2 DEF RequestFor
<1>4. QED
  BY <1>1, <1>3 DEF c, a

\* A command that is not too long to be sent is understood.
LEMMA Understood ==
  ASSUME NEW r \in Requests, r.len <= k_max_msg
  PROVE  parse_req(RequestBody(r.cmd)) = {r.cmd} /\ r.ok
<1> DEFINE c == r.cmd
<1>1. c \in Seq(Seq(Int)) /\ r.len = Len(RequestBody(c)) /\ r.ok = (parse_req(RequestBody(c)) # {})
  BY RequestFacts
<1> HIDE DEF c
<1>2. Len(RequestBody(c)) \in Nat /\ Len(c) \in Nat /\ Len(c) + 1 <= Len(RequestBody(c))
  BY <1>1, BodySize
<1>3. Len(c) <= k_max_args
  BY <1>1, <1>2, ClientAssumption, ConnectionAssumption, WireAssumption
<1>4. parse_req(RequestBody(c)) = {c}
  BY <1>1, <1>3, ParseUndoes
<1>5. r.ok
  BY <1>1, <1>4
<1>6. QED
  BY <1>4, <1>5 DEF c

\* What is sent is an answer, and of the size Connection gives it.
LEMMA SentFacts ==
  ASSUME NEW r \in Requests
  PROVE  IsAnswer(Sent(r)) /\ Sent(r) \in Seq(Item) /\ OutSize(r) = Len(Output(Sent(r)))
<1>1. IsAnswer(Sent(r))
  BY RequestFacts, TooBigAnswers DEF Sent
<1>2. OutSize(r) = Len(Output(Sent(r)))
  <2>1. CASE Header + r.out > k_max_msg
    BY <2>1, ClientAssumption DEF OutSize, Sent
  <2>2. CASE ~(Header + r.out > k_max_msg)
    BY <2>2, RequestFacts DEF OutSize, Sent
  <2>3. QED
    BY <2>1, <2>2
<1>3. QED
  BY <1>1, <1>2 DEF IsAnswer
-----------------------------------------------------------------------------
(* The elements that the loops wait for *)

\* The elements of s sum up to total.
SumsTo(s, sum, total) ==
  /\ sum \in [0..Len(s) -> Nat] /\ sum[0] = 0 /\ sum[Len(s)] = total
  /\ \A k \in 1..Len(s) : sum[k] = sum[k - 1] + s[k]

Counts(s, total) == s \in Seq(Nat) /\ \E sum : SumsTo(s, sum, total)

LEMMA CountNone == \A t : Counts(<<>>, t) <=> t = 0
<1>1. ASSUME NEW t, Counts(<<>>, t) PROVE t = 0
  BY <1>1 DEF Counts, SumsTo
<1>2. Counts(<<>>, 0)
  <2> DEFINE sum == [i \in 0..0 |-> 0]
  <2>1. SumsTo(<<>>, sum, 0)
    BY DEF SumsTo
  <2>2. QED
    BY <2>1 DEF Counts
<1>3. QED
  BY <1>1, <1>2

LEMMA CountType ==
  ASSUME NEW s, NEW t, Counts(s, t)
  PROVE  t \in Nat
<1>1. PICK sum : SumsTo(s, sum, t)
  BY DEF Counts
<1>2. Len(s) \in Nat
  BY DEF Counts
<1>3. QED
  BY <1>1, <1>2 DEF SumsTo

LEMMA CountAppend ==
  ASSUME NEW s, NEW t, Counts(s, t), NEW x \in Nat
  PROVE  Counts(Append(s, x), t + x)
<1> DEFINE n == Len(s)
           u == Append(s, x)
<1>1. PICK sum : SumsTo(s, sum, t)
  BY DEF Counts
<1>2. s \in Seq(Nat) /\ t \in Nat
  BY CountType DEF Counts
<1>3. n \in Nat /\ u \in Seq(Nat) /\ Len(u) = n + 1 /\ u[n + 1] = x /\ \A k \in 1..n : u[k] = s[k]
  BY <1>2
<1>4. /\ sum \in [0..n -> Nat] /\ sum[0] = 0 /\ sum[n] = t
      /\ \A k \in 1..n : sum[k] = sum[k - 1] + s[k]
  BY <1>1 DEF SumsTo
<1> HIDE DEF n, u
<1> DEFINE f == [i \in 0..(n + 1) |-> IF i = n + 1 THEN t + x ELSE sum[i]]
<1>5. /\ f \in [0..(n + 1) -> Nat] /\ f[0] = 0 /\ f[n + 1] = t + x
      /\ \A k \in 0..n : f[k] = sum[k]
  <2>1. \A k \in 0..n : k \in 0..(n + 1) /\ k # n + 1
    BY <1>3
  <2>2. \A k \in 0..(n + 1) : k # n + 1 => k \in 0..n
    BY <1>3
  <2>3. f \in [0..(n + 1) -> Nat]
    BY <1>2, <1>4, <2>2
  <2>4. 0 \in 0..n /\ n + 1 \in 0..(n + 1)
    BY <1>3
  <2>5. QED
    BY <1>4, <2>1, <2>3, <2>4
<1> HIDE DEF f
<1>6. ASSUME NEW k \in 1..(n + 1) PROVE f[k] = f[k - 1] + u[k]
  <2>1. CASE k = n + 1
    <3>1. n \in 0..n /\ k - 1 = n
      BY <1>3, <2>1
    <3>2. QED
      BY <1>3, <1>4, <1>5, <2>1, <3>1
  <2>2. CASE k # n + 1
    <3>1. k \in 1..n /\ k \in 0..n /\ k - 1 \in 0..n
      BY <1>3, <2>2
    <3>2. QED
      BY <1>3, <1>4, <1>5, <3>1
  <2>3. QED
    BY <2>1, <2>2
<1>7. SumsTo(u, f, t + x)
  BY <1>3, <1>5, <1>6 DEF SumsTo
<1>8. QED
  BY <1>3, <1>7 DEF Counts, u

LEMMA CountFront ==
  ASSUME NEW s, NEW t, Counts(s, t), s # <<>>
  PROVE  Last(s) \in Nat /\ Last(s) <= t /\ Counts(Front(s), t - Last(s))
<1> DEFINE n == Len(s)
           u == Front(s)
           l == Last(s)
<1>1. PICK sum : SumsTo(s, sum, t)
  BY DEF Counts
<1>2. s \in Seq(Nat) /\ t \in Nat
  BY CountType DEF Counts
<1>3. /\ n \in Nat \ {0} /\ n - 1 \in Nat /\ u \in Seq(Nat) /\ Len(u) = n - 1
      /\ l = s[n] /\ l \in Nat
      /\ \A k \in 1..(n - 1) : u[k] = s[k]
  <2>1. n \in Nat \ {0}
    BY <1>2
  <2>2. \A k \in 1..n : s[k] \in Nat
    BY <1>2
  <2>3. l = s[n] /\ u = [k \in 1..(n - 1) |-> s[k]]
    BY DEF Front, Last
  <2> HIDE DEF n, l, u
  <2>4. n - 1 \in Nat /\ n \in 1..n /\ \A k \in 1..(n - 1) : k \in 1..n
    BY <2>1
  <2>5. QED
    BY <2>1, <2>2, <2>3, <2>4
<1>4. /\ sum \in [0..n -> Nat] /\ sum[0] = 0 /\ sum[n] = t
      /\ \A k \in 1..n : sum[k] = sum[k - 1] + s[k]
  BY <1>1 DEF SumsTo
<1> HIDE DEF n, u, l
<1> DEFINE f == [i \in 0..(n - 1) |-> sum[i]]
<1>5. n \in 1..n /\ n - 1 \in 0..n /\ n - 1 \in 0..(n - 1) /\ 0 \in 0..(n - 1)
  BY <1>3
<1>6. sum[n - 1] \in Nat /\ t = sum[n - 1] + l
  BY <1>3, <1>4, <1>5
<1>7. \A k \in 0..(n - 1) : k \in 0..n
  BY <1>3
<1>8. /\ f \in [0..(n - 1) -> Nat] /\ f[0] = 0 /\ f[n - 1] = t - l
      /\ \A k \in 0..(n - 1) : f[k] = sum[k]
  <2>1. f \in [0..(n - 1) -> Nat]
    BY <1>4, <1>7
  <2>2. sum[n - 1] = t - l
    BY <1>2, <1>3, <1>6
  <2>3. QED
    BY <1>4, <1>5, <2>1, <2>2
<1> HIDE DEF f
<1>9. ASSUME NEW k \in 1..(n - 1) PROVE f[k] = f[k - 1] + u[k]
  <2>1. k \in 1..n /\ k \in 0..(n - 1) /\ k - 1 \in 0..(n - 1)
    BY <1>3
  <2>2. QED
    BY <1>3, <1>4, <1>8, <2>1
<1>10. SumsTo(u, f, t - l)
  BY <1>3, <1>8, <1>9 DEF SumsTo
<1>11. l <= t
  BY <1>2, <1>3, <1>6
<1>12. QED
  BY <1>3, <1>10, <1>11 DEF Counts, u, l

LEMMA CountOne == ASSUME NEW x \in Nat, NEW t PROVE Counts(<<x>>, t) <=> t = x
<1>1. Append(<<>>, x) = <<x>> /\ 0 + x = x
  OBVIOUS
<1>2. Counts(<<x>>, x)
  BY <1>1, CountNone, CountAppend
<1>3. ASSUME Counts(<<x>>, t) PROVE t = x
  <2>1. <<x>> # <<>> /\ Last(<<x>>) = x /\ Front(<<x>>) = <<>>
    BY DEF Last, Front
  <2>2. Counts(<<>>, t - x) /\ t \in Nat
    BY <1>3, <2>1, CountFront, CountType
  <2>3. t - x = 0
    BY <2>2, CountNone
  <2>4. QED
    BY <2>2, <2>3
<1>4. QED
  BY <1>2, <1>3

-----------------------------------------------------------------------------
(* The invariant *)

\* What begins a message is as long as it at most, and the same.
LEMMA StartOf ==
  ASSUME NEW f \in Seq(Unit), Ordered(f), NEW s \in Seq(Unit), Begins(s, Range(f))
  PROVE  Len(s) <= Len(f) /\ \A i \in 1..Len(s) : s[i] = f[i]
<1> DEFINE A == Range(f)
<1>1. Ordered(s) /\ Range(s) \subseteq A /\ A \subseteq Unit
  BY UnitsOf DEF Begins
<1>2. ASSUME NEW u \in Range(s), NEW v \in A \ Range(s) PROVE Before(u, v)
  <2>1. ~Before(v, u) /\ u # v
    BY <1>1, <1>2 DEF Begins
  <2>2. PICK i \in 1..Len(f), j \in 1..Len(f) : f[i] = u /\ f[j] = v
    BY <1>1, <1>2, UnitsOf
  <2>3. i < j => Before(u, v)
    BY <2>2, UnitsOf DEF Ordered
  <2>4. j < i => Before(v, u)
    BY <2>2, UnitsOf DEF Ordered
  <2>5. i < j \/ j < i \/ i = j
    OBVIOUS
  <2>6. QED
    BY <2>1, <2>2, <2>3, <2>4, <2>5
<1>3. AllBefore(Range(s), A \ Range(s)) /\ IsStream(f, A)
  BY <1>2 DEF AllBefore, IsStream
<1>4. QED
  BY <1>1, <1>3, StreamStart

\* The client makes one request, and makes it only if it is not too long.
OneRequest ==
  /\ Len(asked) <= 1 /\ (at = "start" => asked = <<>>)
  /\ \A i \in 1..Len(asked) : asked[i].len <= k_max_msg

\* How much of the reply has come.
Reading ==
  /\ at \in {"start", "write", "head"} => received = <<>>
  /\ at = "body" => asked # <<>> /\ Len(received) \in 1..OutSize(asked[1])
  /\ at = "print" => asked # <<>> /\ Len(received) = Header + OutSize(asked[1])

NothingPrinted == at \notin {"print", "done"} => shown = <<>> /\ arr_bytes = 0 /\ loops = <<1>>

\* i items of the answer a have been printed, and the loops wait for as many
\* elements as it has still to come.
PrintedOf(a, ends, i) ==
  /\ IsOutput(Output(a), ends, a) /\ i \in 0..Len(a)
  /\ shown = SubSeq(a, 1, i) /\ arr_bytes = ends[i]
  /\ loops # <<>> /\ Counts(loops, Missing(a)[i])

Printing == at = "print" => \E ends : \E i \in Nat : PrintedOf(Sent(asked[1]), ends, i)

\* Nothing but the client's own end makes the server end the connection.
StillThere == at # "done" => ~fin /\ ~reset /\ state # "STATE_END"

ClientInv == OneRequest /\ Reading /\ NothingPrinted /\ Printing /\ StillThere /\ AnswerShown

\* Every step of the program is one of Connection's, or none there.
LEMMA StepIsConnections == [ClientNext]_clientvars => [Next]_vars
<1> SUFFICES ASSUME [ClientNext]_clientvars PROVE [Next]_vars
  OBVIOUS
<1>1. CASE UNCHANGED clientvars
  BY <1>1 DEF clientvars
<1>2. CASE send_req
  BY <1>2 DEF send_req, Next, Client
<1>3. CASE write_all
  BY <1>3 DEF write_all, Next, Client
<1>4. CASE ReadHeader \/ ReadBody
  BY <1>4 DEF ReadHeader, ReadBody, Next, Client
<1>5. CASE WriteClosed \/ ReadFails \/ read_res \/ on_response_value
  BY <1>5 DEF WriteClosed, ReadFails, read_res, on_response_value
<1>6. CASE on_response_end
  BY <1>6 DEF on_response_end
<1>7. CASE Close
  BY <1>7 DEF Close, Next, Client
<1>8. CASE Server \/ IdleTimeout
  BY <1>8 DEF Next
<1>9. QED
  BY <1>1, <1>2, <1>3, <1>4, <1>5, <1>6, <1>7, <1>8 DEF ClientNext, main

LEMMA InitClientInv == ClientInit => ClientInv
<1> SUFFICES ASSUME ClientInit PROVE ClientInv
  OBVIOUS
<1>1. /\ at = "start" /\ shown = <<>> /\ arr_bytes = 0 /\ loops = <<1>>
      /\ asked = <<>> /\ received = <<>> /\ ~fin /\ ~reset /\ state = "STATE_REQ"
  BY DEF ClientInit, Init
<1>2. Len(asked) = 0 /\ 1..0 = {}
  BY <1>1
<1>3. OneRequest
  BY <1>1, <1>2 DEF OneRequest
<1>4. Reading /\ NothingPrinted /\ Printing /\ StillThere /\ AnswerShown
  BY <1>1 DEF Reading, NothingPrinted, Printing, StillThere, AnswerShown
<1>5. QED
  BY <1>3, <1>4 DEF ClientInv

\* What has come is the beginning of the reply to the client's request.
ReplyBegins ==
  received # <<>> => /\ asked # <<>> /\ asked[1] \in Requests /\ Len(received) \in Nat
                     /\ Len(received) <= Header + OutSize(asked[1])
                     /\ \A i \in 1..Len(received) : received[i] = ReplyUnits(1, asked[1])[i]
                     /\ received[1].len = OutSize(asked[1])

LEMMA ReceivedReply == IInv /\ StreamInv /\ Len(asked) <= 1 => ReplyBegins
<1> SUFFICES ASSUME IInv, StreamInv, Len(asked) <= 1, received # <<>>
             PROVE  /\ asked # <<>> /\ asked[1] \in Requests /\ Len(received) \in Nat
                    /\ Len(received) <= Header + OutSize(asked[1])
                    /\ \A i \in 1..Len(received) : received[i] = ReplyUnits(1, asked[1])[i]
                    /\ received[1].len = OutSize(asked[1])
  BY DEF ReplyBegins
<1>1. /\ AskedSound /\ Len(asked) \in Nat /\ received \in Seq(Unit) /\ sndq \in Seq(Unit)
      /\ Len(asked) \in 0..Len(asked)
  BY BufferTypes
<1>2. Begins(received, ReplySet(1, Len(asked)))
  <2>1. ReplySet(1, Len(asked)) \subseteq Unit
    BY <1>1, ReplySetUnits
  <2>2. QED
    BY <1>1, <2>1, BeginsPrefix DEF StreamInv
<1>3. Len(asked) = 1
  <2>1. CASE Len(asked) = 0
    <3>1. ReplySet(1, Len(asked)) = {}
      BY <2>1 DEF ReplySet
    <3>2. Range(received) = {}
      BY <1>2, <3>1 DEF Begins
    <3>3. 1 \in 1..Len(received)
      BY <1>1
    <3>4. QED
      BY <1>1, <3>2, <3>3, UnitsOf
  <2>2. \A m \in Nat : m <= 1 => m = 0 \/ m = 1
    OBVIOUS
  <2>3. QED
    BY <1>1, <2>1, <2>2
<1> DEFINE r == asked[1]
           f == ReplyUnits(1, r)
<1>4. asked # <<>> /\ r \in Requests /\ 1 \in 1..MaxRequests
  <2>1. 1 \in 1..Len(asked)
    BY <1>3
  <2>2. r \in Requests /\ 1 \in 1..MaxRequests
    BY <1>1, <2>1, AskedAt
  <2>3. QED
    BY <1>3, <2>2
<1>5. f \in Seq(Unit) /\ Ordered(f)
  BY <1>4, ReplyStream
<1>6. ReplySet(1, 1) = Range(f)
  BY DEF ReplySet
<1>7. /\ OutSize(r) \in Nat \ {0} /\ Len(f) = Header + OutSize(r)
      /\ f[1] = [req |-> 1, at |-> 1, len |-> OutSize(r)]
  <2>1. OutSize(r) \in Nat \ {0}
    BY <1>4, OutSizeType, SizesType
  <2>2. QED
    BY <2>1 DEF ReplyUnits, Header
<1> HIDE DEF f, r
<1>8. Len(received) <= Len(f) /\ \A i \in 1..Len(received) : received[i] = f[i]
  BY <1>1, <1>2, <1>3, <1>5, <1>6, StartOf
<1>9. 1 \in 1..Len(received) /\ Len(received) \in Nat
  BY <1>1
<1>10. received[1].len = OutSize(r)
  BY <1>7, <1>8, <1>9
<1>11. QED
  BY <1>4, <1>7, <1>8, <1>9, <1>10 DEF f, r

LEMMA ReceivedReplyNext == IInv' /\ StreamInv' /\ (Len(asked) <= 1)' => ReplyBegins'
BY ReceivedReply, PTL

\* The server never ends a connection for its request.
LEMMA RequestGood ==
  ASSUME IInv, StreamInv, OneRequest, pc = "one", ~reset
  PROVE  ~BadRequest
<1> SUFFICES ASSUME BadRequest PROVE FALSE
  OBVIOUS
<1>1. Len(rbuf) >= Header
  BY DEF BadRequest, TooLong, Whole
<1>2. PICK n \in 0..Len(asked) : Handled(n)
  BY DEF StreamInv, Open
<1>3. n + 1 \in 1..Len(asked) /\ rbuf[1].req = n + 1 /\ len = asked[n + 1].len
  BY <1>1, <1>2, FirstHeader DEF Handled
<1> DEFINE r == asked[n + 1]
<1>4. r \in Requests /\ r.len <= k_max_msg
  BY <1>3, BufferTypes, AskedAt DEF OneRequest
<1>5. r.len \in Nat /\ k_max_msg \in Nat
  BY <1>4, RequestType, ConnectionAssumption
<1>6. r.ok
  BY <1>4, Understood
<1> HIDE DEF r
<1>7. QED
  BY <1>3, <1>4, <1>5, <1>6 DEF BadRequest, TooLong, r

\* The server's steps, and the end of the connection, leave the rest as it is.
LEMMA ServerClientInv ==
  ASSUME IInv, StreamInv, ClientInv, Server \/ IdleTimeout, UNCHANGED program
  PROVE  ClientInv'
<1>1. UNCHANGED <<at, shown, arr_bytes, loops>>
  BY DEF program, printing
<1>2. UNCHANGED <<asked, received, fin, reset>>
  BY DEF Server, IdleTimeout, conn_done, Done, poll_in, poll_out, try_fill_buffer, try_one_request,
     try_flush_buffer, socket, client
<1>3. pc = "closed" => pc' = "closed"
  BY DEF Server, IdleTimeout, conn_done, Done, poll_in, poll_out, try_fill_buffer, try_one_request,
     try_flush_buffer
<1>4. OneRequest' /\ Reading' /\ NothingPrinted'
  BY <1>1, <1>2 DEF ClientInv, OneRequest, Reading, NothingPrinted, OutSize
<1>5. Printing'
  <2>1. \A a, ends, i : PrintedOf(a, ends, i)' <=> PrintedOf(a, ends, i)
    BY <1>1 DEF PrintedOf
  <2>2. QED
    BY <1>1, <1>2, <2>1 DEF ClientInv, Printing, Sent
<1>6. StillThere'
  <2> SUFFICES ASSUME at # "done" PROVE state' # "STATE_END"
    BY <1>1, <1>2 DEF StillThere, ClientInv
  <2>1. ~fin /\ ~reset /\ state # "STATE_END"
    BY DEF ClientInv, StillThere
  <2>2. CASE poll_in \/ poll_out \/ Done \/ IdleTimeout
    BY <2>1, <2>2 DEF poll_in, poll_out, Done, IdleTimeout, conn_done, conn
  <2>3. CASE try_fill_buffer
    BY <2>1, <2>3 DEF try_fill_buffer, ReadError, ReadAgain, ReadEof, ReadData, Leave
  <2>4. CASE try_one_request
    <3>1. ~BadRequest
      BY <2>1, <2>4, RequestGood DEF ClientInv, try_one_request
    <3>2. QED
      BY <2>1, <2>4, <3>1 DEF try_one_request, NoRequest, Request, conn
  <2>5. CASE try_flush_buffer
    BY <2>1, <2>5 DEF try_flush_buffer, WriteError, WriteAgain, WriteData, Stop, Leave
  <2>6. QED
    BY <2>2, <2>3, <2>4, <2>5 DEF Server
<1>7. AnswerShown'
  BY <1>1, <1>2, <1>3 DEF ClientInv, AnswerShown, Sent
<1>8. QED
  BY <1>4, <1>5, <1>6, <1>7 DEF ClientInv
-----------------------------------------------------------------------------
(* The steps of the client *)

\* The inductive invariant.
Now == IInv /\ StreamInv /\ ClientInv

LEMMA SendClientInv ==
  ASSUME Now, IInv', send_req
  PROVE  ClientInv'
<1>1. /\ at = "start" /\ asked = <<>> /\ received = <<>>
      /\ shown = <<>> /\ arr_bytes = 0 /\ loops = <<1>>
  BY DEF send_req, Now, ClientInv, OneRequest, Reading, NothingPrinted
<1>2. CASE \E r \in Requests : r.len <= k_max_msg /\ Ask(r) /\ Goto("write")
  <2>1. PICK r \in Requests : r.len <= k_max_msg /\ Ask(r) /\ Goto("write")
    BY <1>2
  <2>2. /\ asked' = Append(asked, r) /\ at' = "write"
        /\ UNCHANGED <<conn, pc, socket, received, shown, arr_bytes, loops>>
    BY <2>1 DEF Ask, Goto, printing
  <2>3. asked' = <<r>>
    BY <1>1, <2>2
  <2>4. Len(asked') = 1 /\ asked'[1] = r /\ \A i \in 1..1 : i = 1
    BY <2>3
  <2>5. OneRequest'
    BY <2>1, <2>2, <2>4 DEF OneRequest
  <2>6. Reading' /\ NothingPrinted' /\ Printing' /\ AnswerShown'
    BY <1>1, <2>2 DEF Reading, NothingPrinted, Printing, AnswerShown
  <2>7. StillThere'
    BY <1>1, <2>2 DEF Now, ClientInv, StillThere, conn, socket
  <2>8. QED
    BY <2>5, <2>6, <2>7 DEF ClientInv
<1>3. CASE End(<<>>) /\ UNCHANGED vars
  <2>1. /\ at' = "done" /\ asked' = <<>> /\ received' = <<>> /\ shown' = <<>> \o <<>>
        /\ UNCHANGED <<asked, arr_bytes, loops>>
    BY <1>1, <1>3 DEF End, vars, client, printing
  <2>2. shown' = <<>>
    BY <2>1
  <2>3. OneRequest' /\ Reading' /\ NothingPrinted' /\ Printing' /\ StillThere'
    BY <2>1 DEF Now, ClientInv, OneRequest, Reading, NothingPrinted, Printing, StillThere
  <2>4. AnswerShown'
    BY <2>1, <2>2 DEF AnswerShown
  <2>5. QED
    BY <2>3, <2>4 DEF ClientInv
<1>4. QED
  BY <1>2, <1>3 DEF send_req

\* A step that leaves what was asked and what has come as they are.
LEMMA SameRequest ==
  ASSUME ClientInv, UNCHANGED asked, at' # "start"
  PROVE  OneRequest'
BY DEF ClientInv, OneRequest

LEMMA WriteClientInv ==
  ASSUME Now, write_all
  PROVE  ClientInv'
<1>1. /\ at = "write" /\ received = <<>> /\ shown = <<>> /\ arr_bytes = 0 /\ loops = <<1>>
      /\ UNCHANGED <<asked, received, conn, fin, reset>>
  BY DEF write_all, Write, Now, ClientInv, Reading, NothingPrinted
<1>2. at' \in {"write", "head"} /\ UNCHANGED <<shown, arr_bytes, loops>>
  BY <1>1 DEF write_all, Goto, program, printing
<1>3. OneRequest'
  BY <1>1, <1>2, SameRequest DEF Now
<1>4. Reading' /\ NothingPrinted' /\ Printing' /\ AnswerShown'
  BY <1>1, <1>2 DEF Reading, NothingPrinted, Printing, AnswerShown
<1>5. StillThere'
  BY <1>1 DEF Now, ClientInv, StillThere, conn
<1>6. QED
  BY <1>3, <1>4, <1>5 DEF ClientInv

\* The connection has ended, or the end of the stream is read.
LEMMA EndedClientInv ==
  ASSUME Now, WriteClosed \/ ReadFails
  PROVE  ClientInv'
<1>1. /\ at \in {"start", "write", "head", "body"} /\ pc = "closed"
      /\ UNCHANGED vars /\ at' \in {"head", "done"}
  BY DEF WriteClosed, ReadFails, End, Goto
<1>2. /\ UNCHANGED <<asked, received, conn, fin, reset, pc, arr_bytes, loops>>
  BY <1>1 DEF vars, client, socket, WriteClosed, ReadFails, End, Goto, printing
<1>3. shown = <<>> /\ arr_bytes = 0 /\ loops = <<1>>
  BY <1>1 DEF Now, ClientInv, NothingPrinted
<1>4. OneRequest'
  BY <1>1, <1>2, SameRequest DEF Now
<1>5. Reading'
  <2>1. at' = "head" => at \in {"start", "write"}
    BY <1>1 DEF WriteClosed, ReadFails, End, Goto
  <2>2. QED
    BY <1>1, <1>2, <2>1 DEF Now, ClientInv, Reading
<1>6. StillThere'
  BY <1>1, <1>2 DEF Now, ClientInv, StillThere, conn
<1>7. /\ shown' \in {<<>>, <<msg("EOF")>>, <<msg("read() error")>>}
      /\ at' = "head" => shown' = <<>>
  <2>1. \A m : <<>> \o <<m>> = <<m>> /\ <<>> \o <<>> = <<>>
    OBVIOUS
  <2>2. QED
    BY <1>3, <2>1 DEF WriteClosed, ReadFails, End, Goto
<1>8. NothingPrinted' /\ Printing' /\ AnswerShown'
  BY <1>1, <1>2, <1>3, <1>7 DEF NothingPrinted, Printing, AnswerShown
<1>9. QED
  BY <1>4, <1>5, <1>6, <1>8 DEF ClientInv

LEMMA ReadClientInv ==
  ASSUME Now, IInv', StreamInv', ReadHeader \/ ReadBody
  PROVE  ClientInv'
<1> DEFINE r == asked[1]
           size == OutSize(r)
<1>1. /\ at \in {"head", "body"} /\ received' = Append(received, Head(sndq))
      /\ UNCHANGED <<asked, conn, pc, fin, reset>>
  BY DEF ReadHeader, ReadBody, Read
<1>2. shown = <<>> /\ arr_bytes = 0 /\ loops = <<1>>
  BY <1>1 DEF Now, ClientInv, NothingPrinted
<1>3. Len(asked) <= 1 /\ Len(asked') <= 1
  BY <1>1 DEF Now, ClientInv, OneRequest
<1>4. /\ received \in Seq(Unit) /\ Len(received) \in Nat
      /\ Len(received') = Len(received) + 1 /\ received' # <<>>
  <2>1. received \in Seq(Unit)
    BY BufferTypes DEF Now
  <2>2. QED
    BY <1>1, <2>1
<1>5. /\ asked # <<>> /\ r \in Requests /\ Len(received') <= Header + size
      /\ received'[1].len = size
  <2>1. /\ asked' # <<>> /\ asked'[1] \in Requests
        /\ Len(received') <= Header + OutSize(asked'[1])
        /\ received'[1].len = OutSize(asked'[1])
    BY <1>3, <1>4, ReceivedReplyNext DEF ReplyBegins
  <2>2. QED
    BY <1>1, <2>1
<1>6. size \in Nat \ {0} /\ k_max_msg \in Nat /\ size <= k_max_msg /\ Header = 1
  BY <1>5, OutSizeType, SizesType DEF Header
<1> HIDE DEF r, size
<1>7. /\ at' \in {"body", "print"} /\ UNCHANGED <<shown, arr_bytes, loops>>
      /\ at' = "body" => Len(received') \in 1..size
      /\ at' = "print" => Len(received') = Header + size
  <2>1. CASE ReadHeader
    <3>1. at' = "body" /\ UNCHANGED <<shown, arr_bytes, loops>>
      <4>1. ~(received'[1].len > k_max_msg)
        BY <1>5, <1>6
      <4>2. Goto("body")
        BY <2>1, <4>1 DEF ReadHeader
      <4>3. QED
        BY <4>2 DEF Goto, printing
    <3>2. Len(received') = 1
      <4>1. received = <<>>
        BY <2>1 DEF ReadHeader, Now, ClientInv, Reading
      <4>2. QED
        BY <1>4, <4>1
    <3>3. QED
      BY <1>6, <3>1, <3>2
  <2>2. CASE ReadBody
    <3>1. received # <<>>
      BY <1>4, <2>2 DEF ReadBody, Now, ClientInv, Reading
    <3>2. wanted = Header + size
      BY <1>3, <3>1, ReceivedReply DEF Now, ReplyBegins, wanted, size, r
    <3>3. at' = (IF Len(received') = Header + size THEN "print" ELSE "body")
            /\ UNCHANGED <<shown, arr_bytes, loops>>
      BY <2>2, <3>2 DEF ReadBody, Goto, printing
    <3>4. QED
      BY <1>4, <1>5, <1>6, <3>3
  <2>3. QED
    BY <2>1, <2>2
<1>8. OneRequest'
  BY <1>1, <1>7, SameRequest DEF Now
<1>9. Reading'
  BY <1>1, <1>5, <1>7 DEF Reading, r, size
<1>10. NothingPrinted' /\ AnswerShown'
  BY <1>2, <1>7 DEF NothingPrinted, AnswerShown
<1>11. StillThere'
  BY <1>1 DEF Now, ClientInv, StillThere, conn
<1>12. Printing'
  <2>1. PICK a : a = Sent(r)
    OBVIOUS
  <2>2. a \in Seq(Item)
    BY <1>5, <2>1, SentFacts
  <2>3. Sent(r') = a
    <3>1. r' = r
      BY <1>1 DEF r
    <3>2. QED
      BY <2>1, <3>1
  <2>4. PICK ends : IsOutput(Output(a), ends, a)
    BY <2>2, OutputPlaces
  <2>5. SubSeq(a, 1, 0) = <<>> /\ 0 \in 0..Len(a) /\ <<1>> # <<>>
    BY <2>2
  <2>6. Missing(a)[0] = 1 /\ ends[0] = 0
    BY <2>2, <2>4, MissingFacts DEF IsOutput
  <2>7. Counts(<<1>>, 1)
    BY CountOne
  <2>8. shown' = <<>> /\ arr_bytes' = 0 /\ loops' = <<1>>
    BY <1>2, <1>7
  <2>9. PrintedOf(a, ends, 0)'
    BY <2>4, <2>5, <2>6, <2>7, <2>8 DEF PrintedOf
  <2>10. QED
    BY <2>3, <2>9 DEF Printing, r
<1>13. QED
  BY <1>8, <1>9, <1>10, <1>11, <1>12 DEF ClientInv

\* The whole of the reply has come: it is the output for the answer.
LEMMA ReplyRead ==
  ASSUME Now, at = "print"
  PROVE  /\ asked # <<>> /\ Sent(asked[1]) \in Seq(Item) /\ IsAnswer(Sent(asked[1]))
         /\ reply = Output(Sent(asked[1])) /\ received[1].len = Len(reply)
<1> DEFINE r == asked[1]
           size == OutSize(r)
           out == Output(Sent(r))
<1>1. asked # <<>> /\ Len(received) = Header + size
  BY DEF Now, ClientInv, Reading
<1>2. received \in Seq(Unit)
  BY BufferTypes DEF Now
<1>3. received # <<>>
  <2>1. Len(received) # 0
    <3>1. Len(asked) \in Nat /\ AskedSound
      BY BufferTypes DEF Now
    <3>2. 1 \in 1..Len(asked)
      BY <1>1, <3>1
    <3>3. r \in Requests
      BY <3>1, <3>2, AskedAt
    <3>4. QED
      BY <1>1, <3>3, OutSizeType, SizesType DEF Header
  <2>2. QED
    BY <2>1
<1>4. /\ r \in Requests /\ received[1].len = size
      /\ \A i \in 1..Len(received) : received[i] = ReplyUnits(1, r)[i]
  BY <1>3, ReceivedReply DEF Now, ReplyBegins, ClientInv, OneRequest
<1>5. size \in Nat /\ size = Len(out) /\ Sent(r) \in Seq(Item) /\ IsAnswer(Sent(r))
  BY <1>4, OutSizeType, SizesType, SentFacts
<1>6. out \in Seq(Int)
  <2>1. PICK ends : IsOutput(out, ends, Sent(r))
    BY <1>5, OutputPlaces
  <2>2. QED
    BY <2>1 DEF IsOutput
<1>7. ASSUME NEW i \in 1..size
      PROVE  Content(received[Header + i]) = out[i]
  <2>1. Header + i \in 1..Len(received) /\ Header + i \in 1..(Header + size)
    BY <1>1, <1>5 DEF Header
  <2>2. received[Header + i] = ReplyUnits(1, r)[Header + i]
    BY <1>4, <2>1
  <2>3. received[Header + i].req = 1 /\ received[Header + i].at = Header + i
    BY <2>1, <2>2 DEF ReplyUnits
  <2> DEFINE u == received[Header + i]
  <2>4. u.at = Header + i /\ u.req = 1
    BY <2>3
  <2> HIDE DEF u
  <2>5. Content(u) = out[i]
    <3>1. u.at - Header = i
      BY <2>4 DEF Header
    <3>2. Content(u) = Output(Sent(asked[1]))[i]
      BY <2>4, <3>1, Zenon DEF Content
    <3>3. QED
      BY <3>2
  <2>6. QED
    BY <2>5 DEF u
<1>8. reply = [i \in 1..size |-> Content(received[Header + i])]
  BY <1>4 DEF reply
<1>9. reply = [i \in 1..size |-> out[i]]
  BY <1>7, <1>8
<1> HIDE DEF size, out
<1>10. out = [i \in 1..size |-> out[i]]
  BY <1>5, <1>6
<1>11. QED
  BY <1>1, <1>4, <1>5, <1>9, <1>10 DEF out, size, r

\* One more item is printed, and counted off.
LEMMA ValueClientInv ==
  ASSUME Now, on_response_value
  PROVE  ClientInv'
<1>1. at = "print" /\ Last(loops) > 0 /\ UNCHANGED vars
  BY DEF on_response_value
<1>2. UNCHANGED <<asked, received, conn, fin, reset, pc>>
  BY <1>1 DEF vars, client, socket
<1>3. PICK a : a = Sent(asked[1])
  OBVIOUS
<1>4. asked # <<>> /\ a \in Seq(Item) /\ IsAnswer(a) /\ reply = Output(a)
  BY <1>1, <1>3, ReplyRead
<1>5. PICK ends : \E i \in Nat : PrintedOf(a, ends, i)
  BY <1>1, <1>3 DEF Now, ClientInv, Printing
<1>6. PICK i \in Nat : PrintedOf(a, ends, i)
  BY <1>5
<1>7. /\ Len(a) \in Nat /\ DOMAIN a = 1..Len(a) /\ i \in 0..Len(a) /\ loops # <<>>
      /\ Counts(loops, Missing(a)[i]) /\ loops \in Seq(Nat)
      /\ shown = SubSeq(a, 1, i) /\ arr_bytes = ends[i] /\ IsOutput(Output(a), ends, a)
  BY <1>4, <1>6 DEF PrintedOf, Counts
<1>8. Last(loops) \in Nat /\ Last(loops) <= Missing(a)[i] /\ Missing(a)[i] \in Nat
      /\ Counts(Front(loops), Missing(a)[i] - Last(loops))
  BY <1>7, CountFront, CountType
<1>9. i # Len(a)
  BY <1>1, <1>4, <1>8 DEF IsAnswer
<1>10. i + 1 \in 1..Len(a) /\ i + 1 - 1 = i
  <2>1. \A m \in Nat : i \in 0..m /\ i # m => i + 1 \in 1..m /\ i + 1 - 1 = i
    OBVIOUS
  <2>2. QED
    BY <1>7, <1>9, <2>1
<1> DEFINE b == a[i + 1]
           u == ItemUnits(b)
<1>11. b \in Item
  BY <1>4, <1>10
<1>12. Len(u) \in Nat /\ on_response(SubSeq(reply, arr_bytes + 1, Len(reply))) = Printed(Len(u), b)
  <2>1. StartsWith(SubSeq(Output(a), ends[i] + 1, Len(Output(a))), u)
    BY <1>7, <1>10 DEF IsOutput
  <2>2. u \in Seq(Int)
    BY <1>11, ItemPrinted
  <2>3. QED
    BY <1>4, <1>7, <1>11, <2>1, <2>2, ItemPrinted
<1>13. /\ ends[i + 1] = ends[i] + Len(u) /\ Missing(a)[i + 1] = Missing(a)[i] - 1 + Elements(b)
  <2>1. ends[i + 1] = ends[i + 1 - 1] + Len(u)
    BY <1>7, <1>10 DEF IsOutput
  <2>2. Missing(a)[i + 1] = Missing(a)[i + 1 - 1] - 1 + Elements(b)
    BY <1>4, <1>10, MissingFacts
  <2>3. QED
    BY <1>10, <2>1, <2>2
<1>14. Elements(b) \in Nat
  BY <1>11 DEF Item, Elements, out_nil
<1> HIDE DEF b, u
<1>15. /\ at' = "print" /\ shown' = Append(shown, b) /\ arr_bytes' = arr_bytes + Len(u)
       /\ loops' = Begin(b)
  <2> DEFINE p == [rv |-> Len(u), shown |-> b]
             res == on_response(SubSeq(reply, arr_bytes + 1, Len(reply)))
  <2>1. res = {p} /\ p.rv = Len(u) /\ p.shown = b
    BY <1>12 DEF Printed
  <2> HIDE DEF p
  <2>2. /\ \E q \in res : /\ shown' = Append(shown, q.shown)
                         /\ arr_bytes' = arr_bytes + q.rv
                         /\ loops' = Begin(q.shown)
        /\ UNCHANGED at
    <3>1. res # {}
      BY <2>1
    <3>2. QED
      BY <3>1 DEF on_response_value
  <2> HIDE DEF res
  <2>3. QED
    BY <1>1, <2>1, <2>2
<1>16. shown' = SubSeq(a, 1, i + 1)
  <2>1. Append(SubSeq(a, 1, i), b) = SubSeq(a, 1, i + 1)
    BY <1>4, <1>10, OneMore DEF b
  <2>2. QED
    BY <1>7, <1>15, <2>1
<1>17. loops' # <<>> /\ Counts(loops', Missing(a)[i + 1])
  <2> DEFINE l == Last(loops)
             m == Missing(a)[i]
             rest == Append(Front(loops), l - 1)
  <2>1. l \in Nat /\ l > 0 /\ m \in Nat
    BY <1>1, <1>8
  <2>2. l - 1 \in Nat /\ m - l + (l - 1) = m - 1
    BY <2>1
  <2>3. Front(loops) \in Seq(Nat) /\ Counts(Front(loops), m - l)
    BY <1>8 DEF Counts
  <2>4. rest \in Seq(Nat) /\ rest # <<>>
    BY <2>2, <2>3
  <2>5. Counts(rest, m - 1)
    <3>1. Counts(Append(Front(loops), l - 1), m - l + (l - 1))
      BY <2>2, <2>3, CountAppend
    <3>2. QED
      BY <2>2, <3>1
  <2> HIDE DEF rest
  <2>6. Counts(Append(rest, Elements(b)), m - 1 + Elements(b)) /\ Append(rest, Elements(b)) # <<>>
    BY <1>14, <2>4, <2>5, CountAppend
  <2>7. loops' = (IF b[1] = "SER_ARR" THEN Append(rest, Elements(b)) ELSE rest)
    BY <1>15 DEF Begin, rest
  <2>8. b[1] # "SER_ARR" => m - 1 + Elements(b) = m - 1
    BY <2>1 DEF Elements
  <2>9. Missing(a)[i + 1] = m - 1 + Elements(b)
    BY <1>13
  <2> HIDE DEF m
  <2>10. QED
    BY <2>4, <2>5, <2>6, <2>7, <2>8, <2>9
<1>18. PrintedOf(a, ends, i + 1)'
  <2>1. i + 1 \in 0..Len(a)
    BY <1>10
  <2>2. arr_bytes' = ends[i + 1]
    BY <1>7, <1>13, <1>15
  <2>3. QED
    BY <1>7, <1>16, <1>17, <2>1, <2>2 DEF PrintedOf
<1>19. Printing'
  <2>1. Sent(asked'[1]) = a
    BY <1>2, <1>3
  <2>2. i + 1 \in Nat
    OBVIOUS
  <2>3. QED
    BY <1>18, <2>1, <2>2 DEF Printing
<1>20. AnswerShown'
  <2>1. IsPrefix(shown', a)
    <3>1. DOMAIN shown' = 1..(i + 1) /\ Len(shown') = i + 1
      BY <1>4, <1>10, <1>16
    <3>2. QED
      BY <1>4, <1>10, <1>16, <3>1 DEF IsPrefix
  <2>2. Sent(asked'[1]) = a /\ asked' # <<>>
    BY <1>2, <1>3, <1>4
  <2>3. QED
    BY <1>15, <2>1, <2>2 DEF AnswerShown
<1>21. OneRequest'
  BY <1>2, <1>15, SameRequest DEF Now
<1>22. Reading' /\ NothingPrinted' /\ StillThere'
  BY <1>1, <1>2, <1>15 DEF Now, ClientInv, Reading, NothingPrinted, StillThere, conn
<1>23. QED
  BY <1>19, <1>20, <1>21, <1>22 DEF ClientInv

\* A step of the printing that prints nothing.
LEMMA SilentStep ==
  ASSUME Now, at = "print", UNCHANGED vars, shown' = shown, at' \in {"print", "done"}
  PROVE  OneRequest' /\ Reading' /\ NothingPrinted' /\ StillThere' /\ (at' = at => AnswerShown')
<1>1. UNCHANGED <<asked, received, conn, fin, reset, pc>>
  BY DEF vars, client, socket
<1>2. OneRequest'
  BY <1>1, SameRequest DEF Now
<1>3. Reading' /\ NothingPrinted' /\ StillThere'
  BY <1>1 DEF Now, ClientInv, Reading, NothingPrinted, StillThere, conn, OutSize
<1>4. at' = at => AnswerShown'
  BY <1>1 DEF Now, ClientInv, AnswerShown, Sent
<1>5. QED
  BY <1>2, <1>3, <1>4

LEMMA EndOfArrayClientInv ==
  ASSUME Now, on_response_end
  PROVE  ClientInv'
<1>1. /\ at = "print" /\ Last(loops) = 0 /\ Len(loops) > 1 /\ loops' = Front(loops)
      /\ UNCHANGED <<vars, at, shown, arr_bytes>>
  BY DEF on_response_end
<1>2. PICK a : a = Sent(asked[1])
  OBVIOUS
<1>3. PICK ends : \E i \in Nat : PrintedOf(a, ends, i)
  BY <1>1, <1>2 DEF Now, ClientInv, Printing
<1>4. PICK i \in Nat : PrintedOf(a, ends, i)
  BY <1>3
<1>5. /\ IsOutput(Output(a), ends, a) /\ i \in 0..Len(a) /\ shown = SubSeq(a, 1, i)
      /\ arr_bytes = ends[i] /\ loops # <<>> /\ Counts(loops, Missing(a)[i]) /\ loops \in Seq(Nat)
  BY <1>4 DEF PrintedOf, Counts
<1>6. Counts(loops', Missing(a)[i])
  <2>1. Counts(Front(loops), Missing(a)[i] - Last(loops)) /\ Missing(a)[i] \in Nat
    BY <1>5, CountFront, CountType
  <2>2. Missing(a)[i] - Last(loops) = Missing(a)[i]
    BY <1>1, <2>1
  <2>3. QED
    BY <1>1, <2>1, <2>2
<1>7. loops' # <<>>
  <2>1. Len(Front(loops)) # 0
    BY <1>1, <1>5 DEF Front
  <2>2. QED
    BY <1>1, <2>1
<1>8. PrintedOf(a, ends, i)'
  BY <1>1, <1>5, <1>6, <1>7 DEF PrintedOf
<1>9. Sent(asked'[1]) = a
  BY <1>1, <1>2 DEF vars, client
<1>10. Printing'
  BY <1>8, <1>9 DEF Printing
<1>11. QED
  BY <1>1, <1>10, SilentStep DEF ClientInv

\* No loop waits for an element: the whole answer has been printed.
LEMMA EndClientInv ==
  ASSUME Now, read_res
  PROVE  ClientInv'
<1>1. at = "print" /\ loops = <<0>> /\ UNCHANGED vars
  BY DEF read_res
<1>2. PICK a : a = Sent(asked[1])
  OBVIOUS
<1>3. PICK ends : \E i \in Nat : PrintedOf(a, ends, i)
  BY <1>1, <1>2 DEF Now, ClientInv, Printing
<1>4. PICK i \in Nat : PrintedOf(a, ends, i)
  BY <1>3
<1>5. /\ asked # <<>> /\ a \in Seq(Item) /\ IsAnswer(a) /\ reply = Output(a)
      /\ received[1].len = Len(reply)
  BY <1>1, <1>2, ReplyRead
<1>6. /\ i \in 0..Len(a) /\ shown = SubSeq(a, 1, i) /\ arr_bytes = ends[i]
      /\ ends[Len(a)] = Len(Output(a)) /\ Counts(<<0>>, Missing(a)[i]) /\ Len(a) \in Nat
      /\ DOMAIN a = 1..Len(a)
  BY <1>1, <1>4, <1>5 DEF PrintedOf, IsOutput
<1>7. Missing(a)[i] = 0
  BY <1>6, CountOne
<1>8. i = Len(a)
  <2> SUFFICES ASSUME i # Len(a) PROVE FALSE
    OBVIOUS
  <2>1. i + 1 \in 1..Len(a) /\ i + 1 - 1 = i
    <3>1. \A m \in Nat : i \in 0..m /\ i # m => i + 1 \in 1..m /\ i + 1 - 1 = i
      OBVIOUS
    <3>2. QED
      BY <1>6, <3>1
  <2>2. Missing(a)[i + 1 - 1] > 0
    <3>1. \A j \in 1..Len(a) : Missing(a)[j - 1] > 0
      BY <1>5, <1>6, Zenon DEF IsAnswer
    <3>2. QED
      BY <2>1, <3>1
  <2>3. QED
    BY <1>7, <2>1, <2>2
<1>9. shown = a
  <2>1. SubSeq(a, 1, Len(a)) = a
    BY <1>5, SubSeqFull
  <2>2. QED
    BY <1>6, <1>8, <2>1
<1>10. End(<<>>)
  BY <1>5, <1>6, <1>8 DEF read_res
<1>11. at' = "done" /\ shown' = a
  <2>1. a \o <<>> = a
    BY <1>5, ConcatEmptySeq
  <2>2. QED
    BY <1>9, <1>10, <2>1 DEF End
<1>12. AnswerShown'
  <2>1. asked' # <<>> /\ Sent(asked'[1]) = a
    BY <1>1, <1>2, <1>5 DEF vars, client
  <2>2. IsPrefix(a, a)
    BY <1>5 DEF IsPrefix
  <2>3. QED
    BY <1>11, <2>1, <2>2 DEF AnswerShown
<1>13. Printing'
  BY <1>11 DEF Printing
<1>14. OneRequest' /\ Reading' /\ NothingPrinted' /\ StillThere'
  BY <1>1, <1>9, <1>11, SilentStep
<1>15. QED
  BY <1>12, <1>13, <1>14 DEF ClientInv

\* After the end, and when nothing happens.
LEMMA RestClientInv ==
  ASSUME Now, Close \/ UNCHANGED clientvars
  PROVE  ClientInv'
<1>1. UNCHANGED <<at, shown, arr_bytes, loops, asked, received, pc, conn>>
  BY DEF Close, Fin, Reset, clientvars, program, printing, vars, client
<1>2. OneRequest' /\ Reading' /\ NothingPrinted'
  BY <1>1 DEF Now, ClientInv, OneRequest, Reading, NothingPrinted, OutSize
<1>3. Printing'
  <2>1. \A a, ends, i : PrintedOf(a, ends, i)' <=> PrintedOf(a, ends, i)
    BY <1>1 DEF PrintedOf
  <2>2. QED
    BY <1>1, <2>1 DEF Now, ClientInv, Printing, Sent
<1>4. StillThere'
  <2>1. CASE at = "done"
    BY <1>1, <2>1 DEF StillThere
  <2>2. CASE at # "done"
    <3>1. UNCHANGED <<fin, reset>>
      BY <2>2 DEF Close, clientvars, vars, socket
    <3>2. QED
      BY <1>1, <3>1 DEF Now, ClientInv, StillThere, conn
  <2>3. QED
    BY <2>1, <2>2
<1>5. AnswerShown'
  BY <1>1 DEF Now, ClientInv, AnswerShown, Sent
<1>6. QED
  BY <1>2, <1>3, <1>4, <1>5 DEF ClientInv

LEMMA NextClientInv == Now /\ IInv' /\ StreamInv' /\ [ClientNext]_clientvars => ClientInv'
<1> SUFFICES ASSUME Now, IInv', StreamInv', [ClientNext]_clientvars PROVE ClientInv'
  OBVIOUS
<1>1. CASE send_req
  BY <1>1, SendClientInv
<1>2. CASE write_all
  BY <1>2, WriteClientInv
<1>3. CASE WriteClosed \/ ReadFails
  BY <1>3, EndedClientInv
<1>4. CASE ReadHeader \/ ReadBody
  BY <1>4, ReadClientInv
<1>5. CASE on_response_value
  BY <1>5, ValueClientInv
<1>6. CASE on_response_end
  BY <1>6, EndOfArrayClientInv
<1>7. CASE read_res
  BY <1>7, EndClientInv
<1>8. CASE Close \/ UNCHANGED clientvars
  BY <1>8, RestClientInv
<1>9. CASE (Server \/ IdleTimeout) /\ UNCHANGED program
  BY <1>9, ServerClientInv DEF Now
<1>10. QED
  BY <1>1, <1>2, <1>3, <1>4, <1>5, <1>6, <1>7, <1>8, <1>9 DEF ClientNext, main

LEMMA NowHolds == ClientSpec => []Now
<1>1. ClientInit => Now
  BY InitIInv, InitStreams, InitClientInv DEF ClientInit, Now
<1>2. Now /\ [ClientNext]_clientvars => Now'
  <2>1. Now /\ [ClientNext]_clientvars => IInv' /\ StreamInv'
    BY StepIsConnections, NextIInv, NextStreams DEF Now
  <2>2. QED
    BY <2>1, NextClientInv DEF Now
<1>3. QED
  BY <1>1, <1>2, PTL DEF ClientSpec

\* The program is one of the clients Connection allows: what is proved of
\* Connection's server holds with it (client.cpp:63-253).
THEOREM ClientImplementsConnection == ClientSpec => Spec
<1>1. ClientInit => Init
  BY DEF ClientInit
<1>2. QED
  BY <1>1, StepIsConnections, PTL DEF ClientSpec, Spec

\* However the messages are cut and whatever the answer, the client prints the
\* answer to its command or says that the connection has ended; it never finds the
\* answer too long or malformed (client.cpp:95-182, :201-217).
THEOREM AnswerShownHolds == ClientSpec => []AnswerShown
<1>1. Now => AnswerShown
  BY DEF Now, ClientInv
<1>2. QED
  BY <1>1, NowHolds, PTL

\* The server reads a request as the strings the client was given, and does not
\* end the connection of a client that is still there (server.cpp:172-210, :665,
\* :679).
THEOREM RequestUnderstoodHolds == ClientSpec => []RequestUnderstood
<1>1. Now => RequestUnderstood
  <2> SUFFICES ASSUME Now PROVE RequestUnderstood
    OBVIOUS
  <2>1. ASSUME NEW i \in DOMAIN asked
        PROVE  parse_req(RequestBody(asked[i].cmd)) = {asked[i].cmd}
    <3>1. AskedSound /\ i \in 1..Len(asked)
      BY <2>1, BufferTypes DEF Now, AskedSound
    <3>2. asked[i] \in Requests /\ asked[i].len <= k_max_msg
      BY <3>1, AskedAt DEF Now, ClientInv, OneRequest
    <3>3. QED
      BY <3>2, Understood
  <2>2. QED
    BY <2>1 DEF Now, ClientInv, StillThere, RequestUnderstood
<1>2. QED
  BY <1>1, NowHolds, PTL
=============================================================================
