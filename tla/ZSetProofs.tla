----------------------------- MODULE ZSetProofs -----------------------------
(***************************************************************************)
(* Proofs about SortedSet, ZSet and AVL for any finite or infinite set of  *)
(* names, any integer scores and any queries.                              *)
(*                                                                         *)
(* The tree is described by its members T and by D, which gives for each   *)
(* of them the set of what is at and below it: no path and no recursion.   *)
(* A lemma about links then says what a write does to D, a lemma about     *)
(* depths what it does to the one node that is to be put right, and the    *)
(* inductive invariant IInv says where each loop is in that tree.          *)
(***************************************************************************)
EXTENDS ZSet, FiniteSetTheorems, NaturalsInduction, WellFoundedInduction, TLAPS
-----------------------------------------------------------------------------
(* The order of the tuples and their places in it *)

\* A sorted set of numbers, as zset.cpp keeps them.
Sorted(z) == /\ IsFiniteSet(DOMAIN z) /\ DOMAIN z \subseteq Int
             /\ \A n \in DOMAIN z : z[n] \in Int

Size(z) == Cardinality(DOMAIN z)
RankOf(z) == [n \in DOMAIN z |-> Rank(z, z[n], n)]

LEMMA ZlessOrder ==
  ASSUME NEW s \in Int, NEW m \in Int, NEW t \in Int, NEW n \in Int
  PROVE  /\ ~zless(s, m, s, m)
         /\ zless(s, m, t, n) \/ zless(t, n, s, m) \/ (s = t /\ m = n)
         /\ zless(s, m, t, n) => ~zless(t, n, s, m)
BY DEF zless

LEMMA ZlessTrans ==
  ASSUME NEW s \in Int, NEW m \in Int, NEW t \in Int, NEW n \in Int, NEW u \in Int, NEW k \in Int,
         zless(s, m, t, n), zless(t, n, u, k)
  PROVE  zless(s, m, u, k)
BY DEF zless

LEMMA RankType ==
  ASSUME NEW z, Sorted(z), NEW s, NEW n
  PROVE  /\ Size(z) \in Nat /\ IsFiniteSet(Preceding(z, s, n))
         /\ Rank(z, s, n) \in 0..Size(z)
<1>1. IsFiniteSet(DOMAIN z)
  BY DEF Sorted
<1>2. Preceding(z, s, n) \in SUBSET DOMAIN z
  BY DEF Preceding
<1>3. IsFiniteSet(Preceding(z, s, n)) /\ Rank(z, s, n) <= Size(z)
  BY <1>1, <1>2, FS_Subset DEF Rank, Size
<1>4. Size(z) \in Nat /\ Rank(z, s, n) \in Nat
  BY <1>1, <1>3, FS_CardinalityType DEF Rank, Size
<1>5. QED
  BY <1>3, <1>4

\* What comes before (s, n) has a smaller rank.
LEMMA RankGrows ==
  ASSUME NEW z, Sorted(z), NEW m \in DOMAIN z, NEW s \in Int, NEW n \in Int,
         zless(z[m], m, s, n)
  PROVE  Rank(z, z[m], m) < Rank(z, s, n)
<1>1. m \in Int /\ z[m] \in Int
  BY DEF Sorted
<1>2. Preceding(z, z[m], m) \in SUBSET Preceding(z, s, n)
  <2>1. SUFFICES ASSUME NEW k \in DOMAIN z, zless(z[k], k, z[m], m)
                 PROVE  zless(z[k], k, s, n)
    BY DEF Preceding
  <2>2. k \in Int /\ z[k] \in Int
    BY DEF Sorted
  <2>3. QED
    BY <1>1, <2>1, <2>2, ZlessTrans
<1>3. m \in Preceding(z, s, n) /\ m \notin Preceding(z, z[m], m)
  BY <1>1, ZlessOrder DEF Preceding
<1>4. IsFiniteSet(Preceding(z, s, n))
  BY RankType
<1>5. Rank(z, z[m], m) <= Rank(z, s, n) /\ Rank(z, z[m], m) # Rank(z, s, n)
  BY <1>2, <1>3, <1>4, FS_Subset DEF Rank
<1>6. Rank(z, z[m], m) \in Nat /\ Rank(z, s, n) \in Nat
  BY RankType
<1>7. QED
  BY <1>5, <1>6

\* A member is not before itself, so its rank is a place in the set.
LEMMA RankBelowSize ==
  ASSUME NEW z, Sorted(z), NEW n \in DOMAIN z
  PROVE  Rank(z, z[n], n) \in 0..(Size(z)-1)
<1>1. n \in Int /\ z[n] \in Int /\ IsFiniteSet(DOMAIN z)
  BY DEF Sorted
<1>2. Preceding(z, z[n], n) \in SUBSET DOMAIN z /\ n \notin Preceding(z, z[n], n)
  BY <1>1, ZlessOrder DEF Preceding
<1>3. Rank(z, z[n], n) # Size(z)
  BY <1>1, <1>2, FS_Subset DEF Rank, Size
<1>4. Rank(z, z[n], n) \in 0..Size(z) /\ Size(z) \in Nat
  BY RankType
<1>5. QED
  BY <1>3, <1>4

\* Every place is taken, by one member.
LEMMA RankOnto ==
  ASSUME NEW z, Sorted(z), NEW i \in 0..(Size(z)-1)
  PROVE  \E n \in DOMAIN z : Rank(z, z[n], n) = i
<1> DEFINE Places == 0..(Size(z)-1)
<1>1. RankOf(z) \in [DOMAIN z -> Places]
  BY RankBelowSize DEF RankOf
<1>2. ASSUME NEW m \in DOMAIN z, NEW n \in DOMAIN z, RankOf(z)[m] = RankOf(z)[n]
      PROVE  m = n
  <2>1. m \in Int /\ z[m] \in Int /\ n \in Int /\ z[n] \in Int
    BY DEF Sorted
  <2>2. Rank(z, z[m], m) = Rank(z, z[n], n) /\ Rank(z, z[m], m) \in Nat
    BY <1>2, RankType DEF RankOf
  <2>3. ~zless(z[m], m, z[n], n) /\ ~zless(z[n], n, z[m], m)
    BY <2>1, <2>2, RankGrows
  <2>4. QED
    BY <2>1, <2>3, ZlessOrder
<1>3. RankOf(z) \in Injection(DOMAIN z, Places)
  BY <1>1, <1>2 DEF Injection, IsInjective
<1>4. Size(z) \in Nat
  BY RankType
<1>5. IsFiniteSet(Places) /\ Cardinality(Places) = Size(z)
  BY <1>4, FS_Interval
<1>6. RankOf(z) \in Surjection(DOMAIN z, Places)
  BY <1>3, <1>5, FS_Injection DEF Size
<1>7. \E n \in DOMAIN z : RankOf(z)[n] = i
  BY <1>6 DEF Surjection
<1>8. QED
  BY <1>7 DEF RankOf

\* NameAt finds the member at a place: a walk by places (znode_offset) has one
\* answer at each.
THEOREM NameAtRank ==
  ASSUME NEW z, Sorted(z), NEW i \in 0..(Size(z)-1)
  PROVE  NameAt(z, i) \in DOMAIN z /\ Rank(z, z[NameAt(z, i)], NameAt(z, i)) = i
BY RankOnto DEF NameAt

\* Places are in the order of the tuples.
LEMMA NameAtOrder ==
  ASSUME NEW z, Sorted(z), NEW i \in 0..(Size(z)-1), NEW j \in 0..(Size(z)-1), i < j
  PROVE  zless(z[NameAt(z, i)], NameAt(z, i), z[NameAt(z, j)], NameAt(z, j))
<1> DEFINE m == NameAt(z, i)
           n == NameAt(z, j)
<1>1. m \in DOMAIN z /\ Rank(z, z[m], m) = i /\ n \in DOMAIN z /\ Rank(z, z[n], n) = j
  BY NameAtRank
<1> HIDE DEF m, n
<1>2. m \in Int /\ z[m] \in Int /\ n \in Int /\ z[n] \in Int
  BY <1>1 DEF Sorted
<1>3. ~zless(z[n], n, z[m], m)
  <2>1. ~(j < i)
    OBVIOUS
  <2>2. QED
    BY <1>1, <1>2, <2>1, RankGrows
<1>4. m # n
  BY <1>1
<1>5. zless(z[m], m, z[n], n)
  BY <1>2, <1>3, <1>4, ZlessOrder
<1>6. QED
  BY <1>5 DEF m, n
-----------------------------------------------------------------------------
(* What zquery lists *)

LEMMA ListedBounds ==
  ASSUME NEW size \in Nat, NEW start \in Int, NEW limit \in Int
  PROVE  /\ Listed(size, start, limit) \in Nat
         /\ limit <= 0 => Listed(size, start, limit) = 0
         /\ limit > 0 => 2 * Listed(size, start, limit) <= limit + 1
         /\ Listed(size, start, limit) > 0 => start >= 0 /\ start + Listed(size, start, limit) <= size
<1>1. PICK w \in Int : w = (limit + 1) \div 2
  OBVIOUS
<1>2. 2 * w <= limit + 1 /\ limit + 1 < 2 * w + 2
  BY <1>1
<1>3. Listed(size, start, limit) = IF limit <= 0 \/ start < 0 \/ start >= size THEN 0
                                   ELSE IF start + w <= size THEN w ELSE size - start
  BY <1>1 DEF Listed
<1>4. QED
  BY <1>2, <1>3

\* A member whose rank is not below that of (s, n) is not before (s, n).
LEMMA NotBefore ==
  ASSUME NEW z, Sorted(z), NEW s \in Int, NEW n \in Int, NEW m \in DOMAIN z,
         Rank(z, s, n) <= Rank(z, z[m], m)
  PROVE  ~zless(z[m], m, s, n)
<1>1. Rank(z, s, n) \in Nat /\ Rank(z, z[m], m) \in Nat
  BY RankType
<1>2. ~(Rank(z, z[m], m) < Rank(z, s, n))
  BY <1>1
<1>3. QED
  BY <1>2, RankGrows

\* zquery answers with tuples of the sorted set in their order, none twice, at
\* most as many as fill up an odd limit, and none for a limit of 0 or less; with
\* an offset that does not go back none is before the tuple it was asked for
\* (server.cpp:601-617).
THEOREM QueryTuplesInOrder ==
  ASSUME NEW z, Sorted(z), NEW s \in Int, NEW n \in Int, NEW offset \in Int, NEW limit \in Int
  PROVE  LET q == QueryTuples(z, s, n, offset, limit)
         IN  /\ \E count \in Nat : /\ DOMAIN q = 1..count
                                   /\ limit <= 0 => count = 0
                                   /\ limit > 0 => 2 * count <= limit + 1
             /\ \A i \in DOMAIN q : \E m \in DOMAIN z : q[i] = <<m, z[m]>>
             /\ \A i, j \in DOMAIN q : i < j => zless(q[i][2], q[i][1], q[j][2], q[j][1])
             /\ offset >= 0 => \A i \in DOMAIN q : ~zless(q[i][2], q[i][1], s, n)
<1> DEFINE size == Size(z)
           first == Rank(z, s, n)
           count == IF first = size THEN 0 ELSE Listed(size, first + offset, limit)
           place(i) == first + offset + i - 1
           q == QueryTuples(z, s, n, offset, limit)
<1>1. size \in Nat /\ first \in 0..size
  BY RankType
<1>2. q = [i \in 1..count |-> <<NameAt(z, place(i)), z[NameAt(z, place(i))]>>]
  BY DEF QueryTuples, Size
<1>3. first + offset \in Int
  BY <1>1
<1> HIDE DEF size, first, q
<1>4. /\ count \in Nat
      /\ limit <= 0 => count = 0
      /\ limit > 0 => 2 * count <= limit + 1
      /\ count > 0 => first + offset >= 0 /\ first + offset + count <= size
  <2> DEFINE l == Listed(size, first + offset, limit)
  <2>1. /\ l \in Nat
        /\ limit <= 0 => l = 0
        /\ limit > 0 => 2 * l <= limit + 1
        /\ l > 0 => first + offset >= 0 /\ first + offset + l <= size
    BY <1>1, <1>3, ListedBounds
  <2> HIDE DEF l
  <2>2. count = 0 \/ count = l
    BY DEF l
  <2> HIDE DEF count
  <2>3. QED
    BY <2>1, <2>2
<1> HIDE DEF count
<1>5. ASSUME NEW i \in 1..count
      PROVE  place(i) \in 0..(size-1) /\ (offset >= 0 => first <= place(i))
  BY <1>1, <1>4
<1>6. ASSUME NEW i \in 1..count, NEW j \in 1..count, i < j
      PROVE  place(i) < place(j)
  <2>1. first + offset \in Int /\ i \in Int /\ j \in Int
    BY <1>3, <1>4
  <2>2. \A b, x, y \in Int : x < y => b + x - 1 < b + y - 1
    OBVIOUS
  <2>3. QED
    BY <1>6, <2>1, <2>2
<1> HIDE DEF place
<1>7. ASSUME NEW i \in 1..count
      PROVE  /\ NameAt(z, place(i)) \in DOMAIN z
             /\ Rank(z, z[NameAt(z, place(i))], NameAt(z, place(i))) = place(i)
  BY <1>5, NameAtRank DEF size
<1>8. DOMAIN q = 1..count
  BY <1>2
<1>9. ASSUME NEW i \in 1..count
      PROVE  /\ q[i] = <<NameAt(z, place(i)), z[NameAt(z, place(i))]>>
             /\ q[i][1] = NameAt(z, place(i)) /\ q[i][2] = z[NameAt(z, place(i))]
  BY <1>2
<1>10. \A i, j \in 1..count : i < j => zless(q[i][2], q[i][1], q[j][2], q[j][1])
  <2>1. SUFFICES ASSUME NEW i \in 1..count, NEW j \in 1..count, i < j
                 PROVE  zless(q[i][2], q[i][1], q[j][2], q[j][1])
    OBVIOUS
  <2>2. zless(z[NameAt(z, place(i))], NameAt(z, place(i)), z[NameAt(z, place(j))], NameAt(z, place(j)))
    BY <1>5, <1>6, <2>1, NameAtOrder DEF size
  <2>3. QED
    BY <1>9, <2>2
<1>11. ASSUME offset >= 0, NEW i \in 1..count
       PROVE  ~zless(q[i][2], q[i][1], s, n)
  <2>1. first <= Rank(z, z[NameAt(z, place(i))], NameAt(z, place(i)))
    BY <1>5, <1>7, <1>11
  <2>2. ~zless(z[NameAt(z, place(i))], NameAt(z, place(i)), s, n)
    BY <1>7, <2>1, NotBefore DEF first
  <2>3. QED
    BY <1>9, <2>2
<1>12. /\ \E c \in Nat : /\ DOMAIN q = 1..c
                         /\ limit <= 0 => c = 0
                         /\ limit > 0 => 2 * c <= limit + 1
       /\ \A i \in DOMAIN q : \E m \in DOMAIN z : q[i] = <<m, z[m]>>
       /\ \A i, j \in DOMAIN q : i < j => zless(q[i][2], q[i][1], q[j][2], q[j][1])
       /\ offset >= 0 => \A i \in DOMAIN q : ~zless(q[i][2], q[i][1], s, n)
  BY <1>4, <1>7, <1>8, <1>9, <1>10, <1>11
<1>13. QED
  BY <1>12 DEF q
-----------------------------------------------------------------------------
(* The order of the nodes, and search trees *)

\* The links down from a node.
Sides == {"left", "right"}

\* b comes after a on the side "right", before it on the side "left".
Lt(sc, a, b) == zless(sc[a], a, sc[b], b)
On(sc, s, a, b) == IF s = "left" THEN Lt(sc, b, a) ELSE Lt(sc, a, b)

\* What the memory of the nodes holds.
Mem == [Nodes -> AVLNode]

\* The child c of a holds S.
Child(m, T, D, a, c, S) == IF c = NULL THEN S = {} ELSE c \in T /\ D[c] = S /\ m[c].parent = a

\* The members T are a search tree with the given root; D[a] is what is at and below a.
Shape(m, root, T, D, sc) ==
  /\ sc \in [Nodes -> Int] /\ IsFiniteSet(T)
  /\ m \in Mem /\ T \in SUBSET Nodes /\ D \in [T -> SUBSET T] /\ root \in T \cup {NULL}
  /\ IF root = NULL THEN T = {} ELSE D[root] = T /\ m[root].parent = NULL
  /\ \A a \in T : a \in D[a]
  /\ \A a \in T, s \in Sides : Child(m, T, D, a, m[a][s], {b \in D[a] : On(sc, s, a, b)})
  /\ \A a \in T \ {root} : m[a].parent \in T /\ \E s \in Sides : m[m[a].parent][s] = a

\* Of two nodes, one is on one side of the other.
LEMMA OnOrder ==
  ASSUME NEW sc \in [Nodes -> Int], NEW a \in Nodes, NEW b \in Nodes, NEW s \in Sides
  PROVE  /\ ~On(sc, s, a, a)
         /\ On(sc, s, a, b) => ~On(sc, s, b, a)
         /\ a = b \/ On(sc, s, a, b) \/ On(sc, s, b, a)
         /\ \A o \in Sides : s # o => (On(sc, o, a, b) <=> On(sc, s, b, a))
BY ZSetAssumption DEF On, Lt, zless, Sides

\* What is beyond a node on one side is so for what comes before it.
LEMMA OnTrans ==
  ASSUME NEW sc \in [Nodes -> Int], NEW a \in Nodes, NEW b \in Nodes, NEW c \in Nodes,
         NEW s \in Sides, On(sc, s, a, b), On(sc, s, b, c)
  PROVE  On(sc, s, a, c)
BY ZSetAssumption DEF On, Lt, zless, Sides

\* Of some of the sets D[a], there is one that holds no other.
LEMMA Smallest ==
  ASSUME NEW T, IsFiniteSet(T), NEW D \in [T -> SUBSET T], NEW S \in SUBSET T, S # {}
  PROVE  \E a \in S : \A b \in S : D[b] \subseteq D[a] => D[b] = D[a]
<1> DEFINE Sizes == {Cardinality(D[a]) : a \in S}
<1>1. \A a \in S : IsFiniteSet(D[a]) /\ Cardinality(D[a]) \in Nat
  BY FS_Subset, FS_CardinalityType
<1>2. Sizes \subseteq Nat /\ Sizes # {}
  BY <1>1
<1>3. PICK k \in Sizes : \A j \in Sizes : ~(<<j, k>> \in OpToRel(<, Nat))
  <2> HIDE DEF Sizes
  <2>1. QED
    BY <1>2, WFMin, NatLessThanWellFounded, Zenon
<1>4. \A j \in Sizes : ~(j < k)
  <2> HIDE DEF Sizes
  <2>1. ASSUME NEW j \in Sizes, j < k PROVE <<j, k>> \in OpToRel(<, Nat)
    BY <2>1, <1>2, Zenon DEF OpToRel
  <2>2. QED
    BY <1>3, <2>1
<1>5. PICK a \in S : k = Cardinality(D[a])
  BY <1>3
<1>6. ASSUME NEW b \in S, D[b] \subseteq D[a]
      PROVE  D[b] = D[a]
  <2>1. Cardinality(D[b]) \in Sizes
    OBVIOUS
  <2>2. ~(Cardinality(D[b]) < Cardinality(D[a]))
    BY <1>4, <1>5, <2>1
  <2>3. Cardinality(D[b]) <= Cardinality(D[a]) /\ (Cardinality(D[b]) = Cardinality(D[a]) => D[a] = D[b])
    BY <1>1, <1>6, FS_Subset
  <2>4. QED
    BY <1>1, <2>2, <2>3
<1>7. QED
  BY <1>6

\* What a node carries.
LEMMA LinkType ==
  ASSUME NEW m \in Mem, NEW a \in Nodes, NEW s \in Sides
  PROVE  /\ m[a] \in AVLNode
         /\ m[a][s] \in Nodes \cup {NULL} /\ m[a].parent \in Nodes \cup {NULL}
         /\ m[a].depth \in Nat /\ m[a].cnt \in Nat
BY DEF Mem, AVLNode, Sides

\* The child on a side holds what is on that side.
LEMMA Kid ==
  ASSUME NEW m, NEW root, NEW T, NEW D, NEW sc, Shape(m, root, T, D, sc),
         NEW a \in T, NEW s \in Sides, m[a][s] # NULL
  PROVE  /\ m[a][s] \in T /\ m[m[a][s]].parent = a /\ m[a][s] # a
         /\ m[a][s] \in D[a] /\ On(sc, s, a, m[a][s])
         /\ D[m[a][s]] = {b \in D[a] : On(sc, s, a, b)}
         /\ D[m[a][s]] \subseteq D[a] /\ a \notin D[m[a][s]]
<1>1. /\ m[a][s] \in T /\ D[m[a][s]] = {b \in D[a] : On(sc, s, a, b)}
      /\ m[m[a][s]].parent = a
  BY DEF Shape, Child
<1>2. m[a][s] \in D[m[a][s]]
  BY <1>1 DEF Shape
<1>3. a \in Nodes /\ sc \in [Nodes -> Int]
  BY DEF Shape
<1>4. ~On(sc, s, a, a)
  BY <1>3, OnOrder
<1>5. QED
  BY <1>1, <1>2, <1>4

\* What is below a node is below one of its children.
LEMMA Below ==
  ASSUME NEW m, NEW root, NEW T, NEW D, NEW sc, Shape(m, root, T, D, sc),
         NEW a \in T, NEW s \in Sides, NEW b \in D[a], On(sc, s, a, b)
  PROVE  m[a][s] # NULL /\ b \in D[m[a][s]]
<1>1. Child(m, T, D, a, m[a][s], {c \in D[a] : On(sc, s, a, c)})
  BY DEF Shape
<1>2. QED
  BY <1>1 DEF Child

\* Two members are on one side of each other.
LEMMA SideOf ==
  ASSUME NEW m, NEW root, NEW T, NEW D, NEW sc, Shape(m, root, T, D, sc),
         NEW a \in T, NEW b \in T, a # b
  PROVE  \E s \in Sides : On(sc, s, a, b)
<1>1. a \in Nodes /\ b \in Nodes /\ sc \in [Nodes -> Int]
  BY DEF Shape
<1>2. "left" \in Sides /\ "right" \in Sides /\ "left" # "right"
  BY DEF Sides
<1>3. QED
  BY <1>1, <1>2, OnOrder

\* The way up from a node below a stays at or below a.
LEMMA ParentIn ==
  ASSUME NEW m, NEW root, NEW T, NEW D, NEW sc, Shape(m, root, T, D, sc),
         NEW a \in T, NEW b \in D[a], b # a
  PROVE  m[b].parent \in D[a]
<1> DEFINE Bad == {c \in T : b \in D[c] /\ b # c /\ m[b].parent \notin D[c]}
<1>1. D \in [T -> SUBSET T] /\ IsFiniteSet(T) /\ b \in T
  BY DEF Shape
<1>2. SUFFICES ASSUME Bad # {} PROVE FALSE
  OBVIOUS
<1>3. PICK c \in Bad : \A d \in Bad : D[d] \subseteq D[c] => D[d] = D[c]
  <2>1. Bad \in SUBSET T
    OBVIOUS
  <2> HIDE DEF Bad
  <2>2. QED
    BY <1>1, <1>2, <2>1, Smallest
<1>4. PICK s \in Sides : On(sc, s, c, b)
  BY <1>1, SideOf
<1> DEFINE k == m[c][s]
<1>5. k # NULL /\ b \in D[k]
  BY <1>4, Below
<1>6. c \in T /\ c \in D[c]
  BY <1>3 DEF Shape
<1>7. k \in T /\ D[k] \subseteq D[c] /\ c \notin D[k] /\ m[k].parent = c
  BY <1>5, <1>6, Kid
<1>8. b # k
  BY <1>3, <1>6, <1>7
<1>9. k \in Bad
  BY <1>3, <1>5, <1>7, <1>8
<1>10. QED
  BY <1>3, <1>6, <1>7, <1>9

\* What is below b is below what b is below.
LEMMA Nested ==
  ASSUME NEW m, NEW root, NEW T, NEW D, NEW sc, Shape(m, root, T, D, sc),
         NEW a \in T, NEW b \in D[a]
  PROVE  D[b] \subseteq D[a]
<1> DEFINE Bad == {c \in T : b \in D[c] /\ ~(D[b] \subseteq D[c])}
<1>1. D \in [T -> SUBSET T] /\ IsFiniteSet(T) /\ b \in T
  BY DEF Shape
<1>2. SUFFICES ASSUME Bad # {} PROVE FALSE
  OBVIOUS
<1>3. PICK c \in Bad : \A d \in Bad : D[d] \subseteq D[c] => D[d] = D[c]
  <2>1. Bad \in SUBSET T
    OBVIOUS
  <2> HIDE DEF Bad
  <2>2. QED
    BY <1>1, <1>2, <2>1, Smallest
<1>4. PICK s \in Sides : On(sc, s, c, b)
  BY <1>1, SideOf
<1> DEFINE k == m[c][s]
<1>5. k # NULL /\ b \in D[k]
  BY <1>4, Below
<1>6. c \in T /\ c \in D[c]
  BY <1>3 DEF Shape
<1>7. k \in T /\ D[k] \subseteq D[c] /\ c \notin D[k]
  BY <1>5, <1>6, Kid
<1>8. ~(k \in Bad)
  BY <1>3, <1>6, <1>7
<1>9. QED
  BY <1>3, <1>5, <1>7, <1>8

\* What is not at or below a node is on one side of all that is.
LEMMA Convex ==
  ASSUME NEW m, NEW root, NEW T, NEW D, NEW sc, Shape(m, root, T, D, sc),
         NEW a \in T, NEW b \in T, b \notin D[a], NEW c \in D[a], NEW s \in Sides
  PROVE  On(sc, s, b, c) <=> On(sc, s, b, a)
<1> DEFINE Above == {d \in T : a \in D[d] /\ b \in D[d]}
<1>1. /\ D \in [T -> SUBSET T] /\ IsFiniteSet(T) /\ T \subseteq Nodes /\ c \in T /\ a \in D[a]
      /\ sc \in [Nodes -> Int] /\ root \in T /\ D[root] = T
  BY DEF Shape
<1>2. PICK d \in Above : \A e \in Above : D[e] \subseteq D[d] => D[e] = D[d]
  <2>1. Above \in SUBSET T /\ root \in Above
    BY <1>1
  <2> HIDE DEF Above
  <2>2. QED
    BY <1>1, <2>1, Smallest
<1>3. d # a /\ d \in T /\ d \in D[d]
  BY <1>2 DEF Shape
<1>4. PICK t \in Sides : On(sc, t, d, a)
  BY <1>2, <1>3, SideOf
<1> DEFINE k == m[d][t]
<1>5. k # NULL /\ a \in D[k]
  BY <1>2, <1>4, Below
<1>6. k \in T /\ D[k] = {e \in D[d] : On(sc, t, d, e)} /\ d \notin D[k]
  BY <1>3, <1>5, Kid
<1>7. D[a] \subseteq D[k]
  BY <1>5, <1>6, Nested
<1>8. On(sc, t, d, c) /\ c \in Nodes /\ d \in Nodes /\ a \in Nodes /\ b \in Nodes
  BY <1>1, <1>3, <1>6, <1>7
<1>9. b \notin D[k]
  BY <1>2, <1>3, <1>5, <1>6
<1>10. b = d \/ On(sc, t, b, d)
  BY <1>1, <1>2, <1>6, <1>8, <1>9, OnOrder
<1>11. On(sc, t, b, c) /\ On(sc, t, b, a)
  BY <1>1, <1>4, <1>8, <1>10, OnTrans
<1>12. QED
  BY <1>1, <1>8, <1>11, OnOrder

-----------------------------------------------------------------------------
(* What the writes do to the links *)

\* A node that is not the root is a child of its parent, on one side.
LEMMA Parent ==
  ASSUME NEW m, NEW root, NEW T, NEW D, NEW sc, Shape(m, root, T, D, sc), NEW n \in T
  PROVE  /\ m[n].parent = NULL <=> n = root
         /\ m[n].parent # NULL =>
              /\ m[n].parent \in T /\ m[n].parent \notin D[n] /\ n \in D[m[n].parent]
              /\ \E s \in Sides : /\ m[m[n].parent][s] = n
                                  /\ \A o \in Sides : o # s => m[m[n].parent][o] # n
<1>1. n # NULL /\ n \in Nodes /\ T \subseteq Nodes /\ NULL \notin T /\ sc \in [Nodes -> Int]
      /\ D \in [T -> SUBSET T] /\ n \in D[n]
  BY AVLAssumption DEF Shape
<1>2. n = root => m[n].parent = NULL
  BY <1>1 DEF Shape
<1>3. ASSUME n # root
      PROVE  m[n].parent # NULL /\ m[n].parent \in T /\ \E s \in Sides : m[m[n].parent][s] = n
  BY <1>1, <1>3 DEF Shape
<1>4. ASSUME n # root
      PROVE  /\ m[n].parent \notin D[n] /\ n \in D[m[n].parent]
             /\ \E s \in Sides : /\ m[m[n].parent][s] = n
                                 /\ \A o \in Sides : o # s => m[m[n].parent][o] # n
  <2> DEFINE p == m[n].parent
  <2>1. PICK s \in Sides : m[p][s] = n
    BY <1>3, <1>4
  <2>2. p \in T /\ p \in Nodes
    BY <1>1, <1>3, <1>4
  <2>3. n \in D[p] /\ p \notin D[n] /\ On(sc, s, p, n)
    BY <1>1, <2>1, <2>2, Kid
  <2>4. ASSUME NEW o \in Sides, o # s PROVE m[p][o] # n
    <3>1. ~On(sc, o, p, n)
      BY <1>1, <2>2, <2>3, <2>4, OnOrder
    <3>2. QED
      BY <1>1, <2>2, <3>1, Kid
  <2>5. QED
    BY <2>1, <2>3, <2>4
<1>5. QED
  BY <1>2, <1>3, <1>4

\* M is m after avl_update(n).
Updated(m, M, n) ==
  /\ M \in Mem
  /\ \A a \in Nodes \ {n} : M[a] = m[a]
  /\ \A s \in Sides : M[n][s] = m[n][s]
  /\ M[n].parent = m[n].parent
  /\ M[n].depth = 1 + Larger(avl_depth(m, m[n].left), avl_depth(m, m[n].right))
  /\ M[n].cnt = 1 + avl_cnt(m, m[n].left) + avl_cnt(m, m[n].right)

\* avl_update (avl.cpp:18-22) keeps the links.
LEMMA UpdateEffect ==
  ASSUME NEW m \in Mem, NEW n \in Nodes
  PROVE  Updated(m, avl_update(m, n), n)
<1> DEFINE d == 1 + Larger(avl_depth(m, m[n].left), avl_depth(m, m[n].right))
           c == 1 + avl_cnt(m, m[n].left) + avl_cnt(m, m[n].right)
<1>1. m[n].left \in Nodes \cup {NULL} /\ m[n].right \in Nodes \cup {NULL}
  BY DEF Mem, AVLNode
<1>2. \A a \in Nodes \cup {NULL} : avl_depth(m, a) \in Nat /\ avl_cnt(m, a) \in Nat
  BY DEF avl_depth, avl_cnt, Mem, AVLNode
<1>3. d \in Nat /\ c \in Nat
  BY <1>1, <1>2 DEF Larger
<1>4. avl_update(m, n) = [m EXCEPT ![n].depth = d, ![n].cnt = c]
  BY DEF avl_update
<1> HIDE DEF d, c
<1> DEFINE x == [m[n] EXCEPT !.depth = d, !.cnt = c]
<1>5. m \in [Nodes -> AVLNode] /\ m[n] \in AVLNode
  BY DEF Mem
<1>6. /\ x \in AVLNode /\ x.parent = m[n].parent /\ x.depth = d /\ x.cnt = c
      /\ x.left = m[n].left /\ x.right = m[n].right
      /\ x["left"] = m[n]["left"] /\ x["right"] = m[n]["right"]
  BY <1>3, <1>5 DEF AVLNode
<1>7. avl_update(m, n) = [m EXCEPT ![n] = x]
  BY <1>4, <1>5
<1> HIDE DEF x
<1>8. QED
  <2>1. /\ avl_update(m, n) \in [Nodes -> AVLNode]
        /\ \A a \in Nodes \ {n} : avl_update(m, n)[a] = m[a]
        /\ avl_update(m, n)[n] = x
    BY <1>5, <1>6, <1>7
  <2>2. /\ avl_update(m, n) \in Mem
        /\ \A s \in Sides : avl_update(m, n)[n][s] = m[n][s]
        /\ avl_update(m, n)[n].parent = m[n].parent
        /\ avl_update(m, n)[n].depth = d
        /\ avl_update(m, n)[n].cnt = c
    BY <1>6, <2>1 DEF Mem, Sides
  <2>3. QED
    BY <2>1, <2>2 DEF d, c, Updated

\* A write to one field of a node.
LEMMA LinkEffect ==
  ASSUME NEW m \in Mem, NEW a \in Nodes, NEW s \in Sides, NEW v \in Nodes \cup {NULL}
  PROVE  /\ [m EXCEPT ![a][s] = v] \in Mem
         /\ [m EXCEPT ![a][s] = v][a][s] = v
         /\ \A b \in Nodes \ {a} : [m EXCEPT ![a][s] = v][b] = m[b]
         /\ \A o \in Sides : o # s => [m EXCEPT ![a][s] = v][a][o] = m[a][o]
         /\ [m EXCEPT ![a][s] = v][a].parent = m[a].parent
         /\ [m EXCEPT ![a][s] = v][a].depth = m[a].depth
         /\ [m EXCEPT ![a][s] = v][a].cnt = m[a].cnt
BY DEF Mem, AVLNode, Sides

\* A new link up changes nothing else.
LEMMA ParentEffect ==
  ASSUME NEW m \in Mem, NEW a \in Nodes, NEW v \in Nodes \cup {NULL}
  PROVE  /\ [m EXCEPT ![a].parent = v] \in Mem
         /\ [m EXCEPT ![a].parent = v][a].parent = v
         /\ \A b \in Nodes \ {a} : [m EXCEPT ![a].parent = v][b] = m[b]
         /\ \A o \in Sides : [m EXCEPT ![a].parent = v][a][o] = m[a][o]
         /\ [m EXCEPT ![a].parent = v][a].depth = m[a].depth
         /\ [m EXCEPT ![a].parent = v][a].cnt = m[a].cnt
BY DEF Mem, AVLNode, Sides

\* The link from p to old leads to new instead.
LEMMA RelinkEffect ==
  ASSUME NEW m \in Mem, NEW p \in Nodes, NEW s \in Sides, NEW old, NEW new \in Nodes \cup {NULL},
         m[p][s] = old, \A o \in Sides : o # s => m[p][o] # old
  PROVE  /\ Relink(m, p, old, new) \in Mem
         /\ \A a \in Nodes \ {p} : Relink(m, p, old, new)[a] = m[a]
         /\ \A o \in Sides : Relink(m, p, old, new)[p][o] = IF m[p][o] = old THEN new ELSE m[p][o]
         /\ Relink(m, p, old, new)[p].parent = m[p].parent
         /\ Relink(m, p, old, new)[p].depth = m[p].depth
         /\ Relink(m, p, old, new)[p].cnt = m[p].cnt
<1> DEFINE W == [m EXCEPT ![p][s] = new]
<1>1. Relink(m, p, old, new) = W
  <2>1. CASE s = "left"
    BY <2>1 DEF Relink
  <2>2. CASE s = "right"
    BY <2>2 DEF Relink, Sides
  <2>3. QED
    BY <2>1, <2>2 DEF Sides
<1>2. /\ W \in Mem /\ W[p][s] = new /\ \A a \in Nodes \ {p} : W[a] = m[a]
      /\ \A o \in Sides : o # s => W[p][o] = m[p][o]
      /\ W[p].parent = m[p].parent /\ W[p].depth = m[p].depth /\ W[p].cnt = m[p].cnt
  BY LinkEffect
<1> HIDE DEF W
<1>3. \A o \in Sides : W[p][o] = IF m[p][o] = old THEN new ELSE m[p][o]
  BY <1>2
<1>4. QED
  BY <1>1, <1>2, <1>3

\* The links of M are those of m after a rotation at n, seen from the parent of n too.
Turned(m, M, n, up, down) ==
  LET top == m[n][up]
      inner == m[top][down]
      p == m[n].parent
  IN  /\ M \in Mem
      /\ M[n][up] = inner /\ M[n][down] = m[n][down] /\ M[n].parent = top
      /\ M[top][down] = n /\ M[top][up] = m[top][up] /\ M[top].parent = p
      /\ \A a \in Nodes \ {n, top}, s \in Sides :
            M[a][s] = IF a = p /\ m[a][s] = n THEN top ELSE m[a][s]
      /\ \A a \in Nodes \ {n, top} : M[a].parent = IF a = inner THEN n ELSE m[a].parent

\* What a rotation at n does to the depths and the sizes.
Resized(m, M, n, up, down) ==
  LET top == m[n][up]
      inner == m[top][down]
  IN  /\ \A a \in Nodes \ {n, top} : M[a].depth = m[a].depth /\ M[a].cnt = m[a].cnt
      /\ M[n].depth = 1 + Larger(avl_depth(m, inner), avl_depth(m, m[n][down]))
      /\ M[n].cnt = 1 + avl_cnt(m, inner) + avl_cnt(m, m[n][down])
      /\ M[top].depth = 1 + Larger(M[n].depth, avl_depth(m, m[top][up]))
      /\ M[top].cnt = 1 + M[n].cnt + avl_cnt(m, m[top][up])

\* The side of the child that comes up, and that on which n goes down.
Opposite(up, down) == up \in Sides /\ down \in Sides /\ up # down

\* The rotation, and the new link from the parent of n, if there is one.
Rotated(m, n, up, down) ==
  LET r == Rotate(m, n, up, down)
  IN  IF m[n].parent = NULL THEN r.mem ELSE Relink(r.mem, m[n].parent, n, r.node)

\* rot_left and rot_right (avl.cpp:25-54) turn the links and measure the two nodes again.
LEMMA RotateEffect ==
  ASSUME NEW m, NEW root, NEW T, NEW D, NEW sc, Shape(m, root, T, D, sc),
         NEW n \in T, NEW up, NEW down, Opposite(up, down), m[n][up] # NULL
  PROVE  /\ Rotate(m, n, up, down).node = m[n][up] /\ Rotate(m, n, up, down).mem \in Mem
         /\ Turned(m, Rotated(m, n, up, down), n, up, down)
         /\ Resized(m, Rotated(m, n, up, down), n, up, down)
<1> DEFINE top == m[n][up]
           inner == m[top][down]
           p == m[n].parent
           m1 == SetParent(m, inner, n)
           t == [m1 EXCEPT ![n][up] = inner, ![top][down] = n, ![top].parent = p, ![n].parent = top]
           u == avl_update(t, n)
           w == avl_update(u, top)
           r == Rotate(m, n, up, down)
           M == Rotated(m, n, up, down)
<1>1. m \in Mem /\ T \subseteq Nodes /\ n \in Nodes /\ up \in Sides /\ down \in Sides /\ up # down
      /\ NULL \notin Nodes
  BY AVLAssumption DEF Shape, Opposite
<1>2. top \in T /\ top \in Nodes /\ top # n /\ n \notin D[top] /\ top \in D[n] /\ top # NULL
  BY <1>1, Kid
<1>3. inner \in Nodes \cup {NULL} /\ inner # top /\ inner # n
      /\ (inner # NULL => inner \in T /\ D[inner] \subseteq D[top])
  BY <1>1, <1>2, Kid, LinkType
<1>4. p \in Nodes \cup {NULL} /\ p # n
      /\ (p # NULL => /\ p # top /\ p # inner
                      /\ \E s \in Sides : m[p][s] = n /\ \A o \in Sides : o # s => m[p][o] # n)
  <2>1. p \in Nodes \cup {NULL}
    BY <1>1, LinkType
  <2>2. ASSUME p # NULL
        PROVE  /\ p \in T /\ p \notin D[n]
               /\ \E s \in Sides : m[p][s] = n /\ \A o \in Sides : o # s => m[p][o] # n
    BY <2>2, Parent
  <2>3. ASSUME p # NULL PROVE p # n /\ p # top /\ p # inner
    <3>1. n \in D[n] /\ (inner # NULL => inner \in D[inner])
      BY <1>3 DEF Shape
    <3>2. D[top] \subseteq D[n]
      BY <1>1, <1>2, Kid
    <3>3. QED
      BY <1>2, <1>3, <2>2, <2>3, <3>1, <3>2
  <2>4. QED
    BY <1>1, <2>1, <2>2, <2>3
<1>5. m1 \in Mem /\ \A a \in Nodes : m1[a] = IF a = inner THEN [m[a] EXCEPT !.parent = n] ELSE m[a]
  <2>1. CASE inner = NULL
    BY <1>1, <2>1 DEF SetParent
  <2>2. CASE inner # NULL
    BY <1>1, <1>3, <2>2 DEF SetParent, Mem, AVLNode
  <2>3. QED
    BY <2>1, <2>2
<1>6. /\ t \in Mem
      /\ t[n][up] = inner /\ t[n][down] = m[n][down] /\ t[n].parent = top
      /\ t[top][down] = n /\ t[top][up] = m[top][up] /\ t[top].parent = p
      /\ \A a \in Nodes \ {n, top} : t[a] = m1[a]
  <2> DEFINE t1 == [m1 EXCEPT ![n][up] = inner]
             t2 == [t1 EXCEPT ![top][down] = n]
             t3 == [t2 EXCEPT ![top].parent = p]
             t4 == [t3 EXCEPT ![n].parent = top]
  <2> HIDE DEF m1, inner, top, p
  <2>1. m1[n] = m[n] /\ m1[top] = m[top]
    BY <1>1, <1>2, <1>3, <1>5
  <2>2. /\ t1 \in Mem /\ t1[n][up] = inner /\ t1[n][down] = m[n][down]
        /\ \A a \in Nodes \ {n} : t1[a] = m1[a]
    BY <1>1, <1>3, <1>5, <2>1, LinkEffect
  <2> HIDE DEF t1
  <2>3. /\ t2 \in Mem /\ t2[top][down] = n /\ t2[top][up] = m[top][up]
        /\ \A a \in Nodes \ {top} : t2[a] = t1[a]
    BY <1>1, <1>2, <2>1, <2>2, LinkEffect
  <2> HIDE DEF t2
  <2>4. /\ t3 \in Mem /\ t3[top].parent = p
        /\ \A s \in Sides : t3[top][s] = t2[top][s]
        /\ \A a \in Nodes \ {top} : t3[a] = t2[a]
    BY <1>2, <1>4, <2>3, ParentEffect
  <2> HIDE DEF t3
  <2>5. /\ t4 \in Mem /\ t4[n].parent = top
        /\ \A s \in Sides : t4[n][s] = t3[n][s]
        /\ \A a \in Nodes \ {n} : t4[a] = t3[a]
    BY <1>1, <1>2, <2>4, ParentEffect
  <2>6. t = t4
    BY DEF t1, t2, t3
  <2> HIDE DEF t, t4
  <2>7. QED
    BY <1>1, <1>2, <2>2, <2>3, <2>4, <2>5, <2>6
<1>7. /\ \A a \in Nodes \ {n, top}, s \in Sides :
            /\ t[a][s] = m[a][s] /\ t[a].depth = m[a].depth /\ t[a].cnt = m[a].cnt
            /\ t[a].parent = IF a = inner THEN n ELSE m[a].parent
  <2> HIDE DEF m1, t, inner, top, p
  <2>1. QED
    BY <1>1, <1>5, <1>6, LinkType DEF Mem, AVLNode, Sides
<1>8. Updated(t, u, n) /\ Updated(u, w, top)
  <2> HIDE DEF t, top
  <2>1. Updated(t, u, n)
    BY <1>1, <1>6, UpdateEffect
  <2>2. u \in Mem
    BY <2>1 DEF Updated
  <2> HIDE DEF u
  <2>3. Updated(u, w, top)
    BY <1>2, <2>2, UpdateEffect
  <2>4. QED
    BY <2>1, <2>3
<1>9. r.mem = w /\ r.node = top
  BY DEF Rotate
<1>10. /\ w[n][up] = inner /\ w[n][down] = m[n][down] /\ w[n].parent = top
       /\ w[top][down] = n /\ w[top][up] = m[top][up] /\ w[top].parent = p
       /\ \A a \in Nodes \ {n, top}, s \in Sides :
             /\ w[a][s] = m[a][s] /\ w[a].depth = m[a].depth /\ w[a].cnt = m[a].cnt
             /\ w[a].parent = IF a = inner THEN n ELSE m[a].parent
  <2> HIDE DEF t, u, w, inner, top, p
  <2>1. QED
    BY <1>1, <1>2, <1>6, <1>7, <1>8 DEF Updated
<1>11. /\ \A a \in Nodes \ {n, top} : w[a].depth = m[a].depth /\ w[a].cnt = m[a].cnt
       /\ w[n].depth = 1 + Larger(avl_depth(m, inner), avl_depth(m, m[n][down]))
       /\ w[n].cnt = 1 + avl_cnt(m, inner) + avl_cnt(m, m[n][down])
       /\ w[top].depth = 1 + Larger(w[n].depth, avl_depth(m, m[top][up]))
       /\ w[top].cnt = 1 + w[n].cnt + avl_cnt(m, m[top][up])
  <2>1. m[n][down] \in Nodes \cup {NULL} /\ m[top][up] \in Nodes \cup {NULL}
    BY <1>1, <1>2, LinkType
  <2>2. m[n][down] # n /\ m[n][down] # top /\ m[top][up] # n /\ m[top][up] # top
    <3>1. m[n][down] # NULL => On(sc, down, n, m[n][down]) /\ m[n][down] # n
      BY <1>1, Kid
    <3>2. On(sc, up, n, top) /\ n \notin D[top]
      BY <1>1, Kid
    <3>3. ~On(sc, down, n, top)
      BY <1>1, <1>2, <3>2, OnOrder DEF Shape
    <3>4. m[top][up] # NULL => m[top][up] \in D[top] /\ m[top][up] # top
      BY <1>1, <1>2, Kid
    <3>5. QED
      BY <1>1, <1>2, <3>1, <3>2, <3>3, <3>4
  <2>3. \A a \in (Nodes \cup {NULL}) \ {n, top} :
           /\ avl_depth(t, a) = avl_depth(m, a) /\ avl_cnt(t, a) = avl_cnt(m, a)
           /\ avl_depth(u, a) = avl_depth(m, a) /\ avl_cnt(u, a) = avl_cnt(m, a)
    <3> HIDE DEF t, u, w, inner, top, p
    <3>0. "left" \in Sides
      BY DEF Sides
    <3>1. QED
      BY <3>0, <1>7, <1>8 DEF avl_depth, avl_cnt, Updated
  <2>4. avl_depth(u, n) = w[n].depth /\ avl_cnt(u, n) = w[n].cnt
    <3> HIDE DEF t, u, w, inner, top, p
    <3>1. QED
      BY <1>1, <1>2, <1>8 DEF avl_depth, avl_cnt, Updated
  <2>5. u[top].left = t[top].left /\ u[top].right = t[top].right /\ w[n] = u[n]
    <3> HIDE DEF t, u, w, inner, top, p
    <3>1. QED
      BY <1>1, <1>2, <1>8 DEF Updated, Sides
  <2>6. \A a \in Nodes \cup {NULL} : avl_depth(m, a) \in Nat /\ avl_cnt(m, a) \in Nat
    BY <1>1 DEF avl_depth, avl_cnt, Mem, AVLNode
  <2>7. w[n].depth \in Nat /\ w[n].cnt \in Nat
    <3> HIDE DEF t, u, w, inner, top, p
    <3>1. QED
      BY <1>1, <1>2, <1>8 DEF Updated, Mem, AVLNode
  <2> HIDE DEF t, u, w, inner, top, p
  <2>8. \A a \in Nodes \ {n, top} : w[a].depth = m[a].depth /\ w[a].cnt = m[a].cnt
    <3>1. "left" \in Sides
      BY DEF Sides
    <3>2. QED
      BY <3>1, <1>10
  <2>9. CASE up = "left" /\ down = "right"
    BY <1>1, <1>2, <1>3, <1>6, <1>8, <2>1, <2>2, <2>3, <2>4, <2>5, <2>6, <2>7, <2>8, <2>9 DEF Larger, Updated, Sides
  <2>10. CASE up = "right" /\ down = "left"
    BY <1>1, <1>2, <1>3, <1>6, <1>8, <2>1, <2>2, <2>3, <2>4, <2>5, <2>6, <2>7, <2>8, <2>10 DEF Larger, Updated, Sides
  <2>11. QED
    BY <1>1, <2>9, <2>10 DEF Sides
<1>12. CASE p = NULL
  <2>1. M = w
    BY <1>9, <1>12 DEF Rotated
  <2>2. w \in Mem
    BY <1>8 DEF Updated
  <2> HIDE DEF w, M, r, t, u
  <2>3. \A a \in Nodes \ {n, top}, o \in Sides :
           M[a][o] = IF a = p /\ m[a][o] = n THEN top ELSE m[a][o]
    BY <1>1, <1>10, <1>12, <2>1
  <2>4. Turned(m, M, n, up, down)
    <3>1. \A a \in Nodes \ {n, top} : M[a].parent = IF a = inner THEN n ELSE m[a].parent
      <4>1. "left" \in Sides
        BY DEF Sides
      <4>2. QED
        BY <1>10, <2>1, <4>1
    <3>2. M[n][up] = inner /\ M[n][down] = m[n][down] /\ M[n].parent = top
          /\ M[top][down] = n /\ M[top][up] = m[top][up] /\ M[top].parent = p
      BY <1>10, <2>1
    <3>3. QED
      BY <2>1, <2>2, <2>3, <3>1, <3>2 DEF Turned
  <2>5. Resized(m, M, n, up, down)
    BY <1>11, <2>1 DEF Resized
  <2>6. Rotate(m, n, up, down).node = m[n][up] /\ Rotate(m, n, up, down).mem \in Mem
    BY <1>8, <1>9 DEF r, Updated
  <2>7. QED
    BY <2>4, <2>5, <2>6 DEF M
<1>13. CASE p # NULL
  <2>1. M = Relink(w, p, n, top)
    BY <1>9, <1>13 DEF Rotated
  <2>2. PICK s \in Sides : m[p][s] = n /\ \A o \in Sides : o # s => m[p][o] # n
    BY <1>4, <1>13
  <2>3. \A o \in Sides : w[p][o] = m[p][o]
    BY <1>4, <1>10, <1>13
  <2> HIDE DEF w, M, r, t, u, inner, top, p
  <2>4. /\ M \in Mem /\ \A a \in Nodes \ {p} : M[a] = w[a]
        /\ \A o \in Sides : M[p][o] = IF m[p][o] = n THEN top ELSE m[p][o]
        /\ M[p].parent = w[p].parent /\ M[p].depth = w[p].depth /\ M[p].cnt = w[p].cnt
    <3>1. p \in Nodes /\ top \in Nodes /\ w \in Mem
      BY <1>2, <1>4, <1>8, <1>13 DEF Updated
    <3>2. QED
      BY <2>1, <2>2, <2>3, <3>1, RelinkEffect
  <2>5. M[n] = w[n] /\ M[top] = w[top]
    BY <1>1, <1>2, <1>4, <1>13, <2>4
  <2>6. /\ \A a \in Nodes \ {n, top}, o \in Sides :
               M[a][o] = IF a = p /\ m[a][o] = n THEN top ELSE m[a][o]
        /\ \A a \in Nodes \ {n, top} : /\ M[a].parent = IF a = inner THEN n ELSE m[a].parent
                                       /\ M[a].depth = w[a].depth /\ M[a].cnt = w[a].cnt
    <3>1. "left" \in Sides
      BY DEF Sides
    <3>2. QED
      BY <3>1, <1>10, <2>4
  <2> USE DEF top, inner, p
  <2>7. Turned(m, M, n, up, down)
    <3>1. M[n][up] = inner /\ M[n][down] = m[n][down] /\ M[n].parent = top
          /\ M[top][down] = n /\ M[top][up] = m[top][up] /\ M[top].parent = p
      BY <1>10, <2>5
    <3>2. QED
      BY <2>4, <2>6, <3>1 DEF Turned
  <2>8. Resized(m, M, n, up, down)
    BY <1>11, <2>5, <2>6 DEF Resized
  <2>9. Rotate(m, n, up, down).node = m[n][up] /\ Rotate(m, n, up, down).mem \in Mem
    BY <1>8, <1>9 DEF r, Updated
  <2>10. QED
    BY <2>7, <2>8, <2>9 DEF M
<1>14. QED
  BY <1>12, <1>13

-----------------------------------------------------------------------------
(* A rotation keeps the search tree *)

\* A rotation leaves a search tree with the same members.
LEMMA RotateShape ==
  ASSUME NEW m, NEW root, NEW T, NEW D, NEW sc, Shape(m, root, T, D, sc),
         NEW n \in T, NEW up, NEW down, Opposite(up, down), m[n][up] # NULL,
         NEW M, Turned(m, M, n, up, down)
  PROVE  \E E : Shape(M, IF m[n].parent = NULL THEN m[n][up] ELSE root, T, E, sc)
<1> DEFINE top == m[n][up]
           inner == m[top][down]
           p == m[n].parent
           newRoot == IF p = NULL THEN top ELSE root
           E == [a \in T |-> IF a = top THEN D[n]
                             ELSE IF a = n THEN {b \in D[n] : On(sc, down, top, b)} ELSE D[a]]
<1>1. /\ m \in Mem /\ T \subseteq Nodes /\ n \in Nodes /\ up \in Sides /\ down \in Sides /\ up # down
      /\ NULL \notin Nodes /\ NULL \notin T /\ sc \in [Nodes -> Int] /\ D \in [T -> SUBSET T]
      /\ IsFiniteSet(T) /\ n \in D[n] /\ root \in T /\ D[root] = T
      /\ Sides = {up, down}
  BY AVLAssumption DEF Shape, Opposite, Sides
<1>2. /\ top \in T /\ top \in Nodes /\ top # n /\ n \notin D[top] /\ top \in D[n] /\ top # NULL
      /\ On(sc, up, n, top) /\ D[top] = {b \in D[n] : On(sc, up, n, b)} /\ D[top] \subseteq D[n]
      /\ m[top].parent = n /\ top \in D[top]
  <2>1. /\ top \in T /\ top # n /\ n \notin D[top] /\ top \in D[n]
        /\ On(sc, up, n, top) /\ D[top] = {b \in D[n] : On(sc, up, n, b)} /\ D[top] \subseteq D[n]
        /\ m[top].parent = n
    BY <1>1, Kid
  <2>2. top \in D[top]
    BY <2>1 DEF Shape
  <2>3. QED
    BY <1>1, <2>1, <2>2
<1>3. On(sc, down, top, n)
  BY <1>1, <1>2, OnOrder
<1>4. /\ M \in Mem
      /\ M[n][up] = inner /\ M[n][down] = m[n][down] /\ M[n].parent = top
      /\ M[top][down] = n /\ M[top][up] = m[top][up] /\ M[top].parent = p
      /\ \A a \in Nodes \ {n, top}, s \in Sides :
            M[a][s] = IF a = p /\ m[a][s] = n THEN top ELSE m[a][s]
      /\ \A a \in Nodes \ {n, top} : M[a].parent = IF a = inner THEN n ELSE m[a].parent
  BY DEF Turned
<1>5. /\ E \in [T -> SUBSET T] /\ E[top] = D[n]
      /\ E[n] = {b \in D[n] : On(sc, down, top, b)}
      /\ \A a \in T \ {n, top} : E[a] = D[a]
  BY <1>1, <1>2
<1>6. \A a \in T : a \in E[a]
  <2>1. \A a \in T : a \in D[a]
    BY DEF Shape
  <2> HIDE DEF E, top
  <2>2. QED
    BY <1>2, <1>3, <1>5, <2>1, <1>1
<1>7. Child(M, T, E, n, M[n][up], {b \in E[n] : On(sc, up, n, b)})
  <2>1. {b \in E[n] : On(sc, up, n, b)} = {b \in D[top] : On(sc, down, top, b)}
    <3> HIDE DEF E, top
    <3>1. QED
      BY <1>2, <1>5
  <2>2. CASE inner = NULL
    <3>1. {b \in D[top] : On(sc, down, top, b)} = {}
      BY <1>1, <1>2, <2>2, Below
    <3> HIDE DEF E, top, inner
    <3>2. QED
      BY <1>4, <2>1, <2>2, <3>1 DEF Child
  <2>3. CASE inner # NULL
    <3>1. inner \in T /\ D[inner] = {b \in D[top] : On(sc, down, top, b)} /\ inner # top
          /\ inner \in D[top]
      BY <1>1, <1>2, <2>3, Kid
    <3> HIDE DEF E, top, inner
    <3>2. inner # n /\ M[inner].parent = n
      BY <1>1, <1>2, <1>4, <3>1
    <3>3. QED
      BY <1>4, <1>5, <2>1, <2>3, <3>1, <3>2 DEF Child
  <2>4. QED
    BY <2>2, <2>3
<1>8. Child(M, T, E, n, M[n][down], {b \in E[n] : On(sc, down, n, b)})
  <2> DEFINE c == m[n][down]
  <2>1. {b \in E[n] : On(sc, down, n, b)} = {b \in D[n] : On(sc, down, n, b)}
    <3>1. ASSUME NEW b \in D[n], On(sc, down, n, b) PROVE On(sc, down, top, b)
      <4>1. b \in Nodes
        BY <1>1, <3>1
      <4>2. QED
        BY <1>1, <1>2, <1>3, <3>1, <4>1, OnTrans
    <3> HIDE DEF E, top
    <3>2. QED
      BY <1>5, <3>1
  <2>2. CASE c = NULL
    <3>1. {b \in D[n] : On(sc, down, n, b)} = {}
      BY <1>1, <2>2, Below
    <3> HIDE DEF E, top, inner, c
    <3>2. M[n][down] = c
      BY <1>4 DEF c
    <3>3. QED
      BY <2>1, <2>2, <3>1, <3>2 DEF Child
  <2>3. CASE c # NULL
    <3>1. c \in T /\ D[c] = {b \in D[n] : On(sc, down, n, b)} /\ m[c].parent = n /\ c # n
          /\ On(sc, down, n, c)
      BY <1>1, <2>3, Kid
    <3>2. ~On(sc, up, n, c) /\ c \in Nodes
      BY <1>1, <3>1, OnOrder
    <3>3. c # top /\ c # inner
      <4>1. c # top
        BY <1>2, <3>2
      <4>2. inner # NULL => inner \in D[top]
        BY <1>1, <1>2, Kid
      <4>3. QED
        BY <1>2, <2>3, <3>2, <4>1, <4>2
    <3> HIDE DEF E, top, inner, c
    <3>4. M[n][down] = c /\ M[c].parent = n
      BY <1>4, <3>1, <3>2, <3>3 DEF c
    <3>5. QED
      BY <1>5, <2>1, <2>3, <3>1, <3>3, <3>4 DEF Child
  <2>4. QED
    BY <2>2, <2>3
<1>9. Child(M, T, E, top, M[top][down], {b \in E[top] : On(sc, down, top, b)})
  <2> HIDE DEF E, top, inner
  <2>1. QED
    BY <1>1, <1>2, <1>4, <1>5 DEF Child
<1>10. Child(M, T, E, top, M[top][up], {b \in E[top] : On(sc, up, top, b)})
  <2> DEFINE c == m[top][up]
  <2>1. {b \in E[top] : On(sc, up, top, b)} = {b \in D[top] : On(sc, up, top, b)}
    <3>1. ASSUME NEW b \in D[n], On(sc, up, top, b) PROVE On(sc, up, n, b)
      <4>1. b \in Nodes
        BY <1>1, <3>1
      <4>2. QED
        BY <1>1, <1>2, <3>1, <4>1, OnTrans
    <3> HIDE DEF E, top
    <3>2. QED
      BY <1>2, <1>5, <3>1
  <2>2. CASE c = NULL
    <3>1. {b \in D[top] : On(sc, up, top, b)} = {}
      BY <1>1, <1>2, <2>2, Below
    <3> HIDE DEF E, top, inner, c
    <3>2. M[top][up] = c
      BY <1>4 DEF c
    <3>3. QED
      BY <2>1, <2>2, <3>1, <3>2 DEF Child
  <2>3. CASE c # NULL
    <3>1. c \in T /\ D[c] = {b \in D[top] : On(sc, up, top, b)} /\ m[c].parent = top /\ c # top
          /\ On(sc, up, top, c) /\ c \in D[top]
      BY <1>1, <1>2, <2>3, Kid
    <3>2. ~On(sc, down, top, c) /\ c \in Nodes
      BY <1>1, <1>2, <3>1, OnOrder
    <3>3. c # inner
      <4>1. inner # NULL => On(sc, down, top, inner)
        BY <1>1, <1>2, Kid
      <4>2. QED
        BY <2>3, <3>2, <4>1
    <3> HIDE DEF E, top, inner, c
    <3>4. M[top][up] = c /\ M[c].parent = top /\ c # n
      BY <1>2, <1>4, <3>1, <3>2, <3>3 DEF c
    <3>5. QED
      BY <1>5, <2>1, <2>3, <3>1, <3>4 DEF Child
  <2>4. QED
    BY <2>2, <2>3
<1>11. ASSUME NEW a \in T \ {n, top}, NEW s \in Sides
       PROVE  Child(M, T, E, a, M[a][s], {b \in E[a] : On(sc, s, a, b)})
  <2> DEFINE c == m[a][s]
  <2>1. Child(m, T, D, a, c, {b \in D[a] : On(sc, s, a, b)})
    BY DEF Shape
  <2>2. a \in Nodes /\ a \in T /\ E[a] = D[a]
    BY <1>1, <1>5
  <2>3. CASE c = NULL
    <3> HIDE DEF E, top, inner, p, c
    <3>1. M[a][s] = c
      BY <1>1, <1>4, <2>2, <2>3 DEF c
    <3>2. QED
      BY <2>1, <2>2, <2>3, <3>1 DEF Child
  <2>4. CASE c = n
    <3>1. D[n] = {b \in D[a] : On(sc, s, a, b)} /\ p = a
      BY <1>1, <2>1, <2>4 DEF Child
    <3> HIDE DEF E, top, inner, p, c
    <3>2. M[a][s] = top
      BY <1>4, <2>2, <2>4, <3>1 DEF c
    <3>3. QED
      BY <1>2, <1>4, <1>5, <2>2, <3>1, <3>2 DEF Child
  <2>5. CASE c # NULL /\ c # n
    <3>1. c \in T /\ D[c] = {b \in D[a] : On(sc, s, a, b)} /\ m[c].parent = a
      BY <2>1, <2>5 DEF Child
    <3>2. c # top /\ c # inner
      <4>1. inner # NULL => m[inner].parent = top
        BY <1>1, <1>2, Kid
      <4>2. QED
        BY <1>2, <2>5, <3>1, <4>1
    <3> HIDE DEF E, top, inner, p, c
    <3>3. M[a][s] = c /\ M[c].parent = a
      BY <1>1, <1>4, <2>2, <2>5, <3>1, <3>2 DEF c
    <3>4. QED
      BY <1>5, <2>2, <2>5, <3>1, <3>2, <3>3 DEF Child
  <2>6. QED
    BY <2>3, <2>4, <2>5
<1>12. \A a \in T, s \in Sides : Child(M, T, E, a, M[a][s], {b \in E[a] : On(sc, s, a, b)})
  <2>1. SUFFICES ASSUME NEW a \in T, NEW s \in Sides
                 PROVE  Child(M, T, E, a, M[a][s], {b \in E[a] : On(sc, s, a, b)})
    OBVIOUS
  <2>2. s = up \/ s = down
    BY <1>1
  <2> HIDE DEF E, top, inner
  <2>3. CASE a = n
    BY <1>7, <1>8, <2>2, <2>3
  <2>4. CASE a = top
    BY <1>9, <1>10, <2>2, <2>4
  <2>5. CASE a # n /\ a # top
    BY <1>11, <2>5
  <2>6. QED
    BY <2>3, <2>4, <2>5
<1>13. newRoot \in T /\ newRoot # NULL /\ E[newRoot] = T /\ M[newRoot].parent = NULL
  <2>1. CASE p = NULL
    <3>1. n = root
      BY <2>1, Parent
    <3> HIDE DEF E, top, inner, p
    <3>2. QED
      BY <1>1, <1>2, <1>4, <1>5, <2>1, <3>1
  <2>2. CASE p # NULL
    <3>1. n # root /\ m[root].parent = NULL /\ root # NULL
      BY <1>1, <2>2, Parent
    <3>2. root # top /\ root # inner
      <4>1. inner # NULL => m[inner].parent = top
        BY <1>1, <1>2, Kid
      <4>2. QED
        BY <1>1, <1>2, <3>1, <4>1
    <3> HIDE DEF E, top, inner, p
    <3>3. QED
      BY <1>1, <1>4, <1>5, <2>2, <3>1, <3>2
  <2>3. QED
    BY <2>1, <2>2
<1>14. ASSUME NEW a \in T \ {newRoot}
       PROVE  M[a].parent \in T /\ \E s \in Sides : M[M[a].parent][s] = a
  <2>1. CASE a = n
    <3> HIDE DEF E, top, inner, p, newRoot
    <3>1. QED
      BY <1>1, <1>2, <1>4, <2>1
  <2>2. CASE a = top
    <3>1. p # NULL
      BY <2>2
    <3>2. p \in T /\ p \notin D[n] /\ \E s \in Sides : m[p][s] = n
      BY <3>1, Parent
    <3> HIDE DEF E, top, inner, p, newRoot
    <3>3. QED
      BY <1>1, <1>2, <1>4, <2>2, <3>1, <3>2
  <2>3. CASE a # n /\ a # top /\ a = inner
    <3> HIDE DEF E, top, inner, p, newRoot
    <3>1. QED
      BY <1>1, <1>4, <2>3
  <2>4. CASE a # n /\ a # top /\ a # inner
    <3>1. a # root
      <4>1. CASE p = NULL
        BY <2>4, <4>1, Parent
      <4>2. CASE p # NULL
        BY <4>2
      <4>3. QED
        BY <4>1, <4>2
    <3> DEFINE q == m[a].parent
    <3>2. q \in T /\ \E s \in Sides : m[q][s] = a
      BY <3>1 DEF Shape
    <3>3. PICK s \in Sides : m[q][s] = a
      BY <3>2
    <3> HIDE DEF E, top, inner, p, newRoot, q
    <3>4. M[a].parent = q
      BY <1>1, <1>4, <2>4 DEF q
    <3>5. CASE q = n
      <4>1. s = down
        BY <1>1, <2>4, <3>3, <3>5 DEF top
      <4>2. QED
        BY <1>4, <3>2, <3>3, <3>4, <3>5, <4>1
    <3>6. CASE q = top
      <4>1. s = up
        BY <1>1, <2>4, <3>3, <3>6 DEF inner
      <4>2. QED
        BY <1>4, <3>2, <3>3, <3>4, <3>6, <4>1
    <3>7. CASE q # n /\ q # top
      BY <1>1, <1>4, <2>4, <3>2, <3>3, <3>4, <3>7
    <3>8. QED
      BY <3>5, <3>6, <3>7
  <2>5. QED
    BY <2>1, <2>2, <2>3, <2>4
<1>15. Shape(M, newRoot, T, E, sc)
  <2> HIDE DEF E, newRoot, top, inner, p
  <2>1. QED
    BY <1>1, <1>4, <1>5, <1>6, <1>12, <1>13, <1>14 DEF Shape
<1>16. QED
  BY <1>15

-----------------------------------------------------------------------------
(* A new leaf *)

\* The nodes of M are linked as those of m, but for x, which is below p on the side s.
Attached(m, M, x, p, s) ==
  /\ M \in Mem
  /\ M[x].left = NULL /\ M[x].right = NULL /\ M[x].parent = p
  /\ \A a \in Nodes \ {x}, o \in Sides : M[a][o] = IF a = p /\ o = s THEN x ELSE m[a][o]
  /\ \A a \in Nodes \ {x} : M[a].parent = m[a].parent
  /\ \A a \in Nodes : M[a].depth = m[a].depth /\ M[a].cnt = m[a].cnt

\* The two writes of tree_add (zset.cpp:58-60).
LEMMA AttachEffect ==
  ASSUME NEW m \in Mem, NEW x \in Nodes, NEW p \in Nodes, x # p, NEW s \in Sides,
         m[x].left = NULL, m[x].right = NULL
  PROVE  Attached(m, [m EXCEPT ![x].parent = p, ![p][s] = x], x, p, s)
<1> DEFINE u == [m EXCEPT ![x].parent = p]
           M == [u EXCEPT ![p][s] = x]
<1>1. /\ u \in Mem /\ u[x].parent = p /\ \A b \in Nodes \ {x} : u[b] = m[b]
      /\ \A o \in Sides : u[x][o] = m[x][o]
      /\ u[x].depth = m[x].depth /\ u[x].cnt = m[x].cnt
  BY ParentEffect
<1> HIDE DEF u
<1>2. /\ M \in Mem /\ M[p][s] = x /\ \A b \in Nodes \ {p} : M[b] = u[b]
      /\ \A o \in Sides : o # s => M[p][o] = u[p][o]
      /\ M[p].parent = u[p].parent /\ M[p].depth = u[p].depth /\ M[p].cnt = u[p].cnt
  BY <1>1, LinkEffect
<1> HIDE DEF M
<1>3. u[x].left = NULL /\ u[x].right = NULL
  BY <1>1 DEF Sides
<1>4. /\ \A a \in Nodes \ {x}, o \in Sides : M[a][o] = IF a = p /\ o = s THEN x ELSE m[a][o]
      /\ \A a \in Nodes \ {x} : M[a].parent = m[a].parent
      /\ \A a \in Nodes : M[a].depth = m[a].depth /\ M[a].cnt = m[a].cnt
  BY <1>1, <1>2
<1>5. M[x].left = NULL /\ M[x].right = NULL /\ M[x].parent = p
  BY <1>1, <1>2, <1>3
<1>6. Attached(m, M, x, p, s)
  BY <1>2, <1>4, <1>5 DEF Attached
<1>7. QED
  BY <1>6 DEF M, u

\* A new leaf where the search ended leaves a search tree.
LEMMA AttachShape ==
  ASSUME NEW m, NEW root, NEW T, NEW D, NEW sc, Shape(m, root, T, D, sc),
         NEW x \in Nodes \ T, NEW p \in T, NEW s \in Sides, m[p][s] = NULL, On(sc, s, p, x),
         \A a \in T, t \in Sides : p \in D[a] /\ On(sc, t, a, p) => On(sc, t, a, x),
         NEW M, Attached(m, M, x, p, s)
  PROVE  \E E : Shape(M, root, T \cup {x}, E, sc)
<1> DEFINE U == T \cup {x}
           E == [a \in U |-> IF a = x THEN {x} ELSE IF p \in D[a] THEN D[a] \cup {x} ELSE D[a]]
<1>1. /\ T \subseteq Nodes /\ NULL \notin U /\ sc \in [Nodes -> Int] /\ D \in [T -> SUBSET T]
      /\ x \in Nodes /\ x \notin T /\ p # x /\ p \in Nodes
      /\ IsFiniteSet(T) /\ root \in T /\ D[root] = T /\ m[root].parent = NULL /\ p \in D[p]
      /\ \A a \in T : a \in D[a] /\ x \notin D[a]
  BY AVLAssumption DEF Shape
<1>2. IsFiniteSet(U)
  BY <1>1, FS_AddElement
<1>3. /\ M \in Mem /\ M[x].left = NULL /\ M[x].right = NULL /\ M[x].parent = p
      /\ \A a \in Nodes \ {x}, o \in Sides : M[a][o] = IF a = p /\ o = s THEN x ELSE m[a][o]
      /\ \A a \in Nodes \ {x} : M[a].parent = m[a].parent
  BY DEF Attached
<1>4. /\ E \in [U -> SUBSET U] /\ E[x] = {x}
      /\ \A a \in T : E[a] = IF p \in D[a] THEN D[a] \cup {x} ELSE D[a]
  BY <1>1
<1>5. \A a \in U : a \in E[a]
  <2> HIDE DEF E
  <2>1. QED
    BY <1>1, <1>4
<1>6. \A t \in Sides : Child(M, U, E, x, M[x][t], {b \in E[x] : On(sc, t, x, b)})
  <2>1. \A t \in Sides : ~On(sc, t, x, x)
    BY <1>1, OnOrder
  <2> HIDE DEF E
  <2>2. QED
    BY <1>3, <1>4, <2>1 DEF Child, Sides
<1>7. ASSUME NEW a \in T, NEW t \in Sides
      PROVE  Child(M, U, E, a, M[a][t], {b \in E[a] : On(sc, t, a, b)})
  <2> DEFINE c == m[a][t]
  <2>1. Child(m, T, D, a, c, {b \in D[a] : On(sc, t, a, b)})
    BY DEF Shape
  <2>2. a \in Nodes /\ a # x
    BY <1>1
  <2>3. CASE a = p /\ t = s
    <3>1. {b \in D[a] : On(sc, t, a, b)} = {}
      BY <2>1, <2>3 DEF Child
    <3>2. {b \in E[a] : On(sc, t, a, b)} = {x}
      <4> HIDE DEF E
      <4>1. QED
        BY <1>1, <1>4, <2>3, <3>1
    <3> HIDE DEF E
    <3>3. M[a][t] = x
      BY <1>3, <2>2, <2>3
    <3>4. x # NULL
      BY <1>1
    <3>5. QED
      BY <1>3, <1>4, <2>3, <3>2, <3>3, <3>4 DEF Child
  <2>4. CASE ~(a = p /\ t = s)
    <3>1. M[a][t] = c
      BY <1>3, <2>2, <2>4
    <3>2. p \in D[a] /\ On(sc, t, a, x) => On(sc, t, a, p)
      <4>1. ASSUME p \in D[a], On(sc, t, a, x), ~On(sc, t, a, p) PROVE FALSE
        <5>1. CASE a = p
          <6>1. t # s
            BY <2>4, <5>1
          <6>2. QED
            BY <1>1, <4>1, <5>1, <6>1, OnOrder
        <5>2. CASE a # p
          <6>1. PICK o \in Sides : On(sc, o, a, p)
            BY <5>2, SideOf
          <6>2. o # t /\ On(sc, o, a, x)
            BY <4>1, <6>1
          <6>3. QED
            BY <1>1, <2>2, <4>1, <6>2, OnOrder
        <5>3. QED
          BY <5>1, <5>2
      <4>2. QED
        BY <4>1
    <3>3. p \in D[a] /\ On(sc, t, a, p) => On(sc, t, a, x)
      OBVIOUS
    <3>4. CASE c = NULL
      <4>1. {b \in D[a] : On(sc, t, a, b)} = {}
        BY <2>1, <3>4 DEF Child
      <4>2. {b \in E[a] : On(sc, t, a, b)} = {}
        <5> HIDE DEF E
        <5>1. QED
          BY <1>4, <3>2, <4>1
      <4> HIDE DEF E, c
      <4>3. QED
        BY <3>1, <3>4, <4>2 DEF Child
    <3>5. CASE c # NULL
      <4>1. c \in T /\ D[c] = {b \in D[a] : On(sc, t, a, b)} /\ m[c].parent = a
        BY <2>1, <3>5 DEF Child
      <4> HIDE DEF E, c
      <4>2. E[c] = {b \in E[a] : On(sc, t, a, b)}
        BY <1>1, <1>4, <3>2, <3>3, <4>1
      <4>3. M[c].parent = a
        BY <1>1, <1>3, <4>1
      <4>4. QED
        BY <3>1, <3>5, <4>1, <4>2, <4>3 DEF Child
    <3>6. QED
      BY <3>4, <3>5
  <2>5. QED
    BY <2>3, <2>4
<1>8. root # NULL /\ E[root] = U /\ M[root].parent = NULL
  <2> HIDE DEF E
  <2>1. QED
    BY <1>1, <1>3, <1>4
<1>9. ASSUME NEW a \in U \ {root}
      PROVE  M[a].parent \in U /\ \E t \in Sides : M[M[a].parent][t] = a
  <2>1. CASE a = x
    BY <1>1, <1>3, <2>1
  <2>2. CASE a # x
    <3>1. PICK t \in Sides : m[m[a].parent][t] = a
      BY <2>2 DEF Shape
    <3>2. m[a].parent \in T /\ M[a].parent = m[a].parent /\ a # NULL
      BY <1>1, <1>3, <2>2 DEF Shape
    <3> HIDE DEF E
    <3>3. M[m[a].parent][t] = a
      BY <1>1, <1>3, <3>1, <3>2
    <3>4. QED
      BY <3>2, <3>3
  <2>3. QED
    BY <2>1, <2>2
<1>10. Shape(M, root, U, E, sc)
  <2>1. \A a \in U, t \in Sides : Child(M, U, E, a, M[a][t], {b \in E[a] : On(sc, t, a, b)})
    <3> HIDE DEF E
    <3>1. QED
      BY <1>6, <1>7
  <2>2. root \in U /\ U \in SUBSET Nodes
    BY <1>1
  <2> HIDE DEF E, U
  <2>3. QED
    BY <1>1, <1>2, <1>3, <1>4, <1>5, <1>8, <1>9, <2>1, <2>2 DEF Shape
<1>11. QED
  BY <1>10

\* A node is the whole tree.
LEMMA SingleShape ==
  ASSUME NEW M \in Mem, NEW sc \in [Nodes -> Int], NEW x \in Nodes,
         M[x].left = NULL, M[x].right = NULL, M[x].parent = NULL
  PROVE  \E E : Shape(M, x, {x}, E, sc)
<1> DEFINE E == [a \in {x} |-> {x}]
<1>1. \A s \in Sides : ~On(sc, s, x, x) /\ M[x][s] = NULL
  BY OnOrder DEF Sides
<1>2. IsFiniteSet({x}) /\ x # NULL
  BY FS_Singleton, AVLAssumption
<1>3. Shape(M, x, {x}, E, sc)
  BY <1>1, <1>2 DEF Shape, Child
<1>4. QED
  BY <1>3

\* The order matters among the members only.
LEMMA ShapeScores ==
  ASSUME NEW m, NEW root, NEW T, NEW D, NEW sc, Shape(m, root, T, D, sc),
         NEW sc2 \in [Nodes -> Int], \A a \in T : sc2[a] = sc[a]
  PROVE  Shape(m, root, T, D, sc2)
<1>1. \A a \in T, b \in T, s \in Sides : On(sc2, s, a, b) <=> On(sc, s, a, b)
  BY DEF On, Lt
<1>2. \A a \in T, s \in Sides : {b \in D[a] : On(sc2, s, a, b)} = {b \in D[a] : On(sc, s, a, b)}
  BY <1>1 DEF Shape
<1>3. QED
  BY <1>2 DEF Shape

\* So do the links and the scores of others not matter.
LEMMA ShapeMemory ==
  ASSUME NEW m, NEW root, NEW T, NEW D, NEW sc, Shape(m, root, T, D, sc),
         NEW M \in Mem,
         \A a \in T : M[a].parent = m[a].parent /\ \A s \in Sides : M[a][s] = m[a][s]
  PROVE  Shape(M, root, T, D, sc)
<1>1. \A a \in T, s \in Sides : Child(M, T, D, a, M[a][s], {b \in D[a] : On(sc, s, a, b)})
  BY DEF Shape, Child
<1>2. IF root = NULL THEN T = {} ELSE D[root] = T /\ M[root].parent = NULL
  BY DEF Shape
<1>3. \A a \in T \ {root} : M[a].parent \in T /\ \E s \in Sides : M[M[a].parent][s] = a
  BY DEF Shape
<1>4. QED
  BY <1>1, <1>2, <1>3 DEF Shape

-----------------------------------------------------------------------------
(* A node without a right child is taken out *)

\* What avl_del does to the links at x, which has no right child.
Unlinked(m, x) ==
  LET p == m[x].parent
      l == m[x].left
      up == SetParent(m, l, p)
  IN  IF p = NULL THEN up ELSE Relink(up, p, x, l)

\* The links of M are those of m, but for the parent p of x, which leads to l instead,
\* and for l.
Bypassed(m, M, x) ==
  LET p == m[x].parent
      l == m[x].left
  IN  /\ M \in Mem
      /\ \A a \in Nodes, s \in Sides : M[a][s] = IF a = p /\ m[a][s] = x THEN l ELSE m[a][s]
      /\ \A a \in Nodes : /\ M[a].parent = IF a = l THEN p ELSE m[a].parent
                          /\ M[a].depth = m[a].depth /\ M[a].cnt = m[a].cnt

\* M is m but for the parent of n, if there is an n.
Reparented(m, M, n, p) ==
  /\ M \in Mem
  /\ \A a \in Nodes : /\ M[a].parent = IF a = n THEN p ELSE m[a].parent
                      /\ M[a].depth = m[a].depth /\ M[a].cnt = m[a].cnt
                      /\ \A s \in Sides : M[a][s] = m[a][s]

\* A link up is written unless there is no node.
LEMMA SetParentEffect ==
  ASSUME NEW m \in Mem, NEW n \in Nodes \cup {NULL}, NEW p \in Nodes \cup {NULL}
  PROVE  Reparented(m, SetParent(m, n, p), n, p)
<1>1. CASE n = NULL
  <2>1. SetParent(m, n, p) = m /\ \A a \in Nodes : a # n
    BY <1>1, AVLAssumption DEF SetParent
  <2>2. QED
    BY <2>1 DEF Reparented
<1>2. CASE n # NULL
  <2> DEFINE u == [m EXCEPT ![n].parent = p]
  <2>0. n \in Nodes
    BY <1>2
  <2>1. SetParent(m, n, p) = u
    BY <1>2 DEF SetParent
  <2>2. /\ u \in Mem /\ u[n].parent = p /\ \A b \in Nodes \ {n} : u[b] = m[b]
        /\ \A o \in Sides : u[n][o] = m[n][o]
        /\ u[n].depth = m[n].depth /\ u[n].cnt = m[n].cnt
    BY <2>0, ParentEffect
  <2> HIDE DEF u
  <2>3. QED
    BY <2>0, <2>1, <2>2 DEF Reparented
<1>3. QED
  BY <1>1, <1>2

\* The writes of avl_del for a node without a right child (avl.cpp:106-120).
LEMMA UnlinkEffect ==
  ASSUME NEW m, NEW root, NEW T, NEW D, NEW sc, Shape(m, root, T, D, sc), NEW x \in T
  PROVE  Bypassed(m, Unlinked(m, x), x)
<1> DEFINE p == m[x].parent
           l == m[x].left
           u == SetParent(m, l, p)
           M == Unlinked(m, x)
<1>1. /\ m \in Mem /\ x \in Nodes /\ NULL \notin Nodes /\ "left" \in Sides
      /\ l \in Nodes \cup {NULL} /\ p \in Nodes \cup {NULL}
  BY AVLAssumption, LinkType DEF Shape, Sides, Mem, AVLNode
<1>2. Reparented(m, u, l, p)
  BY <1>1, SetParentEffect
<1>3. CASE p = NULL
  <2>1. M = u
    BY <1>3 DEF Unlinked
  <2>2. \A a \in Nodes : a # p
    BY <1>1, <1>3
  <2> HIDE DEF u, M
  <2>3. \A a \in Nodes, s \in Sides : M[a][s] = IF a = p /\ m[a][s] = x THEN l ELSE m[a][s]
    BY <1>2, <2>1, <2>2 DEF Reparented
  <2>4. QED
    BY <1>2, <2>1, <2>3 DEF Bypassed, Reparented, M
<1>4. CASE p # NULL
  <2>1. M = Relink(u, p, x, l)
    BY <1>4 DEF Unlinked
  <2>2. PICK s \in Sides : m[p][s] = x /\ \A o \in Sides : o # s => m[p][o] # x
    BY <1>4, Parent
  <2>3. p \in Nodes
    BY <1>1, <1>4
  <2> HIDE DEF u, l, p, M
  <2>10. u \in Mem
    BY <1>2 DEF Reparented
  <2>20. u[p][s] = x /\ \A o \in Sides : o # s => u[p][o] # x
    BY <1>2, <2>2, <2>3 DEF Reparented
  <2>4. /\ M \in Mem /\ \A a \in Nodes \ {p} : M[a] = u[a]
        /\ \A o \in Sides : M[p][o] = IF u[p][o] = x THEN l ELSE u[p][o]
        /\ M[p].parent = u[p].parent /\ M[p].depth = u[p].depth /\ M[p].cnt = u[p].cnt
    BY <1>1, <1>2, <2>10, <2>1, <2>20, <2>3, RelinkEffect
  <2>5. \A a \in Nodes, o \in Sides : M[a][o] = IF a = p /\ m[a][o] = x THEN l ELSE m[a][o]
    BY <1>2, <2>3, <2>4 DEF Reparented
  <2>6. \A a \in Nodes : /\ M[a].parent = IF a = l THEN p ELSE m[a].parent
                         /\ M[a].depth = m[a].depth /\ M[a].cnt = m[a].cnt
    <3>1. \A a \in Nodes : /\ M[a].parent = u[a].parent
                           /\ M[a].depth = u[a].depth /\ M[a].cnt = u[a].cnt
      BY <2>3, <2>4
    <3>2. \A a \in Nodes : /\ u[a].parent = IF a = l THEN p ELSE m[a].parent
                           /\ u[a].depth = m[a].depth /\ u[a].cnt = m[a].cnt
      BY <1>2 DEF Reparented
    <3>3. QED
      BY <3>1, <3>2
  <2>7. QED
    BY <2>4, <2>5, <2>6 DEF Bypassed, M, l, p
<1>5. QED
  BY <1>3, <1>4

\* They leave a search tree without the node.
LEMMA UnlinkShape ==
  ASSUME NEW m, NEW root, NEW T, NEW D, NEW sc, Shape(m, root, T, D, sc),
         NEW x \in T, m[x].right = NULL, NEW M, Bypassed(m, M, x)
  PROVE  \E E : Shape(M, IF m[x].parent = NULL THEN m[x].left ELSE root, T \ {x}, E, sc)
<1> DEFINE p == m[x].parent
           l == m[x].left
           U == T \ {x}
           newRoot == IF p = NULL THEN l ELSE root
           E == [a \in U |-> D[a] \ {x}]
<1>1. /\ T \subseteq Nodes /\ NULL \notin T /\ sc \in [Nodes -> Int] /\ D \in [T -> SUBSET T]
      /\ x \in Nodes /\ IsFiniteSet(T) /\ root \in T /\ D[root] = T /\ m[root].parent = NULL
      /\ \A a \in T : a \in D[a]
      /\ Sides = {"left", "right"} /\ "left" # "right" /\ "left" \in Sides /\ "right" \in Sides
  BY AVLAssumption DEF Shape, Sides
<1>2. IsFiniteSet(U)
  BY <1>1, FS_RemoveElement
<1>3. /\ M \in Mem
      /\ \A a \in Nodes, s \in Sides : M[a][s] = IF a = p /\ m[a][s] = x THEN l ELSE m[a][s]
      /\ \A a \in Nodes : M[a].parent = IF a = l THEN p ELSE m[a].parent
  BY DEF Bypassed
<1>4. D[x] \ {x} = {b \in D[x] : On(sc, "left", x, b)}
  <2>1. {b \in D[x] : On(sc, "right", x, b)} = {}
    BY <1>1, Below
  <2>2. \A b \in D[x] : b # x => On(sc, "left", x, b) \/ On(sc, "right", x, b)
    BY <1>1, OnOrder
  <2>3. ~On(sc, "left", x, x)
    BY <1>1, OnOrder
  <2>4. QED
    BY <2>1, <2>2, <2>3
<1>5. l = NULL => D[x] \ {x} = {}
  <2>1. l = NULL => {b \in D[x] : On(sc, "left", x, b)} = {}
    BY <1>1, Below
  <2>2. QED
    BY <1>4, <2>1
<1>6. l # NULL => l \in U /\ D[l] = D[x] \ {x} /\ m[l].parent = x /\ x \notin D[l]
  <2>1. l # NULL => /\ l \in T /\ l # x /\ D[l] = {b \in D[x] : On(sc, "left", x, b)}
                    /\ m[l].parent = x /\ x \notin D[l]
    BY <1>1, Kid
  <2>2. QED
    BY <1>4, <2>1
<1>7. p # NULL => p \in U /\ x \in D[p] /\ \E s \in Sides : m[p][s] = x
  <2>1. p # NULL => /\ p \in T /\ p \notin D[x] /\ x \in D[p]
                    /\ \E s \in Sides : m[p][s] = x
    BY Parent
  <2>2. QED
    BY <1>1, <2>1
<1>9. E \in [U -> SUBSET U]
  BY <1>1
<1>10. ASSUME NEW a \in U, NEW s \in Sides
       PROVE  Child(M, U, E, a, M[a][s], {b \in E[a] : On(sc, s, a, b)})
  <2> DEFINE c == m[a][s]
  <2>1. Child(m, T, D, a, c, {b \in D[a] : On(sc, s, a, b)})
    BY DEF Shape
  <2>2. a \in Nodes /\ a \in T /\ a # x /\ {b \in E[a] : On(sc, s, a, b)} = {b \in D[a] : On(sc, s, a, b)} \ {x}
    BY <1>1
  <2>3. CASE c = x
    <3>1. D[x] = {b \in D[a] : On(sc, s, a, b)} /\ p = a
      BY <1>1, <2>1, <2>3 DEF Child
    <3>2. l # NULL => E[l] = D[x] \ {x}
      BY <1>6
    <3> HIDE DEF E, l, p, c, U
    <3>3. M[a][s] = l /\ (l # NULL => M[l].parent = a)
      <4>1. M[a][s] = l
        BY <1>3, <2>2, <2>3, <3>1 DEF c
      <4>2. l # NULL => l \in Nodes
        BY <1>1, <1>6 DEF U
      <4>3. QED
        BY <1>3, <3>1, <4>1, <4>2
    <3>4. QED
      BY <1>5, <1>6, <2>2, <3>1, <3>2, <3>3 DEF Child
  <2>4. CASE c # x
    <3>1. M[a][s] = c
      BY <1>3, <2>2, <2>4
    <3>2. CASE c = NULL
      <4>1. {b \in D[a] : On(sc, s, a, b)} = {}
        BY <2>1, <3>2 DEF Child
      <4> HIDE DEF E, c
      <4>2. QED
        BY <2>2, <3>1, <3>2, <4>1 DEF Child
    <3>3. CASE c # NULL
      <4>1. c \in T /\ D[c] = {b \in D[a] : On(sc, s, a, b)} /\ m[c].parent = a
        BY <2>1, <3>3 DEF Child
      <4>2. c \in U /\ E[c] = D[c] \ {x} /\ c \in Nodes
        BY <1>1, <2>4, <4>1
      <4>3. c # l
        BY <1>6, <2>2, <3>3, <4>1
      <4> HIDE DEF E, c, U, l, p
      <4>4. M[c].parent = a
        BY <1>3, <4>1, <4>2, <4>3
      <4>5. QED
        BY <2>2, <3>1, <3>3, <4>1, <4>2, <4>4 DEF Child
    <3>4. QED
      BY <3>2, <3>3
  <2>5. QED
    BY <2>3, <2>4
<1>11. /\ newRoot \in U \cup {NULL}
       /\ IF newRoot = NULL THEN U = {} ELSE E[newRoot] = U /\ M[newRoot].parent = NULL
  <2>1. CASE p = NULL
    <3>1. x = root
      BY <2>1, Parent
    <3>2. l # NULL => E[l] = U /\ l \in Nodes
      BY <1>1, <1>6, <3>1
    <3>3. l = NULL => U = {}
      BY <1>1, <1>5, <3>1
    <3> HIDE DEF E, l, p, U
    <3>4. QED
      BY <1>3, <1>6, <2>1, <3>2, <3>3
  <2>2. CASE p # NULL
    <3>1. x # root
      BY <2>2, Parent
    <3>2. root \in U /\ E[root] = U /\ root # NULL /\ root \in Nodes
      BY <1>1, <3>1
    <3>3. root # l
      BY <1>1, <1>6, <3>2
    <3> HIDE DEF E, l, p, U
    <3>4. QED
      BY <1>1, <1>3, <2>2, <3>2, <3>3
  <2>3. QED
    BY <2>1, <2>2
<1>12. ASSUME NEW a \in U \ {newRoot}
       PROVE  M[a].parent \in U /\ \E s \in Sides : M[M[a].parent][s] = a
  <2>1. a \in Nodes /\ a # x /\ a \in T /\ a # NULL
    BY <1>1
  <2>2. CASE a = l
    <3>1. p # NULL
      BY <2>2
    <3>2. p \in U /\ p \in Nodes /\ \E s \in Sides : m[p][s] = x
      BY <1>1, <1>7, <3>1
    <3> HIDE DEF E, l, p, U
    <3>3. QED
      BY <1>3, <2>1, <2>2, <3>2
  <2>3. CASE a # l
    <3>1. a # root
      <4>1. CASE p = NULL
        <5>1. x = root
          BY <4>1, Parent
        <5>2. QED
          BY <2>1, <5>1
      <4>2. CASE p # NULL
        BY <4>2
      <4>3. QED
        BY <4>1, <4>2
    <3> DEFINE q == m[a].parent
    <3>2. q \in T /\ \E s \in Sides : m[q][s] = a
      BY <2>1, <3>1 DEF Shape
    <3>3. PICK s \in Sides : m[q][s] = a
      BY <3>2
    <3>4. q # x /\ q \in U /\ q \in Nodes
      BY <1>1, <2>1, <2>3, <3>2, <3>3
    <3> HIDE DEF E, l, p, U, q
    <3>5. M[a].parent = q
      BY <1>3, <2>1, <2>3 DEF q
    <3>6. M[q][s] = a
      BY <1>3, <2>1, <3>3, <3>4
    <3>7. QED
      BY <3>4, <3>5, <3>6
  <2>4. QED
    BY <2>2, <2>3
<1>13. Shape(M, newRoot, U, E, sc)
  <2>1. U \in SUBSET Nodes /\ \A a \in U : a \in E[a]
    BY <1>1
  <2> HIDE DEF E, U, newRoot, l, p
  <2>2. QED
    BY <1>1, <1>2, <1>3, <1>9, <1>10, <1>11, <1>12, <2>1 DEF Shape
<1>14. QED
  BY <1>13

-----------------------------------------------------------------------------
(* A node takes the place of another *)

\* What avl_del does when v takes the place of n.
Substituted(m, n, v) ==
  LET w == SetParent(SetParent([m EXCEPT ![v] = m[n]], m[n].left, v), m[n].right, v)
      p == m[n].parent
  IN  IF p = NULL THEN w ELSE Relink(w, p, n, v)

\* In M, v has the place that n has in m.
Replaced(m, M, n, v) ==
  LET p == m[n].parent
  IN  /\ M \in Mem
      /\ M[v].parent = p /\ M[v].depth = m[n].depth /\ M[v].cnt = m[n].cnt
      /\ \A s \in Sides : M[v][s] = m[n][s]
      /\ \A a \in Nodes \ {v} :
            /\ M[a].parent = IF a = m[n].left \/ a = m[n].right THEN v ELSE m[a].parent
            /\ M[a].depth = m[a].depth /\ M[a].cnt = m[a].cnt
      /\ \A a \in Nodes \ {v}, s \in Sides : M[a][s] = IF a = p /\ m[a][s] = n THEN v ELSE m[a][s]

\* The writes of avl_del that put the victim in its place (avl.cpp:129-143).
LEMMA ReplaceEffect ==
  ASSUME NEW m, NEW root, NEW T, NEW D, NEW sc, Shape(m, root, T, D, sc),
         NEW n \in T, NEW v \in Nodes \ T
  PROVE  Replaced(m, Substituted(m, n, v), n, v)
<1> DEFINE p == m[n].parent
           l == m[n].left
           r == m[n].right
           w0 == [m EXCEPT ![v] = m[n]]
           w1 == SetParent(w0, l, v)
           w2 == SetParent(w1, r, v)
           M == Substituted(m, n, v)
<1>1. /\ m \in Mem /\ n \in Nodes /\ v \in Nodes /\ v # n /\ NULL \notin Nodes
      /\ l \in Nodes \cup {NULL} /\ r \in Nodes \cup {NULL} /\ p \in Nodes \cup {NULL}
      /\ l # v /\ r # v /\ p # v
  <2>1. m \in Mem /\ n \in Nodes /\ v \in Nodes /\ v # n /\ NULL \notin Nodes
    BY AVLAssumption DEF Shape
  <2>2. "left" \in Sides /\ "right" \in Sides
    BY DEF Sides
  <2>3. (l # NULL => l \in T) /\ (r # NULL => r \in T) /\ (p # NULL => p \in T)
    BY <2>2, Kid, Parent
  <2>4. l \in Nodes \cup {NULL} /\ r \in Nodes \cup {NULL} /\ p \in Nodes \cup {NULL}
    BY <2>1, <2>2, LinkType
  <2>5. QED
    BY <2>1, <2>3, <2>4
<1>2. /\ w0 \in Mem /\ w0[v] = m[n] /\ \A a \in Nodes \ {v} : w0[a] = m[a]
  BY <1>1 DEF Mem
<1>3. Reparented(w0, w1, l, v)
  <2> HIDE DEF l, w0
  <2>1. QED
    BY <1>1, <1>2, SetParentEffect
<1>4. Reparented(w1, w2, r, v)
  <2> HIDE DEF l, r, w0, w1
  <2>1. w1 \in Mem
    BY <1>3 DEF Reparented
  <2>2. QED
    BY <1>1, <2>1, SetParentEffect
<1>5. /\ w2 \in Mem
      /\ w2[v].parent = p /\ w2[v].depth = m[n].depth /\ w2[v].cnt = m[n].cnt
      /\ \A s \in Sides : w2[v][s] = m[n][s]
  <2>1. w1[v].parent = p /\ w1[v].depth = m[n].depth /\ w1[v].cnt = m[n].cnt
        /\ \A s \in Sides : w1[v][s] = m[n][s]
    <3> HIDE DEF l, r, w0, w1
    <3>1. QED
      BY <1>1, <1>2, <1>3 DEF Reparented
  <2> HIDE DEF l, r, w0, w1, w2, p
  <2>2. QED
    BY <1>1, <1>4, <2>1 DEF Reparented
<1>6. \A a \in Nodes \ {v} :
         /\ w2[a].parent = IF a = l \/ a = r THEN v ELSE m[a].parent
         /\ w2[a].depth = m[a].depth /\ w2[a].cnt = m[a].cnt
         /\ \A s \in Sides : w2[a][s] = m[a][s]
  <2>1. \A a \in Nodes \ {v} :
           /\ w1[a].parent = IF a = l THEN v ELSE m[a].parent
           /\ w1[a].depth = m[a].depth /\ w1[a].cnt = m[a].cnt
           /\ \A s \in Sides : w1[a][s] = m[a][s]
    <3> HIDE DEF l, r, w0, w1
    <3>1. SUFFICES ASSUME NEW a \in Nodes \ {v}
                   PROVE  /\ w1[a].parent = IF a = l THEN v ELSE m[a].parent
                          /\ w1[a].depth = m[a].depth /\ w1[a].cnt = m[a].cnt
                          /\ \A s \in Sides : w1[a][s] = m[a][s]
      OBVIOUS
    <3>2. w0[a] = m[a]
      BY <1>2
    <3>3. QED
      BY <1>3, <3>2 DEF Reparented
  <2> HIDE DEF l, r, w0, w1, w2, p
  <2>2. SUFFICES ASSUME NEW a \in Nodes \ {v}
                 PROVE  /\ w2[a].parent = IF a = l \/ a = r THEN v ELSE m[a].parent
                        /\ w2[a].depth = m[a].depth /\ w2[a].cnt = m[a].cnt
                        /\ \A s \in Sides : w2[a][s] = m[a][s]
    OBVIOUS
  <2>3. /\ w2[a].parent = IF a = r THEN v ELSE w1[a].parent
        /\ w2[a].depth = w1[a].depth /\ w2[a].cnt = w1[a].cnt
        /\ \A s \in Sides : w2[a][s] = w1[a][s]
    BY <1>4 DEF Reparented
  <2>4. QED
    BY <2>1, <2>3
<1>7. CASE p = NULL
  <2>1. M = w2
    BY <1>7 DEF Substituted
  <2>2. \A a \in Nodes : a # p
    BY <1>1, <1>7
  <2> HIDE DEF w2, w1, w0, M
  <2>3. \A a \in Nodes \ {v}, s \in Sides : M[a][s] = IF a = p /\ m[a][s] = n THEN v ELSE m[a][s]
    BY <1>6, <2>1, <2>2
  <2>4. \A a \in Nodes \ {v} :
            /\ M[a].parent = IF a = l \/ a = r THEN v ELSE m[a].parent
            /\ M[a].depth = m[a].depth /\ M[a].cnt = m[a].cnt
    BY <1>6, <2>1
  <2>5. QED
    BY <1>5, <2>1, <2>3, <2>4 DEF Replaced, M
<1>8. CASE p # NULL
  <2>1. M = Relink(w2, p, n, v)
    BY <1>8 DEF Substituted
  <2>2. PICK s \in Sides : m[p][s] = n /\ \A o \in Sides : o # s => m[p][o] # n
    BY <1>8, Parent
  <2>3. p \in Nodes
    BY <1>1, <1>8
  <2> HIDE DEF w2, w1, w0, l, r, p, M
  <2>4. w2[p][s] = n /\ \A o \in Sides : o # s => w2[p][o] # n
    BY <1>1, <1>6, <2>2, <2>3
  <2>5. /\ M \in Mem /\ \A a \in Nodes \ {p} : M[a] = w2[a]
        /\ \A o \in Sides : M[p][o] = IF w2[p][o] = n THEN v ELSE w2[p][o]
        /\ M[p].parent = w2[p].parent /\ M[p].depth = w2[p].depth /\ M[p].cnt = w2[p].cnt
    BY <1>1, <1>5, <2>1, <2>3, <2>4, RelinkEffect
  <2>6. \A a \in Nodes \ {v}, o \in Sides : M[a][o] = IF a = p /\ m[a][o] = n THEN v ELSE m[a][o]
    BY <1>1, <1>6, <2>3, <2>5
  <2>7. \A a \in Nodes \ {v} :
            /\ M[a].parent = IF a = l \/ a = r THEN v ELSE m[a].parent
            /\ M[a].depth = m[a].depth /\ M[a].cnt = m[a].cnt
    <3>1. SUFFICES ASSUME NEW a \in Nodes \ {v}
                   PROVE  /\ M[a].parent = IF a = l \/ a = r THEN v ELSE m[a].parent
                          /\ M[a].depth = m[a].depth /\ M[a].cnt = m[a].cnt
      OBVIOUS
    <3>2. M[a].parent = w2[a].parent /\ M[a].depth = w2[a].depth /\ M[a].cnt = w2[a].cnt
      BY <2>3, <2>5
    <3>3. QED
      BY <1>6, <3>2
  <2>8. M[v] = w2[v]
    BY <1>1, <2>5
  <2>9. /\ M[v].parent = p /\ M[v].depth = m[n].depth /\ M[v].cnt = m[n].cnt
        /\ \A o \in Sides : M[v][o] = m[n][o]
    BY <1>5, <2>8
  <2>10. QED
    BY <2>5, <2>6, <2>7, <2>9 DEF Replaced, M, l, r, p
<1>9. QED
  BY <1>7, <1>8

\* They leave a search tree, for the victim is next to the node in the order.
LEMMA ReplaceShape ==
  ASSUME NEW m, NEW root, NEW T, NEW D, NEW sc, Shape(m, root, T, D, sc),
         NEW n \in T, NEW v \in Nodes \ T,
         \A b \in T \ {n}, s \in Sides : On(sc, s, b, n) <=> On(sc, s, b, v),
         NEW M, Replaced(m, M, n, v)
  PROVE  \E E : Shape(M, IF m[n].parent = NULL THEN v ELSE root, (T \ {n}) \cup {v}, E, sc)
<1> DEFINE p == m[n].parent
           U == (T \ {n}) \cup {v}
           newRoot == IF p = NULL THEN v ELSE root
           Swap(S) == IF n \in S THEN (S \ {n}) \cup {v} ELSE S
           E == [a \in U |-> IF a = v THEN Swap(D[n]) ELSE Swap(D[a])]
<1>1. /\ T \subseteq Nodes /\ NULL \notin T /\ NULL # v /\ NULL \notin Nodes
      /\ sc \in [Nodes -> Int] /\ D \in [T -> SUBSET T]
      /\ n \in Nodes /\ v \in Nodes /\ v \notin T /\ v # n
      /\ IsFiniteSet(T) /\ root \in T /\ D[root] = T /\ m[root].parent = NULL
      /\ \A a \in T : a \in D[a] /\ v \notin D[a]
      /\ Sides = {"left", "right"} /\ "left" # "right" /\ "left" \in Sides /\ "right" \in Sides
  BY AVLAssumption DEF Shape, Sides
<1>2. IsFiniteSet(U)
  BY <1>1, FS_RemoveElement, FS_AddElement
<1>3. /\ M \in Mem
      /\ M[v].parent = p
      /\ \A s \in Sides : M[v][s] = m[n][s]
      /\ \A a \in Nodes \ {v} : M[a].parent = IF a = m[n].left \/ a = m[n].right THEN v ELSE m[a].parent
      /\ \A a \in Nodes \ {v}, s \in Sides : M[a][s] = IF a = p /\ m[a][s] = n THEN v ELSE m[a][s]
  BY DEF Replaced
<1>4. E \in [U -> SUBSET U]
  BY <1>1
<1>5. E[v] = (D[n] \ {n}) \cup {v}
  BY <1>1
<1>6. \A a \in U \ {v} : E[a] = IF n \in D[a] THEN (D[a] \ {n}) \cup {v} ELSE D[a]
  BY <1>1
<1>7. \A a \in U : a \in E[a]
  <2> HIDE DEF E
  <2>1. QED
    BY <1>1, <1>5, <1>6
<1>8. p # NULL => p \in T /\ p # n /\ \E s \in Sides : m[p][s] = n
  <2>1. p # NULL => /\ p \in T /\ p \notin D[n] /\ \E s \in Sides : m[p][s] = n
    BY Parent
  <2>2. QED
    BY <1>1, <2>1
<1>9. \A a \in T, s \in Sides : (m[a][s] # NULL /\ m[a][s] # n) => m[a][s] \in U /\ m[a][s] # v
  BY <1>1, Kid
<1>10. ASSUME NEW s \in Sides
       PROVE  Child(M, U, E, v, M[v][s], {b \in E[v] : On(sc, s, v, b)})
  <2> DEFINE c == m[n][s]
  <2>1. Child(m, T, D, n, c, {b \in D[n] : On(sc, s, n, b)})
    BY DEF Shape
  <2>2. {b \in E[v] : On(sc, s, v, b)} = {b \in D[n] : On(sc, s, n, b)}
    <3>1. ~On(sc, s, v, v) /\ ~On(sc, s, n, n)
      BY <1>1, OnOrder
    <3>2. ASSUME NEW b \in D[n] \ {n} PROVE On(sc, s, v, b) <=> On(sc, s, n, b)
      <4>1. PICK o \in Sides : o # s
        BY <1>1
      <4>2. b \in T \ {n} /\ b \in Nodes
        BY <1>1
      <4>3. (On(sc, s, v, b) <=> On(sc, o, b, v)) /\ (On(sc, s, n, b) <=> On(sc, o, b, n))
        BY <1>1, <4>1, <4>2, OnOrder
      <4>4. QED
        BY <4>1, <4>2, <4>3
    <3> HIDE DEF E
    <3>3. QED
      BY <1>1, <1>5, <3>1, <3>2
  <2>3. M[v][s] = c
    BY <1>3
  <2>4. CASE c = NULL
    <3> HIDE DEF E, U
    <3>1. QED
      BY <2>1, <2>2, <2>3, <2>4 DEF Child
  <2>5. CASE c # NULL
    <3>1. c \in T /\ D[c] = {b \in D[n] : On(sc, s, n, b)} /\ c # n /\ n \notin D[c] /\ m[c].parent = n
      BY <2>5, Kid
    <3>2. c \in U /\ c # v /\ E[c] = D[c]
      BY <1>1, <3>1
    <3>3. c = m[n].left \/ c = m[n].right
      BY <1>1
    <3> HIDE DEF E, U, c
    <3>4. M[c].parent = v
      BY <1>1, <1>3, <3>1, <3>2, <3>3
    <3>5. QED
      BY <2>2, <2>3, <2>5, <3>1, <3>2, <3>4 DEF Child
  <2>6. QED
    BY <2>4, <2>5
<1>11. ASSUME NEW a \in U \ {v}, NEW s \in Sides
       PROVE  Child(M, U, E, a, M[a][s], {b \in E[a] : On(sc, s, a, b)})
  <2> DEFINE c == m[a][s]
  <2>1. a \in T /\ a # n /\ a # v /\ a \in Nodes
    BY <1>1
  <2>2. Child(m, T, D, a, c, {b \in D[a] : On(sc, s, a, b)})
    <3>1. \A d \in T, t \in Sides : Child(m, T, D, d, m[d][t], {b \in D[d] : On(sc, t, d, b)})
      BY DEF Shape
    <3>2. QED
      BY <2>1, <3>1
  <2>3. {b \in E[a] : On(sc, s, a, b)} = Swap({b \in D[a] : On(sc, s, a, b)})
    <3>1. On(sc, s, a, n) <=> On(sc, s, a, v)
      BY <2>1
    <3> HIDE DEF E
    <3>2. QED
      BY <1>1, <1>6, <2>1, <3>1
  <2>4. CASE c = NULL
    <3>1. M[a][s] = NULL /\ {b \in D[a] : On(sc, s, a, b)} = {}
      BY <1>1, <1>3, <2>1, <2>2, <2>4 DEF Child
    <3> HIDE DEF E, U
    <3>2. QED
      BY <2>3, <3>1 DEF Child
  <2>5. CASE c = n
    <3>1. D[n] = {b \in D[a] : On(sc, s, a, b)} /\ p = a
      BY <1>1, <2>2, <2>5 DEF Child
    <3>2. M[a][s] = v
      BY <1>3, <2>1, <2>5, <3>1
    <3>3. E[v] = Swap(D[n])
      BY <1>1
    <3> HIDE DEF E, Swap
    <3>4. QED
      BY <1>1, <1>3, <2>3, <3>1, <3>2, <3>3 DEF Child
  <2>6. CASE c # NULL /\ c # n
    <3>1. c \in T /\ D[c] = {b \in D[a] : On(sc, s, a, b)} /\ m[c].parent = a
      BY <2>2, <2>6 DEF Child
    <3>2. c \in U /\ c # v /\ E[c] = Swap(D[c]) /\ c \in Nodes
      BY <1>1, <2>6, <3>1
    <3>3. c # m[n].left /\ c # m[n].right
      <4>1. \A t \in Sides : m[n][t] # NULL => m[m[n][t]].parent = n
        BY Kid
      <4>2. QED
        BY <1>1, <2>1, <2>6, <3>1, <4>1
    <3>4. M[a][s] = c
      BY <1>3, <2>1, <2>6
    <3> HIDE DEF E, Swap, U, c
    <3>5. M[c].parent = a
      BY <1>3, <3>1, <3>2, <3>3
    <3>6. QED
      BY <2>3, <2>6, <3>1, <3>2, <3>4, <3>5 DEF Child
  <2>7. QED
    BY <2>4, <2>5, <2>6
<1>12. newRoot \in U /\ newRoot # NULL /\ E[newRoot] = U /\ M[newRoot].parent = NULL
  <2>1. CASE p = NULL
    <3>1. n = root
      BY <2>1, Parent
    <3>2. E[v] = U
      BY <1>1, <3>1
    <3> HIDE DEF E, p
    <3>3. QED
      BY <1>1, <1>3, <2>1, <3>2
  <2>2. CASE p # NULL
    <3>1. n # root
      BY <2>2, Parent
    <3>2. E[root] = U /\ root \in U /\ root # v /\ root \in Nodes
      BY <1>1, <3>1
    <3>3. root # m[n].left /\ root # m[n].right
      <4>1. \A t \in Sides : m[n][t] # NULL => m[m[n][t]].parent = n
        BY Kid
      <4>2. QED
        BY <1>1, <4>1
    <3> HIDE DEF E, p
    <3>4. QED
      BY <1>1, <1>3, <2>2, <3>2, <3>3
  <2>3. QED
    BY <2>1, <2>2
<1>13. ASSUME NEW a \in U \ {newRoot}
       PROVE  M[a].parent \in U /\ \E s \in Sides : M[M[a].parent][s] = a
  <2>1. CASE a = v
    <3>1. p # NULL
      BY <2>1
    <3>2. p \in U /\ p \in Nodes /\ p # v
      BY <1>1, <1>8, <3>1
    <3>3. PICK s \in Sides : m[p][s] = n
      BY <1>8, <3>1
    <3>4. M[p][s] = v
      BY <1>3, <3>2, <3>3
    <3>5. QED
      BY <1>3, <2>1, <3>2, <3>4
  <2>2. CASE a # v
    <3>1. a \in T /\ a # n /\ a \in Nodes
      BY <1>1, <2>2
    <3>2. a # root
      <4>1. CASE p = NULL
        BY <3>1, <4>1, Parent
      <4>2. CASE p # NULL
        BY <4>2
      <4>3. QED
        BY <4>1, <4>2
    <3> DEFINE q == m[a].parent
    <3>3. q \in T /\ \E s \in Sides : m[q][s] = a
      BY <3>1, <3>2 DEF Shape
    <3>4. PICK s \in Sides : m[q][s] = a
      BY <3>3
    <3>5. CASE q = n
      <4>1. M[a].parent = v
        BY <1>1, <1>3, <2>2, <3>1, <3>4, <3>5
      <4>2. M[v][s] = a
        BY <1>3, <3>4, <3>5
      <4>3. QED
        BY <4>1, <4>2
    <3>6. CASE q # n
      <4>1. a # m[n].left /\ a # m[n].right
        <5>1. \A t \in Sides : m[n][t] # NULL => m[m[n][t]].parent = n
          BY Kid
        <5>2. QED
          BY <1>1, <3>1, <3>6, <5>1
      <4>2. q \in U /\ q \in Nodes /\ q # v
        BY <1>1, <3>3, <3>6
      <4> HIDE DEF q, p, E
      <4>3. M[a].parent = q
        BY <1>3, <2>2, <3>1, <4>1 DEF q
      <4>4. M[q][s] = a
        BY <1>3, <3>1, <3>4, <4>2
      <4>5. QED
        BY <4>2, <4>3, <4>4
    <3>7. QED
      BY <3>5, <3>6
  <2>3. QED
    BY <2>1, <2>2
<1>14. Shape(M, newRoot, U, E, sc)
  <2>1. U \in SUBSET Nodes
    BY <1>1
  <2>2. \A a \in U, s \in Sides : Child(M, U, E, a, M[a][s], {b \in E[a] : On(sc, s, a, b)})
    <3> HIDE DEF E
    <3>1. QED
      BY <1>10, <1>11
  <2> HIDE DEF E, U, newRoot, p
  <2>3. QED
    BY <1>1, <1>2, <1>3, <1>4, <1>7, <1>12, <1>13, <2>1, <2>2 DEF Shape
<1>15. QED
  BY <1>14

\* The nodes below a node are those that the links down lead to.
LEMMA UnderIs ==
  ASSUME NEW root, NEW T, NEW D, NEW sc, Shape(avl, root, T, D, sc), NEW a \in T
  PROVE  Under(a) = D[a]
<1>1. /\ T \subseteq Nodes /\ NULL \notin T /\ D \in [T -> SUBSET T] /\ IsFiniteSet(T)
      /\ sc \in [Nodes -> Int] /\ \A b \in T : b \in D[b]
      /\ Sides = {"left", "right"}
  BY AVLAssumption DEF Shape, Sides
<1>2. Closed(D[a])
  <2>1. ASSUME NEW b \in D[a], NEW s \in Sides, avl[b][s] # NULL PROVE avl[b][s] \in D[a]
    <3>1. avl[b][s] \in D[b] /\ b \in T
      BY <1>1, <2>1, Kid
    <3>2. QED
      BY <3>1, Nested
  <2>2. QED
    BY <1>1, <2>1 DEF Closed
<1>3. Under(a) \subseteq D[a]
  BY <1>1, <1>2 DEF Under
<1>4. ASSUME NEW S \in SUBSET Nodes, a \in S, Closed(S)
      PROVE  D[a] \subseteq S
  <2> DEFINE Bad == {b \in T : b \in S /\ ~(D[b] \subseteq S)}
  <2>1. SUFFICES ASSUME Bad # {} PROVE FALSE
    BY <1>4
  <2>2. PICK b \in Bad : \A d \in Bad : D[d] \subseteq D[b] => D[d] = D[b]
    <3>1. Bad \in SUBSET T
      OBVIOUS
    <3> HIDE DEF Bad
    <3>2. QED
      BY <1>1, <2>1, <3>1, Smallest
  <2>3. b \in T /\ b \in S /\ b \in D[b]
    BY <1>1, <2>2
  <2>4. ASSUME NEW c \in D[b], c # b PROVE c \in S
    <3>1. PICK s \in Sides : On(sc, s, b, c)
      BY <1>1, <2>3, <2>4, SideOf
    <3> DEFINE k == avl[b][s]
    <3>2. k # NULL /\ c \in D[k]
      BY <2>3, <3>1, Below
    <3>3. k \in T /\ D[k] \subseteq D[b] /\ b \notin D[k]
      BY <2>3, <3>2, Kid
    <3>4. k \in S
      BY <1>1, <1>4, <2>3, <3>2 DEF Closed
    <3>5. k \notin Bad
      BY <2>2, <2>3, <3>3
    <3>6. QED
      BY <3>2, <3>3, <3>4, <3>5
  <2>5. QED
    BY <2>2, <2>3, <2>4
<1>5. D[a] \subseteq Under(a)
  BY <1>1, <1>4 DEF Under
<1>6. QED
  BY <1>3, <1>5

-----------------------------------------------------------------------------
(* Depths and sizes *)

\* The depth that the subtree of a on the side s carries.
Dep(m, a, s) == avl_depth(m, m[a][s])

\* a carries the depth and the size that its children's call for, and is balanced.
LocalAt(m, a) ==
  /\ m[a].depth = 1 + Larger(Dep(m, a, "left"), Dep(m, a, "right"))
  /\ Dep(m, a, "left") - Dep(m, a, "right") \in -1..1
  /\ m[a].cnt = 1 + avl_cnt(m, m[a].left) + avl_cnt(m, m[a].right)

\* The depths l and r of the children can be put right, where the depth was e.
Mendable(l, r, e) == \/ l - r \in -1..1 /\ 1 + Larger(l, r) - e \in -1..1
                     \/ l - r = 2 /\ e - l \in 0..1
                     \/ r - l = 2 /\ e - r \in 0..1

\* The parent p of n, whose depth was e.
WasLocal(m, p, n, e) ==
  \A s, o \in Sides : s # o /\ m[p][s] = n =>
      m[p].depth = 1 + Larger(e, Dep(m, p, o)) /\ e - Dep(m, p, o) \in -1..1

\* In a tree where a leaf has come or gone below n, all is right but n itself; the
\* parent of n still carries what it did when n was e deep.
Mending(m, T, n, e) ==
  /\ n \in T /\ e \in Nat
  /\ \A a \in T \ {n, m[n].parent} : LocalAt(m, a)
  /\ Mendable(Dep(m, n, "left"), Dep(m, n, "right"), e)
  /\ m[n].parent # NULL => WasLocal(m, m[n].parent, n, e)

\* avl_fix writes the new root of the subtree, r.node, into the parent of n.
Linked(r, m, n) == IF m[n].parent = NULL THEN r.mem ELSE Relink(r.mem, m[n].parent, n, r.node)

\* In M, the subtree of n has been put right; t is now its root, below p.
Lifted(m, M, T, n, t) ==
  LET p == m[n].parent
  IN  /\ M \in Mem /\ t \in T /\ M[t].parent = p
      /\ \A a \in T \ {p} : LocalAt(M, a)
      /\ p # NULL => /\ M[p].parent = m[p].parent /\ M[p].depth = m[p].depth
                     /\ \A s \in Sides : IF m[p][s] = n THEN M[p][s] = t
                                         ELSE M[p][s] = m[p][s] /\ Dep(M, p, s) = Dep(m, p, s)

\* Depths and sizes are numbers.
LEMMA DepType ==
  ASSUME NEW m \in Mem, NEW a \in Nodes, NEW s \in Sides
  PROVE  Dep(m, a, s) \in Nat /\ avl_cnt(m, m[a][s]) \in Nat
BY LinkType DEF Dep, avl_depth, avl_cnt

\* The two sides of LocalAt.
LEMMA LocalSides ==
  ASSUME NEW m \in Mem, NEW a \in Nodes, NEW up, NEW down, Opposite(up, down)
  PROVE  LocalAt(m, a) <=>
           /\ m[a].depth = 1 + Larger(Dep(m, a, up), Dep(m, a, down))
           /\ Dep(m, a, up) - Dep(m, a, down) \in -1..1
           /\ m[a].cnt = 1 + avl_cnt(m, m[a][up]) + avl_cnt(m, m[a][down])
<1> DEFINE dl == Dep(m, a, "left")
           dr == Dep(m, a, "right")
           cl == avl_cnt(m, m[a]["left"])
           cr == avl_cnt(m, m[a]["right"])
<1>1. dl \in Nat /\ dr \in Nat /\ cl \in Nat /\ cr \in Nat
  BY DepType DEF Sides
<1>2. LocalAt(m, a) <=> /\ m[a].depth = 1 + Larger(dl, dr) /\ dl - dr \in -1..1
                        /\ m[a].cnt = 1 + cl + cr
  BY DEF LocalAt
<1>3. CASE up = "left" /\ down = "right"
  BY <1>2, <1>3
<1>4. CASE up = "right" /\ down = "left"
  <2> DEFINE R == /\ m[a].depth = 1 + Larger(dr, dl) /\ dr - dl \in -1..1
                  /\ m[a].cnt = 1 + cr + cl
  <2>1. R <=> /\ m[a].depth = 1 + Larger(dl, dr) /\ dl - dr \in -1..1
              /\ m[a].cnt = 1 + cl + cr
    <3> HIDE DEF dl, dr, cl, cr
    <3>1. Larger(dl, dr) = Larger(dr, dl) /\ cl + cr = cr + cl
      BY <1>1 DEF Larger
    <3>2. dr - dl \in -1..1 <=> dl - dr \in -1..1
      BY <1>1
    <3>3. 1 + cr + cl = 1 + cl + cr
      BY <1>1
    <3>4. QED
      BY <3>1, <3>2, <3>3
  <2>2. QED
    BY <1>2, <1>4, <2>1
<1>5. QED
  BY <1>3, <1>4 DEF Opposite, Sides

\* A node whose links and whose children's depths and sizes stay remains right.
LEMMA LocalKept ==
  ASSUME NEW m \in Mem, NEW M \in Mem, NEW a \in Nodes, LocalAt(m, a),
         M[a].depth = m[a].depth, M[a].cnt = m[a].cnt,
         \A s \in Sides : M[a][s] = m[a][s],
         \A s \in Sides : m[a][s] # NULL => /\ M[m[a][s]].depth = m[m[a][s]].depth
                                             /\ M[m[a][s]].cnt = m[m[a][s]].cnt
  PROVE  LocalAt(M, a)
<1>1. \A s \in Sides : Dep(M, a, s) = Dep(m, a, s) /\ avl_cnt(M, M[a][s]) = avl_cnt(m, m[a][s])
  BY DEF Dep, avl_depth, avl_cnt
<1>2. /\ Dep(M, a, "left") = Dep(m, a, "left") /\ Dep(M, a, "right") = Dep(m, a, "right")
      /\ avl_cnt(M, M[a].left) = avl_cnt(m, m[a].left)
      /\ avl_cnt(M, M[a].right) = avl_cnt(m, m[a].right)
  BY <1>1 DEF Sides
<1>3. QED
  BY <1>2 DEF LocalAt

\* The size that a node carries is the number of the nodes at and below it.
LEMMA CntIsSize ==
  ASSUME NEW m, NEW root, NEW T, NEW D, NEW sc, Shape(m, root, T, D, sc),
         \A a \in T : LocalAt(m, a), NEW a \in T
  PROVE  m[a].cnt = Cardinality(D[a])
<1> DEFINE Bad == {b \in T : m[b].cnt # Cardinality(D[b])}
<1>1. /\ T \subseteq Nodes /\ NULL \notin T /\ D \in [T -> SUBSET T] /\ IsFiniteSet(T)
      /\ sc \in [Nodes -> Int] /\ \A b \in T : b \in D[b]
      /\ "left" \in Sides /\ "right" \in Sides /\ "left" # "right" /\ Sides = {"left", "right"}
      /\ m \in Mem
  BY AVLAssumption DEF Shape, Sides
<1>2. SUFFICES ASSUME Bad # {} PROVE FALSE
  OBVIOUS
<1>3. PICK b \in Bad : \A d \in Bad : D[d] \subseteq D[b] => D[d] = D[b]
  <2>1. Bad \in SUBSET T
    OBVIOUS
  <2> HIDE DEF Bad
  <2>2. QED
    BY <1>1, <1>2, <2>1, Smallest
<1>4. b \in T /\ b \in D[b] /\ m[b].cnt # Cardinality(D[b]) /\ b \in Nodes
  BY <1>1, <1>3
<1> DEFINE Part(s) == {c \in D[b] : On(sc, s, b, c)}
<1>5. ASSUME NEW s \in Sides
      PROVE  IsFiniteSet(Part(s)) /\ avl_cnt(m, m[b][s]) = Cardinality(Part(s))
  <2>0. IsFiniteSet(Part(s))
    <3>1. Part(s) \in SUBSET T
      BY <1>1, <1>4
    <3>2. QED
      BY <1>1, <3>1, FS_Subset
  <2>1. Child(m, T, D, b, m[b][s], Part(s))
    BY <1>4 DEF Shape
  <2>2. CASE m[b][s] = NULL
    BY <2>0, <2>1, <2>2, FS_EmptySet DEF Child, avl_cnt
  <2>3. CASE m[b][s] # NULL
    <3>1. m[b][s] \in T /\ D[m[b][s]] = Part(s) /\ D[m[b][s]] \subseteq D[b] /\ b \notin D[m[b][s]]
      BY <1>4, <2>3, Kid
    <3>2. m[b][s] \notin Bad
      BY <1>3, <1>4, <3>1
    <3>3. m[m[b][s]].cnt = Cardinality(Part(s))
      BY <3>1, <3>2
    <3>4. QED
      BY <2>0, <2>3, <3>3 DEF avl_cnt
  <2>4. QED
    BY <2>2, <2>3
<1>6. D[b] = (Part("left") \cup Part("right")) \cup {b}
  <2>1. ASSUME NEW c \in D[b], c # b PROVE On(sc, "left", b, c) \/ On(sc, "right", b, c)
    BY <1>1, <1>4, <2>1, SideOf
  <2>2. QED
    BY <1>4, <2>1
<1>7. Part("left") \cap Part("right") = {}
  <2>1. ASSUME NEW c \in D[b], On(sc, "left", b, c), On(sc, "right", b, c) PROVE FALSE
    <3>1. c \in Nodes
      BY <1>1, <1>4
    <3>2. QED
      BY <1>1, <1>4, <2>1, <3>1, OnOrder
  <2>2. QED
    BY <2>1
<1>8. b \notin Part("left") \cup Part("right")
  <2>1. ~On(sc, "left", b, b) /\ ~On(sc, "right", b, b)
    BY <1>1, <1>4, OnOrder
  <2>2. QED
    BY <2>1
<1>9. Cardinality(D[b]) = Cardinality(Part("left")) + Cardinality(Part("right")) + 1
  <2>1. IsFiniteSet(Part("left")) /\ IsFiniteSet(Part("right"))
    BY <1>1, <1>5
  <2> HIDE DEF Part
  <2>2. /\ IsFiniteSet(Part("left") \cup Part("right"))
        /\ Cardinality(Part("left") \cup Part("right"))
             = Cardinality(Part("left")) + Cardinality(Part("right")) - Cardinality(Part("left") \cap Part("right"))
    BY <2>1, FS_Union
  <2>3. Cardinality(Part("left") \cap Part("right")) = 0
    BY <1>7, FS_EmptySet
  <2>4. Cardinality(Part("left")) \in Nat /\ Cardinality(Part("right")) \in Nat
    BY <2>1, FS_CardinalityType
  <2>5. Cardinality((Part("left") \cup Part("right")) \cup {b}) = Cardinality(Part("left") \cup Part("right")) + 1
    BY <1>8, <2>2, FS_AddElement
  <2>6. QED
    BY <1>6, <2>2, <2>3, <2>4, <2>5
<1>10. m[b].cnt = 1 + avl_cnt(m, m[b].left) + avl_cnt(m, m[b].right)
  BY <1>4 DEF LocalAt
<1>11. avl_cnt(m, m[b].left) = Cardinality(Part("left")) /\ avl_cnt(m, m[b].right) = Cardinality(Part("right"))
  BY <1>1, <1>5
<1>12. Cardinality(Part("left")) \in Nat /\ Cardinality(Part("right")) \in Nat
  BY <1>1, <1>5, FS_CardinalityType
<1>13. QED
  <2> HIDE DEF Part
  <2>1. QED
    BY <1>4, <1>9, <1>10, <1>11, <1>12

\* a has the same links in m and in M, and its children carry the same.
Same(m, M, a) ==
  /\ M[a].depth = m[a].depth /\ M[a].cnt = m[a].cnt
  /\ \A s \in Sides : /\ M[a][s] = m[a][s] /\ Dep(M, a, s) = Dep(m, a, s)
                      /\ avl_cnt(M, M[a][s]) = avl_cnt(m, m[a][s])

\* A node that is as it was carries what it should.
LEMMA SameLocal ==
  ASSUME NEW m, NEW M, NEW a, Same(m, M, a), LocalAt(m, a)
  PROVE  LocalAt(M, a)
<1>1. /\ Dep(M, a, "left") = Dep(m, a, "left") /\ Dep(M, a, "right") = Dep(m, a, "right")
      /\ avl_cnt(M, M[a].left) = avl_cnt(m, m[a].left)
      /\ avl_cnt(M, M[a].right) = avl_cnt(m, m[a].right)
      /\ M[a].depth = m[a].depth /\ M[a].cnt = m[a].cnt
  BY DEF Same, Sides
<1>2. QED
  BY <1>1 DEF LocalAt

CntAt(m, a, up, down) == m[a].cnt = 1 + avl_cnt(m, m[a][up]) + avl_cnt(m, m[a][down])

\* What the nodes carry after a rotation at n below p.
Remeasured(m, M, T, n, up, down) ==
  LET c == m[n][up]
      p == m[n].parent
  IN  /\ M[n].depth = 1 + Larger(Dep(m, c, down), Dep(m, n, down))
      /\ M[c].depth = 1 + Larger(M[n].depth, Dep(m, c, up))
      /\ Dep(M, n, up) = Dep(m, c, down) /\ Dep(M, n, down) = Dep(m, n, down)
      /\ Dep(M, c, up) = Dep(m, c, up) /\ Dep(M, c, down) = M[n].depth
      /\ CntAt(M, n, up, down) /\ CntAt(M, c, up, down)
      /\ \A a \in T \ {n, c, p} : Same(m, M, a)
      /\ p # NULL => /\ M[p].parent = m[p].parent /\ M[p].depth = m[p].depth
                     /\ \A s \in Sides : IF m[p][s] = n THEN M[p][s] = c
                                         ELSE M[p][s] = m[p][s] /\ Dep(M, p, s) = Dep(m, p, s)

\* The depths and the sizes after a rotation.
LEMMA RotateMeasures ==
  ASSUME NEW m, NEW root, NEW T, NEW D, NEW sc, Shape(m, root, T, D, sc),
         NEW n \in T, NEW up, NEW down, Opposite(up, down), m[n][up] # NULL
  PROVE  Remeasured(m, Rotated(m, n, up, down), T, n, up, down)
<1> DEFINE c == m[n][up]
           p == m[n].parent
           M == Rotated(m, n, up, down)
           i == m[c][down]
<1>1. /\ T \subseteq Nodes /\ NULL \notin T /\ NULL \notin Nodes /\ n \in Nodes /\ m \in Mem
      /\ up \in Sides /\ down \in Sides /\ up # down /\ Sides = {up, down} /\ sc \in [Nodes -> Int]
  BY AVLAssumption DEF Shape, Opposite, Sides
<1>2. c \in T /\ c # n /\ m[c].parent = n /\ c \in Nodes /\ c # p /\ c \in D[n] /\ n \notin D[c]
  <2>1. c \in T /\ c # n /\ m[c].parent = n /\ c \in D[n] /\ n \notin D[c]
    BY <1>1, Kid
  <2>2. p # NULL => p \notin D[n]
    BY Parent
  <2>3. QED
    BY <1>1, <2>1, <2>2
<1>3. Turned(m, M, n, up, down) /\ Resized(m, M, n, up, down)
  BY RotateEffect
<1>4. /\ M \in Mem
      /\ M[n][up] = i /\ M[n][down] = m[n][down] /\ M[n].parent = c
      /\ M[c][down] = n /\ M[c][up] = m[c][up] /\ M[c].parent = p
      /\ \A a \in Nodes \ {n, c}, s \in Sides :
            M[a][s] = IF a = p /\ m[a][s] = n THEN c ELSE m[a][s]
      /\ \A a \in Nodes \ {n, c} : M[a].parent = IF a = i THEN n ELSE m[a].parent
  BY <1>3 DEF Turned
<1>5. /\ \A a \in Nodes \ {n, c} : M[a].depth = m[a].depth /\ M[a].cnt = m[a].cnt
      /\ M[n].depth = 1 + Larger(avl_depth(m, i), avl_depth(m, m[n][down]))
      /\ M[n].cnt = 1 + avl_cnt(m, i) + avl_cnt(m, m[n][down])
      /\ M[c].depth = 1 + Larger(M[n].depth, avl_depth(m, m[c][up]))
      /\ M[c].cnt = 1 + M[n].cnt + avl_cnt(m, m[c][up])
  BY <1>3 DEF Resized
<1>6. /\ i # n /\ i # c /\ m[n][down] # n /\ m[n][down] # c /\ m[c][up] # n /\ m[c][up] # c
  <2>1. /\ i # NULL => i \in D[c] /\ i # c
        /\ m[c][up] # NULL => m[c][up] \in D[c] /\ m[c][up] # c
    BY <1>1, <1>2, Kid
  <2>2. m[n][down] # NULL => m[n][down] # n /\ On(sc, down, n, m[n][down])
    BY <1>1, Kid
  <2>3. On(sc, up, n, c) /\ ~On(sc, down, n, c)
    BY <1>1, <1>2, Kid, OnOrder
  <2>4. QED
    BY <1>1, <1>2, <2>1, <2>2, <2>3
<1>7. \A a \in Nodes \cup {NULL} : a # n /\ a # c =>
          avl_depth(M, a) = avl_depth(m, a) /\ avl_cnt(M, a) = avl_cnt(m, a)
  <2> HIDE DEF M, c
  <2>1. QED
    BY <1>5 DEF avl_depth, avl_cnt
<1>8. /\ i \in Nodes \cup {NULL} /\ m[n][down] \in Nodes \cup {NULL} /\ m[c][up] \in Nodes \cup {NULL}
  BY <1>1, <1>2, LinkType
<1>9. /\ Dep(M, n, up) = Dep(m, c, down) /\ Dep(M, n, down) = Dep(m, n, down)
      /\ Dep(M, c, up) = Dep(m, c, up) /\ Dep(M, c, down) = M[n].depth
      /\ avl_cnt(M, M[n][up]) = avl_cnt(m, i) /\ avl_cnt(M, M[n][down]) = avl_cnt(m, m[n][down])
      /\ avl_cnt(M, M[c][up]) = avl_cnt(m, m[c][up]) /\ avl_cnt(M, M[c][down]) = M[n].cnt
  <2>1. n # NULL
    BY <1>1
  <2> HIDE DEF M
  <2>2. avl_depth(M, n) = M[n].depth /\ avl_cnt(M, n) = M[n].cnt
    BY <2>1 DEF avl_depth, avl_cnt
  <2>3. /\ avl_depth(M, i) = avl_depth(m, i) /\ avl_cnt(M, i) = avl_cnt(m, i)
        /\ avl_depth(M, m[n][down]) = avl_depth(m, m[n][down])
        /\ avl_cnt(M, m[n][down]) = avl_cnt(m, m[n][down])
        /\ avl_depth(M, m[c][up]) = avl_depth(m, m[c][up])
        /\ avl_cnt(M, m[c][up]) = avl_cnt(m, m[c][up])
    BY <1>6, <1>7, <1>8
  <2>4. QED
    BY <1>4, <2>2, <2>3 DEF Dep
<1>10. CntAt(M, n, up, down)
  BY <1>5, <1>9 DEF CntAt
<1>11. CntAt(M, c, up, down)
  <2>1. avl_cnt(m, m[c][up]) \in Nat /\ M[n].cnt \in Nat
    BY <1>1, <1>2, <1>4, LinkType, DepType
  <2>2. M[c].cnt = 1 + avl_cnt(m, m[c][up]) + M[n].cnt
    <3> HIDE DEF M, c
    <3>1. QED
      BY <1>5, <2>1
  <2>3. QED
    BY <1>9, <2>2 DEF CntAt
<1>12. ASSUME NEW a \in T \ {n, c}, NEW s \in Sides, m[a][s] # n
       PROVE  /\ M[a][s] = m[a][s] /\ Dep(M, a, s) = Dep(m, a, s)
              /\ avl_cnt(M, M[a][s]) = avl_cnt(m, m[a][s])
  <2>1. a \in Nodes /\ m[a][s] \in Nodes \cup {NULL}
    BY <1>1, LinkType
  <2>2. m[a][s] # c
    BY <1>1, <1>2, Kid
  <2>3. M[a][s] = m[a][s]
    BY <1>4, <1>12, <2>1
  <2> HIDE DEF M, c
  <2>4. QED
    BY <1>7, <1>12, <2>1, <2>2, <2>3 DEF Dep
<1>13. ASSUME NEW a \in T \ {n, c, p} PROVE Same(m, M, a)
  <2>1. M[a].depth = m[a].depth /\ M[a].cnt = m[a].cnt
    BY <1>1, <1>5
  <2>2. \A s \in Sides : m[a][s] # n
    BY <1>1, Kid
  <2> HIDE DEF M, c
  <2>3. QED
    BY <1>12, <2>1, <2>2 DEF Same
<1>14. ASSUME p # NULL
       PROVE  /\ M[p].parent = m[p].parent /\ M[p].depth = m[p].depth
              /\ \A s \in Sides : IF m[p][s] = n THEN M[p][s] = c
                                  ELSE M[p][s] = m[p][s] /\ Dep(M, p, s) = Dep(m, p, s)
  <2>1. p \in T /\ p \notin D[n]
    BY <1>14, Parent
  <2>2. n \in D[n]
    BY DEF Shape
  <2>3. p \in Nodes /\ p # n /\ p # c /\ p # i
    <3>1. i # NULL => i \in D[c]
      BY <1>1, <1>2, Kid
    <3>2. D[c] \subseteq D[n]
      BY <1>1, Kid
    <3>3. QED
      BY <1>1, <1>2, <1>14, <2>1, <2>2, <3>1, <3>2
  <2>4. M[p].parent = m[p].parent /\ M[p].depth = m[p].depth
    BY <1>4, <1>5, <2>3
  <2>5. \A s \in Sides : m[p][s] = n => M[p][s] = c
    BY <1>4, <2>3
  <2>6. p \in T \ {n, c}
    BY <2>1, <2>3
  <2>7. \A s \in Sides : m[p][s] # n => M[p][s] = m[p][s] /\ Dep(M, p, s) = Dep(m, p, s)
    BY <1>12, <2>6
  <2>8. QED
    BY <2>4, <2>5, <2>7
<1>15. M[n].depth = 1 + Larger(Dep(m, c, down), Dep(m, n, down))
       /\ M[c].depth = 1 + Larger(M[n].depth, Dep(m, c, up))
  BY <1>5 DEF Dep
<1>16. QED
  BY <1>9, <1>10, <1>11, <1>13, <1>14, <1>15 DEF Remeasured

-----------------------------------------------------------------------------
(* Rebalancing *)

\* The depths after a rotation of n over c, whose children are x and y deep.
LEMMA SingleDepths ==
  ASSUME NEW x \in Nat, NEW y \in Nat, NEW l \in Nat, NEW r \in Nat, NEW d, NEW e,
         l = 1 + Larger(x, y), x - y \in -1..1, ~(x < y), l = r + 2,
         d = 1 + Larger(y, r), e = 1 + Larger(d, x)
  PROVE  /\ y - r \in -1..1 /\ x - d \in -1..1 /\ e = 1 + Larger(x, d) /\ e - l \in 0..1
<1>1. x = r + 1 /\ (y = r \/ y = r + 1)
  BY DEF Larger
<1>2. d = 1 + y
  BY <1>1 DEF Larger
<1>3. QED
  BY <1>1, <1>2 DEF Larger

\* One rotation puts right a node that is two deeper on its outer side.
LEMMA SingleStep ==
  ASSUME NEW m, NEW root, NEW T, NEW D, NEW sc, Shape(m, root, T, D, sc),
         NEW n \in T, NEW up, NEW down, Opposite(up, down),
         \A a \in T \ {n, m[n].parent} : LocalAt(m, a),
         Dep(m, n, up) = Dep(m, n, down) + 2,
         ~(Dep(m, m[n][up], up) < Dep(m, m[n][up], down))
  PROVE  /\ Lifted(m, Rotated(m, n, up, down), T, n, m[n][up])
         /\ Rotated(m, n, up, down)[m[n][up]].depth - Dep(m, n, up) \in 0..1
<1> DEFINE c == m[n][up]
           p == m[n].parent
           M == Rotated(m, n, up, down)
<1>1. /\ T \subseteq Nodes /\ NULL \notin T /\ n \in Nodes /\ m \in Mem /\ up \in Sides /\ down \in Sides
  BY AVLAssumption DEF Shape, Opposite
<1>2. Dep(m, n, up) \in Nat /\ Dep(m, n, down) \in Nat
  BY <1>1, DepType
<1>3. c # NULL
  <2>1. Dep(m, n, up) # 0
    BY <1>2
  <2>2. QED
    BY <2>1 DEF Dep, avl_depth
<1>4. c \in T /\ c \in Nodes /\ c # p /\ c # n /\ m[c].parent = n
  <2>1. c \in T /\ c \in D[n] /\ c # n /\ m[c].parent = n
    BY <1>1, <1>3, Kid
  <2>2. p # NULL => p \notin D[n]
    BY Parent
  <2>3. QED
    BY <1>1, <1>3, <2>1, <2>2
<1>5. Turned(m, M, n, up, down) /\ Remeasured(m, M, T, n, up, down)
  BY <1>3, RotateEffect, RotateMeasures
<1>6. M \in Mem /\ M[c].parent = p
  BY <1>5 DEF Turned
<1> DEFINE x == Dep(m, c, up)
           y == Dep(m, c, down)
           l == Dep(m, n, up)
           r == Dep(m, n, down)
<1> HIDE DEF M
<1>7. /\ M[n].depth = 1 + Larger(y, r) /\ M[c].depth = 1 + Larger(M[n].depth, x)
      /\ Dep(M, n, up) = y /\ Dep(M, n, down) = r /\ Dep(M, c, up) = x /\ Dep(M, c, down) = M[n].depth
      /\ CntAt(M, n, up, down) /\ CntAt(M, c, up, down)
      /\ \A a \in T \ {n, c, p} : Same(m, M, a)
      /\ p # NULL => /\ M[p].parent = m[p].parent /\ M[p].depth = m[p].depth
                     /\ \A s \in Sides : IF m[p][s] = n THEN M[p][s] = c
                                         ELSE M[p][s] = m[p][s] /\ Dep(M, p, s) = Dep(m, p, s)
  BY <1>5 DEF Remeasured
<1>8. x \in Nat /\ y \in Nat /\ l = 1 + Larger(x, y) /\ x - y \in -1..1
  <2>1. LocalAt(m, c)
    BY <1>4
  <2>2. m[c].depth = 1 + Larger(x, y) /\ x - y \in -1..1
    BY <1>1, <1>4, <2>1, LocalSides
  <2>3. l = m[c].depth
    BY <1>3 DEF Dep, avl_depth
  <2>4. x \in Nat /\ y \in Nat
    BY <1>1, <1>4, DepType
  <2>5. QED
    BY <2>2, <2>3, <2>4
<1>9. y - r \in -1..1 /\ x - M[n].depth \in -1..1 /\ M[c].depth = 1 + Larger(x, M[n].depth)
      /\ M[c].depth - l \in 0..1
  <2>1. ~(x < y) /\ l = r + 2 /\ l \in Nat /\ r \in Nat
    BY <1>2
  <2> DEFINE d == M[n].depth
             e == M[c].depth
  <2>2. d = 1 + Larger(y, r) /\ e = 1 + Larger(d, x)
    BY <1>7
  <2> HIDE DEF x, y, l, r, d, e
  <2>3. y - r \in -1..1 /\ x - d \in -1..1 /\ e = 1 + Larger(x, d) /\ e - l \in 0..1
    BY <1>8, <2>1, <2>2, SingleDepths
  <2>4. QED
    BY <2>3 DEF d, e
<1>10. LocalAt(M, n) /\ LocalAt(M, c)
  <2>1. LocalAt(M, n)
    BY <1>1, <1>6, <1>7, <1>9, LocalSides DEF CntAt
  <2>2. LocalAt(M, c)
    BY <1>4, <1>6, <1>7, <1>9, LocalSides DEF CntAt
  <2>3. QED
    BY <2>1, <2>2
<1>11. \A a \in T \ {p} : LocalAt(M, a)
  BY <1>7, <1>10, SameLocal
<1>12. Lifted(m, M, T, n, c)
  BY <1>4, <1>6, <1>7, <1>11 DEF Lifted
<1>13. QED
  BY <1>9, <1>12 DEF M

\* The inner child is turned out of the way first: the memory between the rotations.
LEMMA InnerLink ==
  ASSUME NEW m, NEW root, NEW T, NEW D, NEW sc, Shape(m, root, T, D, sc),
         NEW n \in T, NEW up, NEW down, Opposite(up, down),
         m[n][up] # NULL, m[m[n][up]][down] # NULL
  PROVE  Rotated(m, m[n][up], down, up) =
           [Rotate(m, m[n][up], down, up).mem EXCEPT ![n][up] = Rotate(m, m[n][up], down, up).node]
<1> DEFINE c == m[n][up]
           g == m[c][down]
           w == Rotate(m, c, down, up).mem
           M == Rotated(m, c, down, up)
<1>1. /\ T \subseteq Nodes /\ NULL \notin T /\ n \in Nodes /\ m \in Mem /\ up \in Sides /\ down \in Sides
      /\ up # down /\ Opposite(down, up) /\ sc \in [Nodes -> Int] /\ D \in [T -> SUBSET T]
      /\ "left" \in Sides /\ "left" # "right"
  BY AVLAssumption DEF Shape, Opposite, Sides
<1>2. c \in T /\ c # n /\ m[c].parent = n /\ c # NULL /\ D[c] = {b \in D[n] : On(sc, up, n, b)}
  BY <1>1, Kid
<1>3. g \in T /\ g # n /\ g # m[n][down] /\ c # m[n][down] /\ g \in D[c] /\ g # c
  <2>1. g \in T /\ g \in D[c] /\ g # c /\ n \notin D[c]
    BY <1>1, <1>2, Kid
  <2>2. On(sc, up, n, g) /\ On(sc, up, n, c)
    BY <1>1, <1>2, <2>1, Kid
  <2>3. m[n][down] # NULL => On(sc, down, n, m[n][down])
    BY <1>1, Kid
  <2>4. ~On(sc, down, n, g) /\ ~On(sc, down, n, c)
    BY <1>1, <1>2, <2>1, <2>2, OnOrder
  <2>5. QED
    BY <1>1, <1>2, <2>1, <2>3, <2>4
<1>4. Rotate(m, c, down, up).node = g /\ w \in Mem /\ Turned(m, M, c, down, up)
  BY <1>1, <1>2, RotateEffect
<1>5. M[n][up] = g /\ M[n][down] = m[n][down] /\ M \in Mem
  <2> HIDE DEF M
  <2>1. QED
    BY <1>1, <1>2, <1>3, <1>4 DEF Turned
<1>6. M = Relink(w, n, c, g)
  BY <1>1, <1>2, <1>4 DEF Rotated
<1> HIDE DEF M, w, g, c
<1>7. M = [w EXCEPT ![n][up] = g]
  <2>1. CASE w[n].left = c
    <3>1. M = [w EXCEPT ![n].left = g]
      BY <1>6, <2>1 DEF Relink
    <3>2. M[n].left = g
      BY <1>1, <1>4, <3>1, LinkEffect
    <3>3. up = "left"
      BY <1>1, <1>3, <1>5, <3>2 DEF Sides
    <3>4. QED
      BY <3>1, <3>3
  <2>2. CASE w[n].left # c
    <3>1. M = [w EXCEPT ![n].right = g]
      BY <1>6, <2>2 DEF Relink
    <3>2. M[n].right = g
      <4>1. "right" \in Sides /\ n \in Nodes /\ w \in Mem /\ g \in Nodes
        BY <1>1, <1>3, <1>4 DEF Sides
      <4>2. M = [w EXCEPT ![n]["right"] = g]
        BY <3>1
      <4>3. M[n]["right"] = g
        BY <4>1, <4>2, LinkEffect
      <4>4. QED
        BY <4>3
    <3>3. up = "right"
      BY <1>1, <1>3, <1>5, <3>2 DEF Sides
    <3>4. QED
      BY <3>1, <3>3, Zenon
  <2>3. QED
    BY <2>1, <2>2
<1>8. QED
  BY <1>4, <1>7 DEF M, w, g, c

\* Two rotations put right a node that is two deeper on its inner side.
LEMMA DoubleStep ==
  ASSUME NEW m, NEW root, NEW T, NEW D, NEW sc, Shape(m, root, T, D, sc),
         NEW n \in T, NEW up, NEW down, Opposite(up, down),
         \A a \in T \ {n, m[n].parent} : LocalAt(m, a),
         Dep(m, n, up) = Dep(m, n, down) + 2,
         Dep(m, m[n][up], up) < Dep(m, m[n][up], down)
  PROVE  LET c == m[n][up]
             g == m[c][down]
             u == Rotated(m, c, down, up)
             M == Rotated(u, n, up, down)
         IN  /\ c # NULL /\ g # NULL /\ u[n][up] = g /\ u[n].parent = m[n].parent
             /\ \E E : Shape(u, root, T, E, sc)
             /\ Lifted(m, M, T, n, g) /\ M[g].depth - Dep(m, n, up) \in 0..1
<1> DEFINE c == m[n][up]
           g == m[c][down]
           p == m[n].parent
           u == Rotated(m, c, down, up)
           M == Rotated(u, n, up, down)
           x == Dep(m, c, up)
           y == Dep(m, c, down)
           l == Dep(m, n, up)
           r == Dep(m, n, down)
           i == Dep(m, g, up)
           j == Dep(m, g, down)
<1>1. /\ T \subseteq Nodes /\ NULL \notin T /\ n \in Nodes /\ m \in Mem /\ up \in Sides /\ down \in Sides
      /\ up # down /\ Opposite(down, up) /\ Sides = {up, down} /\ D \in [T -> SUBSET T]
  BY AVLAssumption DEF Shape, Opposite, Sides
<1>2. l \in Nat /\ r \in Nat
  BY <1>1, DepType
<1>3. c # NULL
  <2>1. Dep(m, n, up) # 0
    BY <1>2
  <2>2. QED
    BY <2>1 DEF Dep, avl_depth
<1>4. c \in T /\ c \in Nodes /\ c # p /\ c # n /\ m[c].parent = n /\ c \in D[n] /\ n \notin D[c]
      /\ D[c] \subseteq D[n]
  <2>1. c \in T /\ c \in D[n] /\ c # n /\ m[c].parent = n /\ n \notin D[c] /\ D[c] \subseteq D[n]
    BY <1>1, <1>3, Kid
  <2>2. p # NULL => p \notin D[n]
    BY Parent
  <2>3. QED
    BY <1>1, <1>3, <2>1, <2>2
<1>5. x \in Nat /\ y \in Nat /\ l = 1 + Larger(x, y) /\ x - y \in -1..1
  <2>1. LocalAt(m, c)
    BY <1>4
  <2>2. m[c].depth = 1 + Larger(x, y) /\ x - y \in -1..1
    BY <1>1, <1>4, <2>1, LocalSides
  <2>3. l = m[c].depth
    BY <1>3 DEF Dep, avl_depth
  <2>4. x \in Nat /\ y \in Nat
    BY <1>1, <1>4, DepType
  <2>5. QED
    BY <2>2, <2>3, <2>4
<1>6. g # NULL
  <2>1. Dep(m, c, down) # 0
    BY <1>5
  <2>2. QED
    BY <2>1 DEF Dep, avl_depth
<1>7. g \in T /\ g \in Nodes /\ g # c /\ g # n /\ g # p
  <2>1. g \in T /\ g \in D[c] /\ g # c
    BY <1>1, <1>4, <1>6, Kid
  <2>2. p # NULL => p \notin D[n]
    BY Parent
  <2>3. QED
    BY <1>1, <1>4, <1>6, <2>1, <2>2
<1>8. i \in Nat /\ j \in Nat /\ y = 1 + Larger(i, j) /\ i - j \in -1..1
  <2>1. LocalAt(m, g)
    BY <1>7
  <2>2. m[g].depth = 1 + Larger(i, j) /\ i - j \in -1..1
    BY <1>1, <1>7, <2>1, LocalSides
  <2>3. y = m[g].depth
    BY <1>6 DEF Dep, avl_depth
  <2>4. i \in Nat /\ j \in Nat
    BY <1>1, <1>7, DepType
  <2>5. QED
    BY <2>2, <2>3, <2>4
<1>9. Turned(m, u, c, down, up) /\ Remeasured(m, u, T, c, down, up)
  BY <1>1, <1>4, <1>6, RotateEffect, RotateMeasures
<1>10. u \in Mem
  BY <1>9 DEF Turned
<1>11. PICK E : Shape(u, root, T, E, sc)
  <2>1. m[c].parent # NULL
    BY <1>1, <1>4
  <2>2. \E E : Shape(u, IF m[c].parent = NULL THEN g ELSE root, T, E, sc)
    BY <1>1, <1>4, <1>6, <1>9, RotateShape
  <2>3. QED
    BY <2>1, <2>2
<1> HIDE DEF u
<1>12. /\ u[c].depth = 1 + Larger(i, x)
       /\ Dep(u, c, down) = i /\ Dep(u, c, up) = x /\ Dep(u, g, down) = j /\ Dep(u, g, up) = u[c].depth
       /\ CntAt(u, c, down, up)
       /\ \A a \in T \ {c, g, n} : Same(m, u, a)
       /\ u[n].parent = p
       /\ \A s \in Sides : IF m[n][s] = c THEN u[n][s] = g
                           ELSE u[n][s] = m[n][s] /\ Dep(u, n, s) = Dep(m, n, s)
  BY <1>1, <1>4, <1>9 DEF Remeasured
<1>13. u[n][up] = g /\ Dep(u, n, down) = r
  <2>1. m[n][down] # c
    <3>0. sc \in [Nodes -> Int]
      BY DEF Shape
    <3>1. On(sc, up, n, c)
      BY <1>1, <1>3, Kid
    <3>2. m[n][down] # NULL => On(sc, down, n, m[n][down])
      BY <1>1, Kid
    <3>3. ~On(sc, down, n, c)
      BY <1>1, <1>4, <3>0, <3>1, OnOrder
    <3>4. QED
      BY <1>3, <3>2, <3>3
  <2>2. QED
    BY <1>1, <1>12, <2>1
<1>14. Turned(u, M, n, up, down) /\ Remeasured(u, M, T, n, up, down)
  BY <1>6, <1>11, <1>13, RotateEffect, RotateMeasures
<1>15. M \in Mem /\ M[g].parent = p
  BY <1>12, <1>13, <1>14 DEF Turned
<1> HIDE DEF M
<1>16. /\ M[n].depth = 1 + Larger(j, r) /\ M[g].depth = 1 + Larger(M[n].depth, u[c].depth)
       /\ Dep(M, n, up) = j /\ Dep(M, n, down) = r /\ Dep(M, g, up) = u[c].depth /\ Dep(M, g, down) = M[n].depth
       /\ CntAt(M, n, up, down) /\ CntAt(M, g, up, down)
       /\ \A a \in T \ {n, g, p} : Same(u, M, a)
       /\ p # NULL => /\ M[p].parent = u[p].parent /\ M[p].depth = u[p].depth
                      /\ \A s \in Sides : IF u[p][s] = n THEN M[p][s] = g
                                          ELSE M[p][s] = u[p][s] /\ Dep(M, p, s) = Dep(u, p, s)
  BY <1>12, <1>13, <1>14 DEF Remeasured
<1>17. /\ i - x \in -1..1 /\ j - r \in -1..1 /\ u[c].depth - M[n].depth \in -1..1
       /\ M[g].depth = 1 + Larger(u[c].depth, M[n].depth) /\ M[g].depth - l \in 0..1
  <2>1. x < y /\ l = r + 2
    OBVIOUS
  <2> DEFINE d == u[c].depth
             e == M[n].depth
             f == M[g].depth
  <2>2. d = 1 + Larger(i, x) /\ e = 1 + Larger(j, r) /\ f = 1 + Larger(e, d)
    BY <1>12, <1>16
  <2> HIDE DEF x, y, l, r, i, j, d, e, f
  <2>3. /\ x \in Nat /\ y \in Nat /\ l \in Nat /\ r \in Nat /\ i \in Nat /\ j \in Nat
        /\ l = 1 + Larger(x, y) /\ x - y \in -1..1 /\ y = 1 + Larger(i, j) /\ i - j \in -1..1
    BY <1>2, <1>5, <1>8
  <2>4. i - x \in -1..1 /\ j - r \in -1..1 /\ d - e \in -1..1 /\ f = 1 + Larger(d, e) /\ f - l \in 0..1
    <3>1. x = r /\ y = r + 1
      BY <2>1, <2>3 DEF Larger
    <3>2. i <= r /\ j <= r /\ i >= r - 1 /\ j >= r - 1
      BY <2>3, <3>1 DEF Larger
    <3>3. d = 1 + r /\ e = 1 + r
      BY <2>2, <2>3, <3>1, <3>2 DEF Larger
    <3>4. f = r + 2 /\ l = r + 2
      BY <2>1, <2>2, <2>3, <3>3 DEF Larger
    <3>5. QED
      BY <2>3, <3>1, <3>2, <3>3, <3>4 DEF Larger
  <2>5. QED
    BY <2>4 DEF d, e, f
<1>18. LocalAt(M, n) /\ LocalAt(M, g) /\ LocalAt(M, c)
  <2>1. LocalAt(M, n)
    <3>1. /\ M[n].depth = 1 + Larger(Dep(M, n, up), Dep(M, n, down))
          /\ Dep(M, n, up) - Dep(M, n, down) \in -1..1
          /\ M[n].cnt = 1 + avl_cnt(M, M[n][up]) + avl_cnt(M, M[n][down])
      BY <1>16, <1>17 DEF CntAt
    <3>2. QED
      BY <1>1, <1>15, <3>1, LocalSides
  <2>2. LocalAt(M, g)
    <3>1. /\ M[g].depth = 1 + Larger(Dep(M, g, up), Dep(M, g, down))
          /\ Dep(M, g, up) - Dep(M, g, down) \in -1..1
          /\ M[g].cnt = 1 + avl_cnt(M, M[g][up]) + avl_cnt(M, M[g][down])
      BY <1>16, <1>17 DEF CntAt
    <3> HIDE DEF g
    <3>2. QED
      BY <1>7, <1>15, <3>1, LocalSides
  <2>3. LocalAt(u, c)
    BY <1>1, <1>4, <1>10, <1>12, <1>17, LocalSides DEF CntAt
  <2>4. LocalAt(M, c)
    BY <1>4, <1>7, <1>16, <2>3, SameLocal
  <2>5. QED
    BY <2>1, <2>2, <2>4
<1>19. ASSUME NEW a \in T \ {p} PROVE LocalAt(M, a)
  <2>1. CASE a \in {n, g, c}
    BY <1>18, <2>1
  <2>2. CASE a \notin {n, g, c}
    <3>1. LocalAt(u, a)
      BY <1>12, <2>2, SameLocal
    <3>2. QED
      BY <1>16, <2>2, <3>1, SameLocal
  <2>3. QED
    BY <2>1, <2>2
<1>20. ASSUME p # NULL
       PROVE  /\ M[p].parent = m[p].parent /\ M[p].depth = m[p].depth
              /\ \A s \in Sides : IF m[p][s] = n THEN M[p][s] = g
                                  ELSE M[p][s] = m[p][s] /\ Dep(M, p, s) = Dep(m, p, s)
  <2>1. p \in T /\ p # n
    <3>1. p \in T /\ p \notin D[n]
      BY <1>20, Parent
    <3>2. n \in D[n]
      BY DEF Shape
    <3>3. QED
      BY <3>1, <3>2
  <2>2. Same(m, u, p)
    BY <1>4, <1>7, <1>12, <2>1
  <2>3. u[p].parent = m[p].parent
    <3>1. p \in Nodes
      BY <1>1, <2>1
    <3>2. p # m[g][up]
      <4>1. m[g][up] # NULL => m[g][up] \in D[g]
        BY <1>1, <1>7, Kid
      <4>2. D[g] \subseteq D[c]
        BY <1>1, <1>4, <1>6, Kid
      <4>3. p \notin D[n]
        BY <1>20, Parent
      <4>4. QED
        BY <1>4, <1>20, <4>1, <4>2, <4>3
    <3>3. QED
      BY <1>4, <1>7, <1>9, <3>1, <3>2 DEF Turned
  <2>4. QED
    BY <1>16, <1>20, <2>2, <2>3 DEF Same
<1>21. Lifted(m, M, T, n, g)
  BY <1>7, <1>15, <1>19, <1>20 DEF Lifted
<1>22. QED
  BY <1>3, <1>6, <1>11, <1>12, <1>13, <1>17, <1>21 DEF M, u

\* avl_fix_left and avl_fix_right (avl.cpp:57-70) put right a node that is two deeper on one side.
LEMMA ShortenStep ==
  ASSUME NEW m, NEW root, NEW T, NEW D, NEW sc, Shape(m, root, T, D, sc),
         NEW n \in T, NEW up, NEW down, Opposite(up, down),
         \A a \in T \ {n, m[n].parent} : LocalAt(m, a),
         Dep(m, n, up) = Dep(m, n, down) + 2
  PROVE  LET r == Shorten(m, n, up, down)
             M == Linked(r, m, n)
         IN  /\ \E E : Shape(M, IF m[n].parent = NULL THEN r.node ELSE root, T, E, sc)
             /\ Lifted(m, M, T, n, r.node) /\ M[r.node].depth - Dep(m, n, up) \in 0..1
<1> DEFINE c == m[n][up]
           inner == Rotate(m, c, down, up)
<1>1. CASE Dep(m, c, up) < Dep(m, c, down)
  <2> DEFINE g == m[c][down]
             u == Rotated(m, c, down, up)
             M == Rotated(u, n, up, down)
  <2>1. /\ c # NULL /\ g # NULL /\ u[n][up] = g /\ u[n].parent = m[n].parent
        /\ \E E : Shape(u, root, T, E, sc)
        /\ Lifted(m, M, T, n, g) /\ M[g].depth - Dep(m, n, up) \in 0..1
    BY <1>1, DoubleStep
  <2>2. [inner.mem EXCEPT ![n][up] = inner.node] = u
    <3>1. m[n][up] # NULL /\ m[m[n][up]][down] # NULL
      BY <2>1
    <3>2. QED
      BY <3>1, InnerLink
  <2>3. Shorten(m, n, up, down) = Rotate(u, n, up, down)
    BY <1>1, <2>2 DEF Shorten, Dep
  <2>4. PICK E : Shape(u, root, T, E, sc)
    BY <2>1
  <2> HIDE DEF u
  <2>5. Rotate(u, n, up, down).node = g /\ Turned(u, M, n, up, down)
    BY <2>1, <2>4, RotateEffect
  <2>6. \E F : Shape(M, IF u[n].parent = NULL THEN g ELSE root, T, F, sc)
    BY <2>1, <2>4, <2>5, RotateShape
  <2>7. Linked(Shorten(m, n, up, down), m, n) = M
    BY <2>1, <2>3 DEF Linked, Rotated
  <2>8. QED
    BY <2>1, <2>3, <2>5, <2>6, <2>7
<1>2. CASE ~(Dep(m, c, up) < Dep(m, c, down))
  <2> DEFINE M == Rotated(m, n, up, down)
  <2>1. Shorten(m, n, up, down) = Rotate(m, n, up, down)
    BY <1>2 DEF Shorten, Dep
  <2>2. Lifted(m, M, T, n, c) /\ M[c].depth - Dep(m, n, up) \in 0..1
    BY <1>2, SingleStep
  <2>3. c # NULL
    BY <2>2, AVLAssumption DEF Lifted, Shape
  <2>4. Rotate(m, n, up, down).node = c /\ Turned(m, M, n, up, down)
    BY <2>3, RotateEffect
  <2>5. \E E : Shape(M, IF m[n].parent = NULL THEN c ELSE root, T, E, sc)
    BY <2>3, <2>4, RotateShape
  <2>6. Linked(Shorten(m, n, up, down), m, n) = M
    BY <2>1 DEF Linked, Rotated
  <2>7. QED
    BY <2>1, <2>2, <2>4, <2>5, <2>6
<1>3. QED
  BY <1>1, <1>2

\* avl_update changes what n carries, and nothing else.
LEMMA UpdateMeasures ==
  ASSUME NEW m, NEW root, NEW T, NEW D, NEW sc, Shape(m, root, T, D, sc), NEW n \in T
  PROVE  LET u == avl_update(m, n)
             p == m[n].parent
         IN  /\ u \in Mem /\ Shape(u, root, T, D, sc) /\ \A a \in T : u[a].parent = m[a].parent
             /\ u[n].depth = 1 + Larger(Dep(m, n, "left"), Dep(m, n, "right"))
             /\ CntAt(u, n, "left", "right")
             /\ \A s \in Sides : u[n][s] = m[n][s] /\ Dep(u, n, s) = Dep(m, n, s)
             /\ \A a \in T \ {n, p} : Same(m, u, a)
             /\ p # NULL => /\ p \in T /\ p # n /\ u[p].depth = m[p].depth
                            /\ \A s \in Sides : /\ u[p][s] = m[p][s]
                                                /\ m[p][s] # n => Dep(u, p, s) = Dep(m, p, s)
<1> DEFINE u == avl_update(m, n)
           p == m[n].parent
<1>1. /\ T \subseteq Nodes /\ NULL \notin T /\ n \in Nodes /\ m \in Mem
      /\ Sides = {"left", "right"} /\ "left" \in Sides /\ "right" \in Sides
  BY AVLAssumption DEF Shape, Sides
<1>2. Updated(m, u, n)
  BY <1>1, UpdateEffect
<1> HIDE DEF u
<1>3. /\ u \in Mem
      /\ \A a \in Nodes \ {n} : u[a] = m[a]
      /\ \A s \in Sides : u[n][s] = m[n][s]
      /\ u[n].parent = m[n].parent
      /\ u[n].depth = 1 + Larger(avl_depth(m, m[n].left), avl_depth(m, m[n].right))
      /\ u[n].cnt = 1 + avl_cnt(m, m[n].left) + avl_cnt(m, m[n].right)
  BY <1>2 DEF Updated
<1>4. \A a \in Nodes \cup {NULL} : a # n => avl_depth(u, a) = avl_depth(m, a) /\ avl_cnt(u, a) = avl_cnt(m, a)
  BY <1>3 DEF avl_depth, avl_cnt
<1>5. ASSUME NEW a \in T, NEW s \in Sides, m[a][s] # n
      PROVE  u[a][s] = m[a][s] /\ Dep(u, a, s) = Dep(m, a, s) /\ avl_cnt(u, u[a][s]) = avl_cnt(m, m[a][s])
  <2>1. a \in Nodes /\ m[a][s] \in Nodes \cup {NULL}
    BY <1>1, LinkType
  <2>2. u[a][s] = m[a][s]
    BY <1>3, <2>1
  <2>3. QED
    BY <1>4, <1>5, <2>1, <2>2 DEF Dep
<1>6. \A s \in Sides : m[n][s] # n
  BY <1>1, Kid
<1>7. \A a \in T : u[a].parent = m[a].parent /\ \A s \in Sides : u[a][s] = m[a][s]
  BY <1>1, <1>3
<1>8. Shape(u, root, T, D, sc)
  BY <1>3, <1>7, ShapeMemory
<1>9. CntAt(u, n, "left", "right")
  <2>1. avl_cnt(u, u[n]["left"]) = avl_cnt(m, m[n].left) /\ avl_cnt(u, u[n]["right"]) = avl_cnt(m, m[n].right)
    BY <1>1, <1>5, <1>6
  <2>2. QED
    BY <1>3, <2>1 DEF CntAt
<1>10. u[n].depth = 1 + Larger(Dep(m, n, "left"), Dep(m, n, "right"))
  BY <1>3 DEF Dep
<1>11. ASSUME NEW a \in T \ {n, p} PROVE Same(m, u, a)
  <2>1. \A s \in Sides : m[a][s] # n
    BY <1>1, Kid
  <2>2. u[a].depth = m[a].depth /\ u[a].cnt = m[a].cnt
    BY <1>1, <1>3
  <2>3. QED
    BY <1>5, <2>1, <2>2 DEF Same
<1>12. ASSUME p # NULL
       PROVE  /\ p \in T /\ p # n /\ u[p].depth = m[p].depth
              /\ \A s \in Sides : u[p][s] = m[p][s] /\ (m[p][s] # n => Dep(u, p, s) = Dep(m, p, s))
  <2>1. p \in T /\ p \notin D[n]
    BY <1>12, Parent
  <2>2. n \in D[n]
    BY DEF Shape
  <2>3. p \in Nodes /\ p # n
    BY <1>1, <2>1, <2>2
  <2>4. u[p].depth = m[p].depth
    BY <1>3, <2>3
  <2>5. QED
    BY <1>5, <1>7, <2>1, <2>3, <2>4
<1>13. QED
  BY <1>3, <1>5, <1>6, <1>7, <1>8, <1>9, <1>10, <1>11, <1>12 DEF u

\* Below p, n was e deep; its subtree is now f deep.
LEMMA AscendDepths ==
  ASSUME NEW e \in Nat, NEW f \in Nat, NEW o \in Nat, f - e \in -1..1, e - o \in -1..1
  PROVE  Mendable(f, o, 1 + Larger(e, o)) /\ Mendable(o, f, 1 + Larger(e, o))
<1>1. CASE e = o
  BY <1>1 DEF Mendable, Larger
<1>2. CASE e = o + 1
  <2>1. f = o \/ f = o + 1 \/ f = o + 2
    BY <1>2
  <2>2. QED
    BY <1>2, <2>1 DEF Mendable, Larger
<1>3. CASE o = e + 1
  <2>1. f = o \/ f = o - 1 \/ f = o - 2
    BY <1>3
  <2>2. QED
    BY <1>3, <2>1 DEF Mendable, Larger
<1>4. QED
  BY <1>1, <1>2, <1>3

\* What is above a node below a node that is right.
LEMMA BelowLocal ==
  ASSUME NEW m, NEW root, NEW T, NEW D, NEW sc, Shape(m, root, T, D, sc), NEW p \in T,
         m[p].parent # NULL, LocalAt(m, m[p].parent)
  PROVE  WasLocal(m, m[p].parent, p, m[p].depth)
<1> DEFINE q == m[p].parent
<1>1. q \in T /\ p # NULL /\ q \in Nodes /\ m \in Mem
  BY Parent, AVLAssumption DEF Shape
<1>2. ASSUME NEW a \in Sides, NEW b \in Sides, a # b, m[q][a] = p
      PROVE  m[q].depth = 1 + Larger(m[p].depth, Dep(m, q, b)) /\ m[p].depth - Dep(m, q, b) \in -1..1
  <2>1. m[q].depth = 1 + Larger(Dep(m, q, a), Dep(m, q, b)) /\ Dep(m, q, a) - Dep(m, q, b) \in -1..1
    BY <1>1, <1>2, LocalSides DEF Opposite
  <2>2. Dep(m, q, a) = m[p].depth
    BY <1>1, <1>2 DEF Dep, avl_depth
  <2>3. QED
    BY <2>1, <2>2
<1>3. QED
  BY <1>2 DEF WasLocal

\* The subtree of n is right; what is left to do is at its parent.
LEMMA Ascend ==
  ASSUME NEW m, NEW root, NEW T, NEW D, NEW sc, Shape(m, root, T, D, sc), NEW n \in T, NEW e \in Nat,
         NEW M, NEW top, NEW E, Shape(M, top, T, E, sc), NEW t, Lifted(m, M, T, n, t),
         m[n].parent # NULL, WasLocal(m, m[n].parent, n, e), M[t].depth - e \in -1..1
  PROVE  Mending(M, T, m[n].parent, m[m[n].parent].depth)
<1> DEFINE p == m[n].parent
           f == M[t].depth
<1>1. /\ T \subseteq Nodes /\ NULL \notin T /\ m \in Mem /\ M \in Mem /\ n \in Nodes
      /\ Sides = {"left", "right"}
  BY AVLAssumption DEF Shape, Sides
<1>2. /\ t \in T /\ M[t].parent = p
      /\ \A a \in T \ {p} : LocalAt(M, a)
      /\ M[p].parent = m[p].parent /\ M[p].depth = m[p].depth
      /\ \A s \in Sides : IF m[p][s] = n THEN M[p][s] = t
                          ELSE M[p][s] = m[p][s] /\ Dep(M, p, s) = Dep(m, p, s)
  BY DEF Lifted
<1>3. p \in T /\ p \in Nodes /\ t \in Nodes /\ t # NULL
  BY <1>1, <1>2, Parent
<1>4. PICK s \in Sides : m[p][s] = n /\ \A o \in Sides : o # s => m[p][o] # n
  BY Parent
<1>5. PICK o \in Sides : o # s
  BY <1>1
<1>6. f \in Nat /\ Dep(M, p, s) = f /\ Dep(M, p, o) = Dep(m, p, o) /\ Dep(m, p, o) \in Nat /\ m[p].depth \in Nat
  <2>1. M[p][s] = t /\ Dep(M, p, o) = Dep(m, p, o)
    BY <1>2, <1>4, <1>5
  <2>2. Dep(M, p, s) = f
    BY <1>3, <2>1 DEF Dep, avl_depth
  <2>3. f \in Nat /\ Dep(m, p, o) \in Nat /\ m[p].depth \in Nat
    BY <1>1, <1>3, LinkType, DepType
  <2>4. QED
    BY <2>1, <2>2, <2>3
<1>7. m[p].depth = 1 + Larger(e, Dep(m, p, o)) /\ e - Dep(m, p, o) \in -1..1
  BY <1>4, <1>5 DEF WasLocal
<1>8. Mendable(Dep(M, p, "left"), Dep(M, p, "right"), m[p].depth)
  <2>1. Mendable(f, Dep(m, p, o), m[p].depth) /\ Mendable(Dep(m, p, o), f, m[p].depth)
    <3> DEFINE k == Dep(m, p, o)
    <3>1. f \in Nat /\ k \in Nat /\ e - k \in -1..1 /\ f - e \in -1..1
      BY <1>6, <1>7
    <3>2. m[p].depth = 1 + Larger(e, k)
      BY <1>7
    <3> HIDE DEF f, k
    <3>3. Mendable(f, k, 1 + Larger(e, k)) /\ Mendable(k, f, 1 + Larger(e, k))
      BY <3>1, AscendDepths
    <3>4. QED
      BY <3>2, <3>3 DEF k
  <2>2. (s = "left" /\ o = "right") \/ (s = "right" /\ o = "left")
    BY <1>1, <1>5
  <2>3. QED
    BY <1>6, <2>1, <2>2
<1>9. ASSUME M[p].parent # NULL PROVE WasLocal(M, M[p].parent, p, m[p].depth)
  <2>1. M[p].parent \in T /\ M[p].parent # p
    <3>1. M[p].parent \in T /\ M[p].parent \notin E[p]
      BY <1>3, <1>9, Parent
    <3>2. p \in E[p]
      BY <1>3 DEF Shape
    <3>3. QED
      BY <3>1, <3>2
  <2>2. LocalAt(M, M[p].parent) /\ M[p].depth = m[p].depth
    BY <1>2, <2>1
  <2>3. WasLocal(M, M[p].parent, p, M[p].depth)
    BY <1>3, <1>9, <2>2, BelowLocal
  <2>4. QED
    BY <2>2, <2>3
<1>10. QED
  BY <1>2, <1>3, <1>6, <1>8, <1>9 DEF Mending

\* What Rebalance at n and the new link from its parent p give, where n was e deep.
Fixed(m, root, T, n, sc) ==
  LET done == Rebalance(m, n)
      M == Linked(done, m, n)
      p == m[n].parent
  IN  /\ M \in Mem /\ done.node \in T
      /\ \E E : Shape(M, IF p = NULL THEN done.node ELSE root, T, E, sc)
      /\ IF p = NULL THEN \A a \in T : LocalAt(M, a) ELSE Mending(M, T, p, m[p].depth)

\* Once the subtree of n, which is t's now, has been put right.
LEMMA FixUp ==
  ASSUME NEW m, NEW root, NEW T, NEW D, NEW sc, Shape(m, root, T, D, sc),
         NEW n, NEW e, Mending(m, T, n, e),
         NEW M, NEW t, Lifted(m, M, T, n, t), M[t].depth - e \in -1..1,
         \E E : Shape(M, IF m[n].parent = NULL THEN t ELSE root, T, E, sc),
         Rebalance(m, n).node = t, Linked(Rebalance(m, n), m, n) = M
  PROVE  Fixed(m, root, T, n, sc)
<1> DEFINE p == m[n].parent
<1>1. n \in T /\ e \in Nat /\ (p # NULL => WasLocal(m, p, n, e)) /\ NULL \notin T
  BY AVLAssumption DEF Mending, Shape
<1>2. M \in Mem /\ t \in T
  BY DEF Lifted
<1>3. p = NULL => \A a \in T : LocalAt(M, a)
  BY <1>1 DEF Lifted
<1>4. p # NULL => Mending(M, T, p, m[p].depth)
  BY <1>1, Ascend
<1>5. QED
  BY <1>2, <1>3, <1>4 DEF Fixed

\* One iteration of avl_fix (avl.cpp:73-102): the subtree is right, and its parent is next.
LEMMA FixStep ==
  ASSUME NEW m, NEW root, NEW T, NEW D, NEW sc, Shape(m, root, T, D, sc),
         NEW n, NEW e, Mending(m, T, n, e)
  PROVE  Fixed(m, root, T, n, sc)
<1> DEFINE p == m[n].parent
           u == avl_update(m, n)
           l == Dep(m, n, "left")
           r == Dep(m, n, "right")
<1>1. /\ n \in T /\ e \in Nat /\ \A a \in T \ {n, p} : LocalAt(m, a)
      /\ Mendable(l, r, e)
  BY DEF Mending
<1>2. /\ T \subseteq Nodes /\ NULL \notin T /\ n \in Nodes /\ m \in Mem /\ n \in D[n]
      /\ "left" \in Sides /\ "right" \in Sides /\ Sides = {"left", "right"}
  BY <1>1, AVLAssumption DEF Shape, Sides
<1>3. l \in Nat /\ r \in Nat
  BY <1>2, DepType
<1>4. /\ u \in Mem /\ Shape(u, root, T, D, sc) /\ \A a \in T : u[a].parent = m[a].parent
      /\ u[n].depth = 1 + Larger(l, r)
      /\ CntAt(u, n, "left", "right")
      /\ \A s \in Sides : u[n][s] = m[n][s] /\ Dep(u, n, s) = Dep(m, n, s)
      /\ \A a \in T \ {n, p} : Same(m, u, a)
      /\ p # NULL => /\ p \in T /\ p # n /\ u[p].depth = m[p].depth
                     /\ \A s \in Sides : /\ u[p][s] = m[p][s]
                                         /\ m[p][s] # n => Dep(u, p, s) = Dep(m, p, s)
  BY <1>1, UpdateMeasures
<1> HIDE DEF u
<1>5. Dep(u, n, "left") = l /\ Dep(u, n, "right") = r /\ u[n].parent = p
  BY <1>1, <1>2, <1>4
<1>6. \A a \in T \ {n, p} : LocalAt(u, a)
  BY <1>1, <1>4, SameLocal
<1>7. ASSUME NEW M, NEW t, Lifted(u, M, T, n, t) PROVE Lifted(m, M, T, n, t)
  <2>1. /\ M \in Mem /\ t \in T /\ M[t].parent = p
        /\ \A a \in T \ {p} : LocalAt(M, a)
        /\ p # NULL => /\ M[p].parent = u[p].parent /\ M[p].depth = u[p].depth
                       /\ \A s \in Sides : IF u[p][s] = n THEN M[p][s] = t
                                           ELSE M[p][s] = u[p][s] /\ Dep(M, p, s) = Dep(u, p, s)
    BY <1>5, <1>7 DEF Lifted
  <2>2. p # NULL => /\ M[p].parent = m[p].parent /\ M[p].depth = m[p].depth
                    /\ \A s \in Sides : IF m[p][s] = n THEN M[p][s] = t
                                        ELSE M[p][s] = m[p][s] /\ Dep(M, p, s) = Dep(m, p, s)
    BY <1>4, <2>1
  <2>3. QED
    BY <2>1, <2>2 DEF Lifted
<1>8. ASSUME NEW up, NEW down, Opposite(up, down), Dep(u, n, up) = Dep(u, n, down) + 2,
             e - Dep(u, n, up) \in 0..1, Rebalance(m, n) = Shorten(u, n, up, down)
      PROVE  Fixed(m, root, T, n, sc)
  <2> DEFINE done == Shorten(u, n, up, down)
             M == Linked(done, u, n)
  <2>1. /\ \E E : Shape(M, IF p = NULL THEN done.node ELSE root, T, E, sc)
        /\ Lifted(u, M, T, n, done.node) /\ M[done.node].depth - Dep(u, n, up) \in 0..1
    BY <1>1, <1>4, <1>5, <1>6, <1>8, ShortenStep
  <2>2. Linked(done, m, n) = M
    BY <1>5 DEF Linked
  <2>3. M[done.node].depth - e \in -1..1
    <3>1. M[done.node].depth \in Nat /\ Dep(u, n, up) \in Nat
      <4>1. up \in Sides
        BY <1>8 DEF Opposite
      <4>2. M \in Mem /\ done.node \in Nodes
        BY <1>2, <2>1 DEF Lifted
      <4> HIDE DEF done, M
      <4>3. M[done.node].depth \in Nat
        BY <4>2 DEF Mem, AVLNode
      <4>4. QED
        BY <1>2, <1>4, <4>1, <4>3, DepType
    <3> HIDE DEF done, M
    <3>2. QED
      BY <1>1, <1>8, <2>1, <3>1
  <2>4. Lifted(m, M, T, n, done.node)
    BY <1>7, <2>1
  <2> HIDE DEF done, M
  <2>5. Rebalance(m, n).node = done.node /\ Linked(Rebalance(m, n), m, n) = M
    BY <1>8, <2>2 DEF done
  <2>6. QED
    BY <2>1, <2>3, <2>4, <2>5, FixUp
<1>9. Rebalance(m, n) = IF l = r + 2 THEN avl_fix_left(u, n)
                        ELSE IF l + 2 = r THEN avl_fix_right(u, n)
                        ELSE [mem |-> u, node |-> n]
  BY <1>5 DEF Rebalance, Dep, u
<1>10. CASE l = r + 2
  <2>1. Rebalance(m, n) = Shorten(u, n, "left", "right")
    BY <1>9, <1>10 DEF avl_fix_left
  <2>2. Opposite("left", "right") /\ e - l \in 0..1
    BY <1>1, <1>2, <1>3, <1>10 DEF Opposite, Mendable
  <2>3. QED
    BY <1>5, <1>8, <1>10, <2>1, <2>2
<1>11. CASE l + 2 = r
  <2>1. Rebalance(m, n) = Shorten(u, n, "right", "left")
    BY <1>3, <1>9, <1>11 DEF avl_fix_right
  <2>2. Opposite("right", "left") /\ e - r \in 0..1 /\ r = l + 2
    BY <1>1, <1>2, <1>3, <1>11 DEF Opposite, Mendable
  <2>3. QED
    BY <1>5, <1>8, <1>11, <2>1, <2>2
<1>12. CASE l # r + 2 /\ l + 2 # r
  <2>1. l - r \in -1..1 /\ 1 + Larger(l, r) - e \in -1..1
    BY <1>1, <1>3, <1>12 DEF Mendable
  <2>2. Rebalance(m, n).node = n /\ Rebalance(m, n).mem = u
    BY <1>9, <1>12
  <2>3. Linked(Rebalance(m, n), m, n) = u
    <3>1. CASE p = NULL
      BY <2>2, <3>1 DEF Linked
    <3>2. CASE p # NULL
      <4>1. Relink(u, p, n, n) = u
        <5>1. PICK s \in Sides : m[p][s] = n
          BY <1>1, <3>2, Parent
        <5>2. u[p].left = n \/ u[p].right = n
          BY <1>2, <1>4, <3>2, <5>1
        <5>3. u[p].left # n => u[p].right = n
          BY <5>2
        <5>4. p \in Nodes
          BY <1>2, <1>4, <3>2
        <5>5. QED
          BY <1>4, <5>3, <5>4 DEF Relink, Mem, AVLNode
      <4>2. QED
        BY <2>2, <3>2, <4>1 DEF Linked
    <3>3. QED
      BY <3>1, <3>2
  <2>4. LocalAt(u, n)
    <3>1. u[n].depth = 1 + Larger(l, r) /\ u[n].cnt = 1 + avl_cnt(u, u[n].left) + avl_cnt(u, u[n].right)
      BY <1>4 DEF CntAt
    <3>2. QED
      BY <1>5, <2>1, <3>1 DEF LocalAt
  <2>5. Lifted(u, u, T, n, n)
    <3>1. \A a \in T \ {p} : LocalAt(u, a)
      BY <1>6, <2>4
    <3>2. QED
      BY <1>1, <1>4, <1>5, <3>1 DEF Lifted
  <2>6. Lifted(m, u, T, n, n)
    BY <1>7, <2>5
  <2>7. Shape(u, IF m[n].parent = NULL THEN n ELSE root, T, D, sc)
    BY <1>1, <1>4, Parent
  <2>8. \E E : Shape(u, IF m[n].parent = NULL THEN n ELSE root, T, E, sc)
    BY <2>7
  <2>9. u[n].depth - e \in -1..1
    <3>1. u[n].depth = 1 + Larger(l, r)
      BY <1>4
    <3> HIDE DEF l, r
    <3>2. QED
      BY <1>1, <1>3, <2>1, <3>1 DEF Larger
  <2>10. QED
    BY <2>2, <2>3, <2>6, <2>8, <2>9, FixUp
<1>13. QED
  BY <1>10, <1>11, <1>12

-----------------------------------------------------------------------------
(* What is to be put right after an insertion or a removal *)

\* The nodes of T are in M as they are in m.
LEMMA AllLocalKept ==
  ASSUME NEW m, NEW root, NEW T, NEW D, NEW sc, Shape(m, root, T, D, sc),
         \A a \in T : LocalAt(m, a), NEW M \in Mem, \A a \in T : M[a] = m[a]
  PROVE  \A a \in T : LocalAt(M, a)
<1>1. SUFFICES ASSUME NEW a \in T PROVE LocalAt(M, a)
  OBVIOUS
<1>2. T \subseteq Nodes /\ m \in Mem
  BY DEF Shape
<1>3. \A s \in Sides : m[a][s] # NULL => m[a][s] \in T
  BY Kid
<1>4. QED
  BY <1>2, <1>3, LocalKept

\* After tree_add has attached a leaf, its parent is what is left to put right.
LEMMA AttachMending ==
  ASSUME NEW m, NEW root, NEW T, NEW D, NEW sc, Shape(m, root, T, D, sc),
         \A a \in T : LocalAt(m, a),
         NEW x \in Nodes \ T, NEW p \in T, NEW s \in Sides, m[p][s] = NULL,
         NEW M, Attached(m, M, x, p, s)
  PROVE  Mending(M, T \cup {x}, x, 0)
<1>1. /\ T \subseteq Nodes /\ NULL \notin Nodes /\ m \in Mem /\ p \in Nodes /\ p # x
      /\ Sides = {"left", "right"}
  BY AVLAssumption DEF Shape, Sides
<1>2. /\ M \in Mem /\ M[x].left = NULL /\ M[x].right = NULL /\ M[x].parent = p
      /\ \A a \in Nodes \ {x}, o \in Sides : M[a][o] = IF a = p /\ o = s THEN x ELSE m[a][o]
      /\ \A a \in Nodes : M[a].depth = m[a].depth /\ M[a].cnt = m[a].cnt
  BY DEF Attached
<1>3. \A a \in T, o \in Sides : m[a][o] # NULL => m[a][o] \in T
  BY Kid
<1>4. ASSUME NEW a \in (T \cup {x}) \ {x, p} PROVE LocalAt(M, a)
  <2>1. a \in Nodes /\ LocalAt(m, a) /\ M[a].depth = m[a].depth /\ M[a].cnt = m[a].cnt
    BY <1>1, <1>2
  <2>2. \A o \in Sides : M[a][o] = m[a][o]
    BY <1>1, <1>2
  <2>3. \A o \in Sides : m[a][o] # NULL => M[m[a][o]].depth = m[m[a][o]].depth /\ M[m[a][o]].cnt = m[m[a][o]].cnt
    BY <1>1, <1>2, <1>3
  <2>4. QED
    BY <1>1, <1>2, <2>1, <2>2, <2>3, LocalKept
<1>5. Mendable(Dep(M, x, "left"), Dep(M, x, "right"), 0)
  <2>1. Dep(M, x, "left") = 0 /\ Dep(M, x, "right") = 0
    BY <1>2 DEF Dep, avl_depth
  <2>2. QED
    BY <2>1 DEF Mendable, Larger
<1>6. ASSUME NEW a \in Sides, NEW o \in Sides, a # o, M[p][a] = x
      PROVE  M[p].depth = 1 + Larger(0, Dep(M, p, o)) /\ 0 - Dep(M, p, o) \in -1..1
  <2>1. a = s
    BY <1>1, <1>2, <1>3, <1>6
  <2>2. Dep(m, p, a) = 0
    BY <2>1 DEF Dep, avl_depth
  <2>3. M[p][o] = m[p][o] /\ M[p].depth = m[p].depth
    BY <1>1, <1>2, <1>6, <2>1
  <2>4. Dep(M, p, o) = Dep(m, p, o)
    <3>1. m[p][o] # NULL => m[p][o] \in Nodes
      BY <1>1, <1>3
    <3>2. QED
      BY <1>2, <2>3, <3>1 DEF Dep, avl_depth
  <2>5. LocalAt(m, p)
    OBVIOUS
  <2>6. m[p].depth = 1 + Larger(Dep(m, p, a), Dep(m, p, o)) /\ Dep(m, p, a) - Dep(m, p, o) \in -1..1
    BY <1>1, <1>6, <2>5, LocalSides DEF Opposite
  <2>7. QED
    BY <2>2, <2>3, <2>4, <2>6
<1>7. QED
  BY <1>2, <1>4, <1>5, <1>6 DEF Mending, WasLocal

\* A tree of one node.
LEMMA SingleMending ==
  ASSUME NEW M \in Mem, NEW x \in Nodes,
         M[x].left = NULL, M[x].right = NULL, M[x].parent = NULL
  PROVE  Mending(M, {x}, x, 0)
<1>1. Dep(M, x, "left") = 0 /\ Dep(M, x, "right") = 0
  BY DEF Dep, avl_depth
<1>2. Mendable(Dep(M, x, "left"), Dep(M, x, "right"), 0)
  BY <1>1 DEF Mendable, Larger
<1>3. QED
  BY <1>2 DEF Mending

\* Without x, the nodes are right, but for the parent of x.
LEMMA UnlinkMending ==
  ASSUME NEW m, NEW root, NEW T, NEW D, NEW sc, Shape(m, root, T, D, sc),
         \A a \in T : LocalAt(m, a),
         NEW x \in T, m[x].right = NULL, NEW M, Bypassed(m, M, x)
  PROVE  LET p == m[x].parent
         IN  IF p = NULL THEN \A a \in T \ {x} : LocalAt(M, a)
             ELSE p \in T \ {x} /\ Mending(M, T \ {x}, p, m[p].depth)
<1> DEFINE p == m[x].parent
           l == m[x].left
<1>1. /\ T \subseteq Nodes /\ NULL \notin Nodes /\ NULL \notin T /\ m \in Mem /\ x \in Nodes /\ x \in D[x]
      /\ "left" \in Sides /\ Sides = {"left", "right"}
  BY AVLAssumption DEF Shape, Sides
<1>2. /\ M \in Mem
      /\ \A a \in Nodes, s \in Sides : M[a][s] = IF a = p /\ m[a][s] = x THEN l ELSE m[a][s]
      /\ \A a \in Nodes : /\ M[a].parent = IF a = l THEN p ELSE m[a].parent
                          /\ M[a].depth = m[a].depth /\ M[a].cnt = m[a].cnt
  BY DEF Bypassed
<1>3. l # NULL => l \in T /\ m[l].parent = x /\ l # x /\ l \in D[x]
  BY <1>1, Kid
<1>4. ASSUME NEW a \in T \ {p} PROVE LocalAt(M, a)
  <2>1. \A s \in Sides : M[a][s] = m[a][s]
    BY <1>1, <1>2
  <2>2. \A s \in Sides : m[a][s] # NULL => m[a][s] \in T
    BY Kid
  <2>3. \A s \in Sides : m[a][s] # NULL => M[m[a][s]].depth = m[m[a][s]].depth /\ M[m[a][s]].cnt = m[m[a][s]].cnt
    BY <1>1, <1>2, <2>2
  <2>4. a \in Nodes /\ LocalAt(m, a) /\ M[a].depth = m[a].depth /\ M[a].cnt = m[a].cnt
    BY <1>1, <1>2
  <2>5. QED
    BY <1>1, <1>2, <2>1, <2>3, <2>4, LocalKept
<1>5. CASE p = NULL
  BY <1>1, <1>4, <1>5
<1>6. CASE p # NULL
  <2>1. p \in T /\ p \notin D[x]
    BY <1>6, Parent
  <2>2. PICK s \in Sides : m[p][s] = x /\ \A o \in Sides : o # s => m[p][o] # x
    BY <1>6, Parent
  <2>3. PICK o \in Sides : o # s
    BY <1>1
  <2>4. p \in Nodes /\ p # x /\ p # l
    BY <1>1, <1>3, <1>6, <2>1
  <2> DEFINE e == m[x].depth
             f == Dep(m, x, "left")
             k == Dep(m, p, o)
  <2>5. e \in Nat /\ f \in Nat /\ k \in Nat
    BY <1>1, <2>4, LinkType, DepType
  <2>6. Dep(M, p, s) = f
    <3>1. M[p][s] = l
      BY <1>2, <2>2, <2>4
    <3>2. l # NULL => M[l].depth = m[l].depth
      BY <1>1, <1>2, <1>3
    <3>3. QED
      BY <3>1, <3>2 DEF Dep, avl_depth
  <2>7. Dep(M, p, o) = k
    <3>1. M[p][o] = m[p][o] /\ m[p][o] \in Nodes \cup {NULL}
      BY <1>1, <1>2, <2>2, <2>3, <2>4, LinkType
    <3>2. QED
      BY <1>2, <3>1 DEF Dep, avl_depth
  <2>8. e = 1 + f
    <3>1. LocalAt(m, x)
      OBVIOUS
    <3>2. e = 1 + Larger(f, Dep(m, x, "right"))
      BY <3>1 DEF LocalAt
    <3>3. Dep(m, x, "right") = 0
      BY DEF Dep, avl_depth
    <3> HIDE DEF e, f
    <3>4. QED
      BY <2>5, <3>2, <3>3 DEF Larger
  <2>9. m[p].depth = 1 + Larger(e, k) /\ e - k \in -1..1
    <3>1. LocalAt(m, p)
      BY <2>1
    <3>2. m[p].depth = 1 + Larger(Dep(m, p, s), Dep(m, p, o)) /\ Dep(m, p, s) - Dep(m, p, o) \in -1..1
      BY <1>1, <2>3, <2>4, <3>1, LocalSides DEF Opposite
    <3>3. Dep(m, p, s) = e
      BY <1>1, <2>2 DEF Dep, avl_depth
    <3>4. QED
      BY <3>2, <3>3
  <2>10. Mendable(Dep(M, p, "left"), Dep(M, p, "right"), m[p].depth)
    <3>1. Mendable(f, k, m[p].depth) /\ Mendable(k, f, m[p].depth)
      <4> HIDE DEF e, f, k
      <4>1. f - e \in -1..1
        BY <2>5, <2>8
      <4>2. Mendable(f, k, 1 + Larger(e, k)) /\ Mendable(k, f, 1 + Larger(e, k))
        BY <2>5, <2>9, <4>1, AscendDepths
      <4>3. QED
        BY <2>9, <4>2
    <3>2. (s = "left" /\ o = "right") \/ (s = "right" /\ o = "left")
      BY <1>1, <2>3
    <3>3. QED
      BY <2>6, <2>7, <3>1, <3>2
  <2>11. M[p].parent = m[p].parent /\ M[p].depth = m[p].depth /\ m[p].depth \in Nat
    BY <1>1, <1>2, <2>4, LinkType
  <2>12. ASSUME M[p].parent # NULL PROVE WasLocal(M, M[p].parent, p, m[p].depth)
    <3> DEFINE q == m[p].parent
    <3>1. q \in T /\ q \notin D[p] /\ x \in D[p] /\ p \in D[p]
      <4>1. q \in T /\ q \notin D[p]
        BY <2>1, <2>11, <2>12, Parent
      <4>2. x \in D[p]
        BY <1>6, Parent
      <4>3. p \in D[p]
        BY <2>1 DEF Shape
      <4>4. QED
        BY <4>1, <4>2, <4>3
    <3>2. q # p /\ q # x /\ q \in T \ {x} /\ p \in T \ {x}
      BY <2>1, <2>4, <3>1
    <3>3. LocalAt(M, q)
      BY <1>4, <3>2
    <3>4. PICK E : Shape(M, root, T \ {x}, E, sc)
      <4>1. \E E : Shape(M, IF p = NULL THEN l ELSE root, T \ {x}, E, sc)
        BY UnlinkShape
      <4>2. QED
        BY <1>6, <4>1
    <3>5. WasLocal(M, M[p].parent, p, M[p].depth)
      BY <2>11, <2>12, <3>2, <3>3, <3>4, BelowLocal
    <3>6. QED
      BY <2>11, <3>5
  <2>13. \A a \in (T \ {x}) \ {p, M[p].parent} : LocalAt(M, a)
    BY <1>4
  <2>14. Mending(M, T \ {x}, p, m[p].depth)
    BY <2>1, <2>4, <2>10, <2>11, <2>12, <2>13 DEF Mending
  <2>15. QED
    BY <1>6, <2>1, <2>4, <2>14
<1>7. QED
  BY <1>5, <1>6

\* v in the place of n carries what n carried.
LEMMA ReplaceLocal ==
  ASSUME NEW m, NEW root, NEW T, NEW D, NEW sc, Shape(m, root, T, D, sc),
         \A a \in T : LocalAt(m, a),
         NEW n \in T, NEW v \in Nodes \ T, NEW M, Replaced(m, M, n, v)
  PROVE  \A a \in (T \ {n}) \cup {v} : LocalAt(M, a)
<1> DEFINE p == m[n].parent
<1>1. /\ T \subseteq Nodes /\ NULL \notin Nodes /\ NULL \notin T /\ m \in Mem /\ n \in Nodes /\ v # n
      /\ "left" \in Sides /\ "right" \in Sides /\ Sides = {"left", "right"}
  BY AVLAssumption DEF Shape, Sides
<1>2. /\ M \in Mem
      /\ M[v].parent = p /\ M[v].depth = m[n].depth /\ M[v].cnt = m[n].cnt
      /\ \A s \in Sides : M[v][s] = m[n][s]
      /\ \A a \in Nodes \ {v} : M[a].depth = m[a].depth /\ M[a].cnt = m[a].cnt
      /\ \A a \in Nodes \ {v}, s \in Sides : M[a][s] = IF a = p /\ m[a][s] = n THEN v ELSE m[a][s]
  BY DEF Replaced
<1>3. \A a \in T, s \in Sides : m[a][s] # NULL => m[a][s] \in T /\ m[m[a][s]].parent = a /\ m[a][s] # a
  BY Kid
<1>4. \A a \in Nodes : a # v => avl_depth(M, a) = avl_depth(m, a) /\ avl_cnt(M, a) = avl_cnt(m, a)
  BY <1>1, <1>2 DEF avl_depth, avl_cnt
<1>5. /\ avl_depth(M, v) = avl_depth(m, n) /\ avl_cnt(M, v) = avl_cnt(m, n)
      /\ avl_depth(M, NULL) = avl_depth(m, NULL) /\ avl_cnt(M, NULL) = avl_cnt(m, NULL)
  BY <1>1, <1>2 DEF avl_depth, avl_cnt
<1>6. ASSUME NEW a \in T, NEW s \in Sides
      PROVE  LET b == IF a = n THEN v ELSE a
             IN  Dep(M, b, s) = Dep(m, a, s) /\ avl_cnt(M, M[b][s]) = avl_cnt(m, m[a][s])
  <2>1. CASE a = n
    <3>1. M[v][s] = m[a][s] /\ m[a][s] # v
      BY <1>1, <1>2, <1>3, <2>1
    <3>2. m[a][s] \in Nodes \cup {NULL}
      BY <1>1, LinkType
    <3>3. QED
      BY <1>4, <1>5, <2>1, <3>1, <3>2 DEF Dep
  <2>2. CASE a # n
    <3>1. a \in Nodes \ {v} /\ m[a][s] \in Nodes \cup {NULL} /\ m[a][s] # v
      BY <1>1, <1>3, LinkType
    <3>2. M[a][s] = IF m[a][s] = n THEN v ELSE m[a][s]
      BY <1>1, <1>2, <1>3, <3>1
    <3>3. QED
      BY <1>4, <1>5, <2>2, <3>1, <3>2 DEF Dep
  <2>3. QED
    BY <2>1, <2>2
<1>7. ASSUME NEW a \in T PROVE LocalAt(M, IF a = n THEN v ELSE a)
  <2> DEFINE b == IF a = n THEN v ELSE a
  <2>1. /\ Dep(M, b, "left") = Dep(m, a, "left") /\ Dep(M, b, "right") = Dep(m, a, "right")
        /\ avl_cnt(M, M[b].left) = avl_cnt(m, m[a].left)
        /\ avl_cnt(M, M[b].right) = avl_cnt(m, m[a].right)
    BY <1>1, <1>6
  <2>2. M[b].depth = m[a].depth /\ M[b].cnt = m[a].cnt
    BY <1>1, <1>2
  <2>3. LocalAt(m, a)
    OBVIOUS
  <2> HIDE DEF b
  <2>4. LocalAt(M, b)
    BY <2>1, <2>2, <2>3 DEF LocalAt
  <2>5. QED
    BY <2>4 DEF b
<1>8. QED
  BY <1>7

-----------------------------------------------------------------------------
(* Places in the order *)

\* The members before n.
Before(T, sc, n) == {b \in T : Lt(sc, b, n)}

\* The size at the child on a side is the number of nodes on that side.
LEMMA CntOnSide ==
  ASSUME NEW m, NEW root, NEW T, NEW D, NEW sc, Shape(m, root, T, D, sc),
         \A a \in T : LocalAt(m, a), NEW n \in T, NEW s \in Sides
  PROVE  /\ IsFiniteSet({b \in D[n] : On(sc, s, n, b)})
         /\ avl_cnt(m, m[n][s]) = Cardinality({b \in D[n] : On(sc, s, n, b)})
<1> DEFINE P == {b \in D[n] : On(sc, s, n, b)}
<1>1. IsFiniteSet(P)
  <2>1. P \in SUBSET T /\ IsFiniteSet(T)
    BY DEF Shape
  <2>2. QED
    BY <2>1, FS_Subset
<1>2. CASE m[n][s] = NULL
  <2>1. P = {}
    BY <1>2, Below
  <2>2. QED
    BY <1>1, <1>2, <2>1, FS_EmptySet DEF avl_cnt
<1>3. CASE m[n][s] # NULL
  <2>1. m[n][s] \in T /\ D[m[n][s]] = P
    BY <1>3, Kid
  <2>2. m[m[n][s]].cnt = Cardinality(D[m[n][s]])
    <3>1. \A a \in T : m[a].cnt = Cardinality(D[a])
      BY CntIsSize
    <3>2. QED
      BY <2>1, <3>1
  <2>3. QED
    BY <1>1, <1>3, <2>1, <2>2 DEF avl_cnt
<1>4. QED
  BY <1>2, <1>3

\* Places add up.
LEMMA AddPlaces ==
  ASSUME NEW A, NEW B, NEW x, IsFiniteSet(A), IsFiniteSet(B), A \cap B = {}, x \notin A, x \notin B
  PROVE  Cardinality((A \cup B) \cup {x}) = Cardinality(A) + Cardinality(B) + 1
<1>1. /\ IsFiniteSet(A \cup B)
      /\ Cardinality(A \cup B) = Cardinality(A) + Cardinality(B) - Cardinality(A \cap B)
  BY FS_Union
<1>2. Cardinality(A \cap B) = 0
  BY FS_EmptySet
<1>3. Cardinality(A) \in Nat /\ Cardinality(B) \in Nat
  BY FS_CardinalityType
<1>4. Cardinality((A \cup B) \cup {x}) = Cardinality(A \cup B) + 1
  BY <1>1, FS_AddElement
<1>5. QED
  BY <1>1, <1>2, <1>3, <1>4

\* The nodes before a node can be counted.
LEMMA BeforeType ==
  ASSUME NEW m, NEW root, NEW T, NEW D, NEW sc, Shape(m, root, T, D, sc), NEW n
  PROVE  IsFiniteSet(Before(T, sc, n)) /\ Cardinality(Before(T, sc, n)) \in Nat
<1>1. Before(T, sc, n) \in SUBSET T /\ IsFiniteSet(T)
  BY DEF Before, Shape
<1>2. QED
  BY <1>1, FS_Subset, FS_CardinalityType

\* From a node to its right child.
LEMMA RightPlace ==
  ASSUME NEW m, NEW root, NEW T, NEW D, NEW sc, Shape(m, root, T, D, sc),
         \A a \in T : LocalAt(m, a), NEW n \in T, m[n].right # NULL
  PROVE  Cardinality(Before(T, sc, m[n].right))
           = Cardinality(Before(T, sc, n)) + avl_cnt(m, m[m[n].right].left) + 1
<1> DEFINE r == m[n].right
           P == {b \in D[r] : On(sc, "left", r, b)}
<1>1. /\ T \subseteq Nodes /\ sc \in [Nodes -> Int] /\ D \in [T -> SUBSET T] /\ n \in Nodes /\ n \in D[n]
      /\ "left" \in Sides /\ "right" \in Sides /\ "left" # "right" /\ Sides = {"left", "right"}
  BY DEF Shape, Sides
<1>2. /\ r \in T /\ r \in Nodes /\ r \in D[n] /\ On(sc, "right", n, r) /\ r # n
      /\ D[r] = {b \in D[n] : On(sc, "right", n, b)} /\ D[r] \subseteq D[n] /\ n \notin D[r]
  <2>1. m[n]["right"] # NULL /\ r = m[n]["right"]
    OBVIOUS
  <2>2. QED
    BY <1>1, <2>1, Kid
<1>3. \A a, b \in Nodes : /\ On(sc, "right", a, b) <=> Lt(sc, a, b)
                          /\ On(sc, "left", a, b) <=> Lt(sc, b, a)
  BY DEF On
<1>4. /\ \A a, b \in Nodes : Lt(sc, a, b) \/ Lt(sc, b, a) \/ a = b
      /\ \A a, b \in Nodes : Lt(sc, a, b) => ~Lt(sc, b, a)
      /\ \A a \in Nodes : ~Lt(sc, a, a)
  BY <1>1, <1>3, OnOrder
<1>5. \A a, b, c \in Nodes : Lt(sc, a, b) /\ Lt(sc, b, c) => Lt(sc, a, c)
  BY <1>1, <1>3, OnTrans
<1>6. ASSUME NEW b \in T
      PROVE  Lt(sc, b, r) <=> Lt(sc, b, n) \/ b \in P \/ b = n
  <2>1. b \in Nodes
    BY <1>1
  <2>2. CASE b \in D[r]
    <3>1. Lt(sc, n, b)
      BY <1>1, <1>2, <1>3, <2>1, <2>2
    <3>2. QED
      BY <1>1, <1>2, <1>3, <1>4, <2>1, <2>2, <3>1
  <2>3. CASE b \in D[n] /\ b \notin D[r]
    <3>1. ~Lt(sc, n, b)
      BY <1>1, <1>2, <1>3, <2>1, <2>3
    <3>2. Lt(sc, n, r)
      BY <1>1, <1>2, <1>3
    <3>3. Lt(sc, b, n) \/ b = n
      BY <1>1, <1>4, <2>1, <3>1
    <3>4. QED
      BY <1>1, <1>2, <1>5, <2>1, <2>3, <3>2, <3>3
  <2>4. CASE b \notin D[n]
    <3>1. On(sc, "right", b, r) <=> On(sc, "right", b, n)
      BY <1>1, <1>2, <2>4, Convex
    <3>2. QED
      BY <1>1, <1>2, <1>3, <2>1, <2>4, <3>1
  <2>5. QED
    BY <2>2, <2>3, <2>4
<1>7. Before(T, sc, r) = (Before(T, sc, n) \cup P) \cup {n}
  <2>1. P \subseteq T
    BY <1>1, <1>2
  <2> HIDE DEF P, r
  <2>2. QED
    BY <1>6, <2>1 DEF Before
<1>8. IsFiniteSet(P) /\ avl_cnt(m, m[r].left) = Cardinality(P)
  <2>1. avl_cnt(m, m[r]["left"]) = Cardinality(P) /\ IsFiniteSet(P)
    <3>1. \A a \in T, s \in Sides : /\ IsFiniteSet({b \in D[a] : On(sc, s, a, b)})
                                   /\ avl_cnt(m, m[a][s]) = Cardinality({b \in D[a] : On(sc, s, a, b)})
      BY CntOnSide
    <3> HIDE DEF r
    <3>2. QED
      BY <1>1, <1>2, <3>1
  <2>2. QED
    BY <2>1
<1>9. Before(T, sc, n) \cap P = {} /\ n \notin Before(T, sc, n) /\ n \notin P
  BY <1>1, <1>2, <1>3, <1>4 DEF Before
<1>10. IsFiniteSet(Before(T, sc, n))
  BY BeforeType
<1>11. QED
  <2> HIDE DEF P, r
  <2>1. Cardinality(Before(T, sc, r)) = Cardinality(Before(T, sc, n)) + Cardinality(P) + 1
    BY <1>7, <1>8, <1>9, <1>10, AddPlaces
  <2>2. QED
    BY <1>8, <2>1 DEF r

\* From a node to its left child.
LEMMA LeftPlace ==
  ASSUME NEW m, NEW root, NEW T, NEW D, NEW sc, Shape(m, root, T, D, sc),
         \A a \in T : LocalAt(m, a), NEW n \in T, m[n].left # NULL
  PROVE  Cardinality(Before(T, sc, n))
           = Cardinality(Before(T, sc, m[n].left)) + avl_cnt(m, m[m[n].left].right) + 1
<1> DEFINE l == m[n].left
           P == {b \in D[l] : On(sc, "right", l, b)}
<1>1. /\ T \subseteq Nodes /\ sc \in [Nodes -> Int] /\ D \in [T -> SUBSET T] /\ n \in Nodes /\ n \in D[n]
      /\ "left" \in Sides /\ "right" \in Sides /\ "left" # "right" /\ Sides = {"left", "right"}
  BY DEF Shape, Sides
<1>2. /\ l \in T /\ l \in Nodes /\ l \in D[n] /\ On(sc, "left", n, l) /\ l # n
      /\ D[l] = {b \in D[n] : On(sc, "left", n, b)} /\ D[l] \subseteq D[n] /\ n \notin D[l]
  <2>1. m[n]["left"] # NULL /\ l = m[n]["left"]
    OBVIOUS
  <2>2. QED
    BY <1>1, <2>1, Kid
<1>3. \A a, b \in Nodes : /\ On(sc, "right", a, b) <=> Lt(sc, a, b)
                          /\ On(sc, "left", a, b) <=> Lt(sc, b, a)
  BY DEF On
<1>4. /\ \A a, b \in Nodes : Lt(sc, a, b) \/ Lt(sc, b, a) \/ a = b
      /\ \A a, b \in Nodes : Lt(sc, a, b) => ~Lt(sc, b, a)
      /\ \A a \in Nodes : ~Lt(sc, a, a)
  BY <1>1, <1>3, OnOrder
<1>5. \A a, b, c \in Nodes : Lt(sc, a, b) /\ Lt(sc, b, c) => Lt(sc, a, c)
  BY <1>1, <1>3, OnTrans
<1>6. ASSUME NEW b \in T
      PROVE  Lt(sc, b, n) <=> Lt(sc, b, l) \/ b \in P \/ b = l
  <2>1. b \in Nodes /\ Lt(sc, l, n)
    BY <1>1, <1>2, <1>3
  <2>2. CASE b \in D[l]
    <3>1. Lt(sc, b, n)
      BY <1>1, <1>2, <1>3, <2>1, <2>2
    <3>2. QED
      BY <1>1, <1>2, <1>3, <1>4, <2>1, <2>2, <3>1
  <2>3. CASE b \in D[n] /\ b \notin D[l]
    <3>1. ~Lt(sc, b, n)
      BY <1>1, <1>2, <1>3, <2>1, <2>3
    <3>2. ~Lt(sc, b, l)
      BY <1>1, <1>2, <1>5, <2>1, <3>1
    <3>3. b # l
      BY <2>1, <3>1
    <3>4. QED
      BY <2>3, <3>1, <3>2, <3>3
  <2>4. CASE b \notin D[n]
    <3>1. On(sc, "right", b, l) <=> On(sc, "right", b, n)
      BY <1>1, <1>2, <2>4, Convex
    <3>2. QED
      BY <1>1, <1>2, <1>3, <2>1, <2>4, <3>1
  <2>5. QED
    BY <2>2, <2>3, <2>4
<1>7. Before(T, sc, n) = (Before(T, sc, l) \cup P) \cup {l}
  <2>1. P \subseteq T /\ l \in T
    BY <1>1, <1>2
  <2> HIDE DEF P, l
  <2>2. QED
    BY <1>6, <2>1 DEF Before
<1>8. IsFiniteSet(P) /\ avl_cnt(m, m[l].right) = Cardinality(P)
  <2>1. avl_cnt(m, m[l]["right"]) = Cardinality(P) /\ IsFiniteSet(P)
    <3>1. \A a \in T, s \in Sides : /\ IsFiniteSet({b \in D[a] : On(sc, s, a, b)})
                                   /\ avl_cnt(m, m[a][s]) = Cardinality({b \in D[a] : On(sc, s, a, b)})
      BY CntOnSide
    <3> HIDE DEF l
    <3>2. QED
      BY <1>1, <1>2, <3>1
  <2>2. QED
    BY <2>1
<1>9. Before(T, sc, l) \cap P = {} /\ l \notin Before(T, sc, l) /\ l \notin P
  BY <1>1, <1>2, <1>3, <1>4 DEF Before
<1>10. IsFiniteSet(Before(T, sc, l))
  BY BeforeType
<1>11. QED
  <2> HIDE DEF P, l
  <2>1. Cardinality(Before(T, sc, n)) = Cardinality(Before(T, sc, l)) + Cardinality(P) + 1
    BY <1>7, <1>8, <1>9, <1>10, AddPlaces
  <2>2. QED
    BY <1>8, <2>1 DEF l

\* Of the root, the places before and after it are on its sides.
LEMMA RootPlace ==
  ASSUME NEW m, NEW root, NEW T, NEW D, NEW sc, Shape(m, root, T, D, sc),
         \A a \in T : LocalAt(m, a), root \in T
  PROVE  /\ Cardinality(Before(T, sc, root)) = avl_cnt(m, m[root].left)
         /\ Cardinality(T) = avl_cnt(m, m[root].left) + avl_cnt(m, m[root].right) + 1
<1> DEFINE P == {b \in D[root] : On(sc, "left", root, b)}
           Q == {b \in D[root] : On(sc, "right", root, b)}
<1>1. /\ T \subseteq Nodes /\ sc \in [Nodes -> Int] /\ root \in Nodes
      /\ "left" \in Sides /\ "right" \in Sides /\ root # NULL
  BY AVLAssumption DEF Shape, Sides
<1>2. D[root] = T
  BY <1>1 DEF Shape
<1>3. /\ IsFiniteSet(P) /\ avl_cnt(m, m[root]["left"]) = Cardinality(P)
      /\ IsFiniteSet(Q) /\ avl_cnt(m, m[root]["right"]) = Cardinality(Q)
  BY <1>1, CntOnSide
<1>4. Before(T, sc, root) = P
  BY <1>2 DEF Before, On
<1>5. m[root].cnt = Cardinality(T)
  BY <1>2, CntIsSize
<1>6. m[root].cnt = 1 + avl_cnt(m, m[root].left) + avl_cnt(m, m[root].right)
  BY DEF LocalAt
<1>7. Cardinality(P) \in Nat /\ Cardinality(Q) \in Nat
  BY <1>3, FS_CardinalityType
<1>8. QED
  <2> HIDE DEF P, Q
  <2>1. avl_cnt(m, m[root].left) = Cardinality(P) /\ avl_cnt(m, m[root].right) = Cardinality(Q)
    BY <1>3
  <2>2. QED
    BY <1>4, <1>5, <1>6, <1>7, <2>1

-----------------------------------------------------------------------------
(* The inductive invariant *)

\* The node that is out of the tree while it is allocated.
Out == IF pc = "search" THEN {Name}
       ELSE IF pc = "detached" \/ (pc = "fix" /\ del # <<>>) THEN {Gone} ELSE {}
Members == alive \ Out

\* The call's answer is settled.
Settled == \/ pc = "return"
           \/ call.op = "zadd" /\ (pc = "search" \/ (pc = "fix" /\ del = <<>>))
           \/ call.op = "zrem" /\ del # <<>>

Asking == {"query", "offset", "list"}
Deleting == {"del", "victim", "detached"}

\* What each variable holds.
Types ==
  /\ avl \in Mem /\ score \in [Nodes -> Int] /\ alive \in SUBSET Nodes /\ IsFiniteSet(alive)
  /\ pc \in {"idle", "call", "return", "search", "fix"} \cup Deleting \cup Asking
  /\ at \in Nodes \cup {NULL} /\ del \in Seq(alive) /\ pos \in Int /\ goal \in Int
  /\ znode \in alive \cup {NULL} /\ listed \in Seq(Nodes \X Int)
  /\ IF pc = "idle" THEN call = NoCall ELSE call \in Calls

\* Where a call can be, what it has settled, and the map by name meanwhile.
Control ==
  /\ reply = NoReply <=> ~Settled
  /\ index = IF call.op = "zrem" /\ del # <<>> THEN alive \ {Name} ELSE alive
  /\ pc \in Deleting => call.op \in {"zadd", "zrem"} /\ del # <<>>
  /\ pc = "search" => call.op = "zadd" /\ del = <<>>
  /\ pc = "fix" => call.op = "zadd" \/ (call.op = "zrem" /\ del # <<>>)
  /\ pc \in {"idle", "call", "return"} => del = <<>>
  /\ pc \in Asking => call.op = "zquery" /\ call.limit > 0 /\ del = <<>>
  /\ pc \notin Asking => znode = NULL
  /\ pc \notin {"offset", "list"} => listed = <<>>

\* Each call of avl_del detaches the node after the one of the call before.
DelOK == /\ del # <<>> => del[1] = Name
         /\ \A i \in 1..(Len(del)-1) :
              /\ Lt(score, del[i], del[i+1])
              /\ \A b \in alive : ~(Lt(score, del[i], b) /\ Lt(score, b, del[i+1]))

\* Nothing is to be put right except while avl_fix runs.
Whole(T) == pc # "fix" => \A a \in T : LocalAt(avl, a)

\* tree_add goes where the new node belongs: nothing above at says otherwise.
AtSearch(T, D) ==
  /\ Name \in alive /\ score[Name] = call.score /\ avl[Name] = avl_init
  /\ IF at = NULL THEN T = {}
     ELSE /\ at \in T
          /\ \A a \in T, s \in Sides : at \in D[a] /\ On(score, s, a, at) => On(score, s, a, Name)

\* The node avl_fix is at is the one to be put right.
AtFix(T) == \E e \in Nat : Mending(avl, T, at, e)

\* The node after Gone is at or below at.
AtVictim(T, D) == /\ at \in T
                  /\ \A c \in D[at] : Lt(score, Gone, c)
                  /\ \A b \in T : Lt(score, Gone, b) => b \in D[at] \/ Lt(score, at, b)

\* The first node not before what is asked for is below at, or it is znode.
BeforeKey(b) == zless(score[b], b, call.score, call.name)
AtQuery(T, D) ==
  /\ at # NULL => at \in T
  /\ znode # NULL => /\ znode \in T /\ ~BeforeKey(znode)
                     /\ at # NULL => \A b \in D[at] : Lt(score, b, znode)
  /\ \A b \in T : \/ at # NULL /\ b \in D[at]
                  \/ BeforeKey(b)
                  \/ znode # NULL /\ (b = znode \/ Lt(score, znode, b))

\* The tuples listed so far, and the place that is looked for.
First == Rank(Tuples, call.score, call.name)
Listing ==
  /\ pc = "offset" => at # NULL
  /\ at # NULL => at \in alive
  /\ znode = NULL => First = Cardinality(index) /\ at = NULL /\ listed = <<>>
  /\ znode # NULL => /\ First < Cardinality(index)
                     /\ Place(znode) + goal = First + call.offset + Len(listed)
  /\ listed # <<>> => PerTuple * (Len(listed) - 1) < call.limit /\ First + call.offset >= 0
  /\ \A i \in 1..Len(listed) : /\ listed[i][1] \in index
                               /\ listed[i][2] = score[listed[i][1]]
                               /\ Place(listed[i][1]) = First + call.offset + i - 1

\* Where each loop is.
Cursor(T, D) ==
  /\ pc = "search" => AtSearch(T, D)
  /\ pc = "fix" => AtFix(T)
  /\ pc = "victim" => AtVictim(T, D)
  /\ pc = "query" => AtQuery(T, D)
  /\ pc \in {"offset", "list"} => Listing
  /\ OffsetsAgree

InvOf(T, D) == /\ Types /\ Control /\ DelOK
               /\ Shape(avl, tree, T, D, score) /\ Whole(T) /\ Cursor(T, D)

\* The members are a search tree at every step, and the loops know where they are.
IInv == \E D : InvOf(Members, D)

-----------------------------------------------------------------------------
(* What happens between two loops *)

\* The arguments of a call.
LEMMA CallType ==
  ASSUME NEW c \in Calls
  PROVE  /\ c.op \in {"zadd", "zrem", "zscore", "zquery"}
         /\ c.op # "zquery" => c.name \in Nodes
         /\ c.op = "zadd" => c.score \in Int
         /\ c.op = "zquery" => c.score \in Int /\ c.name \in Int /\ c.offset \in Int /\ c.limit \in Int
<1>1. CASE c \in [op : {"zadd"}, name : Names, score : Scores]
  BY <1>1, ZSetAssumption DEF Names
<1>2. CASE c \in [op : {"zrem", "zscore"}, name : Names]
  BY <1>2 DEF Names
<1>3. CASE c \in Queries
  <2>1. c \in [op : {"zquery"}, score : Int, name : Int, offset : Int, limit : Int]
    BY <1>3, ZSetAssumption
  <2>2. QED
    BY <2>1
<1>4. QED
  BY <1>1, <1>2, <1>3 DEF Calls

\* No two nodes are below each other.
LEMMA Antisym ==
  ASSUME NEW m, NEW root, NEW T, NEW D, NEW sc, Shape(m, root, T, D, sc),
         NEW a \in T, NEW b \in T, a \in D[b], b \in D[a]
  PROVE  a = b
<1>1. SUFFICES ASSUME a # b PROVE FALSE
  OBVIOUS
<1>2. PICK s \in Sides : On(sc, s, a, b)
  BY <1>1, SideOf
<1>3. m[a][s] # NULL /\ b \in D[m[a][s]]
  BY <1>2, Below
<1>4. m[a][s] \in T /\ a \notin D[m[a][s]]
  BY <1>3, Kid
<1>5. D[b] \subseteq D[m[a][s]]
  BY <1>3, <1>4, Nested
<1>6. QED
  BY <1>4, <1>5

\* Nothing is above the root.
LEMMA RootTop ==
  ASSUME NEW m, NEW root, NEW T, NEW D, NEW sc, Shape(m, root, T, D, sc),
         NEW a \in T, root \in D[a]
  PROVE  a = root
<1>1. root \in T /\ D[root] = T
  <2>1. D[a] \subseteq T /\ NULL \notin T
    BY AVLAssumption DEF Shape
  <2>2. root # NULL
    BY <2>1
  <2>3. QED
    BY <2>2 DEF Shape
<1>2. QED
  BY <1>1, Antisym

\* A tree without a node.
LEMMA EmptyShape ==
  ASSUME NEW m \in Mem, NEW sc \in [Nodes -> Int]
  PROVE  \E E : Shape(m, NULL, {}, E, sc)
<1> DEFINE E == [a \in {} |-> {}]
<1>1. Shape(m, NULL, {}, E, sc)
  BY FS_EmptySet DEF Shape
<1>2. QED
  BY <1>1

\* With the places that the scores give, the new node is not yet below any.
LEMMA AtRoot ==
  ASSUME NEW m, NEW root, NEW T, NEW D, NEW sc, Shape(m, root, T, D, sc), root # NULL, NEW x
  PROVE  root \in T /\ \A a \in T, s \in Sides : root \in D[a] /\ On(sc, s, a, root) => On(sc, s, a, x)
<1>1. root \in T /\ T \subseteq Nodes /\ sc \in [Nodes -> Int]
  BY DEF Shape
<1>2. ASSUME NEW a \in T, NEW s \in Sides, root \in D[a], On(sc, s, a, root) PROVE FALSE
  <2>1. a = root
    BY <1>2, RootTop
  <2>2. QED
    BY <1>1, <1>2, <2>1, OnOrder
<1>3. QED
  BY <1>1, <1>2

\* Between two loops there is no more to say than this.
QuietAt == /\ Types /\ Control /\ DelOK
           /\ \E D : Shape(avl, tree, Members, D, score)
           /\ \A a \in Members : LocalAt(avl, a)
           /\ pc \in {"idle", "call", "return", "del", "detached"}

\* Between two loops, the invariant is this much.
LEMMA QuietInv == QuietAt => IInv
<1> SUFFICES ASSUME QuietAt PROVE IInv
  OBVIOUS
<1>1. PICK D : Shape(avl, tree, Members, D, score)
  BY DEF QuietAt
<1>2. Whole(Members) /\ Cursor(Members, D)
  BY DEF QuietAt, Whole, Cursor, OffsetsAgree
<1>3. InvOf(Members, D)
  BY <1>1, <1>2 DEF QuietAt, InvOf
<1>4. QED
  BY <1>3 DEF IInv

\* The same of the next state.
LEMMA QuietNext == QuietAt' => IInv'
BY QuietInv, PTL

\* The empty set.
LEMMA InitInv == Init => IInv
<1> SUFFICES ASSUME Init PROVE IInv
  OBVIOUS
<1>1. /\ avl = [n \in Nodes |-> NoNode] /\ tree = NULL /\ index = {} /\ alive = {}
      /\ score = [n \in Nodes |-> NoScore] /\ pc = "idle" /\ at = NULL /\ del = <<>>
      /\ pos = 0 /\ goal = 0 /\ znode = NULL /\ listed = <<>> /\ call = NoCall /\ reply = NoReply
  BY DEF Init
<1>2. avl \in Mem
  BY <1>1 DEF Mem, AVLNode, NoNode, avl_init
<1>3. Types
  BY <1>1, <1>2, FS_EmptySet DEF Types, NoScore
<1>4. Control
  BY <1>1 DEF Control, Settled, NoCall, NoReply, Deleting, Asking
<1>5. DelOK
  BY <1>1 DEF DelOK
<1>6. Members = {}
  BY <1>1 DEF Members, Out
<1>7. PICK E : Shape(avl, NULL, {}, E, score)
  BY <1>2, <1>3, EmptyShape DEF Types
<1>8. Shape(avl, tree, Members, E, score)
  BY <1>1, <1>6, <1>7
<1>9. QuietAt
  BY <1>1, <1>3, <1>4, <1>5, <1>6, <1>8 DEF QuietAt
<1>10. QED
  BY <1>9, QuietInv

\* A step between two loops that leaves the tree alone.
LEMMA QuietStep ==
  ASSUME NEW D, InvOf(Members, D), avl' = avl, tree' = tree, score' = score, alive' = alive,
         pc \in {"idle", "call", "return", "list"}, pc' \in {"idle", "call", "return", "del"},
         Types', Control', DelOK'
  PROVE  IInv'
<1>1. Members = alive /\ Members' = alive
  BY DEF Members, Out
<1>2. Shape(avl, tree, Members, D, score) /\ \A a \in Members : LocalAt(avl, a)
  BY DEF InvOf, Whole
<1>3. Shape(avl', tree', Members', D, score') /\ \A a \in Members' : LocalAt(avl', a)
  BY <1>1, <1>2
<1>4. QuietAt'
  BY <1>3 DEF QuietAt
<1>5. QED
  BY <1>4, QuietNext

\* A command calls.
LEMMA CallInv ==
  ASSUME NEW D, InvOf(Members, D), NEW c \in Calls, Call(c)
  PROVE  IInv'
<1>1. /\ pc = "idle" /\ call' = c /\ pc' = "call"
      /\ UNCHANGED <<avl, tree, index, score, alive, at, del, pos, goal, znode, listed, reply>>
  BY DEF Call, set
<1>2. Types /\ Control /\ DelOK
  BY DEF InvOf
<1>3. Types'
  BY <1>1, <1>2 DEF Types
<1>4. Control'
  <2>1. call = NoCall /\ del = <<>>
    BY <1>1, <1>2 DEF Types, Control
  <2>2. ~Settled /\ ~Settled'
    BY <1>1, <2>1 DEF Settled, NoCall
  <2>3. QED
    BY <1>1, <1>2, <2>1, <2>2 DEF Control, Deleting, Asking, NoCall
<1>5. DelOK'
  BY <1>1, <1>2 DEF DelOK, Control, Lt
<1>6. QED
  BY <1>1, <1>3, <1>4, <1>5, QuietStep

\* A call returns.
LEMMA ReturnInv ==
  ASSUME NEW D, InvOf(Members, D), Return
  PROVE  IInv'
<1>1. /\ pc = "return" /\ call' = NoCall /\ reply' = NoReply /\ pc' = "idle"
      /\ UNCHANGED <<avl, tree, index, score, alive, at, del, pos, goal, znode, listed>>
  BY DEF Return, set
<1>2. Types /\ Control /\ DelOK
  BY DEF InvOf
<1>3. Types'
  BY <1>1, <1>2 DEF Types
<1>4. Control'
  <2>1. del = <<>>
    BY <1>1, <1>2 DEF Control
  <2>2. ~Settled'
    BY <1>1, <2>1 DEF Settled, NoCall
  <2>3. QED
    BY <1>1, <1>2, <2>1, <2>2 DEF Control, Deleting, Asking, NoCall
<1>5. DelOK'
  BY <1>1, <1>2 DEF DelOK, Control
<1>6. QED
  BY <1>1, <1>3, <1>4, <1>5, QuietStep

\* A call that is over at once: it only settles its answer.
LEMMA AtOnceInv ==
  ASSUME NEW D, InvOf(Members, D), pc = "call", pc' = "return", reply' # NoReply,
         UNCHANGED <<avl, tree, index, score, alive, at, del, pos, goal, znode, listed, call>>
  PROVE  IInv'
<1>2. Types /\ Control /\ DelOK
  BY DEF InvOf
<1>3. Types'
  BY <1>2 DEF Types
<1>4. Control'
  <2>1. del = <<>>
    BY <1>2 DEF Control
  <2>2. Settled'
    BY DEF Settled
  <2>3. QED
    BY <1>2, <2>1, <2>2 DEF Control, Deleting, Asking
<1>5. DelOK'
  BY <1>2 DEF DelOK, Control
<1>6. QED
  BY <1>3, <1>4, <1>5, QuietStep

\* zset_add and zset_pop begin to detach the node of a name.
LEMMA DetachInv ==
  ASSUME NEW D, InvOf(Members, D), pc = "call", Detach, Name \in index,
         UNCHANGED <<score, alive, call, pos, goal, znode, listed>>,
         \/ call.op = "zadd" /\ UNCHANGED <<index, reply>>
         \/ call.op = "zrem" /\ index' = index \ {Name} /\ reply' # NoReply
  PROVE  IInv'
<1>1. pc' = "del" /\ del' = <<Name>> /\ UNCHANGED <<avl, tree, at>>
  BY DEF Detach
<1>2. Types /\ Control /\ DelOK
  BY DEF InvOf
<1>3. del = <<>> /\ index = alive /\ call \in Calls
  BY <1>2 DEF Control, Types
<1>4. Name' = Name /\ Name \in alive
  BY <1>3 DEF Name
<1>5. Types'
  <2>1. del' \in Seq(alive)
    BY <1>1, <1>4
  <2>2. QED
    BY <1>1, <1>2, <2>1 DEF Types, Deleting
<1>6. Control'
  <2>1. ~Settled /\ del' # <<>>
    BY <1>1, <1>3 DEF Settled
  <2>2. Settled' <=> call.op = "zrem"
    BY <1>1, <1>3 DEF Settled
  <2>3. reply = NoReply
    BY <1>2, <2>1 DEF Control
  <2>4. reply' = NoReply <=> ~Settled'
    BY <2>2, <2>3
  <2>5. index' = IF call'.op = "zrem" /\ del' # <<>> THEN alive' \ {Name'} ELSE alive'
    BY <1>3, <1>4, <2>1
  <2>6. listed = <<>> /\ znode = NULL
    BY <1>2 DEF Control, Asking
  <2>7. QED
    BY <1>1, <2>1, <2>4, <2>5, <2>6 DEF Control, Deleting, Asking
<1>7. DelOK'
  BY <1>1, <1>4 DEF DelOK
<1>8. QED
  BY <1>1, <1>5, <1>6, <1>7, QuietStep

\* zset_update with the score there is, or with another one.
LEMMA UpdateInv ==
  ASSUME NEW D, InvOf(Members, D), Begun("zadd"), zset_update, NoQuery
  PROVE  IInv'
<1>1. CASE score[Name] = call.score /\ Settle(out_int(0)) /\ pc' = "return" /\ UNCHANGED <<avl, tree, at, del>>
  <2>1. reply' # NoReply
    BY <1>1 DEF Settle, out_int, NoReply
  <2>2. QED
    BY <1>1, <2>1, AtOnceInv DEF Begun, zset_update, NoQuery, Settle, set
<1>2. CASE Detach /\ UNCHANGED <<call, reply>>
  BY <1>2, DetachInv DEF Begun, zset_update, zset_lookup, NoQuery, set
<1>3. QED
  BY <1>1, <1>2 DEF zset_update

\* zset_pop of a name in the set.
LEMMA PopInv ==
  ASSUME NEW D, InvOf(Members, D), Begun("zrem"), hm_pop, NoQuery
  PROVE  IInv'
<1>1. reply' # NoReply
  BY DEF hm_pop, Settle, out_int, NoReply
<1>2. QED
  BY <1>1, DetachInv DEF Begun, hm_pop, zset_lookup, Settle, NoQuery

\* zset_pop of a name that is not in the set.
LEMMA NothingInv ==
  ASSUME NEW D, InvOf(Members, D), Begun("zrem"), NothingToPop, NoQuery
  PROVE  IInv'
<1>1. reply' # NoReply
  BY DEF NothingToPop, Settle, out_int, NoReply
<1>2. QED
  BY <1>1, AtOnceInv DEF Begun, NothingToPop, Settle, NoQuery, set

\* A lookup.
LEMMA ScoreInv ==
  ASSUME NEW D, InvOf(Members, D), zscore
  PROVE  IInv'
<1>1. reply' # NoReply
  BY DEF zscore, Settle, out_dbl, out_nil, NoReply
<1>2. QED
  BY <1>1, AtOnceInv DEF Begun, zscore, Settle, NoQuery, set

\* The nodes of T and their scores are as they were.
LEMMA ShapeKept ==
  ASSUME NEW m, NEW root, NEW T, NEW D, NEW sc, Shape(m, root, T, D, sc),
         NEW M \in Mem, NEW sc2 \in [Nodes -> Int], \A a \in T : M[a] = m[a] /\ sc2[a] = sc[a]
  PROVE  Shape(M, root, T, D, sc2)
<1>1. Shape(m, root, T, D, sc2)
  BY ShapeScores
<1>2. QED
  BY <1>1, ShapeMemory

\* tree_add begins for the node of the name.
LEMMA SearchInv ==
  ASSUME NEW D, InvOf(Members, D), \A a \in Members : LocalAt(avl, a),
         Types', Control', DelOK',
         call \in Calls, call.op = "zadd", call' = call, tree' = tree,
         avl' = [avl EXCEPT ![Name] = avl_init], score' = [score EXCEPT ![Name] = call.score],
         Members = alive' \ {Name}, Name \in alive', Search
  PROVE  IInv'
<1>1. Name \in Nodes /\ call.score \in Int /\ Name' = Name
  BY CallType DEF Name
<1>2. pc' = "search" /\ at' = tree
  BY DEF Search
<1>3. Members' = Members
  BY <1>1, <1>2 DEF Members, Out
<1>4. avl \in Mem /\ score \in [Nodes -> Int] /\ avl' \in Mem /\ score' \in [Nodes -> Int]
  BY DEF InvOf, Types
<1>5. Shape(avl, tree, Members, D, score)
  BY DEF InvOf
<1>6. Members \subseteq Nodes /\ Name \notin Members
  <2>1. Members \subseteq Nodes
    BY <1>5 DEF Shape
  <2>2. QED
    BY <2>1
<1>7. \A a \in Members : avl'[a] = avl[a] /\ score'[a] = score[a]
  BY <1>4, <1>6
<1>8. Shape(avl', tree', Members', D, score')
  <2>1. Shape(avl', tree, Members, D, score')
    <3>1. \A M \in Mem, sc2 \in [Nodes -> Int] :
             (\A a \in Members : M[a] = avl[a] /\ sc2[a] = score[a]) => Shape(M, tree, Members, D, sc2)
      BY <1>5, ShapeKept
    <3>2. QED
      BY <1>4, <1>7, <3>1
  <2>2. QED
    BY <1>3, <2>1
<1>9. \A a \in Members' : LocalAt(avl', a)
  <2>1. \A a \in Members : LocalAt(avl', a)
    BY <1>4, <1>5, <1>7, AllLocalKept
  <2>2. QED
    BY <1>3, <2>1
<1>10. avl'[Name] = avl_init /\ score'[Name] = call.score
  BY <1>1, <1>4 DEF Mem
<1>11. AtSearch(Members, D)'
  <2>1. CASE tree = NULL
    <3>1. Members = {}
      BY <1>5, <2>1 DEF Shape
    <3>2. QED
      BY <1>1, <1>2, <1>3, <1>10, <2>1, <3>1 DEF AtSearch
  <2>2. CASE tree # NULL
    <3>1. Shape(avl', tree, Members, D, score')
      BY <1>3, <1>8
    <3>2. /\ tree \in Members
          /\ \A a \in Members, s \in Sides : tree \in D[a] /\ On(score', s, a, tree) => On(score', s, a, Name)
      BY <2>2, <3>1, AtRoot
    <3>3. QED
      BY <1>1, <1>2, <1>3, <1>10, <2>2, <3>2 DEF AtSearch
  <2>3. QED
    BY <2>1, <2>2
<1>12. Whole(Members)' /\ Cursor(Members, D)'
  BY <1>2, <1>9, <1>11 DEF Whole, Cursor, OffsetsAgree
<1>13. InvOf(Members, D)'
  BY <1>8, <1>12 DEF InvOf
<1>14. QED
  BY <1>13 DEF IInv

\* A new node is allocated and tree_add begins.
LEMMA InsertInv ==
  ASSUME NEW D, InvOf(Members, D), Begun("zadd"), InsertNew, NoQuery
  PROVE  IInv'
<1>1. /\ pc = "call" /\ call.op = "zadd" /\ ~zset_lookup
      /\ alive' = alive \cup {Name} /\ index' = index \cup {Name}
      /\ score' = [score EXCEPT ![Name] = call.score] /\ avl' = [avl EXCEPT ![Name] = avl_init]
      /\ pc' = "search" /\ at' = tree /\ reply' = out_int(1) /\ call' = call
      /\ UNCHANGED <<tree, del, pos, goal, znode, listed>>
  BY DEF Begun, InsertNew, NoQuery, Search, Settle
<1>2. Types /\ Control /\ DelOK /\ Shape(avl, tree, Members, D, score) /\ Whole(Members)
  BY DEF InvOf
<1>3. /\ call \in Calls /\ del = <<>> /\ index = alive /\ Members = alive
      /\ Name \in Nodes /\ call.score \in Int /\ Name' = Name /\ listed = <<>> /\ znode = NULL
  <2>1. call \in Calls /\ del = <<>> /\ index = alive /\ Members = alive /\ listed = <<>> /\ znode = NULL
    BY <1>1, <1>2 DEF Types, Control, Members, Out, Asking
  <2>2. QED
    BY <1>1, <2>1, CallType DEF Name
<1>4. Name \notin alive
  <2>1. tree = NULL => alive = {}
    BY <1>2, <1>3 DEF Shape
  <2>2. QED
    BY <1>1, <1>3, <2>1 DEF zset_lookup
<1>5. Types'
  <2>1. avl_init \in AVLNode
    BY DEF avl_init, AVLNode
  <2>2. avl' \in Mem
    BY <1>1, <1>2, <1>3, <2>1 DEF Types, Mem
  <2>3. IsFiniteSet(alive')
    BY <1>1, <1>2, FS_AddElement DEF Types
  <2>4. /\ score' \in [Nodes -> Int] /\ alive' \in SUBSET Nodes /\ at' \in Nodes \cup {NULL}
        /\ del' \in Seq(alive') /\ listed' \in Seq(Nodes \X Int) /\ znode' \in alive' \cup {NULL}
        /\ pos' \in Int /\ goal' \in Int
    <3>1. tree \in Nodes \cup {NULL}
      BY <1>2 DEF Shape
    <3>2. QED
      BY <1>1, <1>2, <1>3, <3>1 DEF Types
  <2>5. QED
    BY <1>1, <1>3, <2>2, <2>3, <2>4 DEF Types
<1>6. Control'
  <2>1. Settled' /\ reply' # NoReply
    BY <1>1 DEF Settled, out_int, NoReply
  <2>2. QED
    BY <1>1, <1>3, <2>1 DEF Control, Deleting, Asking
<1>7. DelOK'
  BY <1>1, <1>3 DEF DelOK
<1>8. \A a \in Members : LocalAt(avl, a)
  BY <1>1, <1>2 DEF Whole
<1>9. Members = alive' \ {Name} /\ Name \in alive'
  BY <1>1, <1>3, <1>4
<1>10. QED
  BY <1>1, <1>3, <1>5, <1>6, <1>7, <1>8, <1>9, SearchInv DEF Search

\* A node comes back with its new score.
LEMMA ReinsertInv ==
  ASSUME NEW D, InvOf(Members, D), Reinsert
  PROVE  IInv'
<1>1. /\ pc = "detached" /\ Len(del) = 1 /\ call.op = "zadd"
      /\ score' = [score EXCEPT ![Name] = call.score] /\ avl' = [avl EXCEPT ![Name] = avl_init]
      /\ pc' = "search" /\ at' = tree /\ reply' = out_int(0) /\ call' = call /\ del' = <<>>
      /\ UNCHANGED <<tree, index, alive, pos, goal, znode, listed>>
  BY DEF Reinsert, NoQuery, Search, Settle
<1>2. Types /\ Control /\ DelOK /\ Shape(avl, tree, Members, D, score) /\ Whole(Members)
  BY DEF InvOf
<1>3. /\ call \in Calls /\ del # <<>> /\ index = alive
      /\ Name \in Nodes /\ call.score \in Int /\ Name' = Name /\ listed = <<>> /\ znode = NULL
  <2>1. call \in Calls /\ del # <<>> /\ index = alive /\ listed = <<>> /\ znode = NULL
    BY <1>1, <1>2 DEF Types, Control, Deleting, Asking
  <2>2. QED
    BY <1>1, <2>1, CallType DEF Name
<1>4. Gone = Name /\ Name \in alive /\ Members = alive \ {Name}
  <2>1. Gone = Name
    BY <1>1, <1>2, <1>3 DEF Gone, DelOK
  <2>2. del \in Seq(alive)
    BY <1>2 DEF Types
  <2>3. Gone \in alive
    BY <1>1, <2>2 DEF Gone
  <2>4. QED
    BY <1>1, <2>1, <2>3 DEF Members, Out
<1>5. Types'
  <2>1. avl_init \in AVLNode
    BY DEF avl_init, AVLNode
  <2>2. avl' \in Mem
    BY <1>1, <1>2, <1>3, <2>1 DEF Types, Mem
  <2>3. /\ score' \in [Nodes -> Int] /\ at' \in Nodes \cup {NULL} /\ del' \in Seq(alive')
    <3>1. tree \in Nodes \cup {NULL}
      BY <1>2 DEF Shape
    <3>2. QED
      BY <1>1, <1>2, <1>3, <3>1 DEF Types
  <2>4. QED
    BY <1>1, <1>2, <1>3, <2>2, <2>3 DEF Types
<1>6. Control'
  <2>1. Settled' /\ reply' # NoReply
    BY <1>1 DEF Settled, out_int, NoReply
  <2>2. QED
    BY <1>1, <1>3, <2>1 DEF Control, Deleting, Asking
<1>7. DelOK'
  BY <1>1 DEF DelOK
<1>8. \A a \in Members : LocalAt(avl, a)
  BY <1>1, <1>2 DEF Whole
<1>9. Members = alive' \ {Name} /\ Name \in alive'
  BY <1>1, <1>4
<1>10. QED
  BY <1>1, <1>3, <1>5, <1>6, <1>7, <1>8, <1>9, SearchInv DEF Search

\* The node of the name is freed, or all nodes are.
LEMMA FreeEffect ==
  ASSUME Types, NEW gone, Free(gone)
  PROVE  /\ avl' \in Mem /\ score' \in [Nodes -> Int] /\ alive' = alive \ gone
         /\ \A a \in Nodes \ gone : avl'[a] = avl[a] /\ score'[a] = score[a]
<1>1. NoNode \in AVLNode /\ NoScore \in Int
  <2>1. \A a \in AVLNode : [a EXCEPT !.depth = 0, !.cnt = 0] \in AVLNode
    BY DEF AVLNode
  <2>2. avl_init \in AVLNode
    BY DEF AVLNode, avl_init
  <2>3. [avl_init EXCEPT !.depth = 0, !.cnt = 0] \in AVLNode
    BY <2>1, <2>2
  <2>4. NoNode \in AVLNode
    BY <2>3, Zenon DEF NoNode
  <2>5. QED
    BY <2>4 DEF NoScore
<1>2. avl \in Mem /\ score \in [Nodes -> Int]
  BY DEF Types
<1>3. QED
  BY <1>1, <1>2 DEF Free, Mem

\* The node that was taken out is freed.
LEMMA DeleteInv ==
  ASSUME NEW D, InvOf(Members, D), znode_del
  PROVE  IInv'
<1>1. /\ pc = "detached" /\ Len(del) = 1 /\ call.op = "zrem"
      /\ Free({Name}) /\ pc' = "return" /\ del' = <<>>
      /\ UNCHANGED <<tree, index, at, call, reply, pos, goal, znode, listed>>
  BY DEF znode_del, NoQuery
<1>2. Types /\ Control /\ DelOK /\ Shape(avl, tree, Members, D, score) /\ Whole(Members)
  BY DEF InvOf
<1>3. /\ call \in Calls /\ del # <<>> /\ index = alive \ {Name} /\ listed = <<>> /\ znode = NULL
      /\ reply # NoReply /\ Name' = Name
  <2>1. Settled
    BY <1>1, <1>2 DEF Settled, Control, Deleting
  <2>2. QED
    BY <1>1, <1>2, <2>1 DEF Types, Control, Deleting, Asking, Name
<1>4. Gone = Name /\ Members = alive \ {Name}
  <2>1. Gone = Name
    BY <1>1, <1>2, <1>3 DEF Gone, DelOK
  <2>2. QED
    BY <1>1, <2>1 DEF Members, Out
<1>5. /\ avl' \in Mem /\ score' \in [Nodes -> Int] /\ alive' = alive \ {Name}
      /\ \A a \in Nodes \ {Name} : avl'[a] = avl[a] /\ score'[a] = score[a]
  BY <1>1, <1>2, FreeEffect
<1>6. Members' = Members /\ Members \subseteq Nodes
  <2>1. Members' = alive'
    BY <1>1 DEF Members, Out
  <2>2. Members \subseteq Nodes
    BY <1>2 DEF Shape
  <2>3. QED
    BY <1>4, <1>5, <2>1, <2>2
<1>7. Types'
  <2>1. IsFiniteSet(alive') /\ alive' \in SUBSET Nodes
    <3>1. IsFiniteSet(alive) /\ alive \in SUBSET Nodes
      BY <1>2 DEF Types
    <3>2. QED
      BY <1>5, <3>1, FS_RemoveElement
  <2>2. del' \in Seq(alive')
    BY <1>1
  <2>3. QED
    BY <1>1, <1>2, <1>3, <1>5, <2>1, <2>2 DEF Types
<1>8. Control'
  <2>1. Settled'
    BY <1>1 DEF Settled
  <2>2. QED
    BY <1>1, <1>3, <1>5, <2>1 DEF Control, Deleting, Asking
<1>9. DelOK'
  BY <1>1 DEF DelOK
<1>10. Shape(avl', tree', Members', D, score') /\ \A a \in Members' : LocalAt(avl', a)
  <2>1. \A a \in Members : avl'[a] = avl[a] /\ score'[a] = score[a]
    BY <1>4, <1>5, <1>6
  <2>2. Shape(avl', tree, Members, D, score')
    BY <1>2, <1>5, <2>1, ShapeKept
  <2>3. \A a \in Members : LocalAt(avl, a)
    BY <1>1, <1>2 DEF Whole
  <2>4. \A a \in Members : LocalAt(avl', a)
    BY <1>2, <1>5, <2>1, <2>3, AllLocalKept
  <2>5. QED
    BY <1>1, <1>6, <2>2, <2>4
<1>11. QuietAt'
  BY <1>1, <1>7, <1>8, <1>9, <1>10 DEF QuietAt
<1>12. QED
  BY <1>11, QuietNext

\* What is in the tree is what is below its root.
LEMMA InTreeIs ==
  ASSUME NEW T, NEW D, Shape(avl, tree, T, D, score)
  PROVE  InTree = T
<1>1. CASE tree = NULL
  BY <1>1 DEF Shape, InTree, Under
<1>2. CASE tree # NULL
  <2>1. tree \in T /\ D[tree] = T
    BY <1>2 DEF Shape
  <2>2. QED
    BY <2>1, UnderIs DEF InTree
<1>3. QED
  BY <1>1, <1>2

\* zset_dispose frees what is in the tree: every node.
LEMMA DisposeInv ==
  ASSUME NEW D, InvOf(Members, D), zset_dispose
  PROVE  IInv'
<1>1. /\ pc = "idle" /\ tree' = NULL /\ index' = {} /\ Free(InTree)
      /\ UNCHANGED <<pc, at, del, pos, goal, znode, listed, call, reply>>
  BY DEF zset_dispose, locals
<1>2. Types /\ Control /\ DelOK /\ Shape(avl, tree, Members, D, score)
  BY DEF InvOf
<1>3. InTree = alive
  <2>1. Members = alive
    BY <1>1 DEF Members, Out
  <2>2. QED
    BY <1>2, <2>1, InTreeIs
<1>4. avl' \in Mem /\ score' \in [Nodes -> Int] /\ alive' = {}
  <2>1. avl' \in Mem /\ score' \in [Nodes -> Int] /\ alive' = alive \ InTree
    BY <1>1, <1>2, FreeEffect
  <2>2. QED
    BY <1>3, <2>1
<1>5. del = <<>> /\ listed = <<>> /\ znode = NULL /\ call = NoCall
  BY <1>1, <1>2 DEF Control, Types, Asking
<1>6. Types'
  BY <1>1, <1>2, <1>4, <1>5, FS_EmptySet DEF Types
<1>7. Control'
  <2>1. Settled' <=> Settled
    BY <1>1 DEF Settled
  <2>2. QED
    BY <1>1, <1>2, <1>4, <1>5, <2>1 DEF Control, Deleting, Asking, NoCall
<1>8. DelOK'
  BY <1>1, <1>5 DEF DelOK
<1>9. Members' = {}
  BY <1>1, <1>4 DEF Members, Out
<1>10. PICK E : Shape(avl', NULL, {}, E, score')
  BY <1>4, EmptyShape
<1>11. Shape(avl', tree', Members', E, score')
  BY <1>1, <1>9, <1>10
<1>12. QuietAt'
  BY <1>1, <1>6, <1>7, <1>8, <1>9, <1>11 DEF QuietAt
<1>13. QED
  BY <1>12, QuietNext

-----------------------------------------------------------------------------
(* tree_add *)

\* A step of a search or of a walk: the tree is as it was.
LEMMA WalkStep ==
  ASSUME NEW D, InvOf(Members, D), avl' = avl, tree' = tree, score' = score, alive' = alive,
         Out' = Out, pc = "fix" => pc' = "fix"
  PROVE  /\ Members' = Members
         /\ Shape(avl', tree', Members', D, score') /\ Whole(Members)'
<1>1. Shape(avl, tree, Members, D, score) /\ Whole(Members)
  BY DEF InvOf
<1>2. Members' = Members
  BY DEF Members
<1>3. QED
  BY <1>1, <1>2 DEF Whole

\* The side where the new node belongs.
LEMMA SideType ==
  ASSUME score \in [Nodes -> Int], Name \in Nodes, NEW n \in Nodes, n # Name
  PROVE  Side(n) \in Sides /\ On(score, Side(n), n, Name)
<1>1. Side(n) \in Sides
  BY DEF Side, Sides
<1>2. zless(score[Name], Name, score[n], n) \/ zless(score[n], n, score[Name], Name)
  BY ZlessOrder, ZSetAssumption
<1>3. QED
  BY <1>1, <1>2 DEF Side, On, Lt

\* tree_add goes down one link.
LEMMA DescendInv ==
  ASSUME NEW D, InvOf(Members, D), pc = "search", at # NULL, avl[at][Side(at)] # NULL,
         at' = avl[at][Side(at)], pc' = pc,
         UNCHANGED <<avl, tree, index, score, alive, del, call, reply, pos, goal, znode, listed>>
  PROVE  IInv'
<1> DEFINE T == Members
           k == avl[at][Side(at)]
<1>1. Types /\ Control /\ DelOK /\ Shape(avl, tree, T, D, score) /\ AtSearch(T, D)
  BY DEF InvOf, Cursor
<1>2. Name \in alive /\ score[Name] = call.score /\ avl[Name] = avl_init /\ at \in T /\ Name \notin T
      /\ \A a \in T, s \in Sides : at \in D[a] /\ On(score, s, a, at) => On(score, s, a, Name)
  BY <1>1 DEF AtSearch, Members, Out
<1>3. score \in [Nodes -> Int] /\ T \subseteq Nodes /\ Name \in Nodes
  BY <1>1, <1>2 DEF Types, Members
<1>4. Side(at) \in Sides /\ On(score, Side(at), at, Name)
  <2>1. at \in Nodes /\ at # Name
    BY <1>2, <1>3
  <2>2. QED
    BY <1>3, <2>1, SideType
<1>5. /\ k \in T /\ avl[k].parent = at /\ k \in D[at] /\ On(score, Side(at), at, k)
  BY <1>1, <1>2, <1>4, Kid
<1>6. k \in Nodes /\ at \in Nodes
  BY <1>2, <1>3, <1>5
<1>7. ASSUME NEW a \in T, NEW s \in Sides, k \in D[a], On(score, s, a, k)
      PROVE  On(score, s, a, Name)
  <2>0. a \in Nodes
    BY <1>3
  <2>1. CASE a = at
    <3>1. s = Side(at)
      BY <1>3, <1>4, <1>5, <1>6, <1>7, <2>1, OnOrder
    <3>2. QED
      BY <1>4, <2>1, <3>1
  <2>2. CASE a = k
    BY <1>3, <1>6, <1>7, <2>2, OnOrder
  <2>3. CASE a # at /\ a # k
    <3>1. avl[k].parent \in D[a]
      BY <1>1, <1>7, <2>3, ParentIn
    <3>2. at \in D[a]
      BY <1>5, <3>1
    <3>3. a \notin D[at]
      BY <1>1, <1>2, <2>3, <3>2, Antisym
    <3>4. On(score, s, a, k) <=> On(score, s, a, at)
      BY <1>1, <1>2, <1>5, <3>3, Convex
    <3>5. QED
      BY <1>2, <1>7, <3>2, <3>4
  <2>4. QED
    BY <2>1, <2>2, <2>3
<1>8. Out' = Out /\ Name' = Name
  BY DEF Out, Name, Gone
<1>9. Members' = T /\ Shape(avl', tree', Members', D, score') /\ Whole(Members)'
  <2>1. pc = "fix" => pc' = "fix"
    OBVIOUS
  <2>2. QED
    BY <1>8, <2>1, WalkStep
<1>10. AtSearch(Members, D)'
  <2>1. at' # NULL /\ at' \in T
    BY <1>5
  <2>2. \A a \in T, s \in Sides : at' \in D[a] /\ On(score, s, a, at') => On(score, s, a, Name)
    BY <1>7
  <2>3. Name' \in alive' /\ score'[Name'] = call'.score /\ avl'[Name'] = avl_init
    BY <1>2, <1>8
  <2>4. QED
    BY <1>8, <1>9, <2>1, <2>2, <2>3 DEF AtSearch
<1>11. Types' /\ Control' /\ DelOK'
  <2>1. Types'
    BY <1>1, <1>6 DEF Types
  <2>2. Settled' <=> Settled
    BY DEF Settled
  <2>3. Control'
    BY <1>1, <1>8, <2>2 DEF Control
  <2>4. DelOK'
    BY <1>1, <1>8 DEF DelOK
  <2>5. QED
    BY <2>1, <2>3, <2>4
<1>12. Cursor(Members, D)'
  BY <1>10 DEF Cursor, OffsetsAgree
<1>13. InvOf(Members, D)'
  BY <1>9, <1>11, <1>12 DEF InvOf
<1>14. QED
  BY <1>13 DEF IInv

\* The new node has its place, and avl_fix begins at it.
LEMMA AttachInv ==
  ASSUME NEW D, InvOf(Members, D), pc = "search", at' = Name, pc' = "fix",
         \/ at # NULL /\ avl[at][Side(at)] = NULL /\ Attach(at, Side(at))
         \/ at = NULL /\ AttachRoot,
         UNCHANGED <<index, score, alive, del, call, reply, pos, goal, znode, listed>>
  PROVE  IInv'
<1> DEFINE T == Members
<1>1. Types /\ Control /\ DelOK /\ Shape(avl, tree, T, D, score) /\ AtSearch(T, D)
  BY DEF InvOf, Cursor
<1>2. \A a \in T : LocalAt(avl, a)
  BY DEF InvOf, Whole
<1>3. /\ Name \in alive /\ avl[Name].left = NULL /\ avl[Name].right = NULL
      /\ Name \notin T /\ alive = T \cup {Name}
  BY <1>1 DEF AtSearch, avl_init, Members, Out
<1>4. score \in [Nodes -> Int] /\ avl \in Mem /\ T \subseteq Nodes /\ Name \in Nodes \ T
  BY <1>1, <1>3 DEF Types, Members
<1>5. avl' \in Mem /\ \E E : Shape(avl', tree', T \cup {Name}, E, score) /\ Mending(avl', T \cup {Name}, Name, 0)
  <2>1. CASE at # NULL /\ avl[at][Side(at)] = NULL /\ Attach(at, Side(at))
    <3>1. at \in T /\ \A a \in T, s \in Sides : at \in D[a] /\ On(score, s, a, at) => On(score, s, a, Name)
      BY <1>1, <2>1 DEF AtSearch
    <3>2. at \in Nodes /\ at # Name
      BY <1>4, <3>1
    <3>3. Side(at) \in Sides /\ On(score, Side(at), at, Name)
      BY <1>4, <3>2, SideType
    <3>4. Attached(avl, [avl EXCEPT ![Name].parent = at, ![at][Side(at)] = Name], Name, at, Side(at))
      BY <1>3, <1>4, <3>2, <3>3, AttachEffect
    <3>5. Attached(avl, avl', Name, at, Side(at)) /\ tree' = tree
      BY <2>1, <3>4 DEF Attach
    <3>6. \E E : Shape(avl', tree, T \cup {Name}, E, score)
      BY <1>1, <1>4, <2>1, <3>1, <3>3, <3>5, AttachShape
    <3>7. Mending(avl', T \cup {Name}, Name, 0)
      BY <1>1, <1>2, <1>4, <2>1, <3>1, <3>3, <3>5, AttachMending
    <3>8. QED
      BY <3>5, <3>6, <3>7 DEF Attached
  <2>2. CASE at = NULL /\ AttachRoot
    <3>1. T = {}
      BY <1>1, <2>2 DEF AtSearch
    <3>2. avl' = [avl EXCEPT ![Name].parent = NULL] /\ tree' = Name
      BY <2>2 DEF AttachRoot
    <3>3. avl' \in Mem /\ avl'[Name].parent = NULL /\ \A o \in Sides : avl'[Name][o] = avl[Name][o]
      <4>1. /\ [avl EXCEPT ![Name].parent = NULL] \in Mem
            /\ [avl EXCEPT ![Name].parent = NULL][Name].parent = NULL
            /\ \A o \in Sides : [avl EXCEPT ![Name].parent = NULL][Name][o] = avl[Name][o]
        BY <1>4, ParentEffect
      <4>2. QED
        BY <3>2, <4>1
    <3>4. avl'[Name].left = NULL /\ avl'[Name].right = NULL
      BY <1>3, <3>3 DEF Sides
    <3>5. \A M \in Mem : M[Name].left = NULL /\ M[Name].right = NULL /\ M[Name].parent = NULL
             => Mending(M, {Name}, Name, 0) /\ \E E : Shape(M, Name, {Name}, E, score)
      BY <1>4, SingleShape, SingleMending
    <3>6. Mending(avl', {Name}, Name, 0) /\ \E E : Shape(avl', Name, {Name}, E, score)
      BY <3>3, <3>4, <3>5
    <3>7. QED
      BY <3>1, <3>2, <3>3, <3>6
  <2>3. QED
    BY <2>1, <2>2
<1>6. PICK E : Shape(avl', tree', T \cup {Name}, E, score) /\ Mending(avl', T \cup {Name}, Name, 0)
  BY <1>5
<1>7. del = <<>> /\ call.op = "zadd" /\ Name' = Name /\ znode = NULL /\ listed = <<>> /\ reply # NoReply /\ index = alive
  BY <1>1 DEF Control, Settled, Asking, Deleting, Name
<1>8. Members' = T \cup {Name}
  BY <1>3, <1>7 DEF Members, Out
<1>9. Shape(avl', tree', Members', E, score') /\ AtFix(Members)'
  <2>1. Shape(avl', tree', Members', E, score')
    BY <1>6, <1>8
  <2>2. Mending(avl', Members', at', 0)
    BY <1>6, <1>8
  <2>3. QED
    BY <2>1, <2>2 DEF AtFix
<1>10. Types'
  BY <1>1, <1>4, <1>5 DEF Types
<1>11. Control'
  <2>1. Settled'
    BY <1>7 DEF Settled
  <2>2. QED
    BY <1>1, <1>7, <2>1 DEF Control, Deleting, Asking
<1>12. DelOK'
  BY <1>7 DEF DelOK
<1>13. Whole(Members)' /\ Cursor(Members, E)'
  BY <1>9 DEF Whole, Cursor, OffsetsAgree
<1>14. InvOf(Members, E)'
  BY <1>9, <1>10, <1>11, <1>12, <1>13 DEF InvOf
<1>15. QED
  BY <1>14 DEF IInv

\* A step of tree_add (zset.cpp:50-62).
LEMMA TreeAddInv ==
  ASSUME NEW D, InvOf(Members, D), tree_add
  PROVE  IInv'
<1>1. pc = "search" /\ UNCHANGED <<index, score, alive, del, call, reply, pos, goal, znode, listed>>
  BY DEF tree_add, NoQuery, set
<1>2. CASE /\ at # NULL /\ avl[at][Side(at)] # NULL
           /\ at' = avl[at][Side(at)] /\ UNCHANGED <<avl, tree, pc>>
  BY <1>1, <1>2, DescendInv
<1>3. CASE /\ \/ at # NULL /\ avl[at][Side(at)] = NULL /\ Attach(at, Side(at))
              \/ at = NULL /\ AttachRoot
           /\ at' = Name /\ pc' = "fix"
  BY <1>1, <1>3, AttachInv
<1>4. QED
  BY <1>2, <1>3 DEF tree_add

-----------------------------------------------------------------------------
(* avl_fix *)

\* One step of avl_fix: the subtree is put right, and its parent is next, if it has one.
LEMMA FixInv ==
  ASSUME NEW D, InvOf(Members, D), avl_fix,
         UNCHANGED <<index, score, alive, call, reply, znode, listed>>
  PROVE  IInv'
<1> DEFINE T == Members
           done == Rebalance(avl, at)
           p == avl[at].parent
<1>1. /\ pc = "fix"
      /\ \/ p # NULL /\ avl' = Relink(done.mem, p, at, done.node) /\ at' = p /\ UNCHANGED <<tree, pc>>
         \/ p = NULL /\ avl' = done.mem /\ ReturnRoot(done.node)
      /\ UNCHANGED <<del, pos, goal>>
  BY DEF avl_fix
<1>2. Types /\ Control /\ DelOK /\ Shape(avl, tree, T, D, score) /\ AtFix(T)
  BY <1>1 DEF InvOf, Cursor
<1>3. Fixed(avl, tree, T, at, score)
  BY <1>2, FixStep DEF AtFix
<1>4. avl' = Linked(done, avl, at)
  BY <1>1 DEF Linked, ReturnRoot
<1>5. /\ avl' \in Mem /\ done.node \in T
      /\ \E E : Shape(avl', IF p = NULL THEN done.node ELSE tree, T, E, score)
      /\ IF p = NULL THEN \A a \in T : LocalAt(avl', a) ELSE Mending(avl', T, p, avl[p].depth)
  BY <1>3, <1>4 DEF Fixed
<1>6. tree' = IF p = NULL THEN done.node ELSE tree
  BY <1>1 DEF ReturnRoot
<1>7. PICK E : Shape(avl', tree', T, E, score)
  BY <1>5, <1>6
<1>8. /\ znode = NULL /\ listed = <<>> /\ T \subseteq Nodes
      /\ call.op = "zadd" \/ (call.op = "zrem" /\ del # <<>>)
      /\ reply = NoReply <=> ~Settled
      /\ index = IF call.op = "zrem" /\ del # <<>> THEN alive \ {Name} ELSE alive
      /\ Name' = Name /\ Gone' = Gone
  BY <1>1, <1>2 DEF Control, Types, Members, Name, Gone, Asking
<1> HIDE DEF T, done
<1>9. DelOK'
  BY <1>1, <1>2, <1>8 DEF DelOK
<1>10. CASE p # NULL
  <2>1. avl' \in Mem /\ at' = p /\ tree' = tree /\ pc' = pc /\ Mending(avl', T, p, avl[p].depth)
    BY <1>1, <1>5, <1>10
  <2>2. p \in T /\ avl[p].depth \in Nat
    BY <2>1 DEF Mending
  <2>3. Members' = T
    BY <1>1, <1>8, <2>1 DEF T, Members, Out
  <2>4. Types'
    BY <1>1, <1>2, <1>8, <2>1, <2>2 DEF Types
  <2>5. Control'
    <3>1. Settled' <=> Settled
      BY <1>1, <2>1 DEF Settled
    <3>2. QED
      BY <1>1, <1>2, <1>8, <2>1, <3>1 DEF Control
  <2>6. AtFix(Members)'
    BY <2>1, <2>2, <2>3 DEF AtFix
  <2>7. Whole(Members)' /\ Cursor(Members, E)'
    BY <1>1, <2>1, <2>6 DEF Whole, Cursor, OffsetsAgree
  <2>8. Shape(avl', tree', Members', E, score')
    BY <1>7, <2>3
  <2>9. InvOf(Members, E)'
    BY <1>9, <2>4, <2>5, <2>7, <2>8 DEF InvOf
  <2>10. QED
    BY <2>9 DEF IInv
<1>11. CASE p = NULL
  <2>1. /\ avl' \in Mem /\ at' = NULL /\ tree' = done.node /\ done.node \in T
        /\ pc' = (IF del = <<>> THEN "return" ELSE "detached") /\ \A a \in T : LocalAt(avl', a)
    BY <1>1, <1>5, <1>11 DEF ReturnRoot
  <2>2. Members' = T
    BY <1>1, <1>8, <2>1 DEF T, Members, Out
  <2>3. Types'
    BY <1>1, <1>2, <1>8, <2>1 DEF Types, Deleting
  <2>4. Control'
    <3>1. Settled' <=> Settled
      BY <1>1, <1>8, <2>1 DEF Settled
    <3>2. QED
      BY <1>1, <1>8, <2>1, <3>1 DEF Control, Deleting, Asking
  <2>5. QuietAt'
    <3>1. Shape(avl', tree', Members', E, score') /\ \A a \in Members' : LocalAt(avl', a)
      BY <1>7, <2>1, <2>2
    <3>2. pc' \in {"return", "detached"}
      BY <2>1
    <3>3. QED
      BY <1>9, <2>3, <2>4, <3>1, <3>2 DEF QuietAt
  <2>6. QED
    BY <2>5, QuietNext
<1>12. QED
  BY <1>10, <1>11

-----------------------------------------------------------------------------
(* avl_del *)

\* The arguments of the calls of avl_del under way are nodes; the last is Gone.
LEMMA GoneIn ==
  ASSUME NEW D, InvOf(Members, D), pc \in Deleting
  PROVE  /\ del # <<>> /\ Len(del) \in Nat \ {0} /\ Gone \in alive
         /\ call.op \in {"zadd", "zrem"} /\ znode = NULL /\ listed = <<>>
<1>1. Types /\ Control
  BY DEF InvOf
<1>2. del # <<>> /\ del \in Seq(alive)
  BY <1>1 DEF Types, Control
<1>3. Len(del) \in Nat \ {0} /\ \A i \in 1..Len(del) : del[i] \in alive
  BY <1>2
<1>4. QED
  BY <1>1, <1>2, <1>3 DEF Gone, Control, Deleting, Asking

\* avl_del takes out a node without a right child.
LEMMA UnlinkInv ==
  ASSUME NEW D, InvOf(Members, D), pc = "del", Unlink,
         UNCHANGED <<index, score, alive, call, reply, pos, goal, znode, listed>>
  PROVE  IInv'
<1> DEFINE T == Members
           p == avl[Gone].parent
           l == avl[Gone].left
           up == SetParent(avl, l, p)
<1>1. /\ avl[Gone].right = NULL /\ UNCHANGED del
      /\ \/ p = NULL /\ avl' = up /\ ReturnRoot(l)
         \/ p # NULL /\ avl' = Relink(up, p, Gone, l) /\ at' = p /\ pc' = "fix" /\ UNCHANGED tree
  BY DEF Unlink
<1>2. Types /\ Control /\ DelOK /\ Shape(avl, tree, T, D, score) /\ \A a \in T : LocalAt(avl, a)
  BY DEF InvOf, Whole
<1>3. /\ del # <<>> /\ Gone \in alive /\ call.op \in {"zadd", "zrem"} /\ znode = NULL /\ listed = <<>>
  BY GoneIn DEF Deleting
<1>4. T = alive /\ Gone \in T
  BY <1>3 DEF Members, Out
<1>5. avl' = Unlinked(avl, Gone) /\ tree' = IF p = NULL THEN l ELSE tree
  BY <1>1 DEF Unlinked, ReturnRoot
<1>6. Bypassed(avl, avl', Gone)
  BY <1>2, <1>4, <1>5, UnlinkEffect
<1>7. PICK E : Shape(avl', tree', T \ {Gone}, E, score)
  <2>1. \E E : Shape(avl', IF p = NULL THEN l ELSE tree, T \ {Gone}, E, score)
    BY <1>1, <1>2, <1>4, <1>6, UnlinkShape
  <2>2. QED
    BY <1>5, <2>1
<1>8. IF p = NULL THEN \A a \in T \ {Gone} : LocalAt(avl', a)
      ELSE p \in T \ {Gone} /\ Mending(avl', T \ {Gone}, p, avl[p].depth)
  BY <1>1, <1>2, <1>4, <1>6, UnlinkMending
<1>9. avl' \in Mem /\ Gone' = Gone /\ Name' = Name /\ T \subseteq Nodes
  BY <1>1, <1>2, <1>4, <1>6 DEF Bypassed, Gone, Name, Types
<1> HIDE DEF T
<1>10. DelOK'
  BY <1>1, <1>2, <1>9 DEF DelOK
<1>11. CASE p = NULL
  <2>1. at' = NULL /\ tree' = l /\ pc' = "detached"
    BY <1>1, <1>3, <1>11 DEF ReturnRoot
  <2>2. Members' = T \ {Gone}
    BY <1>1, <1>4, <1>9, <2>1 DEF Members, Out
  <2>3. Types'
    BY <1>1, <1>2, <1>3, <1>9, <2>1 DEF Types, Deleting
  <2>4. Control'
    <3>1. Settled' <=> Settled
      BY <1>1, <1>3, <2>1 DEF Settled
    <3>2. QED
      BY <1>1, <1>2, <1>3, <1>9, <2>1, <3>1 DEF Control, Deleting, Asking
  <2>5. Shape(avl', tree', Members', E, score')
    BY <1>7, <2>2
  <2>6. \A a \in Members' : LocalAt(avl', a)
    BY <1>8, <1>11, <2>2
  <2>7. QuietAt'
    BY <1>10, <2>1, <2>3, <2>4, <2>5, <2>6 DEF QuietAt
  <2>8. QED
    BY <2>7, QuietNext
<1>12. CASE p # NULL
  <2>1. at' = p /\ pc' = "fix" /\ tree' = tree /\ p \in T \ {Gone} /\ Mending(avl', T \ {Gone}, p, avl[p].depth)
    BY <1>1, <1>8, <1>12
  <2>2. Members' = T \ {Gone}
    BY <1>1, <1>3, <1>4, <1>9, <2>1 DEF Members, Out
  <2>3. Types'
    BY <1>1, <1>2, <1>3, <1>9, <2>1 DEF Types, Deleting
  <2>4. Control'
    <3>1. Settled' <=> Settled
      BY <1>1, <1>3, <2>1 DEF Settled
    <3>2. call.op = "zadd" \/ (call.op = "zrem" /\ del' # <<>>)
      BY <1>1, <1>3
    <3>3. QED
      BY <1>1, <1>2, <1>3, <1>9, <2>1, <3>1, <3>2 DEF Control, Deleting, Asking
  <2>5. Shape(avl', tree', Members', E, score')
    BY <1>7, <2>2
  <2>6. AtFix(Members)'
    <3>1. avl[p].depth \in Nat
      BY <2>1 DEF Mending
    <3>2. QED
      BY <2>1, <2>2, <3>1 DEF AtFix
  <2>7. Whole(Members)' /\ Cursor(Members, E)'
    BY <2>1, <2>6 DEF Whole, Cursor, OffsetsAgree
  <2>8. InvOf(Members, E)'
    BY <1>10, <2>3, <2>4, <2>5, <2>7 DEF InvOf
  <2>9. QED
    BY <2>8 DEF IInv
<1>13. QED
  BY <1>11, <1>12

\* The victim's search has begun, or has gone a step on: the rest follows.
LEMMA VictimInv ==
  ASSUME NEW D, InvOf(Members, D), pc \in {"del", "victim"}, pc' = "victim",
         UNCHANGED <<avl, tree, index, score, alive, del, call, reply, pos, goal, znode, listed>>,
         at' \in Members, \A c \in D[at'] : Lt(score, Gone, c),
         \A b \in Members : Lt(score, Gone, b) => b \in D[at'] \/ Lt(score, at', b)
  PROVE  IInv'
<1>1. Types /\ Control /\ DelOK /\ Shape(avl, tree, Members, D, score)
  BY DEF InvOf
<1>2. /\ del # <<>> /\ Gone \in alive /\ call.op \in {"zadd", "zrem"} /\ znode = NULL /\ listed = <<>>
  BY GoneIn DEF Deleting
<1>3. Out' = Out /\ Gone' = Gone /\ Name' = Name /\ Members \subseteq Nodes
  BY <1>1 DEF Out, Gone, Name, Shape
<1>4. Members' = Members /\ Shape(avl', tree', Members', D, score') /\ Whole(Members)'
  BY <1>3, WalkStep
<1>5. Types'
  BY <1>1, <1>3 DEF Types, Deleting
<1>6. Control'
  <2>1. Settled' <=> Settled
    BY DEF Settled
  <2>2. QED
    BY <1>1, <1>2, <1>3, <2>1 DEF Control, Deleting, Asking
<1>7. DelOK'
  BY <1>1, <1>3 DEF DelOK
<1>8. AtVictim(Members, D)'
  BY <1>3, <1>4 DEF AtVictim
<1>9. Cursor(Members, D)'
  BY <1>8 DEF Cursor, OffsetsAgree
<1>10. InvOf(Members, D)'
  BY <1>4, <1>5, <1>6, <1>7, <1>9 DEF InvOf
<1>11. QED
  BY <1>10 DEF IInv

\* avl_del looks for the victim in the right subtree.
LEMMA FindVictimInv ==
  ASSUME NEW D, InvOf(Members, D), pc = "del", FindVictim,
         UNCHANGED <<index, score, alive, call, reply, pos, goal, znode, listed>>
  PROVE  IInv'
<1> DEFINE r == avl[Gone].right
<1>1. r # NULL /\ at' = r /\ pc' = "victim" /\ UNCHANGED <<avl, tree, del>>
  BY DEF FindVictim
<1>2. Shape(avl, tree, Members, D, score)
  BY DEF InvOf
<1>3. Gone \in Members
  BY GoneIn DEF Deleting, Members, Out
<1>4. /\ r \in Members /\ r \in D[Gone] /\ D[r] = {b \in D[Gone] : On(score, "right", Gone, b)}
  BY <1>1, <1>2, <1>3, Kid DEF Sides
<1>5. \A c \in D[r] : Lt(score, Gone, c)
  BY <1>4 DEF On
<1>6. ASSUME NEW b \in Members, Lt(score, Gone, b)
      PROVE  b \in D[r] \/ Lt(score, r, b)
  <2>1. CASE b \in D[Gone]
    BY <1>4, <1>6, <2>1 DEF On
  <2>2. CASE b \notin D[Gone]
    <3>1. On(score, "left", b, r) <=> On(score, "left", b, Gone)
      BY <1>2, <1>3, <1>4, <2>2, Convex DEF Sides
    <3>2. QED
      BY <1>6, <3>1 DEF On
  <2>3. QED
    BY <2>1, <2>2
<1>7. QED
  BY <1>1, <1>4, <1>5, <1>6, VictimInv

\* It goes down one link to the left.
LEMMA LeftmostInv ==
  ASSUME NEW D, InvOf(Members, D), pc = "victim", avl[at].left # NULL, at' = avl[at].left,
         UNCHANGED <<avl, tree, pc, index, score, alive, del, call, reply, pos, goal, znode, listed>>
  PROVE  IInv'
<1> DEFINE l == avl[at].left
<1>1. Shape(avl, tree, Members, D, score) /\ AtVictim(Members, D)
  BY DEF InvOf, Cursor
<1>2. /\ at \in Members /\ \A c \in D[at] : Lt(score, Gone, c)
      /\ \A b \in Members : Lt(score, Gone, b) => b \in D[at] \/ Lt(score, at, b)
  BY <1>1 DEF AtVictim
<1>3. /\ l \in Members /\ l \in D[at] /\ On(score, "left", at, l)
      /\ D[l] = {b \in D[at] : On(score, "left", at, b)}
  BY <1>1, <1>2, Kid DEF Sides
<1>4. Members \subseteq Nodes /\ score \in [Nodes -> Int]
  BY <1>1 DEF Shape
<1>5. \A c \in D[l] : Lt(score, Gone, c)
  BY <1>2, <1>3
<1>6. ASSUME NEW b \in Members, Lt(score, Gone, b)
      PROVE  b \in D[l] \/ Lt(score, l, b)
  <2>1. l \in Nodes /\ at \in Nodes /\ b \in Nodes /\ "right" \in Sides /\ "left" \in Sides
    BY <1>2, <1>3, <1>4 DEF Sides
  <2>2. On(score, "right", at, b) => On(score, "right", l, b)
    <3>1. On(score, "right", l, at)
      BY <1>3 DEF On
    <3>2. QED
      BY <1>4, <2>1, <3>1, OnTrans
  <2>3. at = b \/ On(score, "left", at, b) \/ On(score, "left", b, at)
    BY <1>4, <2>1, OnOrder
  <2>4. CASE b \in D[at] /\ On(score, "left", at, b)
    BY <1>3, <2>4
  <2>5. CASE at = b
    BY <1>3, <2>5 DEF On
  <2>6. CASE On(score, "right", at, b)
    BY <2>2, <2>6 DEF On
  <2>7. QED
    BY <1>2, <1>6, <2>3, <2>4, <2>5, <2>6 DEF On
<1>7. QED
  BY <1>3, <1>5, <1>6, VictimInv

\* avl_del calls itself for the next node.
LEMMA RecurInv ==
  ASSUME NEW D, InvOf(Members, D), pc = "victim", avl[at].left = NULL,
         del' = Append(del, at), at' = NULL, pc' = "del",
         UNCHANGED <<avl, tree, index, score, alive, call, reply, pos, goal, znode, listed>>
  PROVE  IInv'
<1>1. Types /\ Control /\ DelOK /\ Shape(avl, tree, Members, D, score) /\ AtVictim(Members, D)
      /\ \A a \in Members : LocalAt(avl, a)
  BY DEF InvOf, Cursor, Whole
<1>2. /\ at \in Members /\ \A c \in D[at] : Lt(score, Gone, c)
      /\ \A b \in Members : Lt(score, Gone, b) => b \in D[at] \/ Lt(score, at, b)
  BY <1>1 DEF AtVictim
<1>3. /\ del # <<>> /\ Len(del) \in Nat \ {0} /\ Gone \in alive
      /\ call.op \in {"zadd", "zrem"} /\ znode = NULL /\ listed = <<>>
  BY GoneIn DEF Deleting
<1>4. Members = alive /\ score \in [Nodes -> Int] /\ at \in D[at] /\ Members \subseteq Nodes
  BY <1>1, <1>2 DEF Members, Out, Shape
<1>5. del \in Seq(alive) /\ at \in alive
  BY <1>1, <1>2, <1>4 DEF Types
<1>6. ASSUME NEW b \in alive, Lt(score, Gone, b), Lt(score, b, at)
      PROVE  FALSE
  <2>1. b \in Nodes /\ at \in Nodes /\ "left" \in Sides
    BY <1>2, <1>4 DEF Sides
  <2>2. ~Lt(score, at, b)
    <3>1. On(score, "left", at, b)
      BY <1>6 DEF On
    <3>2. ~On(score, "left", b, at)
      BY <1>4, <2>1, <3>1, OnOrder
    <3>3. QED
      BY <3>2 DEF On
  <2>3. b \in D[at]
    BY <1>2, <1>4, <1>6, <2>2
  <2>4. avl[at]["left"] # NULL
    BY <1>1, <1>2, <1>6, <2>1, <2>3, Below DEF On
  <2>5. QED
    BY <2>4
<1>7. /\ del' \in Seq(alive) /\ del' # <<>> /\ Len(del') = Len(del) + 1
      /\ del'[Len(del)+1] = at /\ \A i \in 1..Len(del) : del'[i] = del[i]
  BY <1>3, <1>5
<1>8. DelOK'
  <2>1. del'[1] = Name'
    BY <1>1, <1>3, <1>7 DEF DelOK, Name
  <2>2. ASSUME NEW i \in 1..(Len(del')-1)
        PROVE  /\ Lt(score', del'[i], del'[i+1])
               /\ \A b \in alive' : ~(Lt(score', del'[i], b) /\ Lt(score', b, del'[i+1]))
    <3>1. CASE i = Len(del)
      <4>1. del'[i] = Gone /\ del'[i+1] = at
        BY <1>3, <1>7, <3>1 DEF Gone
      <4>2. QED
        BY <1>2, <1>4, <1>6, <4>1
    <3>2. CASE i # Len(del)
      <4>1. i \in 1..(Len(del)-1) /\ del'[i] = del[i] /\ del'[i+1] = del[i+1]
        BY <1>3, <1>7, <3>2
      <4>2. QED
        BY <1>1, <4>1 DEF DelOK
    <3>3. QED
      BY <3>1, <3>2
  <2>3. QED
    BY <2>1, <2>2 DEF DelOK
<1>9. Types'
  BY <1>1, <1>7 DEF Types, Deleting
<1>10. Control'
  <2>1. Settled' <=> Settled
    BY <1>3, <1>7 DEF Settled
  <2>2. QED
    BY <1>1, <1>3, <1>7, <2>1 DEF Control, Deleting, Asking, Name
<1>11. Members' = Members
  BY <1>4 DEF Members, Out
<1>12. QuietAt'
  BY <1>1, <1>8, <1>9, <1>10, <1>11 DEF QuietAt
<1>13. QED
  BY <1>12, QuietNext

\* The victim takes the place of the node before it.
LEMMA ReplaceInv ==
  ASSUME NEW D, InvOf(Members, D), Replace,
         UNCHANGED <<index, score, alive, call, reply, znode, listed>>
  PROVE  IInv'
<1> DEFINE T == Members
           n == del[Len(del)-1]
           v == Gone
<1>1. /\ pc = "detached" /\ Len(del) > 1
      /\ avl' = Substituted(avl, n, v) /\ tree' = (IF avl[n].parent = NULL THEN v ELSE tree)
      /\ del' = SubSeq(del, 1, Len(del)-1)
      /\ UNCHANGED <<pc, at, pos, goal>>
  BY DEF Replace, Substituted
<1>2. /\ Types /\ Control /\ DelOK /\ Shape(avl, tree, T, D, score) /\ \A a \in T : LocalAt(avl, a)
  BY <1>1 DEF InvOf, Whole
<1>3. /\ del # <<>> /\ Len(del) \in Nat \ {0} /\ v \in alive
      /\ call.op \in {"zadd", "zrem"} /\ znode = NULL /\ listed = <<>>
  BY <1>1, GoneIn DEF Deleting
<1>4. T = alive \ {v} /\ T \subseteq Nodes /\ score \in [Nodes -> Int] /\ v \in Nodes \ T
  BY <1>1, <1>2, <1>3 DEF Types, Members, Out
<1>5. /\ Len(del)-1 \in 1..Len(del) /\ n \in alive
      /\ Lt(score, n, v) /\ \A b \in alive : ~(Lt(score, n, b) /\ Lt(score, b, v))
  <2>1. Len(del)-1 \in 1..(Len(del)-1) /\ Len(del)-1 \in 1..Len(del) /\ (Len(del)-1)+1 = Len(del)
    BY <1>1, <1>3
  <2>2. /\ Lt(score, del[Len(del)-1], del[(Len(del)-1)+1])
        /\ \A b \in alive : ~(Lt(score, del[Len(del)-1], b) /\ Lt(score, b, del[(Len(del)-1)+1]))
    BY <1>2, <2>1 DEF DelOK
  <2>3. n \in alive
    BY <1>2, <2>1 DEF Types
  <2>4. QED
    BY <2>1, <2>2, <2>3 DEF Gone
<1>6. n \in Nodes /\ v \in Nodes /\ n # v
  <2>1. n \in Nodes
    BY <1>2, <1>5 DEF Types
  <2>2. On(score, "right", n, v) /\ "right" \in Sides
    BY <1>5 DEF On, Sides
  <2>3. n # v
    BY <1>4, <2>1, <2>2, OnOrder
  <2>4. QED
    BY <1>4, <2>1, <2>3
<1>7. n \in T
  BY <1>4, <1>5, <1>6
<1>8. ASSUME NEW b \in T \ {n}, NEW s \in Sides
      PROVE  On(score, s, b, n) <=> On(score, s, b, v)
  <2>1. b \in Nodes /\ b \in alive /\ b # v /\ b # n /\ "right" \in Sides
    BY <1>4, <1>6 DEF Sides
  <2>2. Lt(score, b, n) => Lt(score, b, v)
    <3>1. On(score, "right", b, n) => On(score, "right", b, v)
      BY <1>4, <1>5, <1>6, <2>1, OnTrans DEF On
    <3>2. QED
      BY <3>1 DEF On
  <2>3. Lt(score, v, b) => Lt(score, n, b)
    <3>1. On(score, "right", v, b) => On(score, "right", n, b)
      BY <1>4, <1>5, <1>6, <2>1, OnTrans DEF On
    <3>2. QED
      BY <3>1 DEF On
  <2>4. /\ Lt(score, b, n) \/ Lt(score, n, b)
        /\ Lt(score, b, v) \/ Lt(score, v, b)
        /\ ~(Lt(score, b, n) /\ Lt(score, n, b))
        /\ ~(Lt(score, b, v) /\ Lt(score, v, b))
    <3>1. ASSUME NEW c \in Nodes, b # c
          PROVE  (Lt(score, b, c) \/ Lt(score, c, b)) /\ ~(Lt(score, b, c) /\ Lt(score, c, b))
      <4>1. /\ b = c \/ On(score, "right", b, c) \/ On(score, "right", c, b)
            /\ On(score, "right", b, c) => ~On(score, "right", c, b)
        BY <1>4, <2>1, OnOrder
      <4>2. QED
        BY <3>1, <4>1 DEF On
    <3>2. QED
      BY <1>6, <2>1, <3>1
  <2>5. ~(Lt(score, n, b) /\ Lt(score, b, v))
    BY <1>5, <2>1
  <2>6. (Lt(score, b, n) <=> Lt(score, b, v)) /\ (Lt(score, n, b) <=> Lt(score, v, b))
    BY <2>2, <2>3, <2>4, <2>5
  <2>7. QED
    BY <2>6 DEF On
<1> HIDE DEF n, v
<1>9. Replaced(avl, avl', n, v)
  BY <1>1, <1>2, <1>4, <1>7, ReplaceEffect
<1>10. PICK E : Shape(avl', tree', (T \ {n}) \cup {v}, E, score)
  <2>1. \E E : Shape(avl', IF avl[n].parent = NULL THEN v ELSE tree, (T \ {n}) \cup {v}, E, score)
    BY <1>2, <1>4, <1>7, <1>8, <1>9, ReplaceShape
  <2>2. QED
    BY <1>1, <2>1
<1>11. \A a \in (T \ {n}) \cup {v} : LocalAt(avl', a)
  BY <1>2, <1>4, <1>7, <1>9, ReplaceLocal
<1>12. avl' \in Mem /\ Name' = Name
  BY <1>9 DEF Replaced, Name
<1>13. /\ del' \in Seq(alive) /\ Len(del') = Len(del) - 1 /\ del' # <<>>
       /\ \A i \in 1..(Len(del)-1) : del'[i] = del[i]
  <2>1. del \in Seq(alive) /\ Len(del)-1 \in Nat /\ Len(del)-1 > 0
    BY <1>1, <1>2, <1>3 DEF Types
  <2>2. /\ SubSeq(del, 1, Len(del)-1) \in Seq(alive) /\ Len(SubSeq(del, 1, Len(del)-1)) = Len(del)-1
        /\ \A i \in 1..(Len(del)-1) : SubSeq(del, 1, Len(del)-1)[i] = del[i]
    BY <2>1
  <2>3. del' \in Seq(alive) /\ Len(del') = Len(del) - 1 /\ \A i \in 1..(Len(del)-1) : del'[i] = del[i]
    <3>1. del' = SubSeq(del, 1, Len(del)-1)
      BY <1>1
    <3>2. QED
      BY <2>2, <3>1, Zenon
  <2>4. QED
    BY <2>1, <2>3
<1>14. Gone' = n /\ del'[1] = del[1]
  BY <1>1, <1>3, <1>13 DEF Gone, n
<1> HIDE DEF T
<1>15. DelOK'
  <2>1. ASSUME NEW i \in 1..(Len(del')-1)
        PROVE  i \in 1..(Len(del)-1) /\ del'[i] = del[i] /\ del'[i+1] = del[i+1]
    BY <1>3, <1>13
  <2>2. ASSUME NEW i \in 1..(Len(del')-1)
        PROVE  /\ Lt(score', del'[i], del'[i+1])
               /\ \A b \in alive' : ~(Lt(score', del'[i], b) /\ Lt(score', b, del'[i+1]))
    BY <1>2, <2>1 DEF DelOK
  <2>3. del'[1] = Name'
    BY <1>2, <1>3, <1>12, <1>14 DEF DelOK
  <2>4. QED
    BY <2>2, <2>3 DEF DelOK
<1>16. Members' = (T \ {n}) \cup {v}
  <2>1. Members' = alive \ {n}
    BY <1>1, <1>14 DEF Members, Out
  <2>2. QED
    BY <1>3, <1>4, <1>6, <2>1
<1>17. tree' \in Nodes \cup {NULL}
  BY <1>10 DEF Shape
<1>18. Types'
  BY <1>1, <1>2, <1>12, <1>13 DEF Types
<1>19. Control'
  <2>1. Settled' <=> Settled
    BY <1>1, <1>3, <1>13 DEF Settled
  <2>2. QED
    BY <1>1, <1>2, <1>3, <1>12, <1>13, <2>1 DEF Control, Deleting, Asking
<1>20. QuietAt'
  <2>1. Shape(avl', tree', Members', E, score') /\ \A a \in Members' : LocalAt(avl', a)
    BY <1>10, <1>11, <1>16
  <2>2. QED
    BY <1>1, <1>15, <1>18, <1>19, <2>1 DEF QuietAt
<1>21. QED
  BY <1>20, QuietNext

\* A step of avl_del (avl.cpp:105-145).
LEMMA AvlDelInv ==
  ASSUME NEW D, InvOf(Members, D), avl_del,
         UNCHANGED <<index, score, alive, call, reply, znode, listed>>
  PROVE  IInv'
<1>1. CASE pc = "del" /\ Unlink /\ UNCHANGED <<pos, goal>>
  BY <1>1, UnlinkInv
<1>2. CASE pc = "del" /\ FindVictim /\ UNCHANGED <<pos, goal>>
  BY <1>2, FindVictimInv
<1>3. CASE Leftmost
  <2>1. pc = "victim" /\ UNCHANGED <<avl, tree, pos, goal>>
    BY <1>3 DEF Leftmost
  <2>2. CASE avl[at].left # NULL /\ at' = avl[at].left /\ UNCHANGED <<pc, del>>
    BY <2>1, <2>2, LeftmostInv
  <2>3. CASE avl[at].left = NULL /\ del' = Append(del, at) /\ at' = NULL /\ pc' = "del"
    BY <2>1, <2>3, RecurInv
  <2>4. QED
    BY <1>3, <2>2, <2>3 DEF Leftmost
<1>4. CASE Replace
  BY <1>4, ReplaceInv
<1>5. QED
  BY <1>1, <1>2, <1>3, <1>4 DEF avl_del

-----------------------------------------------------------------------------
(* Queries: zset_query, avl_offset and do_zquery's loop *)

\* A query that lists something has begun.
Querying == pc \in Asking \/ (pc = "call" /\ call.op = "zquery" /\ call.limit > 0)

\* While it is under way the tree is whole and the tuples are those of its nodes.
LEMMA QueryingIs ==
  ASSUME NEW D, InvOf(Members, D), Querying
  PROVE  /\ Members = alive /\ index = alive /\ alive \subseteq Nodes /\ Nodes \subseteq Int
         /\ Shape(avl, tree, alive, D, score) /\ \A a \in alive : LocalAt(avl, a)
         /\ avl \in Mem /\ score \in [Nodes -> Int] /\ IsFiniteSet(alive) /\ Sorted(Tuples)
         /\ call \in Calls /\ call.op = "zquery" /\ call.limit > 0 /\ call.limit \in Int
         /\ call.score \in Int /\ call.name \in Int /\ call.offset \in Int
         /\ del = <<>> /\ reply = NoReply
         /\ pos \in Int /\ goal \in Int /\ listed \in Seq(Nodes \X Int)
         /\ (at \in Nodes \cup {NULL}) /\ (znode \in alive \cup {NULL})
<1>1. Types /\ Control /\ Shape(avl, tree, Members, D, score) /\ Whole(Members)
  BY DEF InvOf
<1>2. /\ call.op = "zquery" /\ call.limit > 0 /\ del = <<>> /\ index = alive /\ call \in Calls
      /\ reply = NoReply
  <2>1. call.op = "zquery" /\ call.limit > 0 /\ del = <<>> /\ index = alive /\ call \in Calls
    BY <1>1 DEF Types, Control, Querying, Asking
  <2>2. ~Settled
    BY <2>1 DEF Settled, Querying, Asking
  <2>3. QED
    BY <1>1, <2>1, <2>2 DEF Control
<1>3. Members = alive /\ \A a \in Members : LocalAt(avl, a)
  BY <1>1, <1>2 DEF Members, Out, Querying, Asking, Whole
<1>4. Nodes \subseteq Int /\ alive \subseteq Nodes /\ IsFiniteSet(alive) /\ score \in [Nodes -> Int] /\ avl \in Mem
  BY <1>1, ZSetAssumption DEF Types
<1>5. Sorted(Tuples)
  BY <1>2, <1>4 DEF Sorted, Tuples
<1>6. call.score \in Int /\ call.name \in Int /\ call.offset \in Int /\ call.limit \in Int
  BY <1>2, CallType
<1>7. pos \in Int /\ goal \in Int /\ listed \in Seq(Nodes \X Int)
      /\ (at \in Nodes \cup {NULL}) /\ (znode \in alive \cup {NULL})
  BY <1>1 DEF Types
<1>8. Shape(avl, tree, alive, D, score) /\ \A a \in alive : LocalAt(avl, a)
  BY <1>1, <1>3
<1>9. QED
  BY <1>2, <1>3, <1>4, <1>5, <1>6, <1>7, <1>8

\* A step of the query: what is left to show is where it is then.
LEMMA AskStep ==
  ASSUME NEW D, InvOf(Members, D), Querying, pc' \in Asking,
         UNCHANGED <<avl, tree, index, score, alive, del, call, reply>>,
         at' \in alive \cup {NULL}, znode' \in alive \cup {NULL}, pos' \in Int, goal' \in Int,
         listed' \in Seq(Nodes \X Int), pc' = "query" => listed' = <<>>,
         Cursor(alive, D)'
  PROVE  IInv'
<1>1. Members = alive /\ index = alive /\ alive \subseteq Nodes /\ call.op = "zquery" /\ call.limit > 0
      /\ del = <<>> /\ reply = NoReply
  BY QueryingIs
<1>2. Types /\ Control /\ DelOK /\ Shape(avl, tree, Members, D, score) /\ Whole(Members)
  BY DEF InvOf
<1>3. Members' = alive'
  BY <1>1 DEF Members, Out, Asking
<1>4. Types'
  BY <1>1, <1>2 DEF Types, Querying, Asking
<1>5. Control'
  <2>1. ~Settled'
    BY <1>1 DEF Settled, Asking
  <2>2. QED
    BY <1>1, <1>2, <2>1 DEF Control, Querying, Asking, Deleting
<1>6. DelOK'
  BY <1>1 DEF DelOK
<1>7. Shape(avl', tree', Members', D, score')
  BY <1>1, <1>2, <1>3
<1>8. Whole(Members)'
  BY <1>1, <1>2, <1>3 DEF Whole, Querying, Asking
<1>9. Cursor(Members, D)'
  BY <1>3
<1>10. InvOf(Members, D)'
  BY <1>4, <1>5, <1>6, <1>7, <1>8, <1>9 DEF InvOf
<1>11. QED
  BY <1>10 DEF IInv

\* The search begins at the root.
LEMMA BeginQueryInv ==
  ASSUME NEW D, InvOf(Members, D), Begun("zquery"), call.limit > 0,
         pc' = "query" /\ at' = tree, NoQuery, UNCHANGED <<call, reply, avl, tree, set, del>>
  PROVE  IInv'
<1>1. Querying /\ pc = "call" /\ UNCHANGED <<index, score, alive, pos, goal, znode, listed>>
  BY DEF Querying, Begun, NoQuery, set
<1>2. /\ Shape(avl, tree, alive, D, score)
      /\ pos \in Int /\ goal \in Int /\ listed \in Seq(Nodes \X Int)
  BY <1>1, QueryingIs
<1>3. znode = NULL /\ listed = <<>>
  BY <1>1 DEF InvOf, Control, Asking
<1>4. IF tree = NULL THEN alive = {} ELSE tree \in alive /\ D[tree] = alive
  BY <1>2 DEF Shape
<1>5. AtQuery(alive, D)'
  BY <1>1, <1>3, <1>4 DEF AtQuery
<1>6. Cursor(alive, D)'
  BY <1>5 DEF Cursor, OffsetsAgree
<1>7. pc' \in Asking
  BY DEF Asking
<1>8. QED
  BY <1>1, <1>2, <1>3, <1>4, <1>6, <1>7, AskStep

\* What comes before a node that is before the key is before the key.
LEMMA BeforeTrans ==
  ASSUME score \in [Nodes -> Int], Nodes \subseteq Int, call.score \in Int, call.name \in Int,
         NEW a \in Nodes, NEW b \in Nodes, Lt(score, a, b), BeforeKey(b)
  PROVE  BeforeKey(a)
<1>1. a \in Int /\ b \in Int /\ score[a] \in Int /\ score[b] \in Int
  OBVIOUS
<1>2. QED
  BY <1>1, ZlessTrans DEF Lt, BeforeKey

\* One step of the search down.
LEMMA QueryStepInv ==
  ASSUME NEW D, InvOf(Members, D), pc = "query", at # NULL,
         \/ BeforeKey(at) /\ at' = avl[at].right /\ UNCHANGED znode
         \/ ~BeforeKey(at) /\ at' = avl[at].left /\ znode' = at,
         UNCHANGED <<pc, pos, goal, listed, avl, tree, index, score, alive, del, call, reply>>
  PROVE  IInv'
<1>1. /\ Shape(avl, tree, alive, D, score) /\ Members = alive /\ alive \subseteq Nodes
      /\ score \in [Nodes -> Int] /\ Nodes \subseteq Int /\ call.score \in Int /\ call.name \in Int
      /\ pos \in Int /\ goal \in Int /\ listed \in Seq(Nodes \X Int) /\ Querying
      /\ (znode \in alive \cup {NULL})
  BY QueryingIs DEF Querying, Asking
<1>2. listed = <<>> /\ AtQuery(alive, D)
  BY <1>1 DEF InvOf, Control, Cursor, Asking
<1>3. /\ at \in alive
      /\ znode # NULL => znode \in alive /\ ~BeforeKey(znode) /\ \A b \in D[at] : Lt(score, b, znode)
      /\ \A b \in alive : \/ b \in D[at]
                          \/ BeforeKey(b)
                          \/ znode # NULL /\ (b = znode \/ Lt(score, znode, b))
  BY <1>2 DEF AtQuery
<1>4. at \in D[at] /\ D[at] \subseteq alive
  BY <1>1, <1>3 DEF Shape
<1>5. ASSUME NEW b \in D[at]
      PROVE  /\ b \in Nodes /\ at \in Nodes
             /\ b = at \/ Lt(score, b, at) \/ Lt(score, at, b)
             /\ Lt(score, b, at) => avl[at].left # NULL /\ b \in D[avl[at].left]
             /\ Lt(score, at, b) => avl[at].right # NULL /\ b \in D[avl[at].right]
  <2>1. b \in Nodes /\ at \in Nodes /\ "left" \in Sides /\ "right" \in Sides
    BY <1>1, <1>3, <1>4 DEF Sides
  <2>2. b = at \/ Lt(score, b, at) \/ Lt(score, at, b)
    <3>1. at = b \/ On(score, "left", at, b) \/ On(score, "left", b, at)
      BY <1>1, <2>1, OnOrder
    <3>2. QED
      BY <3>1 DEF On
  <2>3. Lt(score, b, at) => avl[at]["left"] # NULL /\ b \in D[avl[at]["left"]]
    BY <1>1, <1>3, <1>5, <2>1, Below DEF On
  <2>4. Lt(score, at, b) => avl[at]["right"] # NULL /\ b \in D[avl[at]["right"]]
    BY <1>1, <1>3, <1>5, <2>1, Below DEF On
  <2>5. QED
    BY <2>1, <2>2, <2>3, <2>4
<1>6. /\ (at' \in alive \cup {NULL})
      /\ at' # NULL => D[at'] \subseteq D[at]
  <2>1. ASSUME NEW s \in Sides, avl[at][s] # NULL
        PROVE  avl[at][s] \in alive /\ D[avl[at][s]] \subseteq D[at]
    BY <1>1, <1>3, <2>1, Kid
  <2>2. \E s \in Sides : at' = avl[at][s]
    BY DEF Sides
  <2>3. QED
    BY <2>1, <2>2
<1>7. AtQuery(alive, D)'
  <2>0. \A b : BeforeKey(b)' <=> BeforeKey(b)
    BY DEF BeforeKey
  <2>1. CASE BeforeKey(at) /\ at' = avl[at].right /\ UNCHANGED znode
    <3>1. \A b \in D[at] : BeforeKey(b) \/ (at' # NULL /\ b \in D[at'])
      BY <1>1, <1>5, <2>1, BeforeTrans
    <3>2. QED
      BY <1>3, <1>6, <2>0, <2>1, <3>1 DEF AtQuery
  <2>2. CASE ~BeforeKey(at) /\ at' = avl[at].left /\ znode' = at
    <3>1. \A b \in D[at] : (at' # NULL /\ b \in D[at']) \/ b = at \/ Lt(score, at, b)
      BY <1>5, <2>2
    <3>2. at' # NULL => \A b \in D[at'] : Lt(score, b, at)
      <4>1. at' # NULL => D[avl[at]["left"]] = {b \in D[at] : On(score, "left", at, b)}
        BY <1>1, <1>3, <2>2, Kid DEF Sides
      <4>2. QED
        BY <2>2, <4>1 DEF On
    <3>3. ASSUME NEW b \in alive, znode # NULL, b = znode \/ Lt(score, znode, b)
          PROVE  Lt(score, at, b)
      <4>1. znode \in Nodes /\ at \in Nodes /\ b \in Nodes /\ "right" \in Sides
        BY <1>1, <1>3, <3>3 DEF Sides
      <4>2. Lt(score, at, znode)
        BY <1>3, <1>4, <3>3
      <4>3. On(score, "right", znode, b) => On(score, "right", at, b)
        BY <1>1, <4>1, <4>2, OnTrans DEF On
      <4>4. QED
        BY <3>3, <4>2, <4>3 DEF On
    <3>4. \A b \in alive : (at' # NULL /\ b \in D[at']) \/ BeforeKey(b) \/ b = at \/ Lt(score, at, b)
      BY <1>3, <3>1, <3>3
    <3>5. at # NULL
      OBVIOUS
    <3>6. QED
      BY <1>3, <1>6, <2>0, <2>2, <3>2, <3>4, <3>5 DEF AtQuery
  <2>3. QED
    BY <2>1, <2>2
<1>8. Cursor(alive, D)'
  BY <1>7 DEF Cursor, OffsetsAgree
<1>9. znode' \in alive \cup {NULL}
  BY <1>1, <1>3
<1>10. pc' \in Asking
  BY DEF Asking
<1>11. QED
  BY <1>1, <1>2, <1>6, <1>8, <1>9, <1>10, AskStep

\* The place of a node is the number of the nodes before it.
LEMMA PlaceIs ==
  ASSUME NEW D, InvOf(Members, D), Querying, NEW n \in alive
  PROVE  /\ Place(n) = Cardinality(Before(alive, score, n))
         /\ Place(n) \in 0..(Cardinality(index)-1) /\ Place(n) \in Int
<1>1. index = alive /\ Sorted(Tuples) /\ alive \subseteq Nodes /\ IsFiniteSet(alive)
  BY QueryingIs
<1>2. DOMAIN Tuples = alive /\ \A b \in alive : Tuples[b] = score[b]
  BY <1>1 DEF Tuples
<1>3. Preceding(Tuples, score[n], n) = Before(alive, score, n)
  BY <1>2 DEF Preceding, Before, Lt
<1>4. Rank(Tuples, Tuples[n], n) \in 0..(Size(Tuples)-1)
  BY <1>1, <1>2, RankBelowSize
<1>5. Place(n) \in 0..(Cardinality(index)-1)
  BY <1>1, <1>2, <1>4 DEF Place, Size
<1>6. Place(n) \in Int
  BY <1>5
<1>7. QED
  BY <1>3, <1>5, <1>6 DEF Place, Rank

\* Places stay what they are while the tuples and the call do.
LEMMA PlacesStay ==
  ASSUME UNCHANGED <<index, score, call>>
  PROVE  Tuples' = Tuples /\ First' = First /\ \A n : Rank(Tuples', score'[n], n) = Place(n)
<1>1. Tuples' = Tuples
  BY DEF Tuples
<1>2. QED
  BY <1>1 DEF First, Place

\* The search down has found the first node that is not before what was asked for.
LEMMA FoundFirst ==
  ASSUME NEW D, InvOf(Members, D), pc = "query", at = NULL
  PROVE  /\ First \in Int
         /\ znode = NULL => First = Cardinality(index)
         /\ znode # NULL => Place(znode) = First /\ First < Cardinality(index)
<1>1. /\ Querying /\ index = alive /\ Sorted(Tuples) /\ alive \subseteq Nodes /\ Nodes \subseteq Int
      /\ score \in [Nodes -> Int] /\ call.score \in Int /\ call.name \in Int /\ Members = alive
  BY QueryingIs DEF Querying, Asking
<1>2. AtQuery(alive, D)
  BY <1>1 DEF InvOf, Cursor
<1>3. DOMAIN Tuples = alive /\ \A b \in alive : Tuples[b] = score[b]
  BY <1>1 DEF Tuples
<1>4. Preceding(Tuples, call.score, call.name) = {b \in alive : BeforeKey(b)}
  BY <1>3 DEF Preceding, BeforeKey
<1>5. First \in Int
  BY <1>1, RankType DEF First
<1>6. CASE znode = NULL
  <2>1. {b \in alive : BeforeKey(b)} = alive
    BY <1>2, <1>6 DEF AtQuery
  <2>2. QED
    BY <1>1, <1>4, <1>5, <1>6, <2>1 DEF First, Rank
<1>7. CASE znode # NULL
  <2>1. znode \in alive /\ ~BeforeKey(znode)
        /\ \A b \in alive : BeforeKey(b) \/ b = znode \/ Lt(score, znode, b)
    BY <1>2, <1>7 DEF AtQuery
  <2>2. ASSUME NEW b \in alive
        PROVE  BeforeKey(b) <=> Lt(score, b, znode)
    <3>1. b \in Int /\ znode \in Int /\ score[b] \in Int /\ score[znode] \in Int
      BY <1>1, <2>1
    <3>2. BeforeKey(b) => Lt(score, b, znode)
      BY <1>1, <2>1, <3>1 DEF BeforeKey, Lt, zless
    <3>3. Lt(score, b, znode) => BeforeKey(b)
      BY <2>1, <3>1, ZlessOrder DEF Lt
    <3>4. QED
      BY <3>2, <3>3
  <2>3. {b \in alive : BeforeKey(b)} = Before(alive, score, znode)
    BY <2>2 DEF Before
  <2>4. First = Cardinality(Before(alive, score, znode))
    BY <1>4, <2>3 DEF First, Rank
  <2>5. Place(znode) = First /\ Place(znode) \in 0..(Cardinality(index)-1)
    BY <1>1, <2>1, <2>4, PlaceIs
  <2>6. Cardinality(index) \in Nat
    BY <1>1, <1>3, RankType DEF Size
  <2>7. QED
    BY <1>5, <1>7, <2>5, <2>6
<1>8. QED
  BY <1>5, <1>6, <1>7

\* zset_query has found the first node not before the key, and avl_offset begins.
LEMMA QueryEndInv ==
  ASSUME NEW D, InvOf(Members, D), pc = "query", at = NULL, znode_offset(znode, call.offset),
         UNCHANGED <<listed, avl, tree, index, score, alive, del, call, reply>>
  PROVE  IInv'
<1>1. /\ Querying /\ index = alive /\ Members = alive /\ call.offset \in Int /\ listed \in Seq(Nodes \X Int)
      /\ (znode \in alive \cup {NULL})
  BY QueryingIs DEF Querying, Asking
<1>2. listed = <<>>
  BY <1>1 DEF InvOf, Control
<1>3. /\ at' = znode /\ znode' = znode /\ pos' = 0 /\ goal' = call.offset
      /\ pc' = (IF znode = NULL THEN "list" ELSE "offset")
  BY DEF znode_offset
<1>4. /\ First \in Int
      /\ znode = NULL => First = Cardinality(index)
      /\ znode # NULL => Place(znode) = First /\ First < Cardinality(index)
  BY FoundFirst
<1>5. First' = First /\ Tuples' = Tuples /\ \A n : Rank(Tuples', score'[n], n) = Place(n)
  BY PlacesStay
<1>6. znode # NULL => Rank(Tuples', score'[znode'], znode') = First
  BY <1>3, <1>4, <1>5
<1>7. Listing'
  <2>1. znode' # NULL => Rank(Tuples', score'[znode'], znode') + goal' = First' + call'.offset + Len(listed')
    BY <1>1, <1>2, <1>3, <1>4, <1>5, <1>6
  <2>2. \A i \in 1..Len(listed') : FALSE
    BY <1>2
  <2>3. znode' = NULL => First' = Cardinality(index') /\ at' = NULL /\ listed' = <<>>
    BY <1>2, <1>3, <1>4, <1>5
  <2>4. znode' # NULL => First' < Cardinality(index')
    BY <1>3, <1>4, <1>5
  <2>5. at' # NULL => at' \in alive'
    BY <1>1, <1>3
  <2>6. pc' = "offset" => at' # NULL
    BY <1>3
  <2>7. listed' = <<>>
    BY <1>2
  <2>8. QED
    BY <2>1, <2>2, <2>3, <2>4, <2>5, <2>6, <2>7 DEF Listing, Place
<1>8. OffsetsAgree'
  <2>1. znode # NULL => Rank(Tuples', score'[at'], at') = Rank(Tuples', score'[znode'], znode') + pos'
    BY <1>3, <1>4, <1>6
  <2>2. pc' = "list" => znode' = NULL
    BY <1>3
  <2>3. pc' = "offset" => znode # NULL
    BY <1>3
  <2>4. QED
    BY <2>1, <2>2, <2>3 DEF OffsetsAgree, Place
<1>9. Cursor(alive, D)'
  <2>1. pc' \in {"offset", "list"}
    BY <1>3
  <2>2. QED
    BY <1>7, <1>8, <2>1 DEF Cursor
<1>10. pc' \in Asking /\ pc' # "query"
  BY <1>3 DEF Asking
<1>11. at' \in alive \cup {NULL} /\ znode' \in alive \cup {NULL} /\ pos' \in Int /\ goal' \in Int
       /\ listed' \in Seq(Nodes \X Int)
  BY <1>1, <1>3
<1>12. QED
  BY <1>1, <1>9, <1>10, <1>11, AskStep

\* What avl_offset's walk has gone is what the places differ by.
LEMMA WalkInv ==
  ASSUME NEW D, InvOf(Members, D), pc = "offset", pc' \in {"offset", "list"},
         UNCHANGED <<avl, tree, index, score, alive, del, call, reply, goal, znode, listed>>,
         at' \in alive \cup {NULL}, pos' \in Int,
         pc' = "offset" => at' # NULL /\ Place(at') = Place(znode) + pos',
         pc' = "list" => IF at' = NULL THEN Place(znode) + goal \notin 0..(Cardinality(index)-1)
                         ELSE Place(at') = Place(znode) + goal
  PROVE  IInv'
<1>1. /\ Querying /\ index = alive /\ Members = alive /\ goal \in Int /\ listed \in Seq(Nodes \X Int)
      /\ (znode \in alive \cup {NULL})
  BY QueryingIs DEF Querying, Asking
<1>2. Listing
  BY DEF InvOf, Cursor
<1>3. First' = First /\ Tuples' = Tuples /\ \A n : Rank(Tuples', score'[n], n) = Place(n)
  BY PlacesStay
<1>4. znode # NULL
  BY <1>2 DEF Listing
<1>5. Listing'
  <2>1. Rank(Tuples', score'[znode'], znode') + goal' = First' + call'.offset + Len(listed')
    BY <1>2, <1>3, <1>4 DEF Listing
  <2>2. \A i \in 1..Len(listed') :
           /\ listed'[i][1] \in index' /\ listed'[i][2] = score'[listed'[i][1]]
           /\ Rank(Tuples', score'[listed'[i][1]], listed'[i][1]) = First' + call'.offset + i - 1
    BY <1>2, <1>3 DEF Listing
  <2>3. First' < Cardinality(index')
    BY <1>2, <1>3, <1>4 DEF Listing
  <2>4. listed' # <<>> => PerTuple * (Len(listed') - 1) < call'.limit /\ First' + call'.offset >= 0
    BY <1>2, <1>3 DEF Listing
  <2>5. at' # NULL => at' \in alive'
    OBVIOUS
  <2>6. QED
    BY <1>4, <2>1, <2>2, <2>3, <2>4, <2>5 DEF Listing, Place
<1>6. OffsetsAgree'
  BY <1>3 DEF OffsetsAgree, Place
<1>7. Cursor(alive, D)'
  BY <1>5, <1>6 DEF Cursor
<1>8. pc' \in Asking /\ pc' # "query"
  BY DEF Asking
<1>9. QED
  BY <1>1, <1>7, <1>8, AskStep

\* A step of avl_offset (avl.cpp:150-176).
LEMMA OffsetInv ==
  ASSUME NEW D, InvOf(Members, D), avl_offset,
         UNCHANGED <<index, score, alive, call, reply, znode, listed>>
  PROVE  IInv'
<1>1. pc = "offset" /\ UNCHANGED <<avl, tree, del>>
  BY DEF avl_offset
<1>2. /\ Querying /\ index = alive /\ Members = alive /\ goal \in Int /\ pos \in Int /\ alive \subseteq Nodes
      /\ Shape(avl, tree, alive, D, score) /\ avl \in Mem /\ \A a \in alive : LocalAt(avl, a)
      /\ (znode \in alive \cup {NULL}) /\ NULL \notin Nodes
  BY <1>1, QueryingIs, AVLAssumption DEF Querying, Asking
<1>3. Listing /\ OffsetsAgree
  BY <1>1 DEF InvOf, Cursor
<1>4. at \in alive /\ znode \in alive /\ Place(at) = Place(znode) + pos
  BY <1>1, <1>2, <1>3 DEF Listing, OffsetsAgree
<1>5. Place(at) \in Int /\ Place(znode) \in Int /\ Place(at) \in 0..(Cardinality(index)-1)
  BY <1>2, <1>4, PlaceIs
<1>6. ASSUME NEW n \in alive
      PROVE  Place(n) = Cardinality(Before(alive, score, n)) /\ Place(n) \in Int
  BY <1>2, PlaceIs
<1>7. ASSUME NEW n \in alive, NEW s \in Sides
      PROVE  /\ avl_cnt(avl, avl[n][s]) \in Nat
             /\ avl[n][s] # NULL => avl[n][s] \in alive
  BY <1>2, Kid, DepType
<1>8. "left" \in Sides /\ "right" \in Sides
  BY DEF Sides
<1>9. CASE GoRight /\ UNCHANGED <<pc, goal>>
  <2> DEFINE r == avl[at].right
  <2>1. Rightward /\ at' = r /\ pos' = pos + avl_cnt(avl, avl[r].left) + 1
    BY <1>9 DEF GoRight
  <2>2. r # NULL /\ r \in alive
    <3>1. r # NULL
      BY <1>2, <2>1 DEF Rightward, avl_cnt
    <3>2. r # NULL => r \in alive
      BY <1>4, <1>7, <1>8
    <3>3. QED
      BY <3>1, <3>2
  <2>3. Place(r) = Place(at) + avl_cnt(avl, avl[r].left) + 1
    <3>1. Cardinality(Before(alive, score, r)) = Cardinality(Before(alive, score, at)) + avl_cnt(avl, avl[r].left) + 1
      BY <1>2, <1>4, <2>2, RightPlace
    <3>2. QED
      BY <1>4, <1>6, <2>2, <3>1
  <2>4. avl_cnt(avl, avl[r].left) \in Nat
    BY <1>7, <1>8, <2>2
  <2>5. pos' \in Int /\ Place(at') = Place(znode) + pos'
    BY <1>2, <1>4, <1>5, <2>1, <2>3, <2>4
  <2>6. QED
    BY <1>1, <1>9, <2>1, <2>2, <2>5, WalkInv
<1>10. CASE GoLeft /\ UNCHANGED <<pc, goal>>
  <2> DEFINE l == avl[at].left
  <2>1. Leftward /\ at' = l /\ pos' = pos - (avl_cnt(avl, avl[l].right) + 1)
    BY <1>10 DEF GoLeft
  <2>2. l # NULL /\ l \in alive
    <3>1. l # NULL
      BY <1>2, <2>1 DEF Leftward, avl_cnt
    <3>2. l # NULL => l \in alive
      BY <1>4, <1>7, <1>8
    <3>3. QED
      BY <3>1, <3>2
  <2>3. Place(at) = Place(l) + avl_cnt(avl, avl[l].right) + 1
    <3>1. Cardinality(Before(alive, score, at)) = Cardinality(Before(alive, score, l)) + avl_cnt(avl, avl[l].right) + 1
      BY <1>2, <1>4, <2>2, LeftPlace
    <3>2. QED
      BY <1>4, <1>6, <2>2, <3>1
  <2>4. avl_cnt(avl, avl[l].right) \in Nat /\ Place(l) \in Int
    BY <1>6, <1>7, <1>8, <2>2
  <2>5. pos' \in Int /\ Place(at') = Place(znode) + pos'
    BY <1>2, <1>4, <1>5, <2>1, <2>3, <2>4
  <2>6. QED
    BY <1>1, <1>10, <2>1, <2>2, <2>5, WalkInv
<1>11. CASE GoUp /\ UNCHANGED <<pc, goal>>
  <2> DEFINE p == avl[at].parent
             l == avl_cnt(avl, avl[at].left)
             r == avl_cnt(avl, avl[at].right)
  <2>1. p # NULL /\ at' = p /\ pos' = UpFrom(at, p)
    BY <1>11 DEF GoUp
  <2>2. p \in alive /\ \E s \in Sides : avl[p][s] = at
    BY <1>2, <1>4, <2>1, Parent
  <2>3. l \in Nat /\ r \in Nat /\ Place(p) \in Int
    BY <1>4, <1>6, <1>7, <1>8, <2>2
  <2>4. at # NULL
    BY <1>2, <1>4
  <2>5. CASE avl[p].right = at
    <3>1. Cardinality(Before(alive, score, avl[p].right))
            = Cardinality(Before(alive, score, p)) + avl_cnt(avl, avl[avl[p].right].left) + 1
      BY <1>2, <2>2, <2>4, <2>5, RightPlace
    <3>2. Place(at) = Place(p) + l + 1
      BY <1>4, <1>6, <2>2, <2>5, <3>1
    <3>3. pos' = pos - (l + 1)
      BY <2>1, <2>5 DEF UpFrom
    <3>4. pos' \in Int /\ Place(at') = Place(znode) + pos'
      BY <1>2, <1>4, <1>5, <2>1, <2>3, <3>2, <3>3
    <3>5. QED
      BY <1>1, <1>11, <2>1, <2>2, <3>4, WalkInv
  <2>6. CASE avl[p].right # at
    <3>0. avl[p].left = at
      BY <2>2, <2>6 DEF Sides
    <3>1. Cardinality(Before(alive, score, p))
            = Cardinality(Before(alive, score, avl[p].left)) + avl_cnt(avl, avl[avl[p].left].right) + 1
      BY <1>2, <2>2, <2>4, <3>0, LeftPlace
    <3>2. Place(p) = Place(at) + r + 1
      BY <1>4, <1>6, <2>2, <3>0, <3>1
    <3>3. pos' = pos + r + 1
      BY <2>1, <2>6 DEF UpFrom
    <3>4. pos' \in Int /\ Place(at') = Place(znode) + pos'
      BY <1>2, <1>4, <1>5, <2>1, <2>3, <3>2, <3>3
    <3>5. QED
      BY <1>1, <1>11, <2>1, <2>2, <3>4, WalkInv
  <2>7. QED
    BY <2>5, <2>6
<1>12. CASE pos = goal /\ UNCHANGED at /\ pc' = "list" /\ UNCHANGED <<pos, goal>>
  <2>1. Place(at') = Place(znode) + goal /\ at' # NULL
    BY <1>2, <1>4, <1>12
  <2>2. QED
    BY <1>1, <1>2, <1>4, <1>12, <2>1, WalkInv
<1>13. CASE /\ pos # goal /\ ~Rightward /\ ~Leftward /\ avl[at].parent = NULL /\ at' = NULL
            /\ pc' = "list" /\ UNCHANGED <<pos, goal>>
  <2> DEFINE l == avl_cnt(avl, avl[at].left)
             r == avl_cnt(avl, avl[at].right)
  <2>1. at = tree
    BY <1>2, <1>4, <1>13, Parent
  <2>2. Place(at) = l /\ Cardinality(alive) = l + r + 1 /\ l \in Nat /\ r \in Nat
    <3>1. Cardinality(Before(alive, score, tree)) = avl_cnt(avl, avl[tree].left)
          /\ Cardinality(alive) = avl_cnt(avl, avl[tree].left) + avl_cnt(avl, avl[tree].right) + 1
      BY <1>2, <1>4, <2>1, RootPlace
    <3>2. QED
      BY <1>4, <1>6, <1>7, <1>8, <2>1, <3>1
  <2>3. (pos < goal => ~(pos + r >= goal)) /\ (pos > goal => ~(pos - l <= goal))
    BY <1>13 DEF Rightward, Leftward
  <2> HIDE DEF l, r
  <2>4. Place(znode) + goal \notin 0..(Cardinality(index)-1)
    BY <1>2, <1>4, <1>5, <1>13, <2>2, <2>3
  <2>5. QED
    BY <1>1, <1>2, <1>13, <2>4, WalkInv
<1>14. QED
  BY <1>9, <1>10, <1>11, <1>12, <1>13 DEF avl_offset, OffsetReturns

\* A tuple is listed, and the next one is looked for.
LEMMA ListOneInv ==
  ASSUME NEW D, InvOf(Members, D), pc = "list", ListOne,
         UNCHANGED <<avl, tree, index, score, alive, del>>
  PROVE  IInv'
<1> DEFINE len == Len(listed)
<1>1. /\ at # NULL /\ PerTuple * len < call.limit /\ listed' = Append(listed, <<at, score[at]>>)
      /\ at' = at /\ znode' = at /\ pos' = 0 /\ goal' = 1 /\ pc' = "offset" /\ UNCHANGED <<call, reply>>
  BY DEF ListOne, More, znode_offset
<1>2. /\ Querying /\ index = alive /\ goal \in Int /\ pos \in Int /\ alive \subseteq Nodes
      /\ (znode \in alive \cup {NULL}) /\ listed \in Seq(Nodes \X Int) /\ score \in [Nodes -> Int]
      /\ call.offset \in Int /\ call.score \in Int /\ call.name \in Int /\ Sorted(Tuples)
  BY QueryingIs DEF Querying, Asking
<1>3. Listing /\ OffsetsAgree
  BY DEF InvOf, Cursor
<1>4. at \in alive /\ znode \in alive /\ Place(at) = Place(znode) + goal
  BY <1>1, <1>2, <1>3 DEF Listing, OffsetsAgree
<1>5. Place(at) \in 0..(Cardinality(index)-1) /\ Place(at) \in Int /\ Place(znode) \in Int /\ First \in Int
  <2>1. First \in Int
    BY <1>2, RankType DEF First
  <2>2. QED
    BY <1>2, <1>4, <2>1, PlaceIs
<1>6. First' = First /\ Tuples' = Tuples /\ \A n : Rank(Tuples', score'[n], n) = Place(n)
  BY <1>1, PlacesStay
<1>7. len \in Nat /\ Place(znode) + goal = First + call.offset + len /\ First < Cardinality(index)
      /\ (listed # <<>> => First + call.offset >= 0) /\ (listed = <<>> => len = 0)
  <2>1. znode # NULL
    BY <1>2, <1>4, AVLAssumption
  <2>2. /\ Place(znode) + goal = First + call.offset + len /\ First < Cardinality(index)
        /\ (listed # <<>> => First + call.offset >= 0)
    BY <1>3, <2>1 DEF Listing
  <2>3. len \in Nat /\ (listed = <<>> => len = 0)
    BY <1>2
  <2>4. QED
    BY <2>2, <2>3
<1>8. Place(at) = First + call.offset + len /\ First + call.offset >= 0
  BY <1>2, <1>4, <1>5, <1>7
<1>9. /\ listed' \in Seq(Nodes \X Int) /\ Len(listed') = len + 1 /\ listed'[len+1] = <<at, score[at]>>
      /\ \A i \in 1..len : listed'[i] = listed[i]
  BY <1>1, <1>2, <1>4
<1>10. Listing'
  <2>1. Rank(Tuples', score'[znode'], znode') + goal' = First' + call'.offset + Len(listed')
    <3>1. Rank(Tuples', score'[znode'], znode') = Place(at)
      BY <1>1, <1>6
    <3>2. goal' = 1 /\ First' = First /\ call'.offset = call.offset /\ Len(listed') = len + 1
      BY <1>1, <1>6, <1>9
    <3>3. Place(at) + 1 = First + call.offset + (len + 1)
      <4> HIDE DEF len
      <4>1. len \in Int /\ First \in Int /\ call.offset \in Int /\ Place(at) \in Int
        BY <1>2, <1>5, <1>7
      <4>2. Place(at) = First + call.offset + len
        BY <1>8
      <4>3. QED
        BY <4>1, <4>2
    <3>4. QED
      BY <3>1, <3>2, <3>3
  <2>2. ASSUME NEW i \in 1..Len(listed')
        PROVE  /\ listed'[i][1] \in index' /\ listed'[i][2] = score'[listed'[i][1]]
               /\ Rank(Tuples', score'[listed'[i][1]], listed'[i][1]) = First' + call'.offset + i - 1
    <3>1. CASE i = len + 1
      <4>1. listed'[i][1] = at /\ listed'[i][2] = score[at]
        BY <1>9, <3>1
      <4>2. Place(at) = First + call.offset + i - 1
        BY <1>2, <1>5, <1>7, <1>8, <3>1
      <4>3. QED
        BY <1>1, <1>2, <1>4, <1>6, <4>1, <4>2
    <3>2. CASE i # len + 1
      <4>1. i \in 1..len
        BY <1>7, <1>9, <3>2
      <4>2. listed'[i] = listed[i]
        BY <1>9, <4>1
      <4>3. listed[i][1] \in index /\ listed[i][2] = score[listed[i][1]]
            /\ Place(listed[i][1]) = First + call.offset + i - 1
        BY <1>3, <4>1 DEF Listing
      <4>4. QED
        BY <1>1, <1>6, <4>2, <4>3
    <3>3. QED
      BY <3>1, <3>2
  <2>3. First' < Cardinality(index') /\ znode' # NULL /\ at' # NULL /\ at' \in alive'
    BY <1>1, <1>4, <1>6, <1>7
  <2>4. PerTuple * (Len(listed') - 1) < call'.limit /\ First' + call'.offset >= 0
    BY <1>1, <1>6, <1>7, <1>8, <1>9 DEF PerTuple
  <2>5. QED
    BY <2>1, <2>2, <2>3, <2>4 DEF Listing, Place
<1>11. OffsetsAgree'
  <2>1. Rank(Tuples', score'[at'], at') = Rank(Tuples', score'[znode'], znode') + pos'
    BY <1>1, <1>5, <1>6
  <2>2. QED
    BY <1>1, <2>1 DEF OffsetsAgree, Place
<1>12. Cursor(alive, D)'
  BY <1>1, <1>10, <1>11 DEF Cursor
<1>13. pc' \in Asking /\ pc' # "query"
  BY <1>1 DEF Asking
<1>14. QED
  BY <1>1, <1>2, <1>4, <1>9, <1>12, <1>13, AskStep

\* do_zquery has listed all it should.
LEMMA EndListInv ==
  ASSUME NEW D, InvOf(Members, D), pc = "list", EndList,
         UNCHANGED <<avl, tree, index, score, alive, del>>
  PROVE  IInv'
<1>1. /\ reply' = out_tuples(listed) /\ UNCHANGED call /\ pc' = "return" /\ at' = NULL /\ znode' = NULL
      /\ listed' = <<>> /\ pos' = 0 /\ goal' = 0
  BY DEF EndList, Settle
<1>2. Types /\ Control /\ DelOK
  BY DEF InvOf
<1>3. del = <<>> /\ call.op = "zquery" /\ index = alive
  BY QueryingIs DEF Querying, Asking
<1>4. Types'
  BY <1>1, <1>2 DEF Types
<1>5. Control'
  <2>1. Settled' /\ reply' # NoReply
    BY <1>1 DEF Settled, out_tuples, NoReply
  <2>2. QED
    BY <1>1, <1>3, <2>1 DEF Control, Asking, Deleting
<1>6. DelOK'
  BY <1>3 DEF DelOK
<1>7. QED
  BY <1>1, <1>4, <1>5, <1>6, QuietStep

\* A step of do_zquery (server.cpp:575-618).
LEMMA DoZqueryInv ==
  ASSUME NEW D, InvOf(Members, D), do_zquery
  PROVE  IInv'
<1>1. UNCHANGED <<avl, tree, index, score, alive, del>>
  BY DEF do_zquery, set
<1>2. CASE /\ Begun("zquery") /\ call.limit <= 0
           /\ Settle(out_tuples(<<>>)) /\ pc' = "return"
           /\ UNCHANGED at /\ NoQuery
  <2>1. reply' # NoReply
    BY <1>2 DEF Settle, out_tuples, NoReply
  <2>2. QED
    BY <1>1, <1>2, <2>1, AtOnceInv DEF Begun, Settle, NoQuery
<1>3. CASE /\ Begun("zquery") /\ call.limit > 0
           /\ pc' = "query" /\ at' = tree
           /\ NoQuery /\ UNCHANGED <<call, reply>>
  BY <1>1, <1>3, BeginQueryInv DEF set
<1>4. CASE zset_query /\ UNCHANGED <<call, reply>>
  <2>1. pc = "query" /\ UNCHANGED listed
    BY <1>4 DEF zset_query
  <2>2. CASE /\ at # NULL
             /\ \/ BeforeKey(at) /\ at' = avl[at].right /\ UNCHANGED znode
                \/ ~BeforeKey(at) /\ at' = avl[at].left /\ znode' = at
             /\ UNCHANGED <<pc, pos, goal>>
    BY <1>1, <1>4, <2>1, <2>2, QueryStepInv
  <2>3. CASE at = NULL /\ znode_offset(znode, call.offset)
    BY <1>1, <1>4, <2>1, <2>3, QueryEndInv
  <2>4. QED
    BY <1>4, <2>2, <2>3 DEF zset_query, BeforeKey, Name
<1>5. CASE pc = "list" /\ ListOne
  BY <1>1, <1>5, ListOneInv
<1>6. CASE pc = "list" /\ EndList
  BY <1>1, <1>6, EndListInv
<1>7. QED
  BY <1>2, <1>3, <1>4, <1>5, <1>6 DEF do_zquery

-----------------------------------------------------------------------------
(* Theorems *)

\* Every step keeps the inductive invariant.
LEMMA NextInv == IInv /\ [Next]_vars => IInv'
<1> SUFFICES ASSUME IInv, [Next]_vars
             PROVE  IInv'
  OBVIOUS
<1> PICK D : InvOf(Members, D)
  BY DEF IInv
<1>1. CASE UNCHANGED vars
  <2>1. UNCHANGED <<avl, tree, index, score, alive, pc, at, del, pos, goal, znode, listed, call, reply>>
    BY <1>1 DEF vars, set, locals
  <2>2. Types' /\ Control' /\ DelOK' /\ Members' = Members
    <3>1. Types /\ Control /\ DelOK
      BY DEF InvOf
    <3>2. QED
      BY <2>1, <3>1 DEF Types, Control, DelOK, Members, Out, Settled, Gone, Name
  <2>3. Shape(avl', tree', Members', D, score') /\ Whole(Members)'
    BY <2>1, <2>2 DEF InvOf, Whole
  <2>4. Cursor(Members, D)'
    <3>1. Cursor(Members, D)
      BY DEF InvOf
    <3>2. AtSearch(Members, D)' <=> AtSearch(Members, D)
      BY <2>1, <2>2 DEF AtSearch, Name
    <3>3. AtFix(Members)' <=> AtFix(Members)
      BY <2>1, <2>2 DEF AtFix
    <3>4. AtVictim(Members, D)' <=> AtVictim(Members, D)
      BY <2>1, <2>2 DEF AtVictim, Gone
    <3>5. AtQuery(Members, D)' <=> AtQuery(Members, D)
      BY <2>1, <2>2 DEF AtQuery, BeforeKey
    <3>6. (Listing' <=> Listing) /\ (OffsetsAgree' <=> OffsetsAgree)
      <4>1. First' = First /\ Tuples' = Tuples /\ \A n : Rank(Tuples', score'[n], n) = Place(n)
        BY <2>1, PlacesStay
      <4>2. QED
        BY <2>1, <4>1 DEF Listing, OffsetsAgree, Place
    <3>7. QED
      BY <2>1, <3>1, <3>2, <3>3, <3>4, <3>5, <3>6 DEF Cursor
  <2>5. InvOf(Members, D)'
    BY <2>2, <2>3, <2>4 DEF InvOf
  <2>6. QED
    BY <2>5 DEF IInv
<1>2. CASE \E c \in Calls : Call(c)
  BY <1>2, CallInv
<1>3. CASE tree_add
  BY <1>3, TreeAddInv
<1>4. CASE zset_add
  BY <1>4, UpdateInv, InsertInv, ReinsertInv DEF zset_add
<1>5. CASE zset_pop
  BY <1>5, PopInv, NothingInv, DeleteInv DEF zset_pop
<1>6. CASE zscore
  BY <1>6, ScoreInv
<1>7. CASE do_zquery
  BY <1>7, DoZqueryInv
<1>8. CASE AvlStep
  <2>1. UNCHANGED <<index, score, alive, call, reply, znode, listed>>
    BY <1>8 DEF AvlStep, set
  <2>2. avl_fix \/ avl_del \/ avl_offset
    BY <1>8 DEF AvlStep
  <2>3. QED
    BY <2>1, <2>2, FixInv, AvlDelInv, OffsetInv
<1>9. CASE Return
  BY <1>9, ReturnInv
<1>10. CASE zset_dispose
  BY <1>10, DisposeInv
<1>11. QED
  BY <1>1, <1>2, <1>3, <1>4, <1>5, <1>6, <1>7, <1>8, <1>9, <1>10 DEF Next, Step

\* At every step of every call, also in the middle of avl_fix, avl_del and
\* avl_offset, the links are a search tree of the allocated nodes, less the one
\* that is on its way in or out, and at most one node is to be put right.
THEOREM IInvHolds == Spec => []IInv
<1>1. Init => IInv
  BY InitInv
<1>2. IInv /\ [Next]_vars => IInv'
  BY NextInv
<1>3. QED
  BY <1>1, <1>2, PTL DEF Spec

\* Between two calls the whole tree is there, and it is right.
LEMMA WhenBetween ==
  ASSUME IInv, Between
  PROVE  /\ \E D : Shape(avl, tree, alive, D, score)
         /\ \A a \in alive : LocalAt(avl, a)
         /\ index = alive /\ InTree = alive
<1> PICK D : InvOf(Members, D)
  BY DEF IInv
<1>1. Members = alive
  BY DEF Members, Out, Between
<1>2. Shape(avl, tree, alive, D, score) /\ \A a \in alive : LocalAt(avl, a)
  BY <1>1 DEF InvOf, Whole, Between
<1>3. index = alive
  BY DEF InvOf, Types, Control, Between, NoCall
<1>4. InTree = alive
  BY <1>2, InTreeIs
<1>5. QED
  BY <1>2, <1>3, <1>4

\* What is below a child is what is on its side.
LEMMA UnderSide ==
  ASSUME NEW root, NEW T, NEW D, NEW sc, Shape(avl, root, T, D, sc), NEW a \in T, NEW s \in Sides,
         NULL \notin Nodes
  PROVE  \A b \in Under(avl[a][s]) : On(sc, s, a, b)
<1>1. CASE avl[a][s] = NULL
  BY <1>1 DEF Under
<1>2. CASE avl[a][s] # NULL
  <2>1. avl[a][s] \in T /\ D[avl[a][s]] = {b \in D[a] : On(sc, s, a, b)}
    BY <1>2, Kid
  <2>2. Under(avl[a][s]) = D[avl[a][s]]
    BY <2>1, UnderIs
  <2>3. QED
    BY <2>1, <2>2
<1>3. QED
  BY <1>1, <1>2

\* Rotations, removals and new links leave a search tree with its links up,
\* whatever the names and the scores are (avl.cpp:25-54, :105-145, zset.cpp:50-74).
THEOREM TreeSoundHolds == Spec => []TreeSound
<1>1. IInv => TreeSound
  <2> SUFFICES ASSUME IInv, Between
               PROVE  /\ tree # NULL => avl[tree].parent = NULL
                      /\ \A n \in InTree :
                            /\ \A m \in Under(avl[n].left) : zless(score[m], m, score[n], n)
                            /\ \A m \in Under(avl[n].right) : zless(score[n], n, score[m], m)
                            /\ \A c \in {avl[n].left, avl[n].right} \ {NULL} : avl[c].parent = n
    BY DEF TreeSound
  <2>1. PICK D : Shape(avl, tree, alive, D, score)
    BY WhenBetween
  <2>2. InTree = alive
    BY WhenBetween
  <2>3. tree # NULL => avl[tree].parent = NULL
    BY <2>1 DEF Shape
  <2>4. ASSUME NEW n \in alive
        PROVE  /\ \A m \in Under(avl[n].left) : zless(score[m], m, score[n], n)
               /\ \A m \in Under(avl[n].right) : zless(score[n], n, score[m], m)
               /\ \A c \in {avl[n].left, avl[n].right} \ {NULL} : avl[c].parent = n
    <3>1. \A s \in Sides : \A b \in Under(avl[n][s]) : On(score, s, n, b)
      BY <2>1, UnderSide, AVLAssumption
    <3>2. \A s \in Sides : avl[n][s] # NULL => avl[avl[n][s]].parent = n
      BY <2>1, Kid
    <3>3. \A m \in Under(avl[n]["left"]) : On(score, "left", n, m)
      BY <3>1 DEF Sides
    <3>4. \A m \in Under(avl[n]["right"]) : On(score, "right", n, m)
      BY <3>1 DEF Sides
    <3>5. /\ \A m \in Under(avl[n].left) : zless(score[m], m, score[n], n)
          /\ \A m \in Under(avl[n].right) : zless(score[n], n, score[m], m)
      BY <3>3, <3>4 DEF On, Lt
    <3>6. \A c \in {avl[n].left, avl[n].right} \ {NULL} : avl[c].parent = n
      BY <3>2 DEF Sides
    <3>7. QED
      BY <3>5, <3>6
  <2>5. QED
    BY <2>2, <2>3, <2>4
<1>2. QED
  BY <1>1, IInvHolds, PTL

\* The depths are right and two siblings' differ by at most one, although avl_fix
\* (avl.cpp:73-102) only looks at each node on the way up once.
THEOREM BalancedHolds == Spec => []Balanced
<1>1. IInv => Balanced
  <2> SUFFICES ASSUME IInv, Between, NEW n \in InTree
               PROVE  LET l == avl_depth(avl, avl[n].left)
                          r == avl_depth(avl, avl[n].right)
                      IN  avl[n].depth = 1 + Larger(l, r) /\ l - r \in -1..1
    BY DEF Balanced
  <2>1. LocalAt(avl, n)
    BY WhenBetween
  <2>2. QED
    BY <2>1 DEF LocalAt, Dep
<1>2. QED
  BY <1>1, IInvHolds, PTL

\* Between two calls, the map by name, the tree and the allocated nodes are the
\* same set (zset_add, zset_pop and tree_dispose, zset.cpp:76-88, :122-139, :171-178).
THEOREM IndexesAgreeHolds == Spec => []IndexesAgree
<1>1. IInv => IndexesAgree
  BY WhenBetween DEF IndexesAgree
<1>2. QED
  BY <1>1, IInvHolds, PTL

\* avl_offset (avl.cpp:150-176) knows how far it has gone, and finds the node that
\* many places on or back, from the sizes of the subtrees alone.
THEOREM OffsetsAgreeHolds == Spec => []OffsetsAgree
<1>1. IInv => OffsetsAgree
  BY DEF IInv, InvOf, Cursor
<1>2. QED
  BY <1>1, IInvHolds, PTL

-----------------------------------------------------------------------------
(* The refinement *)

\* No two tuples have the same place.
LEMMA PlaceUnique ==
  ASSUME NEW z, Sorted(z), NEW m \in DOMAIN z, NEW n \in DOMAIN z, Rank(z, z[m], m) = Rank(z, z[n], n)
  PROVE  m = n
<1>1. m \in Int /\ n \in Int /\ z[m] \in Int /\ z[n] \in Int
  BY DEF Sorted
<1>2. zless(z[m], m, z[n], n) => Rank(z, z[m], m) < Rank(z, z[n], n)
  BY <1>1, RankGrows
<1>3. zless(z[n], n, z[m], m) => Rank(z, z[n], n) < Rank(z, z[m], m)
  BY <1>1, RankGrows
<1>4. Rank(z, z[m], m) \in Int /\ Rank(z, z[n], n) \in Int
  BY RankType
<1>5. QED
  BY <1>1, <1>2, <1>3, <1>4, ZlessOrder

\* Of limit elements, two for each tuple, and of what is there from start on.
LEMMA ListedIs ==
  ASSUME NEW size \in Nat, NEW start \in Int, NEW limit \in Int, limit > 0, NEW len \in Nat,
         len > 0 => 2 * (len - 1) < limit /\ start >= 0 /\ start + len <= size,
         \/ start + len \notin 0..(size-1)
         \/ start + len \in 0..(size-1) /\ 2 * len >= limit
  PROVE  Listed(size, start, limit) = len
<1> DEFINE wanted == (limit + 1) \div 2
<1>1. wanted \in Int /\ 2 * wanted <= limit + 1 /\ limit + 1 < 2 * wanted + 2
  OBVIOUS
<1>2. Listed(size, start, limit) = IF start < 0 \/ start >= size THEN 0
                                   ELSE IF start + wanted <= size THEN wanted ELSE size - start
  BY DEF Listed
<1> HIDE DEF wanted
<1>3. CASE start < 0 \/ start >= size
  BY <1>2, <1>3
<1>4. CASE 0 <= start /\ start < size
  <2>1. CASE start + len \in 0..(size-1) /\ 2 * len >= limit
    BY <1>1, <1>2, <1>4, <2>1
  <2>2. CASE start + len \notin 0..(size-1)
    BY <1>1, <1>2, <1>4, <2>2
  <2>3. QED
    BY <2>1, <2>2
<1>5. QED
  BY <1>3, <1>4

\* What has been listed when the loop ends is what the query asks for.
LEMMA AnswerIs ==
  ASSUME NEW D, InvOf(Members, D), pc = "list", ~More
  PROVE  listed = QueryTuples(Tuples, call.score, call.name, call.offset, call.limit)
<1> DEFINE size == Cardinality(index)
           start == First + call.offset
           len == Len(listed)
           q == QueryTuples(Tuples, call.score, call.name, call.offset, call.limit)
           count == IF First = size THEN 0 ELSE Listed(size, start, call.limit)
<1>1. /\ Querying /\ index = alive /\ goal \in Int /\ alive \subseteq Nodes
      /\ (znode \in alive \cup {NULL}) /\ listed \in Seq(Nodes \X Int)
      /\ call.offset \in Int /\ call.limit \in Int /\ call.limit > 0 /\ Sorted(Tuples)
  BY QueryingIs DEF Querying, Asking
<1>2. Listing /\ OffsetsAgree
  BY DEF InvOf, Cursor
<1>3. DOMAIN Tuples = index /\ \A b \in index : Tuples[b] = score[b]
  BY DEF Tuples
<1>4. size \in Nat /\ First \in Int /\ start \in Int /\ len \in Nat
  <2>1. size \in Nat /\ First \in Int
    BY <1>1, <1>3, RankType DEF First, Size
  <2>2. QED
    BY <1>1, <2>1
<1>5. q = [i \in 1..count |-> <<NameAt(Tuples, start + i - 1), Tuples[NameAt(Tuples, start + i - 1)]>>]
  BY <1>3 DEF QueryTuples, First
<1>6. ASSUME NEW n \in index
      PROVE  Place(n) \in 0..(size-1) /\ Place(n) = Rank(Tuples, Tuples[n], n)
  <2>1. Place(n) \in 0..(size-1)
    BY <1>1, PlaceIs
  <2>2. QED
    BY <1>3, <2>1 DEF Place
<1>7. \A i \in 1..len : /\ listed[i][1] \in index /\ listed[i][2] = score[listed[i][1]]
                        /\ Place(listed[i][1]) = start + i - 1
  BY <1>2 DEF Listing
<1>8. len = count
  <2>1. CASE znode = NULL
    BY <1>2, <2>1 DEF Listing
  <2>2. CASE znode # NULL
    <3>1. First < size /\ Place(znode) + goal = start + len
      BY <1>2, <2>2 DEF Listing
    <3>2. len > 0 => 2 * (len - 1) < call.limit /\ start >= 0
      <4>1. len > 0 => listed # <<>>
        OBVIOUS
      <4>2. QED
        BY <1>2, <4>1 DEF Listing, PerTuple
    <3>3. len > 0 => start + len <= size
      <4>1. SUFFICES ASSUME len > 0
                     PROVE  start + len <= size
        OBVIOUS
      <4>2. len \in 1..len
        BY <1>4, <4>1
      <4>3. Place(listed[len][1]) = start + len - 1 /\ Place(listed[len][1]) \in 0..(size-1)
        BY <1>6, <1>7, <4>2
      <4> HIDE DEF size, start, len
      <4>4. QED
        BY <1>4, <4>3
    <3>4. \/ start + len \notin 0..(size-1)
          \/ start + len \in 0..(size-1) /\ 2 * len >= call.limit
      <4>1. CASE at = NULL
        BY <1>2, <2>2, <3>1, <4>1 DEF OffsetsAgree
      <4>2. CASE at # NULL
        <5>1. at \in index /\ Place(at) = start + len
          BY <1>1, <1>2, <2>2, <3>1, <4>2 DEF OffsetsAgree, Listing
        <5>2. Place(at) \in 0..(size-1)
          BY <1>6, <5>1
        <5>3. ~(2 * len < call.limit)
          BY <4>2 DEF More, PerTuple
        <5> HIDE DEF size, start, len
        <5>4. QED
          BY <1>1, <1>4, <5>1, <5>2, <5>3
      <4>3. QED
        BY <4>1, <4>2
    <3> HIDE DEF size, start, len
    <3>5. Listed(size, start, call.limit) = len
      BY <1>1, <1>4, <3>2, <3>3, <3>4, ListedIs
    <3>6. QED
      BY <1>4, <3>1, <3>5
  <2>3. QED
    BY <2>1, <2>2
<1>9. ASSUME NEW i \in 1..len
      PROVE  listed[i] = q[i]
  <2> DEFINE m == NameAt(Tuples, start + i - 1)
             n == listed[i][1]
  <2>1. n \in index /\ Place(n) = start + i - 1 /\ listed[i][2] = score[n]
    BY <1>7
  <2>2. start + i - 1 \in 0..(Size(Tuples)-1)
    BY <1>3, <1>6, <2>1 DEF Size
  <2>3. m \in DOMAIN Tuples /\ Rank(Tuples, Tuples[m], m) = start + i - 1
    BY <1>1, <2>2, NameAtRank
  <2>4. Rank(Tuples, Tuples[n], n) = start + i - 1
    BY <1>6, <2>1
  <2>5. m = n
    BY <1>1, <1>3, <2>1, <2>3, <2>4, PlaceUnique
  <2>6. listed[i] \in Nodes \X Int
    BY <1>1
  <2>7. listed[i] = <<n, score[n]>>
    BY <2>1, <2>6
  <2>8. i \in 1..count
    BY <1>8
  <2>9. q[i] = <<m, Tuples[m]>>
    BY <1>5, <2>8
  <2>10. QED
    BY <1>3, <2>1, <2>5, <2>7, <2>9
<1>10. DOMAIN q = 1..count /\ DOMAIN listed = 1..len
  BY <1>1, <1>5
<1>11. listed = [i \in 1..len |-> listed[i]]
  BY <1>1
<1>12. q = [i \in 1..len |-> q[i]]
  <2> HIDE DEF len, count
  <2>1. QED
    BY <1>5, <1>8
<1> HIDE DEF q, len
<1>13. listed = q
  BY <1>9, <1>11, <1>12
<1>14. QED
  BY <1>13 DEF q

\* TupleSet has the operators of SortedSet and Replies.
LEMMA SameOperators ==
  /\ \A i : TS!out_int(i) = out_int(i) /\ TS!out_dbl(i) = out_dbl(i) /\ TS!out_tuples(i) = out_tuples(i)
  /\ TS!out_nil = out_nil /\ TS!NoReply = NoReply /\ TS!NoCall = NoCall /\ TS!NoTuples = NoTuples
  /\ \A z, n, s : TS!PutTuple(z, n, s) = PutTuple(z, n, s) /\ TS!DropTuple(z, n) = DropTuple(z, n)
  /\ \A z, s, n, offset, limit : TS!QueryTuples(z, s, n, offset, limit) = QueryTuples(z, s, n, offset, limit)
<1>1. /\ \A i : TS!out_int(i) = out_int(i) /\ TS!out_dbl(i) = out_dbl(i) /\ TS!out_tuples(i) = out_tuples(i)
      /\ TS!out_nil = out_nil /\ TS!NoReply = NoReply /\ TS!NoCall = NoCall
  BY DEF TS!out_int, out_int, TS!out_dbl, out_dbl, TS!out_tuples, out_tuples, TS!out_nil, out_nil,
         TS!NoReply, NoReply, TS!NoCall, NoCall
<1>2. TS!NoTuples = NoTuples
  BY DEF TS!NoTuples, NoTuples
<1>3. \A z, n, s : TS!PutTuple(z, n, s) = PutTuple(z, n, s) /\ TS!DropTuple(z, n) = DropTuple(z, n)
  BY DEF TS!PutTuple, PutTuple, TS!DropTuple, DropTuple
<1>4. \A S : TS!Cardinality(S) = Cardinality(S)
  BY Zenon DEF Cardinality, TS!Cardinality
<1>5. \A z, s, n : TS!Rank(z, s, n) = Rank(z, s, n)
  <2>1. \A s, m, t, n : TS!zless(s, m, t, n) = zless(s, m, t, n)
    BY DEF zless, TS!zless
  <2>2. \A z, s, n : TS!Preceding(z, s, n) = Preceding(z, s, n)
    BY <2>1 DEF Preceding, TS!Preceding
  <2>3. QED
    BY <1>4, <2>2 DEF Rank, TS!Rank
<1>6. \A z, i : TS!NameAt(z, i) = NameAt(z, i)
  BY <1>5 DEF NameAt, TS!NameAt
<1>7. \A z, s, n, offset, limit : TS!QueryTuples(z, s, n, offset, limit) = QueryTuples(z, s, n, offset, limit)
  <2>1. \A i, j, l : TS!Listed(i, j, l) = Listed(i, j, l)
    BY DEF Listed, TS!Listed
  <2>2. QED
    BY <1>4, <1>5, <1>6, <2>1 DEF QueryTuples, TS!QueryTuples
<1>8. QED
  BY <1>1, <1>2, <1>3, <1>7

\* What a call that has not settled its answer knows of the tuples.
LEMMA CallIs ==
  ASSUME NEW D, InvOf(Members, D), pc = "call"
  PROVE  /\ call \in Calls /\ reply = NoReply /\ del = <<>> /\ index = alive
         /\ zset_lookup <=> Name \in DOMAIN Tuples
<1>1. Types /\ Control /\ Shape(avl, tree, Members, D, score) /\ Members = alive
  BY DEF InvOf, Members, Out
<1>2. call \in Calls /\ del = <<>> /\ index = alive
  BY <1>1 DEF Types, Control
<1>3. reply = NoReply
  BY <1>1, <1>2 DEF Control, Settled
<1>4. tree = NULL => alive = {}
  BY <1>1 DEF Shape
<1>5. QED
  BY <1>1, <1>2, <1>3, <1>4 DEF zset_lookup, Tuples

\* A step of zset_add is the Add of the set of tuples, or is not seen.
LEMMA AddMaps ==
  ASSUME NEW D, InvOf(Members, D), zset_add
  PROVE  TS!Add \/ UNCHANGED <<Tuples, call, reply>>
<1>1. CASE Begun("zadd") /\ zset_update /\ score[Name] = call.score
           /\ Settle(out_int(0)) /\ pc' = "return"
  <2>1. /\ call.op = "zadd" /\ reply = NoReply /\ reply' = out_int(0) /\ call' = call
        /\ Name \in DOMAIN Tuples /\ Tuples' = Tuples /\ Tuples[Name] = call.score
    BY <1>1, CallIs DEF Begun, zset_update, Settle, set, Tuples
  <2>2. PutTuple(Tuples, Name, call.score) = Tuples
    BY <2>1 DEF PutTuple, Tuples
  <2>3. QED
    BY <2>1, <2>2, SameOperators DEF TS!Add, TS!Settle, TS!Has, Name
<1>2. CASE Begun("zadd") /\ zset_update /\ Detach /\ UNCHANGED <<call, reply>>
  BY <1>2 DEF zset_update, set, Tuples
<1>3. CASE Begun("zadd") /\ InsertNew
  <2>1. /\ call.op = "zadd" /\ reply = NoReply /\ reply' = out_int(1) /\ call' = call
        /\ Name \notin DOMAIN Tuples /\ Name \in Nodes /\ index \subseteq Nodes /\ score \in [Nodes -> Int]
        /\ index' = index \cup {Name} /\ score' = [score EXCEPT ![Name] = call.score]
    <3>1. call \in Calls /\ call.op = "zadd" /\ index = alive
      BY <1>3, CallIs DEF Begun
    <3>2. Name \in Nodes
      BY <3>1, CallType DEF Name
    <3>3. index \subseteq Nodes /\ score \in [Nodes -> Int]
      BY <3>1 DEF InvOf, Types
    <3>4. QED
      BY <1>3, <3>1, <3>2, <3>3, CallIs DEF Begun, InsertNew, Settle
  <2>2. Tuples' = PutTuple(Tuples, Name, call.score)
    BY <2>1 DEF PutTuple, Tuples
  <2>3. QED
    BY <2>1, <2>2, SameOperators DEF TS!Add, TS!Settle, TS!Has, Name
<1>4. CASE Reinsert
  <2>1. /\ call.op = "zadd" /\ reply' = out_int(0) /\ call' = call /\ index' = index
        /\ score' = [score EXCEPT ![Name] = call.score] /\ pc = "detached" /\ Len(del) = 1
    BY <1>4 DEF Reinsert, Settle
  <2>2. del # <<>> /\ Gone \in alive /\ Types /\ Control /\ DelOK
    BY <2>1, GoneIn DEF Deleting, InvOf
  <2>3. Name \in alive /\ index = alive /\ index \subseteq Nodes /\ score \in [Nodes -> Int] /\ reply = NoReply
    <3>1. ~Settled
      BY <2>1 DEF Settled
    <3>2. Gone = Name
      BY <2>1, <2>2 DEF Gone, DelOK
    <3>3. QED
      BY <2>1, <2>2, <3>1, <3>2 DEF Control, Types
  <2>4. Name \in DOMAIN Tuples
    BY <2>3 DEF Tuples
  <2>5. Tuples' = PutTuple(Tuples, Name, call.score)
    BY <2>1, <2>3 DEF PutTuple, Tuples
  <2>6. QED
    BY <2>1, <2>3, <2>4, <2>5, SameOperators DEF TS!Add, TS!Settle, TS!Has, Name
<1>5. QED
  BY <1>1, <1>2, <1>3, <1>4 DEF zset_add, zset_update

\* So is a step of zset_pop.
LEMMA PopMaps ==
  ASSUME NEW D, InvOf(Members, D), zset_pop
  PROVE  TS!Pop \/ UNCHANGED <<Tuples, call, reply>>
<1>1. CASE Begun("zrem") /\ hm_pop
  <2>1. /\ call.op = "zrem" /\ reply = NoReply /\ reply' = out_int(1) /\ call' = call
        /\ Name \in DOMAIN Tuples /\ index' = index \ {Name} /\ score' = score
    BY <1>1, CallIs DEF Begun, hm_pop, Settle
  <2>2. Tuples' = DropTuple(Tuples, Name)
    BY <2>1 DEF DropTuple, Tuples
  <2>3. QED
    BY <2>1, <2>2, SameOperators DEF TS!Pop, TS!Settle, TS!Has, Name
<1>2. CASE Begun("zrem") /\ NothingToPop
  <2>1. /\ call.op = "zrem" /\ reply = NoReply /\ reply' = out_int(0) /\ call' = call
        /\ Name \notin DOMAIN Tuples /\ index' = index /\ score' = score
    BY <1>2, CallIs DEF Begun, NothingToPop, Settle, set
  <2>2. Tuples' = DropTuple(Tuples, Name)
    BY <2>1 DEF DropTuple, Tuples
  <2>3. QED
    BY <2>1, <2>2, SameOperators DEF TS!Pop, TS!Settle, TS!Has, Name
<1>3. CASE znode_del
  <2>1. /\ pc = "detached" /\ call.op = "zrem" /\ Free({Name}) /\ UNCHANGED <<index, call, reply>>
    BY <1>3 DEF znode_del
  <2>2. del # <<>> /\ Types /\ Control
    BY <2>1, GoneIn DEF Deleting, InvOf
  <2>3. index = alive \ {Name} /\ alive \subseteq Nodes
    BY <2>1, <2>2 DEF Types, Control
  <2>4. \A a \in Nodes \ {Name} : score'[a] = score[a]
    BY <2>1, <2>2, FreeEffect
  <2>5. Tuples' = Tuples
    BY <2>1, <2>3, <2>4 DEF Tuples
  <2>6. QED
    BY <2>1, <2>5
<1>4. QED
  BY <1>1, <1>2, <1>3 DEF zset_pop

\* So is a lookup.
LEMMA LookupMaps ==
  ASSUME NEW D, InvOf(Members, D), zscore
  PROVE  TS!Lookup
<1>1. /\ call.op = "zscore" /\ reply = NoReply /\ call' = call /\ Tuples' = Tuples
      /\ reply' = IF Name \in DOMAIN Tuples THEN out_dbl(score[Name]) ELSE out_nil
  BY CallIs DEF zscore, Begun, Settle, set, Tuples
<1>2. Name \in DOMAIN Tuples => Tuples[Name] = score[Name]
  BY DEF Tuples
<1>3. QED
  BY <1>1, <1>2, SameOperators DEF TS!Lookup, TS!Settle, TS!Has, Name

\* So is a step of a query.
LEMMA QueryMaps ==
  ASSUME NEW D, InvOf(Members, D), do_zquery
  PROVE  TS!Query \/ UNCHANGED <<Tuples, call, reply>>
<1>1. Tuples' = Tuples
  BY DEF do_zquery, set, Tuples
<1>2. CASE Begun("zquery") /\ call.limit <= 0 /\ Settle(out_tuples(<<>>))
  <2>1. call.op = "zquery" /\ call \in Calls /\ reply = NoReply /\ reply' = out_tuples(<<>>) /\ call' = call
    BY <1>2, CallIs DEF Begun, Settle
  <2>2. QueryTuples(Tuples, call.score, call.name, call.offset, call.limit) = <<>>
    BY <1>2 DEF QueryTuples, Listed
  <2>3. QED
    BY <1>1, <2>1, <2>2, SameOperators DEF TS!Query, TS!Settle
<1>3. CASE pc = "list" /\ EndList
  <2>1. /\ ~More /\ reply' = out_tuples(listed) /\ call' = call
    BY <1>3 DEF EndList, Settle
  <2>2. listed = QueryTuples(Tuples, call.score, call.name, call.offset, call.limit)
    BY <1>3, <2>1, AnswerIs
  <2>3. call.op = "zquery" /\ reply = NoReply
    BY <1>3, QueryingIs DEF Querying, Asking
  <2>4. QED
    BY <1>1, <2>1, <2>2, <2>3, SameOperators DEF TS!Query, TS!Settle
<1>4. CASE UNCHANGED <<call, reply>>
  BY <1>1, <1>4
<1>5. QED
  BY <1>2, <1>3, <1>4 DEF do_zquery, ListOne

\* Every step is a step of TupleSet or is not seen.
LEMMA StepMaps == IInv /\ [Next]_vars => [TS!Next]_(TS!vars)
<1> SUFFICES ASSUME IInv, [Next]_vars
             PROVE  TS!Next \/ UNCHANGED <<Tuples, call, reply>>
  BY DEF TS!vars
<1> PICK D : InvOf(Members, D)
  BY DEF IInv
<1>1. CASE UNCHANGED vars
  BY <1>1 DEF vars, set, Tuples
<1>2. CASE \E c \in Calls : Call(c)
  <2>1. PICK c \in Calls : Call(c)
    BY <1>2
  <2>2. call = NoCall /\ call' = c /\ Tuples' = Tuples /\ reply' = reply
    BY <2>1 DEF Call, set, Tuples, InvOf, Types
  <2>3. TS!Call(c)
    BY <2>2, SameOperators DEF TS!Call
  <2>4. QED
    BY <2>3 DEF TS!Next
<1>3. CASE tree_add
  BY <1>3 DEF tree_add, set, Tuples
<1>4. CASE zset_add
  BY <1>4, AddMaps DEF TS!Next
<1>5. CASE zset_pop
  BY <1>5, PopMaps DEF TS!Next
<1>6. CASE zscore
  BY <1>6, LookupMaps DEF TS!Next
<1>7. CASE do_zquery
  BY <1>7, QueryMaps DEF TS!Next
<1>8. CASE AvlStep
  BY <1>8 DEF AvlStep, set, Tuples
<1>9. CASE Return
  <2>1. reply # NoReply
    BY <1>9 DEF Return, InvOf, Control, Settled
  <2>2. TS!Return
    BY <1>9, <2>1, SameOperators DEF Return, set, Tuples, TS!Return
  <2>3. QED
    BY <2>2 DEF TS!Next
<1>10. CASE zset_dispose
  <2>1. call = NoCall
    BY <1>10 DEF zset_dispose, InvOf, Types
  <2>2. Tuples' = NoTuples
    BY <1>10 DEF zset_dispose, Tuples, NoTuples
  <2>3. TS!Clear
    BY <1>10, <2>1, <2>2, SameOperators DEF zset_dispose, TS!Clear
  <2>4. QED
    BY <2>3 DEF TS!Next
<1>11. QED
  BY <1>1, <1>2, <1>3, <1>4, <1>5, <1>6, <1>7, <1>8, <1>9, <1>10 DEF Next, Step

\* The two indexes, the searches and the walks implement a set of tuples: each call
\* takes effect once, at one step, and answers what the set says (zset.cpp, avl.cpp and
\* do_zadd, do_zrem, do_zscore, do_zquery, server.cpp:541-618).
THEOREM ZSetImplementsTupleSet == Spec => ImplementsTupleSet
<1>1. Init => TS!Init
  BY SameOperators DEF Init, TS!Init, Tuples, NoTuples
<1>2. IInv /\ [Next]_vars => [TS!Next]_(TS!vars)
  BY StepMaps
<1>3. QED
  BY <1>1, <1>2, IInvHolds, PTL DEF Spec, ImplementsTupleSet, TS!Spec
=============================================================================
