-------------------------------- MODULE AVL --------------------------------
(***************************************************************************)
(* avl.cpp: an AVL tree whose nodes carry their depth, the size of their   *)
(* subtree and a pointer to their parent.                                  *)
(*                                                                         *)
(* The functions that do not loop work on a memory of nodes: m[n] is the   *)
(* AVLNode of n; one that also returns a node gives [mem, node].  A loop   *)
(* is an action, one step per iteration.                                   *)
(***************************************************************************)
EXTENDS Integers, Sequences

CONSTANTS Nodes, NULL

ASSUME AVLAssumption == NULL \notin Nodes

VARIABLES avl,          \* the AVLNode of each node
          tree,         \* zset->tree; in avl_del, the root it will return
          pc,           \* the loop or the return under way
          at,           \* the node that a loop is at
          del,          \* the arguments of avl_del, the innermost call's last
          pos, goal     \* pos and offset of avl_offset

AVLNode == [left : Nodes \cup {NULL}, right : Nodes \cup {NULL},
            parent : Nodes \cup {NULL}, depth : Nat, cnt : Nat]

\* What avl_init writes.
avl_init == [left |-> NULL, right |-> NULL, parent |-> NULL, depth |-> 1, cnt |-> 1]

avl_depth(m, n) == IF n = NULL THEN 0 ELSE m[n].depth
avl_cnt(m, n) == IF n = NULL THEN 0 ELSE m[n].cnt

Larger(i, j) == IF i < j THEN j ELSE i

avl_update(m, n) ==
  [m EXCEPT ![n].depth = 1 + Larger(avl_depth(m, m[n].left), avl_depth(m, m[n].right)),
            ![n].cnt = 1 + avl_cnt(m, m[n].left) + avl_cnt(m, m[n].right)]

\* if (n) { n->parent = p; }
SetParent(m, n, p) == IF n = NULL THEN m ELSE [m EXCEPT ![n].parent = p]

\* (p->left == old ? p->left : p->right) = new
Relink(m, p, old, new) == IF m[p].left = old THEN [m EXCEPT ![p].left = new]
                          ELSE [m EXCEPT ![p].right = new]

\* The rotations mirror each other.  The child of n on the side up takes the
\* place of n, which becomes its child on the side down.
Rotate(m, n, up, down) ==
  LET top == m[n][up]
      inner == m[top][down]
      turned == [SetParent(m, inner, n) EXCEPT ![n][up] = inner,
                                               ![top][down] = n,
                                               ![top].parent = m[n].parent,
                                               ![n].parent = top]
  IN  [mem |-> avl_update(avl_update(turned, n), top), node |-> top]

rot_left(m, n) == Rotate(m, n, "right", "left")
rot_right(m, n) == Rotate(m, n, "left", "right")

\* The subtree of n on the side deep is too deep: its inner child is turned out
\* of the way first.
Shorten(m, n, deep, other) ==
  LET c == m[n][deep]
      inner == Rotate(m, c, other, deep)
  IN  IF avl_depth(m, m[c][deep]) < avl_depth(m, m[c][other])
      THEN Rotate([inner.mem EXCEPT ![n][deep] = inner.node], n, deep, other)
      ELSE Rotate(m, n, deep, other)

\* Bug variant: no double rotation.
avl_fix_left_Single(m, n) == rot_right(m, n)

avl_fix_left(m, n) == Shorten(m, n, "left", "right")

avl_fix_right(m, n) == Shorten(m, n, "right", "left")

\* One iteration of avl_fix: the subtree at n is put right.
Rebalance(m, n) ==
  LET u == avl_update(m, n)
      l == avl_depth(u, u[n].left)
      r == avl_depth(u, u[n].right)
  IN  IF l = r + 2 THEN avl_fix_left(u, n)
      ELSE IF l + 2 = r THEN avl_fix_right(u, n)
      ELSE [mem |-> u, node |-> n]

\* avl_fix and avl_del return the root r: to tree_add, or to avl_del's caller.
ReturnRoot(r) == /\ tree' = r
                 /\ at' = NULL
                 /\ pc' = IF del = <<>> THEN "return" ELSE "detached"

\* The loop of avl_fix goes on to the root.
avl_fix ==
  /\ pc = "fix"
  /\ LET done == Rebalance(avl, at)
         p == avl[at].parent
     IN  \/ /\ p # NULL
            /\ avl' = Relink(done.mem, p, at, done.node)
            /\ at' = p
            /\ UNCHANGED <<tree, pc>>
         \/ /\ p = NULL
            /\ avl' = done.mem
            /\ ReturnRoot(done.node)
  /\ UNCHANGED <<del, pos, goal>>

\* The node that the innermost avl_del detaches, or has detached.
Gone == del[Len(del)]

\* Gone has no right child: its left subtree takes its place.
Unlink ==
  /\ avl[Gone].right = NULL
  /\ LET p == avl[Gone].parent
         l == avl[Gone].left
         up == SetParent(avl, l, p)
     IN  \/ p = NULL /\ avl' = up /\ ReturnRoot(l)
         \/ p # NULL /\ avl' = Relink(up, p, Gone, l) /\ at' = p /\ pc' = "fix" /\ UNCHANGED tree
  /\ UNCHANGED del

\* Otherwise the next node is looked for, the leftmost on the right.
FindVictim == /\ avl[Gone].right # NULL
              /\ at' = avl[Gone].right /\ pc' = "victim"
              /\ UNCHANGED <<avl, tree, del>>

\* avl_del calls itself for it.
Leftmost == /\ pc = "victim"
            /\ \/ avl[at].left # NULL /\ at' = avl[at].left /\ UNCHANGED <<pc, del>>
               \/ avl[at].left = NULL /\ del' = Append(del, at) /\ at' = NULL /\ pc' = "del"
            /\ UNCHANGED <<avl, tree, pos, goal>>

\* Detached, the victim becomes a copy of the node n it is to replace, as n is then.
Replace ==
  /\ pc = "detached" /\ Len(del) > 1
  /\ LET n == del[Len(del)-1]
         m == SetParent(SetParent([avl EXCEPT ![Gone] = avl[n]], avl[n].left, Gone),
                        avl[n].right, Gone)
         p == avl[n].parent
     IN  \/ p = NULL /\ avl' = m /\ tree' = Gone
         \/ p # NULL /\ avl' = Relink(m, p, n, Gone) /\ UNCHANGED tree
  /\ del' = SubSeq(del, 1, Len(del)-1)
  /\ UNCHANGED <<pc, at, pos, goal>>

avl_del == \/ pc = "del" /\ (Unlink \/ FindVictim) /\ UNCHANGED <<pos, goal>>
           \/ Leftmost
           \/ Replace

\* Bug variant: the node itself is not counted on the way up.
UpFrom_NoSelf(n, p) == IF avl[p].right = n THEN pos - avl_cnt(avl, avl[n].left)
                       ELSE pos + avl_cnt(avl, avl[n].right)

\* The position of the parent p of n, which is at pos.
UpFrom(n, p) == IF avl[p].right = n THEN pos - (avl_cnt(avl, avl[n].left) + 1)
                ELSE pos + avl_cnt(avl, avl[n].right) + 1

\* avl_offset's loop: at is at pos, relative to where it started.
Rightward == pos < goal /\ pos + avl_cnt(avl, avl[at].right) >= goal
Leftward == pos > goal /\ pos - avl_cnt(avl, avl[at].left) <= goal

GoRight == LET r == avl[at].right
           IN  Rightward /\ at' = r /\ pos' = pos + avl_cnt(avl, avl[r].left) + 1
GoLeft == LET l == avl[at].left
          IN  Leftward /\ at' = l /\ pos' = pos - (avl_cnt(avl, avl[l].right) + 1)
GoUp == LET p == avl[at].parent
        IN  pos # goal /\ ~Rightward /\ ~Leftward /\ p # NULL /\ at' = p /\ pos' = UpFrom(at, p)

\* It returns at, or NULL.
OffsetReturns == /\ \/ pos = goal /\ UNCHANGED at
                    \/ pos # goal /\ ~Rightward /\ ~Leftward /\ avl[at].parent = NULL /\ at' = NULL
                 /\ pc' = "list" /\ UNCHANGED <<pos, goal>>

avl_offset == /\ pc = "offset"
              /\ \/ (GoRight \/ GoLeft \/ GoUp) /\ UNCHANGED <<pc, goal>>
                 \/ OffsetReturns
              /\ UNCHANGED <<avl, tree, del>>
=============================================================================
