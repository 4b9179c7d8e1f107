-------------------------------- MODULE ZSet --------------------------------
(***************************************************************************)
(* zset.cpp: a sorted set is a map by name and an AVL tree by              *)
(* (score, name) over the same nodes.  One thread runs a call to its end,  *)
(* in steps: one for each iteration of a loop, and one for what comes      *)
(* between two loops.                                                      *)
(*                                                                         *)
(* A ZNode is known by its name: it gets its memory in znode_new and keeps *)
(* it until it is freed.  The map by name is the set that HMap implements. *)
(***************************************************************************)
EXTENDS AVL, SortedSet, Replies

CONSTANTS Scores,
          Queries       \* the zquery calls that are made

ASSUME ZSetAssumption ==
  /\ Nodes \subseteq Int /\ Scores \subseteq Int
  /\ Queries \subseteq [op : {"zquery"}, score : Int, name : Int, offset : Int, limit : Int]

Names == Nodes

VARIABLES index,        \* zset->hmap: the names in it
          score,        \* the score of each ZNode
          alive,        \* the nodes that are allocated
          call,         \* the call under way: the command and its arguments
          reply,        \* what it answers, once that is settled
          znode,        \* do_zquery's znode, where avl_offset starts from
          listed        \* the tuples it has put into the answer

set == <<index, score, alive>>
locals == <<pc, at, del, pos, goal, znode, listed>>
vars == <<avl, tree, set, locals, call, reply>>

NoNode == [avl_init EXCEPT !.depth = 0, !.cnt = 0]
NoScore == 0
NoCall == [op |-> "none"]
NoReply == <<>>

Calls == [op : {"zadd"}, name : Names, score : Scores]
           \cup [op : {"zrem", "zscore"}, name : Names] \cup Queries

Init == /\ avl = [n \in Nodes |-> NoNode] /\ tree = NULL
        /\ index = {} /\ alive = {}
        /\ score = [n \in Nodes |-> NoScore]
        /\ pc = "idle" /\ at = NULL /\ del = <<>>
        /\ pos = 0 /\ goal = 0 /\ znode = NULL /\ listed = <<>>
        /\ call = NoCall /\ reply = NoReply

\* A command calls; the call settles what it answers; it returns.
Call(c) == /\ pc = "idle"
           /\ call' = c /\ pc' = "call"
           /\ UNCHANGED <<avl, tree, set, at, del, pos, goal, znode, listed, reply>>
Settle(r) == reply' = r /\ UNCHANGED call
Return == /\ pc = "return"
          /\ call' = NoCall /\ reply' = NoReply /\ pc' = "idle"
          /\ UNCHANGED <<avl, tree, set, at, del, pos, goal, znode, listed>>

Begun(op) == pc = "call" /\ call.op = op
Name == call.name

\* A lookup in the map, unless there is no tree.
zset_lookup == tree # NULL /\ Name \in index

\* What a step that works on the tree or on one node does not touch.
NoQuery == UNCHANGED <<pos, goal, znode, listed>>

\* tree_add's search begins: at is the node that from points to.
Search == pc' = "search" /\ at' = tree

\* The side of n where Name belongs.
Side(n) == IF zless(score[Name], Name, score[n], n) THEN "left" ELSE "right"

\* The new node is attached below p, or as the root, and avl_fix begins at it.
Attach(p, side) == /\ avl' = [avl EXCEPT ![Name].parent = p, ![p][side] = Name]
                   /\ UNCHANGED tree
AttachRoot == tree' = Name /\ avl' = [avl EXCEPT ![Name].parent = NULL]

tree_add ==
  /\ pc = "search"
  /\ \/ /\ at # NULL /\ avl[at][Side(at)] # NULL
        /\ at' = avl[at][Side(at)]
        /\ UNCHANGED <<avl, tree, pc>>
     \/ /\ \/ at # NULL /\ avl[at][Side(at)] = NULL /\ Attach(at, Side(at))
           \/ at = NULL /\ AttachRoot
        /\ at' = Name /\ pc' = "fix"
  /\ NoQuery /\ UNCHANGED <<set, del, call, reply>>

\* avl_del(&node->tree) begins.
Detach == pc' = "del" /\ del' = <<Name>> /\ UNCHANGED <<avl, tree, at>>

\* znode_new, then into both.
InsertNew == /\ ~zset_lookup
             /\ alive' = alive \cup {Name} /\ index' = index \cup {Name}
             /\ score' = [score EXCEPT ![Name] = call.score]
             /\ avl' = [avl EXCEPT ![Name] = avl_init]
             /\ Search /\ Settle(out_int(1))
             /\ UNCHANGED <<tree, del>>

\* Bug variant: the score changes while the node is where it was.
zset_update_InPlace == /\ zset_lookup
                       /\ score' = [score EXCEPT ![Name] = call.score]
                       /\ Settle(out_int(0)) /\ pc' = "return"
                       /\ UNCHANGED <<avl, tree, index, alive, at, del>>

\* zset_update, up to the return of its avl_del.
zset_update == /\ zset_lookup
               /\ \/ /\ score[Name] = call.score
                     /\ Settle(out_int(0)) /\ pc' = "return"
                     /\ UNCHANGED <<avl, tree, at, del>>
                  \/ /\ score[Name] # call.score
                     /\ Detach /\ UNCHANGED <<call, reply>>
               /\ UNCHANGED set

\* Bug variant: the node moves to its new place with the old score.
Reinsert_OldScore ==
  /\ pc = "detached" /\ Len(del) = 1 /\ call.op = "zadd"
  /\ avl' = [avl EXCEPT ![Name] = avl_init]
  /\ Search /\ del' = <<>> /\ Settle(out_int(0))
  /\ NoQuery /\ UNCHANGED <<tree, set>>

\* Bug variant: the node keeps its links, for want of avl_init.
Reinsert_KeepLinks ==
  /\ pc = "detached" /\ Len(del) = 1 /\ call.op = "zadd"
  /\ score' = [score EXCEPT ![Name] = call.score]
  /\ Search /\ del' = <<>> /\ Settle(out_int(0))
  /\ NoQuery /\ UNCHANGED <<avl, tree, index, alive>>

\* The rest of it, up to tree_add.
Reinsert ==
  /\ pc = "detached" /\ Len(del) = 1 /\ call.op = "zadd"
  /\ score' = [score EXCEPT ![Name] = call.score]
  /\ avl' = [avl EXCEPT ![Name] = avl_init]
  /\ Search /\ del' = <<>> /\ Settle(out_int(0))
  /\ NoQuery /\ UNCHANGED <<tree, index, alive>>

zset_add == \/ Begun("zadd") /\ (zset_update \/ InsertNew) /\ NoQuery
            \/ Reinsert

\* The nodes in gone are freed: what they held is lost.
Free(gone) == /\ alive' = alive \ gone
              /\ score' = [n \in Nodes |-> IF n \in gone THEN NoScore ELSE score[n]]
              /\ avl' = [n \in Nodes |-> IF n \in gone THEN NoNode ELSE avl[n]]

\* Bug variant: the node is only taken out of the map by name.
hm_pop_Only == /\ zset_lookup
               /\ index' = index \ {Name}
               /\ Settle(out_int(1)) /\ pc' = "return"
               /\ UNCHANGED <<avl, tree, at, del, score, alive>>

\* The node leaves the map by name, and avl_del begins.
hm_pop == /\ zset_lookup
          /\ index' = index \ {Name}
          /\ Settle(out_int(1)) /\ Detach
          /\ UNCHANGED <<score, alive>>

NothingToPop == /\ ~zset_lookup
                /\ Settle(out_int(0)) /\ pc' = "return"
                /\ UNCHANGED <<avl, tree, set, at, del>>

\* avl_del has returned: the caller of zset_pop deletes the node.
znode_del == /\ pc = "detached" /\ Len(del) = 1 /\ call.op = "zrem"
             /\ Free({Name}) /\ del' = <<>> /\ pc' = "return"
             /\ NoQuery /\ UNCHANGED <<tree, index, at, call, reply>>

zset_pop == \/ Begun("zrem") /\ (hm_pop \/ NothingToPop) /\ NoQuery
            \/ znode_del

\* do_zscore.
zscore == /\ Begun("zscore")
          /\ Settle(IF zset_lookup THEN out_dbl(score[Name]) ELSE out_nil) /\ pc' = "return"
          /\ NoQuery /\ UNCHANGED <<avl, tree, set, at, del>>

\* znode_offset(n, offset) is called, and its answer will be at.
znode_offset(n, offset) ==
  /\ at' = n /\ znode' = n /\ pos' = 0 /\ goal' = offset
  /\ pc' = IF n = NULL THEN "list" ELSE "offset"

\* zset_query's loop: znode is its found.
zset_query ==
  /\ pc = "query"
  /\ \/ /\ at # NULL
        /\ \/ zless(score[at], at, call.score, Name) /\ at' = avl[at].right /\ UNCHANGED znode
           \/ ~zless(score[at], at, call.score, Name) /\ at' = avl[at].left /\ znode' = at
        /\ UNCHANGED <<pc, pos, goal>>
     \/ at = NULL /\ znode_offset(znode, call.offset)
  /\ UNCHANGED listed

\* Bug variant: the limit is taken for a number of tuples.
PerTuple_One == 1

\* The elements that a tuple adds to the answer: n += 2.
PerTuple == 2

\* do_zquery's loop ends, or lists a tuple.
More == at # NULL /\ PerTuple * Len(listed) < call.limit
EndList == /\ ~More /\ Settle(out_tuples(listed))
           /\ pc' = "return" /\ at' = NULL /\ znode' = NULL /\ listed' = <<>>
           /\ pos' = 0 /\ goal' = 0
ListOne == /\ More /\ listed' = Append(listed, <<at, score[at]>>)
           /\ znode_offset(at, 1) /\ UNCHANGED <<call, reply>>

do_zquery ==
  /\ \/ /\ Begun("zquery") /\ call.limit <= 0
        /\ Settle(out_tuples(<<>>)) /\ pc' = "return"
        /\ UNCHANGED at /\ NoQuery
     \/ /\ Begun("zquery") /\ call.limit > 0
        /\ pc' = "query" /\ at' = tree
        /\ NoQuery /\ UNCHANGED <<call, reply>>
     \/ zset_query /\ UNCHANGED <<call, reply>>
     \/ pc = "list" /\ (ListOne \/ EndList)
  /\ UNCHANGED <<avl, tree, set, del>>

\* The AVL code works for the call.
AvlStep == /\ avl_fix \/ avl_del \/ avl_offset
           /\ UNCHANGED <<set, call, reply, znode, listed>>

\* The nodes at and below n: every set closed under the links down holds them.
Closed(S) == \A n \in S : {avl[n].left, avl[n].right} \ {NULL} \subseteq S
Under(n) == IF n = NULL THEN {}
            ELSE {m \in Nodes : \A S \in SUBSET Nodes : n \in S /\ Closed(S) => m \in S}
InTree == Under(tree)

\* tree_dispose frees what the tree holds; hm_destroy frees the tables.  The
\* ZSet goes with them; the next one begins empty.
zset_dispose == /\ pc = "idle"
                /\ tree' = NULL /\ index' = {}
                /\ Free(InTree)
                /\ UNCHANGED <<locals, call, reply>>

\* What a call does once it is made.
Step == tree_add \/ zset_add \/ zset_pop \/ zscore \/ do_zquery \/ AvlStep \/ Return

Next == (\E c \in Calls : Call(c)) \/ Step \/ zset_dispose

Spec == Init /\ [][Next]_vars

Between == pc = "idle"          \* what holds between two calls

\* A call has the thread to itself until it returns.  This is WF_vars(Step),
\* for there is a Step exactly when a call is under way.
FairSpec == Spec /\ ([]<>Between \/ []<><<Step>>_vars)
-----------------------------------------------------------------------------
(* Properties *)

Tuples == [n \in index |-> score[n]]

\* After any sequence of insertions, removals and changes of scores, the tree
\* is in the order of (score, name), and every link down has its link up: the
\* next walk by parents comes back (rotations, avl.cpp:25-54, the copy made by
\* avl_del, :129-138, zset_update's new links, zset.cpp:70-73).
TreeSound == Between =>
  /\ tree # NULL => avl[tree].parent = NULL
  /\ \A n \in InTree :
        /\ \A m \in Under(avl[n].left) : zless(score[m], m, score[n], n)
        /\ \A m \in Under(avl[n].right) : zless(score[n], n, score[m], m)
        /\ \A c \in {avl[n].left, avl[n].right} \ {NULL} : avl[c].parent = n

\* No walk is longer than the logarithm promised at avl.cpp:149: the depths are
\* those of the subtrees, and the two below a node differ by at most one,
\* although avl_fix looks at the nodes on the way up only, once each.
Balanced == Between =>
  \A n \in InTree :
     LET l == avl_depth(avl, avl[n].left)
         r == avl_depth(avl, avl[n].right)
     IN  avl[n].depth = 1 + Larger(l, r) /\ l - r \in -1..1

\* A node is in the map by name, in the tree and allocated, or none of these:
\* no call leaves a node in one index that the other has let go, and what
\* tree_dispose frees is all there is.
IndexesAgree == Between => index = InTree /\ alive = InTree

\* The place of a node in the order of the tuples, counted from 0.
Place(n) == Rank(Tuples, score[n], n)

\* From any node, avl_offset's pos is how far it has gone, and it finds the
\* node that many places on or back, or nothing when there is none: the sizes
\* of the subtrees are right after every rotation.
OffsetsAgree ==
  /\ pc = "offset" => Place(at) = Place(znode) + pos
  /\ pc = "list" /\ znode # NULL =>
       IF at = NULL THEN Place(znode) + goal \notin 0..(Cardinality(index)-1)
       ELSE Place(at) = Place(znode) + goal

\* The callers see a set of tuples: one score for each name, the last one given;
\* every call does and answers what it should, and a query lists the tuples from
\* the given place on: as many as make up the limit, which counts names and
\* scores, and one element more if it is odd.
TS == INSTANCE TupleSet WITH tuples <- Tuples
ImplementsTupleSet == TS!Spec

\* Every call comes to its end: the searches, the walks by parents and the calls
\* of avl_del by itself all stop (the loops of avl.cpp:73-102, :123-128 and
\* :150-176, of zset.cpp:54-57 and :147-154, and of server.cpp:611-616).
CallsReturn == pc # "idle" ~> pc = "idle"
=============================================================================
