# A verification of the key-value server in ownRedisUsingCpp

The repository holds a small Redis-like server written in C++
(`src/ownRedisUsingCpp`) and a few networking exercises. This directory models
the server in TLA+, checks the models with TLC on small instances and proves
theorems about them with TLAPS.

Paths below are relative to `src/ownRedisUsingCpp` unless they say otherwise.

## 1. The system

One process with an event loop on the main thread, and four threads that only
free large values. A client sends `len, body` messages, a body being a list of
strings; the server answers each with a `len, output` message.

| Part | State | Operations |
|---|---|---|
| hash map, `hashtable.cpp` | `HMap`: two `HTab`s and `resizing_pos` | `hm_lookup`, `hm_insert`, `hm_pop`, `hm_size`, `hm_destroy`, and a resize spread over them |
| thread pool, `thread_pool.cpp` | a deque, a mutex, a condition variable | `thread_pool_init`, `thread_pool_queue`, `worker` |
| TTL heap, `heap.cpp` and `entry_set_ttl` | an array of (deadline, pointer to the entry's `heap_idx`) | `heap_update`, set and remove a TTL |
| key space, `server.cpp` | `g_data.db`, the `Entry` structs, `g_data.heap`, the works in the pool | the commands, `entry_del`, `entry_del_async`, `process_timers` |
| connection, `server.cpp` | `Conn`: `state`, `rbuf`, `wbuf`, `wbuf_sent` | `try_fill_buffer`, `try_one_request`, `try_flush_buffer`, `connection_io` |
| event loop, `server.cpp`, `list.h` | `fd2conn` (main's own), `g_data.fd2conn`, `g_data.idle_list` | `main`, `accept_new_conn`, `conn_done`, `process_timers` |
| sorted set, `zset.cpp`, `avl.cpp` | `ZSet`: a map by name and an AVL tree by score over the same nodes | `zset_add`, `zset_pop`, `zset_query`, `znode_offset` |
| wire format, `common.h`, `out_*`, `parse_req` | none | serialisation |
| client, `client.cpp` | none | sends one request, prints one reply |

How they interact. `main` polls, runs `connection_io` on every descriptor with
an event, then `process_timers`, then `accept_new_conn`. `connection_io` reads
requests and calls `do_request`, whose handlers work on the map, the heap and
the values. A key that is deleted, or whose time has come, leaves the map; its
value is freed at once or, if it is a sorted set with more than 10000 members,
by a worker of the pool. Only that hand-over is shared between threads.
`process_timers` reads the idle list, kept in order by `connection_io`, and the
heap, kept in order by `entry_set_ttl`.

What is hard here:

* incremental work: the hash map is resized while it is used, and a node may be
  in either table;
* one fact kept in two places by hand: an entry's `heap_idx` and the heap; a
  connection in two maps and a list; a node in the map and the tree;
* non-blocking I/O: requests cut anywhere, replies sent in parts, several
  requests in one buffer;
* threads: wakeups without work, works stolen, an entry freed by a worker while
  its key has come back;
* memory reused at the same address, descriptors reused with the same number;
* time: deadlines in 64 bits, a millisecond of allowance, the limit on the works of
  one call of `process_timers`.

What makes each part correct, in a sentence: the map behaves as a set whatever
the state of a resize; the pool runs each work once, in order, and loses no
wakeup; the heap never mixes up two entries' timers and has the nearest first;
the sorted set's two indexes hold the same nodes and its tree stays in order and
balanced; the key space is a key-value store with expiry and owns
every entry in exactly one place; the connection answers every request in order
and never tears a message; the server reads what the client wrote and the client
what the server wrote; the loop frees exactly the connections it has stopped
using.
`PROJECT.json` lists the places where each could go wrong (`hazards`).

## 2. The modules

| Module | Models | Abstract specification |
|---|---|---|
| `HMap` | `hashtable.cpp` | `NodeSet`: a set with add, remove and look up |
| `ThreadPool` | `thread_pool.cpp` | `WorkQueue`: a FIFO queue drained by several hands |
| `TtlHeap` | `heap.cpp`, `entry_set_ttl` | `TimerSet`: a deadline or none per entry |
| `AVL`, `ZSet` | `avl.cpp`, `zset.cpp`, the loop of `do_zquery` | `TupleSet`: a score per name |
| `KeySpace` | commands, entries, expiry of `server.cpp` | `KVStore`: a value and an expiry per key |
| `Connection` | the protocol of one connection | the streams of requests and of replies |
| `Wire`, `Client` | `parse_req`, `out_*`, `client.cpp`; `Client` extends `Connection` | the command asked and its answer |
| `EventLoop` | `main` over all connections | |
| `SortedSet` | what a sorted set is to its users, as operators; shared by `ZSet`, `TupleSet`, `KeySpace`, `KVStore` | |
| `Replies` | the outputs of `out_*` | |

`KeySpace` uses the map, the heap, the sorted set and the pool as what they are
shown to implement: a set of entries, a table of deadlines, a table of scores, a
set of works that are run. `ZSet` uses the map in the same way. `EventLoop` uses a
connection as something that ends in any state after it had an event. `Client` is
composed with the whole of `Connection`. So each interaction is checked at the
level where it can go wrong, and the parts below are checked and proved on their
own. `MC*` modules only give values to constants. Operators marked "Bug variant"
are wrong versions of the definition that follows them; nothing uses them, they
are there to see that the properties would notice.

### HMap

`ht1`, `ht2` and `resizing_pos` are the fields of `HMap`. A node stands for its
key; a chain is a set, since no property depends on the order inside it, and
`tab == NULL` is a table of no slots. `Call` begins a call; the loop of
`hm_help_resizing` is one step per iteration (`HelpSkip`, `HelpMove`, `HelpDone`),
and the rest of a call is one step (`Lookup`, `Pop`, `Insert`). "add" is what all
callers do: look up, and insert when the key is missing (`do_set`, `do_zadd`,
`zset_add`). `Destroy` is `hm_destroy`, which only a sorted set's map meets.
`NodeSet` separates call and return, so that the map's effect may happen
anywhere between them.

### ThreadPool

One step per pthread call and per access to the deque. A work stands for the
address of an entry, which may be queued again after a worker has freed it
(the allocator gives the address out again). `SpuriousWakeup` is what POSIX allows of
`pthread_cond_wait`. `pthread_cond_signal` wakes any one waiting thread.

### TtlHeap

One step per iteration of `heap_up` and `heap_down`; in between, the item that
is being placed is in the local `t` and its slot holds a stale copy.
`entry_set_ttl` begins a call, for an entry and a deadline or None (`ttl_ms < 0`), kept
in `call`; `SetTtl` and `EraseTtl` are its two branches up to the loop and `NoTtl` neither,
`Place` is what follows the loop, and `Return` ends the call, after `heap_idx = -1` (:349)
if a TTL was removed. Between calls `ReadTtl` reads the heap as `do_ttl` does (:404) and
`ReadTop` as `process_timers` does (:893-894), and `reply` is what they found. In
`TimerSet` a call says the same, the deadline of its entry changes before it returns, and
nobody else's does; so the code is held to do to the right entry what it was asked, and
the two readers to find it. The numbers are those of the code, the array starting at 0.

### KeySpace

A command runs to its end on the main thread with nothing else there, so it is one
step. `process_timers` is one step per iteration of its loop on the TTLs, since
the clock goes on and workers free entries in between. An entry is a record at
an address; `db` is the set of addresses in the map, `deadline` the heap by
address, `queued` the entries given to the pool. `Blank` is free memory.
Deadlines are computed modulo `Range64`, as `entry_set_ttl` does in `uint64_t`.
A sorted set is a function from its names to scores (`SortedSet`), and `zquery`
the operator `QueryTuples`, which `ZSet` is shown to compute. The clock is bounded and
TTLs may be set when it has stopped.

### AVL and ZSet

`avl[n]` is the `AVLNode` inside the `ZNode` `n`, so the functions of `AVL` work on
memory: every assignment of a link, a depth or a count in `avl.cpp` is there. Functions
that do not loop are operators; a loop is an action, one step per iteration: `avl_fix`,
the search for the victim in `avl_del`, `avl_offset`, the searches of `tree_add` and
`zset_query`, the list of `do_zquery`. `pc` is the loop, `at` the node it is at (`cur`,
`node`, `victim` or `found`), `del` the arguments of the calls of `avl_del` under way
(two at most), `pos` and `goal` those of `avl_offset`, `znode` where it began (and, in
`zset_query`, `found`), `listed` what `do_zquery` has written. `avl_del` of an inner node
deletes the successor first and then copies the node, as it is by then, over it
(`Replace`).

In `ZSet` a node is known by its name; `tree`, `index` and `alive` are the root, the map
by name and what is allocated. `Call` says in `call` which command is made, its steps
follow, one of them settles the `reply`, and `Return` ends it: nothing else runs on the
thread meanwhile. `TupleSet` has the call, its effect with the answer, and the return, so
that each call of the code is held to take effect once and to answer for that moment.
Names and scores are numbers, names standing for their place in the order of `memcmp`
and length. `zset_dispose` frees what it reaches in the tree, as the code does, in one
step; an allocated node that is not there would be leaked.

### Connection

One connection, with the socket's receive and send buffers and the client at
the other end. Bytes come in units: a header is one, an output one or
more, a body any number, each unit marked with the number of its request and its place in the message;
only the properties look at the marks. One step per system call and per request, so
that input, the end of the stream or a reset may come between any two. `rbuf_size` and `wbuf_size` are the lengths of the sequences.
`pc` says where the main thread is: "flush_one" is `try_flush_buffer` called for a
request, "flush" the same called for POLLOUT. Failed assertions lead to
`pc = "abort"`, and a write to a connection that was reset fails or, by SIGPIPE,
ends the process (`pc = "killed"`).

### Wire and Client

A message is a sequence of units that are numbers: a tag or a number of 4 or 8 bytes
is one unit, a string one per character, so that a character may be taken for a size
by a function that has lost its place. An answer is the sequence of the calls of `out_*`
that make it, in which the elements of an array follow its `out_arr`. `parse_req` and
`on_response` are the functions of the same names; where the code returns -1 they give
the empty set. The loop of `parse_req` is a recursive function (`loop[i]`).

`Client` has the program of `client.cpp` as `at` ("start", "write", "head", "body",
"print", "done") in place of the arbitrary client of `Connection`, and `asked`, `outbox`
and `received` of `Connection` are its buffers. One step per `read` and `write`. In
"print", a call of `on_response` takes one step when it prints a value, or the line that
begins an array (`on_response_value`), and one when the loop over an array's elements
ends and it returns (`on_response_end`). `loops` is the stack of the calls that are in that
loop, with the elements each has still to begin; `arr_bytes` is the size of what
has been printed. `ClientAssumption` says that the answers are those of the commands,
one value whose arrays have as many elements as they announce (`do_keys` and
`do_zquery` write the count from what they then list), and that a message has no
room for more than `k_max_args` strings: with 4 bytes for each it would need more than 4096.

### EventLoop

`main`'s loop: `Scan` fills `poll_args` from main's local `fd2conn`, `Poll`
returns, `Io` is one iteration over the descriptors, `CloseIdle` one of
`process_timers`, `Accept` one call of `accept_new_conn`. `live` is what is
allocated; `conn` is the memory, which keeps its contents when it is freed. A
use of freed memory either finds what was there or ends in `pc = "undefined"`,
after which nothing is said; the assertion of `connection_io` is `pc = "abort"`.
The ring of `list.h` is a sequence, in which a connection has one place (`Place`).

## 3. The runs

| Run | Bounds | Distinct states |
|---|---|---|
| `hmap` | 6 nodes, 3 of them in one chain; tables of 1, 2, 4, ... slots, one move per call | 27185 |
| `pool` | 3 workers, 4 works | 21968 |
| `ttl_heap` | 6 entries (3 levels), 3 deadlines, symmetric | 11229 |
| `zset` | 6 names, 2 scores, 8 queries | 519859 |
| `keyspace` | 2 keys, 3 addresses, 2 values, 1 member with 2 scores, clock 0..2, symmetric | 116534 |
| `keyspace_live` | 2 keys, 2 addresses, clock 0..2 | 34911 |
| `connection` | 3 requests of 6 shapes, messages of at most 3 units | 212243 |
| `connection_live` | the same client, waiting for replies | 1611 |
| `client` | 1 command of up to 8 units, 9 answers of up to 8 units | 136405 |
| `event_loop` | 3 connections, 3 descriptors, clock 0..3, symmetric | 793486 |
| `pipelining_stall`, `stale_connection` | those of `connection_live`, pipelining, and of `event_loop` | counterexamples |

What each shows, and why the bounds are enough:

* **hmap**. With a load factor of 1 and one slot to begin with, six insertions
  start three resizes, a resize is under way when nodes are looked up, popped
  and inserted, and there are chains of three. `TablesSound`, `ScanInBounds`:
  no node is lost, doubled or misplaced and the scan never leaves `ht2`.
  `ResizeKeepsAhead`: the code skips the load check while a resize runs; this
  bound is why it may. `ScanMatchesSize`: `keys` announces as many elements as
  it then writes. `ImplementsNodeSet`, `CallsReturn`.
* **pool**. With three workers one may sleep, one be on its way and one
  steal. `WorkConserving` is the absence of lost wakeups, as an invariant: while
  a worker sleeps, every queued work has a worker on the way. `OneOwner` and
  `ImplementsWorkQueue`: each work is run once and in order. `PopNonEmpty`.
  `EveryWorkRuns`: none stays queued for ever.
* **ttl_heap**. Six entries fill three levels, the last incompletely, so both
  children, one child and none occur, and a removed item's replacement may go
  up or down. Three deadlines give equal ones. `RefsConsistent`,
  `TopIsNearest`; `ImplementsTimerSet`: whatever has moved, a call has changed the
  deadline it names to the one it names and no other, and reads find the last one set.
* **zset**. All trees of up to six nodes that calls can build: single and double
  rotations, with and without a subtree that changes sides, after insertions, deletions
  and changes of score; a deleted node whose successor is its child or further down;
  walks that go up, down on the other side, and up to the root in vain; lists that begin
  before, at and past the last tuple, with even and odd limits. A successor that has a
  child needs seven nodes and two rotations on the way up from one deletion need
  twelve: these are left to the proofs. `TreeSound` (order and parent links),
  `Balanced`, `IndexesAgree` (the two indexes and the allocated memory), `OffsetsAgree`
  (`avl_offset` at each step), `ImplementsTupleSet`, `CallsReturn` (each loop stops).
* **keyspace**. Three addresses for two keys let an entry wait for a worker
  while its key is back with a new one. The clock counts half milliseconds and
  wraps at 5, so TTLs that end in time, are due at once, and wrap around all
  happen; process_timers stops after two works. `EntriesAccounted`: ownership.
  `TypeOK`: an entry holds what its type says. `HandedOver`: the main thread leaves an entry alone once the pool has it.
  `TimersKeepUp`: when the loop may return. `ImplementsKVStore`: what clients see.
  **keyspace_live**: an overdue key goes although process_timers does one at a
  time and clients go on setting TTLs (`ExpiredKeysGo`), and deleted entries are freed.
  `ExpiredKeysGo` has two hypotheses. `main` comes back to `process_timers` for ever: a
  client that keeps sending can keep it in `state_req`'s loop (:772). And from some time
  on no TTL wraps around (`SetToPast`): wrapped ones end in the past, nearer than the keys
  that wait, and one call takes `k_max_works + 1` keys only. TLC finds the claim false
  without either. The last instant of the bounded clock is left out (`d < MaxClock`), as
  TTLs of 0 set at that instant would never be later than the keys that wait.
* **connection**. Requests that fill `rbuf` to the last byte, are short, too
  long, empty or do not parse; outputs that fit a message and one that does not; a
  send buffer smaller than a reply and a receive buffer larger than a request.
  `StreamsMatch` accounts for every unit in every buffer and in order.
  **connection_live**: a client that waits for its replies gets them.
* **client**. Every command of up to two strings of up to two characters, one that
  fills the largest message and one that is a unit too long; answers of every
  kind, empty and nested arrays, one that fills the largest message and one that does
  not fit; both socket buffers smaller than a message. The server may end the
  connection (idle timer) at any moment. `RequestUnderstood`: what the server
  parses is what the client was given, and it never drops a client that is there
  for what it sent. `AnswerShown`: what is printed is the whole answer or the error
  that replaces it, or that the connection ended. `ClientEnds`.
* **event_loop**. Three connections are enough for one to be idle, one busy and
  one new on a descriptor just closed. `ConnsAccounted`, `IdleListSorted` (what
  `process_timers` relies on when it stops early) and `NoIdleLeft`.

Deadlock is not checked in `connection` and `client` (a client may close or stop
asking), in `event_loop` (the process may abort, and the clock is bounded) and in the
runs derived from them; elsewhere it is.

### Bounds named in the modules

`Addrs`, `Conns`, `Fds` (memory and descriptors), `MaxClock` (the clock stops
there), `MaxRequests` (the requests of a client; `client.cpp` sends one). Sizes stand
for the constants of the code: `k_max_msg` 3 (8 in `client`) for 4096, `k_max_args` 7 for
1024, `k_resizing_work` 1 for 128, `k_max_load_factor` 1 for 8,
`k_large_container_size` 0 for 10000, `k_max_works` 1 for 2000.

### Fairness

* `HMap!FairSpec`: a call under way goes on. The map has one thread and its calls
  never block.
* `ThreadPool!FairSpec`: each thread that can run does (weak fairness per
  thread). Weak fairness of a lock is enough, since the property allows the
  works to be run by any worker. Nothing is assumed of submissions or of
  spurious wakeups.
* `ZSet!FairSpec`: a call has the thread to itself until it returns, so its next step
  is taken as long as it is under way. It is written as what weak fairness of `Step`
  means, a step being possible exactly while a call is under way.
* `KeySpace!FairSpec`: `process_timers`, once begun, goes on, as nothing in it blocks;
  workers run (`EveryWorkRuns`); time passes. Commands are never forced, nor is it
  assumed that `main` comes to `process_timers`: `ExpiredKeysGo` has that as a hypothesis.
* `Connection!FairSpec`: the server handles a connection that has events;
  the client writes what it has begun to write and reads what has come.
* `Client!ClientSpec`: the same of the server, and the calls of the client, which
  block, return when they can. Nothing makes the idle timer run out.

### Findings

* `pipelining_stall` violates `GetsReplies`. In `STATE_RES`, `connection_io`
  only flushes (:822-823). When the reply to one of several pipelined requests
  did not fit the send buffer, the requests behind it in `rbuf` are not looked
  at when the rest of the reply has gone out, but only when more bytes come. A
  client that has sent them all and waits is not answered; the idle timer
  closes the connection. `details.txt:235` says that clients may pipeline.
* `stale_connection` violates `EndedNotExpected`. `main` keeps its own
  `fd2conn` (:940), `conn_done` clears only `g_data.fd2conn` (:861), so the next
  round reads the freed `Conn`, polls the closed descriptor and calls
  `connection_io` on a connection that has ended: `assert(0);  // not expected`
  (:826), or whatever the allocator left there.

## 4. The proofs

| Module | Theorems | Assumes |
|---|---|---|
| `HMapProofs` | `TypeOK`, `TablesSound`, `ScanInBounds`, `ResizeKeepsAhead`, `ScanMatchesSize`, `ImplementsNodeSet` | `HMapAssumption` |
| `ThreadPoolProofs` | `TypeOK`, `MutexGuardsQueue`, `OneOwner`, `PopNonEmpty`, `WorkConserving`, `ImplementsWorkQueue` | `ThreadPoolAssumption` |
| `TtlHeapProofs` | `TypeOK`, `RefsConsistent`, `TopIsNearest`, `ImplementsTimerSet` | `TtlHeapAssumption` |
| `KeySpaceProofs` | `TypeOK`, `EntriesAccounted`, `HandedOver`, `TimersKeepUp`, `ImplementsKVStore` | `KeySpaceAssumption`, `NilAssumption` |
| `ZSetProofs` | `NameAtRank`, `QueryTuplesInOrder` | names and scores are integers, the set is finite |
| | `TreeSound`, `Balanced`, `IndexesAgree`, `OffsetsAgree`, `ImplementsTupleSet` | `AVLAssumption`, `ZSetAssumption` |
| `ConnectionProofs` | `TypeOK`, `AssertsHold`, `RepliesPending`, `StreamsMatch` | `ConnectionAssumption` |
| `ClientProofs` | `ParseUndoes`, `ItemPrinted` | `WireAssumption` |
| | `ClientImplementsConnection`, `AnswerShown`, `RequestUnderstood` | `ConnectionAssumption`, `WireAssumption`, `ClientAssumption` |
| `EventLoopProofs` | `ConnsAccounted`, `IdleListSorted`, `NoIdleLeft` | `EventLoopAssumption` |

They hold for any number of nodes, workers, works and entries, any hash
function, any initial size, load factor and amount of work per call, any keys,
values, scores, TTLs and limits, any set of names and any queries, any requests and
buffer sizes, any commands, any answers with arrays nested to any depth, any number of
connections and descriptors. `KeySpaceAssumption` says that the clock with a
millisecond more stays below 2^64 microseconds; `NilAssumption` that no value
is taken for the absence of one.

* **HMap.** `ResizeKeepsAhead` is not inductive: the insertion that starts a
  resize meets the bound exactly, for one step, and the call's last
  `hm_help_resizing` makes room again. `LoadState` says so; `CallState` says
  what is known at each point of a call (that "insert" is only reached for a
  missing key, that an emptied `ht2` has been freed). The invariant is
  `TypeOK /\ TablesSound /\ ScanInBounds /\ CallState /\ LoadState`. Lemmas state
  what `h_insert` and `h_detach` do to a sound table. `ImplementsNodeSet` follows: moves keep the
  union of the tables.
* **ThreadPool.** The five invariants together are inductive; `WorkConserving`
  needs the mutex invariant (nobody pops while somebody pushes) and finite
  sets' cardinalities (`HeadingCount`).
* **TtlHeap.** Everything is said of `Settled`, the array with the item in flight put
  down where the loop stands: then a move is an exchange of two slots
  (`MoveToSwaps`). `OrderState` says which edges of the tree are ordered at each
  point of the loops, and that the children of the hole are not below the hole's
  parent. `IdxState` says which entry has been taken out of the array and not told yet
  (`leaving`), and that the item of the call is there once it was written, so that at the
  return the entry's deadline is that of the call (`ReturnReturns`). What the two readers
  find is the entry's own deadline (`DeadlineRead`) and a nearest one (`ReadTopReads`), by
  `RefsConsistent` and `TopIsNearest`. That the first item is the least (`TopIsLeast`) follows from the edges
  without induction over the tree: the first slot with a smaller value would have
  a parent with a smaller value.

* **KeySpace.** `TypeOK` and `EntriesAccounted` are inductive together
  (`EntryState` and `TimerState` are the same facts split by what changes them). One
  lemma says what each kind of step does to the entries: a value is stored, an
  entry is added, destroyed, or freed by a worker; the commands reduce to these.
  `TimersKeepUp` needs a nearest deadline to exist, which is the well-foundedness of
  the naturals. For `ImplementsKVStore`, `MStore` and `MExpiry` are the value and the expiry
  of each key. A step that touches one entry changes them at that entry's key
  only (`OtherKey`, `ChangeAtKey`); that there is at most one entry per key is
  what makes this so (`FoundAlone`). Expiry needs one more invariant,
  `TimeState`: the time `process_timers` goes by is at most a millisecond ahead.

* **Connection.** The first three are not inductive. `IInv` adds `Room` (wherever the next
  read may happen, `rbuf` is not full: a buffer without a whole request has a header
  that announces at most `k_max_msg` units, or the connection has ended), `Phase` (the
  state each place in the code goes with) and `RequestsKnown` (units on their way in
  are of requests that were made, so the replies built from them have a size).
  `StreamsMatch` says of a stream that its units are in order and are exactly those
  of certain messages, so that no induction over the messages is needed. Its
  invariant, `StreamInv`, joins the buffers: `Out` is all that was built of the
  replies, `In` all of the requests not yet handled. Reads and writes move units
  within one of them (`StreamsKept`). For the request taken out of `rbuf`, a stream
  in which some units come first begins with them (`StreamStart`): the length in the
  header is that of the whole request, and the next header comes after it.
* **Client.** The functions of `Wire` are about concatenations. `FlattenLaid` gives the place of
  each part of one, without induction in the statement: there are ends, the first is 0, each
  part lies between two of them, and the last is the length. A recursive function stands
  for a CHOOSE, so that it satisfies its equation has to be shown: `Recursion` builds
  the function, by the smallest number it could not be built for (`LeastOf`). Then the loop of
  `parse_req` is at the i-th place with the first i strings (`ParseUndoes`), and `on_response`
  takes just the units one `out_*` appended, whatever comes after them
  (`ItemPrinted`). `StepIsConnections` is that each step of the program is one that
  `Connection` allows its client or a stutter, so the invariants of `ConnectionProofs`
  hold here, and what has been received is the start of the reply
  (`ReceivedReply`, from `StreamInv`). `ClientInv` adds where the client is in it: in "print"
  the whole reply is there, the first i items have been printed, `arr_bytes` is the i-th place,
  and the counts in `loops` add up to the values the answer has still to come
  (`Counts`, `Missing`). So the client asks for another value exactly when there is one, and
  the sum is 0 at the end. `Missing` is not negative since every prefix of an answer
  lacks a value. With `ReplyBegins` no reply is too long, and with `ParseUndoes` no request
  fails to parse, which leaves the client's own end and silence as reasons to close. `ClientInv` was found
with TLC on the instance of the `client` run.
* **SortedSet.** (In `ZSetProofs`.) `Rank` is a bijection between the members and the places from 0: it
  grows along the order (`RankGrows`), is below the size, and finite sets leave no
  place empty (`RankOnto`). So what `zquery` lists is in order and without repetition.
* **ZSet.** `Shape` describes a search tree by its members `T` and by `D`, the set of what
  is at and below each: the left child's is what comes before the node in the node's own,
  a child's parent link leads back, and nothing more. There is no path and no recursion in
  it, so a rotation, a new leaf, an unlinked node and the copy in `avl_del` are each
  one lemma that gives the new `D` (`RotateShape`, `AttachShape`, `UnlinkShape`,
  `ReplaceShape`). `Balanced` holds between two calls only; within one, `Mending` says
  that a single node is to be put right while its parent still carries the depth `e` its
  subtree had before, and that its children's depths are such that one rotation, or two,
  bring it within one of `e`. `FixStep` is that one iteration of `avl_fix` makes the node
  right and its parent the next. It is what the code relies on in looking only for
  a difference of exactly two. That the counts are sizes (`CntIsSize`) is by a smallest
  counterexample, as is that an interval of the order that is below a node stays
  there (`Convex`).
  `IInv` says besides where each loop is: a search has excluded all that is above it
  (`AtSearch`, `AtQuery`), the successor is below the victim's cursor (`AtVictim`), the
  two nodes of nested `avl_del`s are neighbours in the order (`DelOK`), and `avl_offset`
  is at the place of its start plus `pos` (`OffsetsAgree`, with the places counted
  by `PlaceIs`, `RightPlace`, `LeftPlace`). The node that is out of the tree while it
  is allocated is `Out`. For `ImplementsTupleSet`, the tuples change at the one step that
  settles the reply, and `AnswerIs` is that the list is `QueryTuples`. `IInv` was found
  with TLC on instances of six names, without queries, and of four, with them; it
  quantifies over all `D`, so no run repeats that.
* **EventLoop.** `IInv` says of the list that it has each live connection once and in
  order (`GoodList`), of the maps that both lead to each live connection (`Maps`; main's
  may also lead to freed ones), and that timers were started in the past (`LiveSound`).
  Removal from the list is by place, so its facts need no induction
  (`RemoveAtFacts`). `NoIdleLeft` follows from the order: when the first has not
  been idle for too long, none has (`FirstIsIdlest`).

Model-checked only: liveness (`CallsReturn` of both modules, `EveryWorkRuns`, `ExpiredKeysGo`,
`DeletedFreed`, `GetsReplies` and `ClientEnds`), since TLAPS has no backend for fairness and
ENABLED here. Every invariant, every action property and every refinement of the runs is also
proved.

## 5. Not modelled

* Bytes: a number is one unit of a message, whatever its width and byte order;
  `str2int` and `str2dbl` parse or not, and a `double` is a number without NaN,
  rounding or infinities. The order of names is that of numbers.
* SIGPIPE beyond its outcome: `write` to a reset connection may kill the server, which
  does not ignore the signal. `Connection` has that step, but nothing in
  the repository says that the server survives it, so no property is about it.
* The time at which a key with a wrapped TTL goes (at once, :359): nothing in the
  repository says what such a TTL means, and `KVStore` allows any time.
* How late a timer is: `next_timer_ms` (:833) is never called, `poll` always
  waits up to a second. The clock runs freely between steps.
* Failing system calls that call `die`, and a client that cannot connect.
* The compilation of `client.cpp`: it declares the enumerators of `common.h`, which
  it includes, a second time and with `SER_ARR = 4` (:92). `Wire` takes the tags by name
  from `common.h`.
* `src/SocketNetworkingWithAPI` and `src/myownMacAddressInNetowrking`: sequences
  of system calls without state of their own. Files without extension and
  `details.txt` are notes and binaries.
