----------------------------- MODULE EventLoop ------------------------------
(***************************************************************************)
(* main of server.cpp: the event loop over all connections, with the two   *)
(* maps from file descriptors to connections, the list of idle timers and  *)
(* the memory of the Conn structs.                                         *)
(*                                                                         *)
(* What connection_io does on a connection is module Connection's; here it *)
(* only ends in some state.  Nothing but the clock and the clients runs    *)
(* beside the main thread, so one step is one call of connection_io, one   *)
(* iteration of process_timers, one accept.                                *)
(*                                                                         *)
(* free leaves the contents of a Conn in memory until malloc gives it out  *)
(* again, or the allocator writes over it; both are modelled, since main   *)
(* reads freed connections.                                                *)
(***************************************************************************)
EXTENDS Integers, Sequences, SequencesExt

CONSTANTS Conns,              \* memory for connections (a bound)
          Fds,                \* file descriptors accept may return (a bound)
          NULL,
          ms,                 \* the extra millisecond of process_timers
          k_idle_timeout,     \* k_idle_timeout_ms
          MaxClock            \* bound on the clock

Listening == 0                \* the listening socket among the descriptors polled

ASSUME EventLoopAssumption ==
  /\ NULL \notin Conns /\ Fds \subseteq Nat \ {Listening}
  /\ ms \in Nat /\ k_idle_timeout \in Nat /\ MaxClock \in Nat

VARIABLES fd2conn,            \* main's map
          g_fd2conn,          \* g_data.fd2conn
          idle_list,          \* g_data.idle_list
          live,               \* the connections that are allocated
          conn,               \* the memory of each: fd, state, idle_start
          pc,                 \* where main is
          todo,               \* the descriptors of poll_args yet to look at
          revents,            \* those poll reports, 0 for the listening one
          now_us,             \* the time process_timers goes by
          clock

vars == <<fd2conn, g_fd2conn, idle_list, live, conn, pc, todo, revents, now_us, clock>>

NoConn == [fd |-> -1, state |-> "STATE_REQ", idle_start |-> 0]
OpenFds == {conn[c].fd : c \in live}
LeastOf(S) == CHOOSE x \in S : \A y \in S : x <= y
-----------------------------------------------------------------------------
Init == /\ fd2conn = [fd \in Fds |-> NULL]
        /\ g_fd2conn = [fd \in Fds |-> NULL]
        /\ idle_list = <<>>
        /\ live = {}
        /\ conn = [c \in Conns |-> NoConn]
        /\ pc = "scan"
        /\ todo = <<>> /\ revents = {} /\ now_us = 0 /\ clock = 0

\* poll_args: a descriptor for each pointer in main's map, in its order.  A freed
\* connection is read like the others: it has kept its contents or not, or it has
\* become another connection, whose descriptor is then polled twice.
Scan ==
  LET slots == SetToSortSeq({fd \in Fds : fd2conn[fd] # NULL}, <)
      found == {fd2conn[slots[i]] : i \in DOMAIN slots}
  IN  /\ pc = "scan"
      /\ \/ /\ todo' = [i \in DOMAIN slots |-> conn[fd2conn[slots[i]]].fd]
            /\ pc' = "poll"
         \/ /\ ~(found \subseteq live)
            /\ pc' = "undefined"
            /\ UNCHANGED todo
      /\ UNCHANGED <<fd2conn, g_fd2conn, idle_list, live, conn, revents, now_us, clock>>

\* Any descriptor may have an event; a closed one always has (POLLNVAL).
Poll == /\ pc = "poll"
        /\ \E r \in SUBSET (Range(todo) \cup {Listening}) :
              /\ Range(todo) \ OpenFds \subseteq r
              /\ revents' = r
        /\ pc' = "io"
        /\ UNCHANGED <<fd2conn, g_fd2conn, idle_list, live, conn, todo, now_us, clock>>

\* dlist_detach: the connection leaves its place in the list.
Place(c) == CHOOSE i \in DOMAIN idle_list : idle_list[i] = c
Detached(c) == RemoveAt(idle_list, Place(c))

\* Bug variant: the connection stays in the list of idle timers.
conn_done_InList(c) == /\ g_fd2conn' = [g_fd2conn EXCEPT ![conn[c].fd] = NULL]
                       /\ UNCHANGED idle_list
                       /\ live' = live \ {c}

\* conn_done: main's map is not touched.
conn_done(c) == /\ g_fd2conn' = [g_fd2conn EXCEPT ![conn[c].fd] = NULL]
                /\ idle_list' = Detached(c)
                /\ live' = live \ {c}

\* Bug variant: the connection keeps its place in the list.
Touched_InPlace(c) == idle_list

\* connection_io first moves the connection to the end of the list.
Touched(c) == Append(Detached(c), c)

\* connection_io on a connection that is there, ending in any state; main
\* destroys it if that is STATE_END.
LiveIo(c) ==
  /\ c \in live
  /\ \E s \in {"STATE_REQ", "STATE_RES", "STATE_END"} :
        /\ conn' = [conn EXCEPT ![c] = [fd |-> @.fd, state |-> s, idle_start |-> clock]]
        /\ \/ s = "STATE_END" /\ conn_done(c)
           \/ s # "STATE_END" /\ idle_list' = Touched(c) /\ UNCHANGED <<g_fd2conn, live>>
  /\ UNCHANGED pc

\* connection_io on freed memory.  If its state is still what it was when it was
\* freed, STATE_END is not expected; otherwise I/O on the closed descriptor fails
\* and the connection is freed once more.
FreedIo(c) == /\ c \notin live
              /\ \/ conn[c].state = "STATE_END" /\ pc' = "abort"
                 \/ pc' = "undefined"
              /\ UNCHANGED <<conn, g_fd2conn, idle_list, live>>

\* One iteration of the loop on poll_args.
Io == /\ pc = "io"
      /\ todo # <<>>
      /\ todo' = Tail(todo)
      /\ LET fd == Head(todo)
         IN  \/ /\ fd \notin revents
                /\ UNCHANGED <<conn, g_fd2conn, idle_list, live, pc>>
             \/ /\ fd \in revents
                /\ LiveIo(fd2conn[fd]) \/ FreedIo(fd2conn[fd])
      /\ UNCHANGED <<fd2conn, revents, now_us, clock>>

process_timers == /\ pc = "io"
                  /\ todo = <<>>
                  /\ pc' = "timers"
                  /\ now_us' = clock + ms
                  /\ UNCHANGED <<fd2conn, g_fd2conn, idle_list, live, conn, todo, revents, clock>>

IsIdle(c) == conn[c].idle_start + k_idle_timeout < now_us

\* The loop on idle timers: the first connection of the list, then the next.
CloseIdle == /\ pc = "timers"
             /\ idle_list # <<>> /\ IsIdle(Head(idle_list))
             /\ conn_done(Head(idle_list))
             /\ UNCHANGED <<fd2conn, conn, pc, todo, revents, now_us, clock>>

NoneIdle == /\ pc = "timers"
            /\ ~(idle_list # <<>> /\ IsIdle(Head(idle_list)))
            /\ pc' = "accept"
            /\ now_us' = 0
            /\ UNCHANGED <<fd2conn, g_fd2conn, idle_list, live, conn, todo, revents, clock>>

\* What accept_new_conn writes to the memory malloc gives it.
Accepted(fd) == [fd |-> fd, state |-> "STATE_REQ", idle_start |-> clock]

\* accept_new_conn: the kernel gives the least free descriptor.
accept_new_conn ==
  \E c \in Conns \ live :
     /\ Fds \ OpenFds # {}
     /\ LET fd == LeastOf(Fds \ OpenFds)
        IN  /\ conn' = [conn EXCEPT ![c] = Accepted(fd)]
            /\ fd2conn' = [fd2conn EXCEPT ![fd] = c]
            /\ g_fd2conn' = [g_fd2conn EXCEPT ![fd] = c]
     /\ live' = live \cup {c}
     /\ idle_list' = Append(idle_list, c)

\* Nobody to accept, or accept or malloc fails.
NoAccept == UNCHANGED <<fd2conn, g_fd2conn, idle_list, live, conn>>

Accept == /\ pc = "accept"
          /\ \/ Listening \in revents /\ accept_new_conn
             \/ NoAccept
          /\ pc' = "scan"
          /\ revents' = {}
          /\ UNCHANGED <<todo, now_us, clock>>

Tick == /\ clock < MaxClock
        /\ pc \notin {"abort", "undefined"}
        /\ clock' = clock + 1
        /\ UNCHANGED <<fd2conn, g_fd2conn, idle_list, live, conn, pc, todo, revents, now_us>>

MainStep == Scan \/ Poll \/ Io \/ process_timers \/ CloseIdle \/ NoneIdle \/ Accept

Next == MainStep \/ Tick

Spec == Init /\ [][Next]_vars
-----------------------------------------------------------------------------
(* Properties *)

\* Types: every timer that runs was started.
TypeOK ==
  /\ fd2conn \in [Fds -> Conns \cup {NULL}] /\ g_fd2conn \in [Fds -> Conns \cup {NULL}]
  /\ idle_list \in Seq(Conns)
  /\ live \subseteq Conns
  /\ conn \in [Conns -> [fd : Fds \cup {-1}, idle_start : 0..MaxClock,
                         state : {"STATE_REQ", "STATE_RES", "STATE_END"}]]
  /\ pc \in {"scan", "poll", "io", "timers", "accept", "abort", "undefined"}
  /\ now_us \in Nat /\ clock \in 0..MaxClock

\* A connection has one descriptor of its own, is found by it in both maps, and
\* has one timer; what g_data knows is exactly what is allocated.
ConnsAccounted ==
  /\ \A fd \in Fds, c \in Conns : g_fd2conn[fd] = c <=> c \in live /\ conn[c].fd = fd
  /\ \A c \in live : fd2conn[conn[c].fd] = c
  /\ \A i, j \in DOMAIN idle_list : idle_list[i] = idle_list[j] => i = j
  /\ \A c \in Conns : c \in live <=> \E i \in DOMAIN idle_list : idle_list[i] = c

\* The list of idle timers is in the order they run out, so that process_timers
\* may stop at the first that has not (server.cpp:881).
IdleListSorted ==
  \A i, j \in DOMAIN idle_list :
     i < j => conn[idle_list[i]].idle_start <= conn[idle_list[j]].idle_start

\* When process_timers goes on to the TTLs, no connection is left that was idle
\* for too long when it was called.
NoIdleLeft ==
  [][pc = "timers" /\ pc' = "accept" => \A c \in live : ~IsIdle(c)]_vars

\* "assert(0);  // not expected" (server.cpp:826): main calls connection_io only
\* on connections that have not ended.
EndedNotExpected == pc # "abort"
=============================================================================
