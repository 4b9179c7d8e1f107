----------------------------- MODULE Connection -----------------------------
(***************************************************************************)
(* One client connection of server.cpp: the state machine of Conn, its     *)
(* read and write buffers, and the kernel's socket buffers between them    *)
(* and the client.                                                         *)
(*                                                                         *)
(* One step per system call and per request handled, so that data, the end *)
(* of the stream or a reset can arrive between any two calls.  Bytes come  *)
(* in units: a header is one unit, an output one or more, a body any.      *)
(* What a unit is (the place at in the message of the request req) only    *)
(* shows in the properties; the code sees the length in the first.         *)
(***************************************************************************)
EXTENDS Integers, Sequences, SequencesExt

CONSTANTS Requests,     \* the requests a client may send: what the header says
                        \* (len), what comes with it (body), whether it
                        \* parses (ok), how long the output is (out)
          MaxRequests,  \* bound on the requests of a client
          k_max_msg,    \* the largest message
          ErrSize,      \* the size of the output of out_err
          RcvCap,       \* room in the socket's receive buffer
          SndCap,       \* room in the socket's send buffer
          Pipelining,   \* the client does not wait for replies
          Faults        \* of "fin", "reset", "idle": what may happen to it

ASSUME ConnectionAssumption ==
  /\ MaxRequests \in Nat /\ k_max_msg \in Nat /\ ErrSize \in 1..k_max_msg
  /\ RcvCap \in Nat \ {0} /\ SndCap \in Nat \ {0}
  /\ \A r \in Requests : /\ r.len \in Nat /\ r.body \in 0..r.len
                         /\ r.len <= k_max_msg => r.body = r.len
                         /\ r.len = 0 => ~r.ok      \* parse_req wants 4 bytes
                         /\ r.ok \in BOOLEAN /\ r.out \in Nat \ {0}
  /\ Pipelining \in BOOLEAN
  /\ Faults \subseteq {"fin", "reset", "idle"}

VARIABLES state,        \* Conn::state
          rbuf,         \* Conn::rbuf up to rbuf_size
          wbuf,         \* Conn::wbuf up to wbuf_size
          wbuf_sent,    \* Conn::wbuf_sent
          pc,           \* where the main thread is with this connection
          rcvq, sndq,   \* the socket's receive and send buffers
          fin, reset,   \* the client has closed its side; it is gone
          asked,        \* the requests the client has made
          outbox,       \* what it has yet to write of them
          received      \* what it has read

conn == <<state, rbuf, wbuf, wbuf_sent>>
socket == <<rcvq, sndq, fin, reset>>
client == <<asked, outbox, received>>
vars == <<conn, pc, socket, client>>

Header == 1                     \* the 4 bytes of a length
RCap == Header + k_max_msg      \* sizeof(conn->rbuf), sizeof(conn->wbuf)

\* The units of r, the nth request of the client, and of the reply to it.
RequestUnits(n, r) == [i \in 1..(Header + r.body) |->
                         [req |-> n, at |-> i, len |-> IF i = 1 THEN r.len ELSE 0]]

\* Bug variant: no limit on the output.
OutSize_NoLimit(r) == r.out

\* The size of the output, or of the error when it is too big for a message.
OutSize(r) == IF Header + r.out > k_max_msg THEN ErrSize ELSE r.out

ReplyUnits(n, r) == [i \in 1..(Header + OutSize(r)) |->
                       [req |-> n, at |-> i, len |-> IF i = 1 THEN OutSize(r) ELSE 0]]

\* The units of the requests from the mth to the nth, and of the replies to them.
RequestSet(m, n) == UNION {Range(RequestUnits(k, asked[k])) : k \in m..n}
ReplySet(m, n) == UNION {Range(ReplyUnits(k, asked[k])) : k \in m..n}
-----------------------------------------------------------------------------
\* accept_new_conn.
Init == /\ state = "STATE_REQ"
        /\ rbuf = <<>> /\ wbuf = <<>> /\ wbuf_sent = 0
        /\ pc = "poll"
        /\ rcvq = <<>> /\ sndq = <<>> /\ fin = FALSE /\ reset = FALSE
        /\ asked = <<>> /\ outbox = <<>> /\ received = <<>>

\* The call of connection_io ends in state s: main destroys the connection or
\* waits for events.
Leave(s) == /\ state' = s
            /\ pc' = IF s = "STATE_END" THEN "done" ELSE "poll"

\* poll reports the event asked for, or the error; connection_io goes by state.
poll_in == /\ pc = "poll" /\ state = "STATE_REQ"
           /\ rcvq # <<>> \/ fin \/ reset
           /\ pc' = "fill"
           /\ UNCHANGED <<conn, socket, client>>

\* Bug variant: only input is asked for.
poll_out_Input == /\ pc = "poll" /\ state = "STATE_RES"
                  /\ rcvq # <<>> \/ reset
                  /\ pc' = "flush"
                  /\ UNCHANGED <<conn, socket, client>>

poll_out == /\ pc = "poll" /\ state = "STATE_RES"
            /\ Len(sndq) < SndCap \/ reset
            /\ pc' = "flush"
            /\ UNCHANGED <<conn, socket, client>>

\* try_fill_buffer: one read(); EINTR is retried at once and leaves no trace.
ReadError == /\ reset
             /\ Leave("STATE_END")
             /\ UNCHANGED <<rbuf, rcvq>>

ReadAgain == /\ ~reset /\ ~fin /\ rcvq = <<>>
             /\ Leave(state)
             /\ UNCHANGED <<rbuf, rcvq>>

ReadEof == /\ ~reset /\ fin /\ rcvq = <<>>
           /\ Leave("STATE_END")
           /\ UNCHANGED <<rbuf, rcvq>>

ReadData == /\ ~reset /\ rcvq # <<>>
            /\ \E n \in 1..Len(rcvq) :
                  /\ n = Len(rcvq) \/ n = RCap - Len(rbuf)
                  /\ n <= RCap - Len(rbuf)
                  /\ rbuf' = rbuf \o SubSeq(rcvq, 1, n)
                  /\ rcvq' = SubSeq(rcvq, n+1, Len(rcvq))
            /\ pc' = "one"
            /\ UNCHANGED state

try_fill_buffer ==
  /\ pc = "fill"
  /\ \/ /\ Len(rbuf) < RCap
        /\ ReadError \/ ReadAgain \/ ReadEof \/ ReadData
     \/ /\ Len(rbuf) >= RCap            \* the assertion fails
        /\ pc' = "abort"
        /\ UNCHANGED <<state, rbuf, rcvq>>
  /\ UNCHANGED <<wbuf, wbuf_sent, sndq, fin, reset, client>>

\* try_one_request: the request at the start of rbuf, if it is there.
len == rbuf[1].len

\* Bug variant: a message of k_max_msg + 1 is waited for.
TooLong_ByOne == Len(rbuf) >= Header /\ len > k_max_msg + 1

TooLong == Len(rbuf) >= Header /\ len > k_max_msg

Whole == Len(rbuf) >= Header /\ ~TooLong /\ Header + len <= Len(rbuf)

NoRequest == /\ ~TooLong /\ ~Whole
             /\ pc' = "fill"            \* state is STATE_REQ: read on
             /\ UNCHANGED conn

BadRequest == /\ TooLong \/ (Whole /\ ~asked[rbuf[1].req].ok)
              /\ Leave("STATE_END")
              /\ UNCHANGED <<rbuf, wbuf, wbuf_sent>>

\* Bug variant: what is left of rbuf is not moved to its start.
Request_NoMove == /\ Whole /\ asked[rbuf[1].req].ok
                  /\ wbuf' = ReplyUnits(rbuf[1].req, asked[rbuf[1].req])
                  /\ rbuf' = SubSeq(rbuf, 1, Len(rbuf) - Header - len)
                  /\ state' = "STATE_RES"
                  /\ pc' = "flush_one"
                  /\ UNCHANGED wbuf_sent

Request == /\ Whole /\ asked[rbuf[1].req].ok
           /\ wbuf' = ReplyUnits(rbuf[1].req, asked[rbuf[1].req])
           /\ rbuf' = SubSeq(rbuf, Header + len + 1, Len(rbuf))
           /\ state' = "STATE_RES"
           /\ pc' = "flush_one"
           /\ UNCHANGED wbuf_sent

try_one_request == /\ pc = "one"
                   /\ NoRequest \/ BadRequest \/ Request
                   /\ UNCHANGED <<socket, client>>

\* Bug variant: the loop on requests goes on before the reply is sent.
Stop_GoesOn(s) == IF pc = "flush_one" /\ s # "STATE_END"
                  THEN pc' = "one" /\ state' = "STATE_REQ"
                  ELSE Leave(s)

\* try_flush_buffer returns false in state s: called for a request, the loop on
\* requests goes on if the reply was sent; called by connection_io, it leaves.
Stop(s) == IF pc = "flush_one" /\ s = "STATE_REQ"
           THEN pc' = "one" /\ state' = s
           ELSE Leave(s)

\* try_flush_buffer: one write().  On a connection that was reset it returns an
\* error or, SIGPIPE not being ignored, ends the server.
WriteError == /\ reset
              /\ Stop("STATE_END") \/ (pc' = "killed" /\ UNCHANGED state)
              /\ UNCHANGED <<wbuf, wbuf_sent, sndq>>

WriteAgain == /\ ~reset /\ Len(sndq) = SndCap
              /\ Stop("STATE_RES")
              /\ UNCHANGED <<wbuf, wbuf_sent, sndq>>

WriteData ==
  /\ ~reset /\ Len(sndq) < SndCap
  /\ \E n \in 1..SndCap :
        LET remain == Len(wbuf) - wbuf_sent
            room == SndCap - Len(sndq)
        IN  /\ n = IF remain < room THEN remain ELSE room
            /\ sndq' = sndq \o SubSeq(wbuf, wbuf_sent + 1, wbuf_sent + n)
            /\ \/ n = remain /\ wbuf' = <<>> /\ wbuf_sent' = 0 /\ Stop("STATE_REQ")
               \/ n < remain /\ wbuf_sent' = wbuf_sent + n /\ UNCHANGED <<wbuf, state, pc>>

try_flush_buffer == /\ pc \in {"flush", "flush_one"}
                    /\ WriteError \/ WriteAgain \/ WriteData
                    /\ UNCHANGED <<rbuf, rcvq, fin, reset, client>>

\* conn_done; what the kernel holds for the client it still delivers.
conn_done == /\ pc' = "closed"
             /\ rcvq' = <<>>
             /\ UNCHANGED <<conn, sndq, fin, reset, client>>

Done == pc = "done" /\ conn_done

\* process_timers: nothing has happened on the connection for too long.
IdleTimeout == /\ "idle" \in Faults
               /\ pc = "poll"
               /\ conn_done

Server == poll_in \/ poll_out \/ try_fill_buffer \/ try_one_request
            \/ try_flush_buffer \/ Done
-----------------------------------------------------------------------------
(* The client and the network *)

Answered == ReplySet(1, Len(asked)) \subseteq Range(received)

Ask(r) == /\ ~fin /\ ~reset /\ pc # "closed"
          /\ Len(asked) < MaxRequests
          /\ outbox = <<>>
          /\ Pipelining \/ Answered
          /\ asked' = Append(asked, r)
          /\ outbox' = RequestUnits(Len(asked) + 1, r)
          /\ UNCHANGED <<conn, pc, socket, received>>

Write == /\ ~fin /\ ~reset /\ pc # "closed"
         /\ outbox # <<>> /\ Len(rcvq) < RcvCap
         /\ rcvq' = Append(rcvq, Head(outbox))
         /\ outbox' = Tail(outbox)
         /\ UNCHANGED <<conn, pc, sndq, fin, reset, asked, received>>

Read == /\ sndq # <<>> /\ ~reset
        /\ received' = Append(received, Head(sndq))
        /\ sndq' = Tail(sndq)
        /\ UNCHANGED <<conn, pc, rcvq, fin, reset, asked, outbox>>

Fin == /\ "fin" \in Faults /\ ~fin /\ ~reset /\ pc # "closed"
       /\ fin' = TRUE
       /\ UNCHANGED <<conn, pc, rcvq, sndq, reset, client>>

Reset == /\ "reset" \in Faults /\ ~reset /\ pc # "closed"
         /\ reset' = TRUE
         /\ rcvq' = <<>> /\ sndq' = <<>>
         /\ UNCHANGED <<conn, pc, fin, client>>

Client == (\E r \in Requests : Ask(r)) \/ Write \/ Read \/ Fin \/ Reset

Next == Server \/ IdleTimeout \/ Client

Spec == Init /\ [][Next]_vars

\* main comes back to a connection that has events, and a client that waits for
\* a reply writes what it has begun and reads what has come.
FairSpec == Spec /\ WF_vars(Server) /\ WF_vars(Write) /\ WF_vars(Read)
-----------------------------------------------------------------------------
(* Properties *)

Unit == [req : 1..MaxRequests, at : Nat, len : Nat]

\* Types; the buffers never hold more than their arrays, the reply included.
TypeOK ==
  /\ state \in {"STATE_REQ", "STATE_RES", "STATE_END"}
  /\ pc \in {"poll", "fill", "one", "flush", "flush_one", "done", "closed", "abort",
            "killed"}
  /\ rbuf \in Seq(Unit) /\ Len(rbuf) <= RCap
  /\ wbuf \in Seq(Unit) /\ Len(wbuf) <= RCap
  /\ wbuf_sent \in 0..Len(wbuf)
  /\ rcvq \in Seq(Unit) /\ sndq \in Seq(Unit) /\ fin \in BOOLEAN /\ reset \in BOOLEAN
  /\ asked \in Seq(Requests) /\ outbox \in Seq(Unit) /\ received \in Seq(Unit)

\* The assertions hold: there is always room to read into (server.cpp:726), so
\* a connection is never wedged by a full buffer without a whole request in it,
\* and it waits for events in a state connection_io knows (:826).
AssertsHold == pc # "abort" /\ (pc = "poll" => state # "STATE_END")

\* A reply waits in wbuf exactly while the state says so: poll asks for room to
\* write when there is something to write, and otherwise for input (:966).
RepliesPending ==
  pc \notin {"done", "closed", "killed"} => (state = "STATE_RES" <=> wbuf # <<>>)

\* One message after the other, each from its first unit to its last.
Before(u, v) == u.req < v.req \/ (u.req = v.req /\ u.at < v.at)
Ordered(s) == \A i, j \in DOMAIN s : i < j => Before(s[i], s[j])

\* s is the stream of the given units, or the beginning of it.
IsStream(s, units) == Ordered(s) /\ Range(s) = units
Begins(s, units) == /\ Ordered(s) /\ Range(s) \subseteq units
                    /\ \A u \in units, v \in Range(s) : Before(u, v) => u \in Range(s)

\* However the stream is cut and however slowly the client reads, no request and
\* no reply is lost, repeated, reordered or torn: the units in all buffers are
\* the replies to the requests handled, and after them the other requests; and
\* even after a reset or the end, what the client has got is the beginning of
\* the replies to its requests (server.cpp:695-713, :778-806).
StreamsMatch ==
  /\ Begins(received, ReplySet(1, Len(asked)))
  /\ pc # "closed" /\ ~reset =>
        \E n \in 0..Len(asked) :
           /\ IsStream(received \o sndq \o SubSeq(wbuf, wbuf_sent + 1, Len(wbuf)), ReplySet(1, n))
           /\ IsStream(rbuf \o rcvq \o outbox, RequestSet(n + 1, Len(asked)))

\* A client that stays connected, finishes the request it has begun to write and
\* reads what comes gets the reply to each of its requests.
GetsReplies ==
  \A n \in 1..MaxRequests :
     Len(asked) = n ~> Len(asked) >= n /\ ReplySet(1, n) \subseteq Range(received)
=============================================================================
