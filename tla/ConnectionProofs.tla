-------------------------- MODULE ConnectionProofs --------------------------
(***************************************************************************)
(* Proofs about Connection for any requests, any sizes of messages and of  *)
(* the socket's buffers, and any client.                                   *)
(*                                                                         *)
(* IInv adds to the properties what they rest on: there is room in rbuf    *)
(* wherever the next read may happen, the state is the one that each place *)
(* in the code goes with, and every unit that comes in is of a request     *)
(* that was made.                                                          *)
(*                                                                         *)
(* For the streams the buffers are joined: Out is all that has been built  *)
(* of the replies, In all of the requests that is not handled yet.  Most   *)
(* steps move units from one buffer to the next and change neither; asking *)
(* extends In, and a request that is handled leaves In at one end (it is   *)
(* the beginning of it, StreamStart) while its reply goes to Out.          *)
(***************************************************************************)
EXTENDS Connection, SequenceTheorems, NaturalsInduction, WellFoundedInduction, TLAPS

\* The units of the requests made so far.
Asked == [req : 1..Len(asked), at : Nat, len : Nat]

RequestsKnown == /\ Len(asked) <= MaxRequests
                 /\ rbuf \in Seq(Asked) /\ rcvq \in Seq(Asked) /\ outbox \in Seq(Asked)

Room == pc \in {"poll", "fill", "flush", "flush_one"} => Len(rbuf) < RCap

Phase == /\ pc \in {"fill", "one"} => state = "STATE_REQ"
         /\ pc \in {"flush", "flush_one"} => state = "STATE_RES"

IInv == TypeOK /\ RequestsKnown /\ Room /\ Phase /\ AssertsHold /\ RepliesPending
-----------------------------------------------------------------------------
(* What the model is built from *)

LEMMA SizesType == k_max_msg \in Nat \ {0} /\ RCap \in Nat /\ RCap = 1 + k_max_msg /\ RCap > 1
BY ConnectionAssumption DEF RCap, Header

LEMMA RequestType ==
  ASSUME NEW r \in Requests
  PROVE  r.len \in Nat /\ r.body \in Nat /\ r.out \in Nat \ {0}
BY ConnectionAssumption

OfRequest(n) == [req : {n}, at : Nat, len : Nat]

\* A request arrives as units of its number.
LEMMA RequestUnitsType ==
  ASSUME NEW n \in Nat, NEW r \in Requests
  PROVE  RequestUnits(n, r) \in Seq(OfRequest(n)) /\ Len(RequestUnits(n, r)) = Header + r.body
<1>1. Header + r.body \in Nat
  BY RequestType DEF Header
<1>2. \A i \in 1..(Header + r.body) :
         [req |-> n, at |-> i, len |-> IF i = 1 THEN r.len ELSE 0] \in OfRequest(n)
  BY RequestType DEF OfRequest
<1>3. QED
  BY <1>1, <1>2 DEF RequestUnits

\* An output is never larger than a message, so a reply always fits wbuf.
LEMMA OutSizeType ==
  ASSUME NEW r \in Requests
  PROVE  OutSize(r) \in 1..k_max_msg
BY ConnectionAssumption, RequestType DEF OutSize, Header

LEMMA ReplyUnitsType ==
  ASSUME NEW n \in 1..MaxRequests, NEW r \in Requests
  PROVE  /\ ReplyUnits(n, r) \in Seq(Unit)
         /\ Len(ReplyUnits(n, r)) \in 2..RCap
<1>1. Header + OutSize(r) \in 2..RCap /\ OutSize(r) \in Nat
  BY OutSizeType, SizesType DEF Header
<1>2. \A i \in 1..(Header + OutSize(r)) :
         [req |-> n, at |-> i, len |-> IF i = 1 THEN OutSize(r) ELSE 0] \in Unit
  BY <1>1 DEF Unit
<1>3. QED
  BY <1>1, <1>2, SizesType DEF ReplyUnits

LEMMA AskedUnits ==
  ASSUME TypeOK, RequestsKnown
  PROVE  Asked \subseteq Unit /\ Len(asked) \in 0..MaxRequests
<1>1. Len(asked) \in Nat
  BY DEF TypeOK
<1>2. QED
  BY <1>1, ConnectionAssumption DEF RequestsKnown, Asked, Unit

LEMMA InitIInv == Init => IInv
<1> SUFFICES ASSUME Init PROVE IInv
  OBVIOUS
<1> USE DEF Init
<1>1. TypeOK
  <2>1. Len(rbuf) = 0 /\ Len(wbuf) = 0 /\ 0 \in 0..0
    OBVIOUS
  <2>2. Len(rbuf) <= RCap /\ Len(wbuf) <= RCap /\ wbuf_sent \in 0..Len(wbuf)
    BY <2>1, SizesType
  <2>3. /\ rbuf \in Seq(Unit) /\ wbuf \in Seq(Unit) /\ rcvq \in Seq(Unit) /\ sndq \in Seq(Unit)
        /\ asked \in Seq(Requests) /\ outbox \in Seq(Unit) /\ received \in Seq(Unit)
    OBVIOUS
  <2>4. QED
    BY <2>2, <2>3 DEF TypeOK
<1>2. RequestsKnown /\ Room /\ Phase
  BY SizesType, ConnectionAssumption DEF RequestsKnown, Room, Phase
<1>3. AssertsHold /\ RepliesPending
  BY DEF AssertsHold, RepliesPending
<1>4. QED
  BY <1>1, <1>2, <1>3 DEF IInv
-----------------------------------------------------------------------------
(* Sequences cut and joined *)

LEMMA Cut ==
  ASSUME NEW S, NEW s \in Seq(S), NEW n \in 0..Len(s)
  PROVE  /\ SubSeq(s, 1, n) \in Seq(S) /\ Len(SubSeq(s, 1, n)) = n
         /\ SubSeq(s, n+1, Len(s)) \in Seq(S) /\ Len(SubSeq(s, n+1, Len(s))) = Len(s) - n
OBVIOUS

LEMMA Join ==
  ASSUME NEW S, NEW s \in Seq(S), NEW t \in Seq(S)
  PROVE  s \o t \in Seq(S) /\ Len(s \o t) = Len(s) + Len(t)
OBVIOUS

LEMMA SeqLen == ASSUME NEW S, NEW s \in Seq(S) PROVE Len(s) \in Nat
OBVIOUS

LEMMA HeadTail ==
  ASSUME NEW S, NEW s \in Seq(S), s # <<>>
  PROVE  Head(s) \in S /\ Tail(s) \in Seq(S) /\ Head(s) = s[1] /\ Len(s) \in Nat \ {0}
OBVIOUS

LEMMA SeqSubset ==
  ASSUME NEW S, NEW T, S \subseteq T, NEW s \in Seq(S)
  PROVE  s \in Seq(T)
OBVIOUS
-----------------------------------------------------------------------------
(* The server's steps *)

LEMMA PollIInv ==
  ASSUME IInv, poll_in \/ poll_out
  PROVE  IInv'
<1> USE DEF poll_in, poll_out, conn, socket, client
<1>1. TypeOK' /\ RequestsKnown'
  BY DEF IInv, TypeOK, RequestsKnown, Asked, Unit
<1>2. Room' /\ Phase' /\ AssertsHold' /\ RepliesPending'
  BY DEF IInv, Room, Phase, AssertsHold, RepliesPending, RCap
<1>3. QED
  BY <1>1, <1>2 DEF IInv

LEMMA FillIInv ==
  ASSUME IInv, try_fill_buffer
  PROVE  IInv'
<1>1. /\ pc = "fill" /\ state = "STATE_REQ" /\ Len(rbuf) < RCap
      /\ UNCHANGED <<wbuf, wbuf_sent, sndq, fin, reset, client>>
      /\ RCap' = RCap /\ Asked' = Asked
  BY DEF IInv, try_fill_buffer, Phase, Room, client, RCap, Asked
<1>2. CASE ReadError \/ ReadAgain \/ ReadEof
  <2> USE <1>1, <1>2 DEF ReadError, ReadAgain, ReadEof, Leave, client
  <2>1. TypeOK' /\ RequestsKnown'
    BY DEF IInv, TypeOK, RequestsKnown, Unit
  <2>2. Room' /\ Phase' /\ AssertsHold' /\ RepliesPending'
    BY DEF IInv, Room, Phase, AssertsHold, RepliesPending
  <2>3. QED
    BY <2>1, <2>2 DEF IInv
<1>3. CASE ReadData
  <2>1. PICK n \in 1..Len(rcvq) :
          /\ n <= RCap - Len(rbuf)
          /\ rbuf' = rbuf \o SubSeq(rcvq, 1, n)
          /\ rcvq' = SubSeq(rcvq, n+1, Len(rcvq))
    BY <1>3 DEF ReadData
  <2>2. /\ Len(rcvq) \in Nat /\ Len(rbuf) \in Nat /\ RCap \in Nat /\ n \in 0..Len(rcvq)
    BY SizesType, <2>1 DEF IInv, TypeOK
  <2>3. rbuf' \in Seq(Asked) /\ rcvq' \in Seq(Asked) /\ Len(rbuf') = Len(rbuf) + n
    <3>1. rcvq \in Seq(Asked) /\ rbuf \in Seq(Asked)
      BY DEF IInv, RequestsKnown
    <3>2. SubSeq(rcvq, 1, n) \in Seq(Asked) /\ Len(SubSeq(rcvq, 1, n)) = n
            /\ SubSeq(rcvq, n+1, Len(rcvq)) \in Seq(Asked)
      BY <2>2, <3>1, Cut
    <3>3. QED
      BY <2>1, <3>1, <3>2, Join
  <2>4. rbuf' \in Seq(Unit) /\ rcvq' \in Seq(Unit)
    BY <2>3, AskedUnits, SeqSubset DEF IInv
  <2>5. Len(rbuf') <= RCap
    BY <2>1, <2>2, <2>3
  <2>6. pc' = "one" /\ state' = state
    BY <1>3 DEF ReadData
  <2>7. TypeOK'
    BY <1>1, <2>4, <2>5, <2>6 DEF IInv, TypeOK, Unit, client
  <2>8. RequestsKnown'
    BY <1>1, <2>3 DEF IInv, RequestsKnown, client
  <2>9. Room' /\ Phase' /\ AssertsHold' /\ RepliesPending'
    BY <1>1, <2>6 DEF IInv, Room, Phase, AssertsHold, RepliesPending
  <2>10. QED
    BY <2>7, <2>8, <2>9 DEF IInv
<1>4. QED
  <2>1. ~(Len(rbuf) >= RCap)
    BY <1>1, SizesType DEF IInv, TypeOK
  <2>2. QED
    BY <1>2, <1>3, <2>1 DEF try_fill_buffer

LEMMA RequestIInv ==
  ASSUME IInv, pc = "one", Request, UNCHANGED <<socket, client>>
  PROVE  IInv'
<1> USE DEF socket, client
<1>1. /\ state = "STATE_REQ" /\ wbuf = <<>> /\ wbuf_sent = 0
  <2>1. state = "STATE_REQ" /\ wbuf = <<>>
    BY DEF IInv, Phase, RepliesPending
  <2>2. Len(wbuf) = 0
    BY <2>1
  <2>3. QED
    BY <2>1, <2>2 DEF IInv, TypeOK
<1>2. Len(rbuf) \in Nat /\ Len(rbuf) <= RCap /\ RCap \in Nat /\ Len(rbuf) >= 1
  BY SizesType DEF IInv, TypeOK, Request, Whole, Header
<1>3. rbuf[1] \in Asked /\ rbuf \in Seq(Asked)
  BY <1>2 DEF IInv, RequestsKnown
<1>4. rbuf[1].req \in 1..MaxRequests /\ asked[rbuf[1].req] \in Requests /\ len \in Nat
  <2>1. rbuf[1].req \in 1..Len(asked) /\ len \in Nat
    BY <1>3 DEF Asked, len
  <2>2. Len(asked) \in 0..MaxRequests /\ asked \in Seq(Requests)
    BY AskedUnits DEF IInv, TypeOK
  <2>3. QED
    BY <2>1, <2>2, ConnectionAssumption
<1>5. wbuf' \in Seq(Unit) /\ Len(wbuf') \in 2..RCap
  BY <1>4, ReplyUnitsType DEF Request
<1>6. rbuf' \in Seq(Asked) /\ Len(rbuf') = Len(rbuf) - Header - len
  <2>1. Header + len \in 0..Len(rbuf)
    BY <1>2, <1>4 DEF Request, Whole, Header
  <2>2. rbuf' = SubSeq(rbuf, Header + len + 1, Len(rbuf))
    BY DEF Request
  <2>3. SubSeq(rbuf, Header + len + 1, Len(rbuf)) \in Seq(Asked)
          /\ Len(SubSeq(rbuf, Header + len + 1, Len(rbuf))) = Len(rbuf) - (Header + len)
    BY <1>3, <2>1, Cut
  <2>4. Len(rbuf) - (Header + len) = Len(rbuf) - Header - len
    BY <1>2, <1>4 DEF Header
  <2>5. QED
    BY <2>2, <2>3, <2>4
<1>7. Len(rbuf') < RCap
  BY <1>2, <1>4, <1>6 DEF Header
<1>8. rbuf' \in Seq(Unit)
  BY <1>6, AskedUnits, SeqSubset DEF IInv
<1>9. state' = "STATE_RES" /\ pc' = "flush_one" /\ wbuf_sent' = 0 /\ RCap' = RCap
  BY <1>1 DEF Request, RCap
<1>10. TypeOK'
  <2>1. Len(wbuf') <= RCap /\ 0 \in 0..Len(wbuf') /\ Len(rbuf') <= RCap
    BY <1>2, <1>5, <1>6, <1>7
  <2>2. QED
    BY <1>5, <1>8, <1>9, <2>1 DEF IInv, TypeOK, Unit
<1>11. RequestsKnown'
  BY <1>6 DEF IInv, RequestsKnown, Asked
<1>12. Room' /\ Phase' /\ AssertsHold'
  BY <1>7, <1>9 DEF Room, Phase, AssertsHold
<1>13. RepliesPending'
  <2>1. wbuf' # <<>>
    BY <1>5
  <2>2. QED
    BY <1>9, <2>1 DEF RepliesPending
<1>14. QED
  BY <1>10, <1>11, <1>12, <1>13 DEF IInv

LEMMA OneIInv ==
  ASSUME IInv, try_one_request
  PROVE  IInv'
<1>1. pc = "one" /\ UNCHANGED <<socket, client>>
  BY DEF try_one_request
<1>2. CASE NoRequest
  <2>1. Len(rbuf) < RCap
    <3>1. Len(rbuf) \in Nat /\ Len(rbuf) <= RCap /\ RCap = 1 + k_max_msg /\ k_max_msg \in Nat \ {0}
      BY SizesType DEF IInv, TypeOK
    <3>2. CASE Len(rbuf) = 0
      BY <3>1, <3>2
    <3>3. CASE Len(rbuf) >= 1
      <4>1. rbuf[1] \in Asked
        BY <3>1, <3>3 DEF IInv, RequestsKnown
      <4>2. len \in Nat
        BY <4>1 DEF Asked, len
      <4>3. ~(len > k_max_msg) /\ ~(Header + len <= Len(rbuf))
        BY <1>2, <3>3 DEF NoRequest, TooLong, Whole, Header
      <4>4. QED
        BY <3>1, <4>2, <4>3 DEF Header
    <3>4. QED
      BY <3>1, <3>2, <3>3
  <2> USE <1>1, <1>2 DEF NoRequest, conn, socket, client
  <2>2. TypeOK' /\ RequestsKnown'
    BY DEF IInv, TypeOK, RequestsKnown, Asked, Unit
  <2>3. Room' /\ Phase' /\ AssertsHold' /\ RepliesPending'
    BY <2>1 DEF IInv, Room, Phase, AssertsHold, RepliesPending, RCap
  <2>4. QED
    BY <2>2, <2>3 DEF IInv
<1>3. CASE BadRequest
  <2> USE <1>1, <1>3 DEF BadRequest, Leave, conn, socket, client
  <2>1. TypeOK' /\ RequestsKnown'
    BY DEF IInv, TypeOK, RequestsKnown, Asked, Unit
  <2>2. Room' /\ Phase' /\ AssertsHold' /\ RepliesPending'
    BY DEF IInv, Room, Phase, AssertsHold, RepliesPending, RCap
  <2>3. QED
    BY <2>1, <2>2 DEF IInv
<1>4. CASE Request
  BY <1>1, <1>4, RequestIInv
<1>5. QED
  BY <1>2, <1>3, <1>4 DEF try_one_request

LEMMA FlushIInv ==
  ASSUME IInv, try_flush_buffer
  PROVE  IInv'
<1>1. /\ pc \in {"flush", "flush_one"} /\ state = "STATE_RES" /\ Len(rbuf) < RCap
      /\ UNCHANGED <<rbuf, rcvq, fin, reset, client>>
      /\ RCap' = RCap /\ Asked' = Asked /\ wbuf # <<>>
  BY DEF IInv, try_flush_buffer, Phase, Room, RepliesPending, client, RCap, Asked
<1>2. RequestsKnown'
  BY <1>1 DEF IInv, RequestsKnown, client
<1>3. CASE WriteError \/ WriteAgain
  <2> USE <1>1, <1>3 DEF WriteError, WriteAgain, Stop, Leave, client
  <2>1. TypeOK'
    BY DEF IInv, TypeOK, Unit
  <2>2. Room' /\ Phase' /\ AssertsHold' /\ RepliesPending'
    BY DEF IInv, Room, Phase, AssertsHold, RepliesPending
  <2>3. QED
    BY <1>2, <2>1, <2>2 DEF IInv
<1>4. CASE WriteData
  <2>1. PICK n \in 1..SndCap :
          /\ n <= Len(wbuf) - wbuf_sent
          /\ sndq' = sndq \o SubSeq(wbuf, wbuf_sent + 1, wbuf_sent + n)
          /\ \/ wbuf' = <<>> /\ wbuf_sent' = 0 /\ Stop("STATE_REQ")
             \/ wbuf_sent' = wbuf_sent + n /\ UNCHANGED <<wbuf, state, pc>>
    <3>1. PICK n \in 1..SndCap :
            LET remain == Len(wbuf) - wbuf_sent
                room == SndCap - Len(sndq)
            IN  /\ n = IF remain < room THEN remain ELSE room
                /\ sndq' = sndq \o SubSeq(wbuf, wbuf_sent + 1, wbuf_sent + n)
                /\ \/ n = remain /\ wbuf' = <<>> /\ wbuf_sent' = 0 /\ Stop("STATE_REQ")
                   \/ n < remain /\ wbuf_sent' = wbuf_sent + n /\ UNCHANGED <<wbuf, state, pc>>
      BY <1>4 DEF WriteData
    <3>2. Len(wbuf) \in Nat /\ wbuf_sent \in Nat /\ Len(sndq) \in Nat /\ SndCap \in Nat
      BY ConnectionAssumption DEF IInv, TypeOK
    <3>3. n <= Len(wbuf) - wbuf_sent
      BY <3>1, <3>2
    <3>4. QED
      BY <3>1, <3>3
  <2>2. /\ Len(wbuf) \in Nat /\ wbuf_sent \in Nat /\ n \in Nat /\ wbuf_sent + n <= Len(wbuf)
        /\ wbuf \in Seq(Unit) /\ sndq \in Seq(Unit)
    BY <2>1 DEF IInv, TypeOK
  <2>3. sndq' \in Seq(Unit)
    <3>1. SubSeq(wbuf, wbuf_sent + 1, wbuf_sent + n) \in Seq(Unit)
      BY <2>2
    <3>2. QED
      BY <2>1, <2>2, <3>1, Join
  <2>4. CASE wbuf' = <<>> /\ wbuf_sent' = 0 /\ Stop("STATE_REQ")
    <3>1. Len(wbuf') = 0 /\ Len(wbuf') <= RCap /\ wbuf_sent' \in 0..Len(wbuf') /\ wbuf' \in Seq(Unit)
      BY <2>4, SizesType
    <3>2. state' = "STATE_REQ" /\ pc' \in {"poll", "one"}
      BY <1>1, <2>4 DEF Stop, Leave
    <3>3. TypeOK'
      BY <1>1, <2>3, <3>1, <3>2 DEF IInv, TypeOK, Unit, client
    <3>4. Room' /\ Phase' /\ AssertsHold' /\ RepliesPending'
      BY <1>1, <2>4, <3>2 DEF Room, Phase, AssertsHold, RepliesPending
    <3>5. QED
      BY <1>2, <3>3, <3>4 DEF IInv
  <2>5. CASE wbuf_sent' = wbuf_sent + n /\ UNCHANGED <<wbuf, state, pc>>
    <3>1. wbuf_sent' \in 0..Len(wbuf')
      BY <2>2, <2>5
    <3>2. TypeOK'
      BY <1>1, <2>3, <2>5, <3>1 DEF IInv, TypeOK, Unit, client
    <3>3. Room' /\ Phase' /\ AssertsHold' /\ RepliesPending'
      BY <1>1, <2>5 DEF IInv, Room, Phase, AssertsHold, RepliesPending
    <3>4. QED
      BY <1>2, <3>2, <3>3 DEF IInv
  <2>6. QED
    BY <2>1, <2>4, <2>5
<1>5. QED
  BY <1>3, <1>4 DEF try_flush_buffer

LEMMA DoneIInv ==
  ASSUME IInv, Done \/ IdleTimeout
  PROVE  IInv'
<1>1. /\ UNCHANGED <<conn, sndq, fin, reset, client>> /\ pc' = "closed" /\ rcvq' = <<>>
      /\ RCap' = RCap /\ Asked' = Asked
  BY DEF Done, IdleTimeout, conn_done, client, RCap, Asked
<1>2. rcvq' \in Seq(Unit) /\ rcvq' \in Seq(Asked)
  BY <1>1, EmptySeq
<1>3. TypeOK' /\ RequestsKnown'
  BY <1>1, <1>2 DEF IInv, TypeOK, RequestsKnown, Unit, conn, client
<1>4. Room' /\ Phase' /\ AssertsHold' /\ RepliesPending'
  BY <1>1 DEF IInv, Room, Phase, AssertsHold, RepliesPending, conn
<1>5. QED
  BY <1>3, <1>4 DEF IInv
-----------------------------------------------------------------------------
(* The client's steps *)

\* Whatever the client does, the server's part of the invariant stands.
LEMMA ServerPart ==
  ASSUME IInv, UNCHANGED <<conn, pc>>
  PROVE  Room' /\ Phase' /\ AssertsHold' /\ RepliesPending'
BY DEF IInv, conn, Room, Phase, AssertsHold, RepliesPending, RCap

LEMMA AskIInv ==
  ASSUME IInv, NEW r \in Requests, Ask(r)
  PROVE  IInv'
<1> DEFINE n == Len(asked) + 1
<1>1. /\ UNCHANGED <<conn, pc, socket, received>>
      /\ asked' = Append(asked, r) /\ outbox' = RequestUnits(n, r) /\ Len(asked) < MaxRequests
      /\ asked \in Seq(Requests)
  BY DEF Ask, IInv, TypeOK
<1>2. asked' \in Seq(Requests) /\ Len(asked') = n /\ n \in 1..MaxRequests /\ n \in Nat
        /\ Len(asked) \in Nat
  BY <1>1, ConnectionAssumption
<1>3. Asked \subseteq Asked' /\ OfRequest(n) \subseteq Asked' /\ Asked' \subseteq Unit
  BY <1>2, ConnectionAssumption DEF Asked, OfRequest, Unit
<1>4. outbox' \in Seq(Asked')
  <2>1. outbox' \in Seq(OfRequest(n))
    BY <1>1, <1>2, RequestUnitsType
  <2>2. QED
    BY <1>3, <2>1, SeqSubset
<1>5. outbox' \in Seq(Unit)
  BY <1>3, <1>4, SeqSubset
<1>6. rbuf' \in Seq(Asked') /\ rcvq' \in Seq(Asked')
  BY <1>1, <1>3, SeqSubset DEF IInv, RequestsKnown, conn, socket
<1>7. TypeOK'
  BY <1>1, <1>2, <1>5 DEF IInv, TypeOK, Unit, conn, socket, RCap
<1>8. RequestsKnown'
  BY <1>2, <1>4, <1>6 DEF RequestsKnown
<1>9. QED
  BY <1>1, <1>7, <1>8, ServerPart DEF IInv

LEMMA WriteIInv ==
  ASSUME IInv, Write
  PROVE  IInv'
<1>1. /\ UNCHANGED <<conn, pc, sndq, fin, reset, asked, received>> /\ outbox # <<>>
      /\ rcvq' = Append(rcvq, Head(outbox)) /\ outbox' = Tail(outbox)
      /\ rcvq \in Seq(Asked) /\ outbox \in Seq(Asked) /\ Asked' = Asked
  BY DEF Write, IInv, RequestsKnown, Asked
<1>2. rcvq' \in Seq(Asked) /\ outbox' \in Seq(Asked)
  <2>1. Head(outbox) \in Asked /\ Tail(outbox) \in Seq(Asked)
    BY <1>1, HeadTail
  <2>2. QED
    BY <1>1, <2>1
<1>3. rcvq' \in Seq(Unit) /\ outbox' \in Seq(Unit)
  BY <1>2, AskedUnits, SeqSubset DEF IInv
<1>4. TypeOK'
  BY <1>1, <1>3 DEF IInv, TypeOK, Unit, conn, RCap
<1>5. RequestsKnown'
  BY <1>1, <1>2 DEF IInv, RequestsKnown, conn
<1>6. QED
  BY <1>1, <1>4, <1>5, ServerPart DEF IInv

LEMMA ReadIInv ==
  ASSUME IInv, Read
  PROVE  IInv'
<1>1. /\ UNCHANGED <<conn, pc, rcvq, fin, reset, asked, outbox>> /\ sndq # <<>>
      /\ received' = Append(received, Head(sndq)) /\ sndq' = Tail(sndq)
      /\ sndq \in Seq(Unit) /\ received \in Seq(Unit)
  BY DEF Read, IInv, TypeOK
<1>2. received' \in Seq(Unit) /\ sndq' \in Seq(Unit)
  <2>1. Head(sndq) \in Unit /\ Tail(sndq) \in Seq(Unit)
    BY <1>1, HeadTail
  <2>2. QED
    BY <1>1, <2>1
<1>3. TypeOK' /\ RequestsKnown'
  BY <1>1, <1>2 DEF IInv, TypeOK, RequestsKnown, Asked, Unit, conn, RCap
<1>4. QED
  BY <1>1, <1>3, ServerPart DEF IInv

LEMMA GoneIInv ==
  ASSUME IInv, Fin \/ Reset
  PROVE  IInv'
<1>1. /\ UNCHANGED <<conn, pc, client>> /\ fin' \in BOOLEAN /\ reset' \in BOOLEAN
      /\ RCap' = RCap /\ Asked' = Asked
      /\ rcvq' \in {rcvq, <<>>} /\ sndq' \in {sndq, <<>>}
  BY DEF Fin, Reset, client, RCap, Asked, IInv, TypeOK
<1>2. rcvq' \in Seq(Unit) /\ rcvq' \in Seq(Asked) /\ sndq' \in Seq(Unit)
  BY <1>1, EmptySeq DEF IInv, TypeOK, RequestsKnown
<1>3. TypeOK' /\ RequestsKnown'
  BY <1>1, <1>2 DEF IInv, TypeOK, RequestsKnown, Unit, conn, client
<1>4. QED
  BY <1>1, <1>3, ServerPart DEF IInv

LEMMA StutterIInv ==
  ASSUME IInv, UNCHANGED vars
  PROVE  IInv'
<1>1. TypeOK' /\ RequestsKnown'
  BY DEF vars, IInv, TypeOK, RequestsKnown, Asked, Unit, conn, socket, client, RCap
<1>2. QED
  BY <1>1, ServerPart DEF vars, IInv

LEMMA NextIInv == IInv /\ [Next]_vars => IInv'
BY PollIInv, FillIInv, OneIInv, FlushIInv, DoneIInv, AskIInv, WriteIInv, ReadIInv, GoneIInv,
   StutterIInv DEF Next, Server, Client

\* The inductive invariant holds of every reachable state.
THEOREM IInvHolds == Spec => []IInv
BY InitIInv, NextIInv, PTL DEF Spec
-----------------------------------------------------------------------------
(* The properties *)

\* The buffers never hold more than their arrays, whatever is sent and however
\* large the output of a command is.
THEOREM TypeOKHolds == Spec => []TypeOK
<1>1. IInv => TypeOK
  BY DEF IInv
<1>2. QED
  BY IInvHolds, <1>1, PTL

\* The assertions at server.cpp:726 and :826 never fail for a connection: a
\* message of the largest size just fits, and what does not fit is refused.
THEOREM AssertsHoldHolds == Spec => []AssertsHold
<1>1. IInv => AssertsHold
  BY DEF IInv
<1>2. QED
  BY IInvHolds, <1>1, PTL

\* The state says whether a reply is pending wherever poll is asked.
THEOREM RepliesPendingHolds == Spec => []RepliesPending
<1>1. IInv => RepliesPending
  BY DEF IInv
<1>2. QED
  BY IInvHolds, <1>1, PTL
-----------------------------------------------------------------------------
(* Streams *)

LEMMA BeforeOrder ==
  ASSUME NEW u \in Unit, NEW v \in Unit
  PROVE  ~Before(u, u) /\ (Before(u, v) => ~Before(v, u))
BY ConnectionAssumption DEF Unit, Before

LEMMA UnitsOf ==
  ASSUME NEW s \in Seq(Unit)
  PROVE  /\ Range(s) \subseteq Unit /\ Len(s) \in Nat /\ DOMAIN s = 1..Len(s)
         /\ \A i \in 1..Len(s) : s[i] \in Range(s)
         /\ \A u \in Range(s) : \E i \in 1..Len(s) : s[i] = u
BY DEF Range

LEMMA JoinAssociative ==
  ASSUME NEW s \in Seq(Unit), NEW t \in Seq(Unit), NEW u \in Seq(Unit)
  PROVE  (s \o t) \o u = s \o (t \o u)
BY ConcatAssociative

AllBefore(A, B) == \A u \in A, v \in B : Before(u, v)

\* A sequence is in order when its two parts are, and one is before the other.
LEMMA OrderedJoin ==
  ASSUME NEW s \in Seq(Unit), NEW t \in Seq(Unit)
  PROVE  Ordered(s \o t) <=> Ordered(s) /\ Ordered(t) /\ AllBefore(Range(s), Range(t))
<1> DEFINE st == s \o t
<1>1. /\ Len(s) \in Nat /\ Len(t) \in Nat /\ DOMAIN s = 1..Len(s) /\ DOMAIN t = 1..Len(t)
      /\ DOMAIN st = 1..(Len(s) + Len(t))
  OBVIOUS
<1>2. \A i \in 1..Len(s) : i \in DOMAIN st /\ st[i] = s[i]
  BY <1>1
<1>3. \A j \in 1..Len(t) : Len(s) + j \in DOMAIN st /\ st[Len(s) + j] = t[j]
  BY <1>1
<1>4. ASSUME Ordered(st) PROVE Ordered(s) /\ Ordered(t) /\ AllBefore(Range(s), Range(t))
  <2> HIDE DEF st
  <2>1. \A i, j \in DOMAIN st : i < j => Before(st[i], st[j])
    BY <1>4 DEF Ordered
  <2>2. Ordered(s)
    BY <2>1, <1>1, <1>2 DEF Ordered
  <2>3. ASSUME NEW i \in 1..Len(t), NEW j \in 1..Len(t), i < j PROVE Before(t[i], t[j])
    <3>1. Len(s) + i < Len(s) + j
      BY <2>3, <1>1
    <3>2. QED
      BY <3>1, <2>1, <1>3
  <2>4. ASSUME NEW i \in 1..Len(s), NEW j \in 1..Len(t) PROVE Before(s[i], t[j])
    <3>1. i < Len(s) + j
      BY <1>1
    <3>2. QED
      BY <3>1, <2>1, <1>2, <1>3
  <2>5. AllBefore(Range(s), Range(t))
    BY <2>4, UnitsOf DEF AllBefore
  <2>6. QED
    BY <2>2, <2>3, <2>5, <1>1 DEF Ordered
<1>5. ASSUME Ordered(s), Ordered(t), AllBefore(Range(s), Range(t)) PROVE Ordered(st)
  <2>1. \A k \in DOMAIN st : \/ k \in 1..Len(s) /\ st[k] = s[k]
                             \/ k - Len(s) \in 1..Len(t) /\ st[k] = t[k - Len(s)]
    BY <1>1
  <2> HIDE DEF st
  <2>2. SUFFICES ASSUME NEW i \in DOMAIN st, NEW j \in DOMAIN st, i < j
                 PROVE  Before(st[i], st[j])
    BY DEF Ordered
  <2>3. CASE i \in 1..Len(s) /\ j \in 1..Len(s)
    BY <2>2, <2>3, <1>1, <1>2, <1>5 DEF Ordered
  <2>4. CASE i \in 1..Len(s) /\ j - Len(s) \in 1..Len(t) /\ st[j] = t[j - Len(s)]
    BY <2>4, <1>2, <1>5, UnitsOf DEF AllBefore
  <2>5. CASE /\ i - Len(s) \in 1..Len(t) /\ st[i] = t[i - Len(s)]
             /\ j - Len(s) \in 1..Len(t) /\ st[j] = t[j - Len(s)]
    <3>1. i - Len(s) < j - Len(s)
      BY <2>2, <1>1
    <3>2. QED
      BY <2>5, <3>1, <1>1, <1>5 DEF Ordered
  <2>6. ~(i - Len(s) \in 1..Len(t) /\ j \in 1..Len(s))
    BY <2>2, <1>1
  <2>7. QED
    BY <2>1, <2>3, <2>4, <2>5, <2>6
<1>6. QED
  BY <1>4, <1>5

LEMMA StreamJoin ==
  ASSUME NEW s \in Seq(Unit), NEW t \in Seq(Unit), NEW A, NEW B,
         IsStream(s, A), IsStream(t, B), AllBefore(A, B)
  PROVE  IsStream(s \o t, A \cup B)
BY OrderedJoin, RangeConcatenation DEF IsStream

\* The beginning of the beginning of a stream begins it.
LEMMA BeginsPrefix ==
  ASSUME NEW s \in Seq(Unit), NEW t \in Seq(Unit), NEW A, A \subseteq Unit, Begins(s \o t, A)
  PROVE  Begins(s, A)
<1>1. /\ Ordered(s) /\ AllBefore(Range(s), Range(t)) /\ Range(s \o t) = Range(s) \cup Range(t)
  BY OrderedJoin, RangeConcatenation DEF Begins
<1>2. ASSUME NEW u \in A, NEW v \in Range(s), Before(u, v) PROVE u \in Range(s)
  <2>1. u \in Range(s) \cup Range(t)
    BY <1>1, <1>2 DEF Begins
  <2>2. u \in Unit /\ v \in Unit
    BY UnitsOf
  <2>3. u \notin Range(t)
    BY <1>1, <1>2, <2>2, BeforeOrder DEF AllBefore
  <2>4. QED
    BY <2>1, <2>3
<1>3. QED
  BY <1>1, <1>2 DEF Begins

\* A stream in which the units of f come first starts with f.
LEMMA StreamStart ==
  ASSUME NEW s \in Seq(Unit), NEW f \in Seq(Unit), NEW A, IsStream(s, A),
         Ordered(f), Range(f) \subseteq A, AllBefore(Range(f), A \ Range(f))
  PROVE  Len(f) <= Len(s) /\ \A i \in 1..Len(f) : s[i] = f[i]
<1> DEFINE Wrong == {i \in 1..Len(f) : ~(i <= Len(s) /\ s[i] = f[i])}
<1>1. Range(s) = A /\ Ordered(s) /\ A \subseteq Unit
  BY UnitsOf DEF IsStream
<1>2. /\ Len(f) \in Nat /\ DOMAIN f = 1..Len(f) /\ \A i \in 1..Len(f) : f[i] \in Range(f)
      /\ Len(s) \in Nat /\ DOMAIN s = 1..Len(s) /\ \A i \in 1..Len(s) : s[i] \in A
  BY <1>1, UnitsOf
<1>3. ASSUME Wrong # {} PROVE FALSE
  <2>1. Wrong \subseteq Nat
    BY <1>2
  <2>2. PICK i \in Wrong : \A j \in Wrong : ~(<<j, i>> \in OpToRel(<, Nat))
    BY <2>1, <1>3, WFMin, NatLessThanWellFounded, Zenon
  <2>3. \A j \in Wrong : ~(j < i)
    <3>1. ASSUME NEW j \in Wrong, j < i PROVE <<j, i>> \in OpToRel(<, Nat)
      BY <3>1, <2>1, <2>2, Zenon DEF OpToRel
    <3>2. QED
      BY <2>2, <3>1
  <2>4. i \in 1..Len(f) /\ ~(i <= Len(s) /\ s[i] = f[i])
    OBVIOUS
  <2>5. \A j \in 1..Len(f) : j < i => j <= Len(s) /\ s[j] = f[j]
    BY <2>3
  <2> HIDE DEF Wrong
  <2>6. PICK k \in 1..Len(s) : s[k] = f[i]
    BY <1>1, <1>2, <2>4, UnitsOf
  <2>7. f[i] \in Unit
    BY <1>1, <1>2, <2>4
  <2>8. ~(k < i)
    <3>1. SUFFICES ASSUME k < i PROVE FALSE
      OBVIOUS
    <3>2. k \in 1..Len(f) /\ f[k] = f[i]
      BY <1>2, <2>4, <2>5, <2>6, <3>1
    <3>3. Before(f[k], f[i])
      BY <3>1, <3>2, <1>2, <2>4 DEF Ordered
    <3>4. QED
      BY <3>2, <3>3, <2>7, BeforeOrder
  <2>9. i < k /\ i \in 1..Len(s)
    BY <1>2, <2>4, <2>6, <2>8
  <2>10. Before(s[i], f[i]) /\ s[i] \in A /\ s[i] \in Unit
    BY <1>1, <1>2, <2>6, <2>9 DEF Ordered
  <2>11. s[i] \in Range(f)
    BY <1>2, <2>4, <2>7, <2>10, BeforeOrder DEF AllBefore
  <2>12. PICK j \in 1..Len(f) : f[j] = s[i]
    BY <2>11, UnitsOf
  <2>13. j < i
    <3>1. CASE j = i
      BY <3>1, <2>10, <2>12, <2>7, BeforeOrder
    <3>2. CASE i < j
      <4>1. Before(f[i], f[j])
        BY <3>2, <1>2, <2>4 DEF Ordered
      <4>2. QED
        BY <4>1, <2>7, <2>10, <2>12, BeforeOrder
    <3>3. QED
      BY <3>1, <3>2, <1>2, <2>4
  <2>14. j \in 1..Len(s) /\ s[j] = s[i]
    BY <2>5, <2>12, <2>13, <1>2
  <2>15. Before(s[j], s[i])
    BY <2>9, <2>13, <2>14, <1>1, <1>2 DEF Ordered
  <2>16. QED
    BY <2>14, <2>15, <2>10, BeforeOrder
<1>4. QED
  <2>1. ASSUME NEW i \in 1..Len(f) PROVE i <= Len(s) /\ s[i] = f[i]
    BY <1>3
  <2>2. Len(f) <= Len(s)
    <3>1. CASE Len(f) = 0
      BY <3>1, <1>2
    <3>2. CASE Len(f) \in 1..Len(f)
      BY <3>2, <2>1
    <3>3. QED
      BY <3>1, <3>2, <1>2
  <2>3. QED
    BY <2>1, <2>2

\* What follows f is the stream of the other units.
LEMMA StreamRest ==
  ASSUME NEW s \in Seq(Unit), NEW f \in Seq(Unit), NEW A, IsStream(s, A),
         Ordered(f), Range(f) \subseteq A, AllBefore(Range(f), A \ Range(f))
  PROVE  IsStream(SubSeq(s, Len(f) + 1, Len(s)), A \ Range(f))
<1> DEFINE t == SubSeq(s, Len(f) + 1, Len(s))
<1>1. Len(f) \in Nat /\ Len(s) \in Nat /\ Len(f) <= Len(s) /\ \A i \in 1..Len(f) : s[i] = f[i]
  BY StreamStart
<1>2. t \in Seq(Unit) /\ Len(t) = Len(s) - Len(f) /\ \A i \in 1..Len(t) : t[i] = s[Len(f) + i]
  BY <1>1
<1>3. s = f \o t
  <2>1. Len(f \o t) = Len(s) /\ f \o t \in Seq(Unit)
    BY <1>1, <1>2
  <2>2. \A i \in 1..Len(s) : s[i] = (f \o t)[i]
    BY <1>1, <1>2
  <2>3. QED
    BY <2>1, <2>2, SeqEqual
<1> HIDE DEF t
<1>4. Ordered(t) /\ AllBefore(Range(f), Range(t)) /\ A = Range(f) \cup Range(t)
  BY <1>2, <1>3, OrderedJoin, RangeConcatenation DEF IsStream
<1>5. Range(f) \cap Range(t) = {}
  BY <1>2, <1>4, UnitsOf, BeforeOrder DEF AllBefore
<1>6. QED
  BY <1>4, <1>5 DEF IsStream, t
-----------------------------------------------------------------------------
(* The streams of requests and of replies *)

AskedSound == asked \in Seq(Requests) /\ Len(asked) \in 0..MaxRequests

LEMMA AskedAt ==
  ASSUME AskedSound, NEW k \in 1..Len(asked)
  PROVE  asked[k] \in Requests /\ k \in 1..MaxRequests /\ k \in Nat
BY ConnectionAssumption DEF AskedSound

\* The units of one message, in order.
LEMMA RequestStream ==
  ASSUME NEW n \in 1..MaxRequests, NEW r \in Requests
  PROVE  /\ RequestUnits(n, r) \in Seq(Unit) /\ Ordered(RequestUnits(n, r))
         /\ Range(RequestUnits(n, r)) \subseteq Unit
         /\ \A u \in Range(RequestUnits(n, r)) : u.req = n
         /\ Len(RequestUnits(n, r)) = Header + r.body
         /\ RequestUnits(n, r)[1] = [req |-> n, at |-> 1, len |-> r.len]
<1> DEFINE f == RequestUnits(n, r)
<1>1. Header + r.body \in Nat /\ Header + r.body >= 1 /\ r.len \in Nat
  BY RequestType DEF Header
<1>2. \A i \in 1..(Header + r.body) :
         [req |-> n, at |-> i, len |-> IF i = 1 THEN r.len ELSE 0] \in Unit
  BY <1>1 DEF Unit
<1>3. f \in Seq(Unit) /\ DOMAIN f = 1..(Header + r.body) /\ Len(f) = Header + r.body
  BY <1>1, <1>2 DEF RequestUnits
<1>4. \A i \in 1..(Header + r.body) :
         f[i] = [req |-> n, at |-> i, len |-> IF i = 1 THEN r.len ELSE 0]
  BY DEF RequestUnits
<1>5. \A i \in 1..(Header + r.body) : f[i].req = n /\ f[i].at = i
  BY DEF RequestUnits
<1> HIDE DEF f
<1>6. Ordered(f)
  BY <1>3, <1>5 DEF Ordered, Before
<1>7. Range(f) \subseteq Unit /\ \A u \in Range(f) : u.req = n
  BY <1>3, <1>5, UnitsOf
<1>8. f[1] = [req |-> n, at |-> 1, len |-> r.len]
  BY <1>1, <1>4
<1>9. QED
  BY <1>3, <1>6, <1>7, <1>8 DEF f

LEMMA ReplyStream ==
  ASSUME NEW n \in 1..MaxRequests, NEW r \in Requests
  PROVE  /\ ReplyUnits(n, r) \in Seq(Unit) /\ Ordered(ReplyUnits(n, r))
         /\ Range(ReplyUnits(n, r)) \subseteq Unit
         /\ \A u \in Range(ReplyUnits(n, r)) : u.req = n
<1> DEFINE f == ReplyUnits(n, r)
<1>1. Header + OutSize(r) \in Nat
  BY OutSizeType, SizesType DEF Header
<1>2. f \in Seq(Unit)
  BY ReplyUnitsType
<1>3. DOMAIN f = 1..(Header + OutSize(r))
  BY <1>1 DEF ReplyUnits
<1>4. \A i \in 1..(Header + OutSize(r)) : f[i].req = n /\ f[i].at = i
  BY DEF ReplyUnits
<1> HIDE DEF f
<1>5. Ordered(f)
  BY <1>1, <1>3, <1>4 DEF Ordered, Before
<1>6. Range(f) \subseteq Unit /\ \A u \in Range(f) : u.req = n
  <2>1. DOMAIN f = 1..Len(f) /\ Len(f) = Header + OutSize(r)
    BY <1>1, <1>2, <1>3
  <2>2. QED
    BY <1>2, <1>4, <2>1, UnitsOf
<1>7. QED
  BY <1>2, <1>5, <1>6 DEF f

LEMMA RequestSetUnits ==
  ASSUME AskedSound, NEW m \in Nat \ {0}
  PROVE  /\ RequestSet(m, Len(asked)) \subseteq Unit
         /\ \A u \in RequestSet(m, Len(asked)) : u.req \in m..Len(asked)
<1>1. Len(asked) \in Nat
  BY DEF AskedSound
<1>2. ASSUME NEW k \in m..Len(asked)
      PROVE  /\ Range(RequestUnits(k, asked[k])) \subseteq Unit
             /\ \A u \in Range(RequestUnits(k, asked[k])) : u.req = k
  <2>1. k \in 1..Len(asked)
    BY <1>1
  <2>2. QED
    BY <2>1, AskedAt, RequestStream
<1>3. ASSUME NEW u \in RequestSet(m, Len(asked)) PROVE u \in Unit /\ u.req \in m..Len(asked)
  <2>1. PICK k \in m..Len(asked) : u \in Range(RequestUnits(k, asked[k]))
    BY DEF RequestSet
  <2>2. QED
    BY <1>2, <2>1
<1>4. QED
  BY <1>3

LEMMA ReplySetUnits ==
  ASSUME AskedSound, NEW n \in 0..Len(asked)
  PROVE  /\ ReplySet(1, n) \subseteq Unit
         /\ \A u \in ReplySet(1, n) : u.req \in 1..n
<1>1. Len(asked) \in Nat
  BY DEF AskedSound
<1>2. ASSUME NEW k \in 1..n
      PROVE  /\ Range(ReplyUnits(k, asked[k])) \subseteq Unit
             /\ \A u \in Range(ReplyUnits(k, asked[k])) : u.req = k
  <2>1. k \in 1..Len(asked)
    BY <1>1
  <2>2. QED
    BY <2>1, AskedAt, ReplyStream
<1>3. ASSUME NEW u \in ReplySet(1, n) PROVE u \in Unit /\ u.req \in 1..n
  <2>1. PICK k \in 1..n : u \in Range(ReplyUnits(k, asked[k]))
    BY DEF ReplySet
  <2>2. QED
    BY <1>2, <2>1
<1>4. QED
  BY <1>3

\* The replies to the first n requests are those of a larger set that are not of
\* a later request.
LEMMA ReplySetBelow ==
  ASSUME AskedSound, NEW n \in 0..Len(asked), NEW u \in ReplySet(1, Len(asked))
  PROVE  u.req <= n => u \in ReplySet(1, n)
<1>1. Len(asked) \in Nat
  BY DEF AskedSound
<1>2. PICK k \in 1..Len(asked) : u \in Range(ReplyUnits(k, asked[k]))
  BY DEF ReplySet
<1>3. u.req = k
  BY <1>2, AskedAt, ReplyStream
<1>4. ASSUME k <= n PROVE u \in ReplySet(1, n)
  <2>1. k \in 1..n
    BY <1>1, <1>4
  <2>2. QED
    BY <1>2, <2>1 DEF ReplySet
<1>5. QED
  BY <1>3, <1>4

LEMMA ReplySetGrows ==
  ASSUME AskedSound, NEW n \in 0..Len(asked)
  PROVE  ReplySet(1, n) \subseteq ReplySet(1, Len(asked))
<1>1. 1..n \subseteq 1..Len(asked)
  BY DEF AskedSound
<1>2. QED
  BY <1>1 DEF ReplySet

\* One request more is handled: its reply follows the others.
LEMMA NextReply ==
  ASSUME AskedSound, NEW n \in 1..Len(asked)
  PROVE  /\ ReplySet(1, n) = ReplySet(1, n - 1) \cup Range(ReplyUnits(n, asked[n]))
         /\ AllBefore(ReplySet(1, n - 1), Range(ReplyUnits(n, asked[n])))
<1>1. Len(asked) \in Nat /\ n \in Nat /\ n - 1 \in 0..Len(asked)
  BY DEF AskedSound
<1>2. 1..n = 1..(n - 1) \cup {n}
  BY <1>1
<1>3. ReplySet(1, n) = ReplySet(1, n - 1) \cup Range(ReplyUnits(n, asked[n]))
  BY <1>2 DEF ReplySet
<1>4. \A u \in ReplySet(1, n - 1) : u.req < n
  <2>1. \A u \in ReplySet(1, n - 1) : u.req \in 1..(n - 1)
    BY <1>1, ReplySetUnits
  <2>2. QED
    BY <1>1, <2>1
<1>5. \A v \in Range(ReplyUnits(n, asked[n])) : v.req = n
  BY AskedAt, ReplyStream
<1>6. QED
  BY <1>3, <1>4, <1>5 DEF AllBefore, Before

\* The units of the first of the requests to come are before the others.
LEMMA FirstRequest ==
  ASSUME AskedSound, NEW n \in 1..Len(asked)
  PROVE  LET f == RequestUnits(n, asked[n])
             A == RequestSet(n, Len(asked))
         IN  /\ Range(f) \subseteq A /\ A \ Range(f) = RequestSet(n + 1, Len(asked))
             /\ AllBefore(Range(f), RequestSet(n + 1, Len(asked)))
<1> DEFINE F == Range(RequestUnits(n, asked[n]))
           B == RequestSet(n + 1, Len(asked))
<1>1. Len(asked) \in Nat /\ n \in Nat /\ n + 1 \in Nat \ {0}
  BY DEF AskedSound
<1>2. n..Len(asked) = {n} \cup ((n + 1)..Len(asked))
  BY <1>1
<1>3. RequestSet(n, Len(asked)) = F \cup B
  BY <1>2 DEF RequestSet
<1>4. \A u \in F : u.req = n
  BY AskedAt, RequestStream
<1>5. \A u \in B : u.req > n
  <2>1. \A u \in B : u.req \in (n + 1)..Len(asked)
    BY <1>1, RequestSetUnits
  <2>2. QED
    BY <1>1, <2>1
<1> HIDE DEF F, B
<1>6. F \cap B = {}
  BY <1>1, <1>4, <1>5
<1>7. AllBefore(F, B)
  BY <1>1, <1>4, <1>5 DEF AllBefore, Before
<1>8. QED
  BY <1>3, <1>6, <1>7 DEF F, B

LEMMA SetsOfAsk ==
  ASSUME AskedSound, NEW r \in Requests, asked' = Append(asked, r), Len(asked) < MaxRequests
  PROVE  LET n == Len(asked) + 1
         IN  /\ AskedSound' /\ Len(asked') = n /\ asked'[n] = r
             /\ \A k \in 0..Len(asked) :
                   /\ ReplySet(1, k)' = ReplySet(1, k)
                   /\ RequestSet(k + 1, Len(asked))' =
                         RequestSet(k + 1, Len(asked)) \cup Range(RequestUnits(n, r))
                   /\ AllBefore(RequestSet(k + 1, Len(asked)), Range(RequestUnits(n, r)))
<1> DEFINE n == Len(asked) + 1
<1>1. /\ Len(asked) \in Nat /\ n \in 1..MaxRequests /\ n \in Nat
      /\ asked' \in Seq(Requests) /\ Len(asked') = n /\ asked'[n] = r
      /\ \A k \in 1..Len(asked) : asked'[k] = asked[k]
  BY ConnectionAssumption DEF AskedSound
<1>2. AskedSound'
  BY <1>1, ConnectionAssumption DEF AskedSound
<1>3. ASSUME NEW k \in 0..Len(asked)
      PROVE  /\ ReplySet(1, k)' = ReplySet(1, k)
             /\ RequestSet(k + 1, Len(asked))' =
                   RequestSet(k + 1, Len(asked)) \cup Range(RequestUnits(n, r))
             /\ AllBefore(RequestSet(k + 1, Len(asked)), Range(RequestUnits(n, r)))
  <2>1. \A j \in 1..k : asked'[j] = asked[j]
    BY <1>1
  <2>2. ReplySet(1, k)' = ReplySet(1, k)
    BY <2>1 DEF ReplySet
  <2>3. /\ (k + 1)..n = ((k + 1)..Len(asked)) \cup {n}
        /\ \A j \in (k + 1)..Len(asked) : asked'[j] = asked[j]
    BY <1>1
  <2>4. RequestSet(k + 1, Len(asked))' =
          UNION {Range(RequestUnits(j, asked'[j])) : j \in (k + 1)..n}
    BY <1>1 DEF RequestSet
  <2>5. QED
    <3>1. RequestSet(k + 1, Len(asked))' =
             RequestSet(k + 1, Len(asked)) \cup Range(RequestUnits(n, r))
      BY <1>1, <2>3, <2>4 DEF RequestSet
    <3>2. \A u \in RequestSet(k + 1, Len(asked)) : u.req < n
      <4>1. \A u \in RequestSet(k + 1, Len(asked)) : u.req \in (k + 1)..Len(asked)
        BY <1>1, RequestSetUnits
      <4>2. QED
        BY <1>1, <4>1
    <3>3. \A v \in Range(RequestUnits(n, r)) : v.req = n
      BY <1>1, RequestStream
    <3>4. QED
      BY <2>2, <3>1, <3>2, <3>3 DEF AllBefore, Before
<1>4. QED
  BY <1>1, <1>2, <1>3
-----------------------------------------------------------------------------
(* Nothing is lost, repeated, reordered or torn *)

Unsent == SubSeq(wbuf, wbuf_sent + 1, Len(wbuf))
Out == received \o sndq \o Unsent
In == rbuf \o rcvq \o outbox

Handled(n) == IsStream(Out, ReplySet(1, n)) /\ IsStream(In, RequestSet(n + 1, Len(asked)))

Open == pc # "closed" /\ ~reset

\* What StreamsMatch says of received holds with what the kernel still delivers.
StreamInv == /\ Begins(received \o sndq, ReplySet(1, Len(asked)))
             /\ Open => \E n \in 0..Len(asked) : Handled(n)

RepliesBegin == \A n \in 0..Len(asked) :
  IsStream(Out, ReplySet(1, n)) => Begins(received \o sndq, ReplySet(1, Len(asked)))

LEMMA BufferTypes ==
  ASSUME IInv
  PROVE  /\ AskedSound /\ Len(asked) \in Nat
         /\ received \in Seq(Unit) /\ sndq \in Seq(Unit) /\ Unsent \in Seq(Unit)
         /\ rbuf \in Seq(Unit) /\ rcvq \in Seq(Unit) /\ outbox \in Seq(Unit)
         /\ Out \in Seq(Unit) /\ In \in Seq(Unit)
<1>1. AskedSound /\ Len(asked) \in Nat
  BY AskedUnits DEF IInv, TypeOK, AskedSound
<1>2. /\ received \in Seq(Unit) /\ sndq \in Seq(Unit) /\ wbuf \in Seq(Unit)
      /\ rbuf \in Seq(Unit) /\ rcvq \in Seq(Unit) /\ outbox \in Seq(Unit)
      /\ wbuf_sent \in 0..Len(wbuf)
  BY DEF IInv, TypeOK
<1>3. Unsent \in Seq(Unit)
  BY <1>2, Cut DEF Unsent
<1>4. Out \in Seq(Unit) /\ In \in Seq(Unit)
  BY <1>2, <1>3 DEF Out, In
<1>5. QED
  BY <1>1, <1>2, <1>3, <1>4

LEMMA OutBegins == IInv => RepliesBegin
<1> SUFFICES ASSUME IInv, NEW n \in 0..Len(asked), IsStream(Out, ReplySet(1, n))
             PROVE  Begins(received \o sndq, ReplySet(1, Len(asked)))
  BY DEF RepliesBegin
<1>1. AskedSound /\ Len(asked) \in Nat /\ Len(asked) \in 0..Len(asked)
  BY BufferTypes
<1>2. /\ received \o sndq \in Seq(Unit) /\ Unsent \in Seq(Unit) /\ Out \in Seq(Unit)
      /\ Out = (received \o sndq) \o Unsent
  BY BufferTypes DEF Out
<1>3. /\ ReplySet(1, n) \subseteq ReplySet(1, Len(asked)) /\ ReplySet(1, Len(asked)) \subseteq Unit
      /\ \A u \in ReplySet(1, n) : u.req \in 1..n
  BY <1>1, ReplySetGrows, ReplySetUnits
<1>4. ASSUME NEW u \in ReplySet(1, Len(asked)), NEW v \in ReplySet(1, n), Before(u, v)
      PROVE  u \in ReplySet(1, n)
  <2>1. u.req \in Nat /\ v.req \in 1..n /\ n \in Nat
    BY <1>1, <1>3, ReplySetUnits
  <2>2. u.req <= n
    BY <1>4, <2>1 DEF Before
  <2>3. QED
    BY <1>1, <2>2, ReplySetBelow
<1>5. Begins(Out, ReplySet(1, Len(asked)))
  BY <1>3, <1>4 DEF IsStream, Begins
<1>6. QED
  BY <1>2, <1>3, <1>5, BeginsPrefix

LEMMA OutBeginsNext == IInv' => RepliesBegin'
BY OutBegins, PTL

LEMMA InitStreams == Init => StreamInv
<1> SUFFICES ASSUME Init PROVE StreamInv
  OBVIOUS
<1>1. /\ received = <<>> /\ sndq = <<>> /\ Unsent = <<>> /\ rbuf = <<>> /\ rcvq = <<>>
      /\ outbox = <<>> /\ Len(asked) = 0
  BY DEF Init, Unsent
<1>2. received \o sndq = <<>> /\ Out = <<>> /\ In = <<>>
  BY <1>1 DEF Out, In
<1>3. ReplySet(1, 0) = {} /\ RequestSet(1, 0) = {}
  BY DEF ReplySet, RequestSet
<1>4. Ordered(<<>>) /\ Range(<<>>) = {}
  BY DEF Ordered, Range
<1>5. Begins(<<>>, {}) /\ IsStream(<<>>, {})
  BY <1>4 DEF Begins, IsStream
<1>6. Handled(0) /\ 0 \in 0..Len(asked)
  <2>1. 0 + 1 = 1 /\ 0 \in 0..0
    OBVIOUS
  <2>2. QED
    BY <1>1, <1>2, <1>3, <1>5, <2>1 DEF Handled
<1>7. QED
  BY <1>1, <1>2, <1>3, <1>5, <1>6 DEF StreamInv

LEMMA SetsUnchanged ==
  ASSUME asked' = asked
  PROVE  /\ \A n : ReplySet(1, n)' = ReplySet(1, n)
         /\ \A n : RequestSet(n, Len(asked))' = RequestSet(n, Len(asked))
         /\ ReplySet(1, Len(asked))' = ReplySet(1, Len(asked))
BY DEF ReplySet, RequestSet

\* A step that only moves units from one buffer to the next one on their way.
LEMMA StreamsKept ==
  ASSUME IInv', StreamInv, asked' = asked,
         Open' => Open /\ Out' = Out /\ In' = In,
         ~Open' => received' \o sndq' = received \o sndq
  PROVE  StreamInv'
<1>1. CASE Open'
  <2>1. PICK n \in 0..Len(asked) : Handled(n)
    BY <1>1 DEF StreamInv
  <2>2. IsStream(Out', ReplySet(1, n)') /\ IsStream(In', RequestSet(n + 1, Len(asked))')
    BY <1>1, <2>1, SetsUnchanged DEF Handled
  <2>3. Handled(n)' /\ n \in 0..Len(asked')
    BY <2>2 DEF Handled
  <2>4. Begins(received \o sndq, ReplySet(1, Len(asked)))'
    BY <2>2, <2>3, OutBeginsNext DEF RepliesBegin
  <2>5. QED
    BY <2>3, <2>4 DEF StreamInv
<1>2. CASE ~Open'
  <2>1. Begins(received' \o sndq', ReplySet(1, Len(asked))')
    BY <1>2, SetsUnchanged DEF StreamInv
  <2>2. QED
    BY <1>2, <2>1 DEF StreamInv
<1>3. QED
  BY <1>1, <1>2

LEMMA StillStreams ==
  ASSUME IInv', StreamInv, UNCHANGED <<rbuf, wbuf, wbuf_sent, rcvq, sndq, reset, client>>,
         Open' => Open
  PROVE  StreamInv'
<1>1. Out' = Out /\ In' = In /\ received' \o sndq' = received \o sndq /\ asked' = asked
  BY DEF Out, In, Unsent, client
<1>2. QED
  BY <1>1, StreamsKept

LEMMA FillStreams ==
  ASSUME IInv, IInv', StreamInv, try_fill_buffer
  PROVE  StreamInv'
<1>1. /\ pc = "fill" /\ UNCHANGED <<wbuf, wbuf_sent, sndq, fin, reset, client>>
  BY DEF try_fill_buffer
<1>2. CASE UNCHANGED <<rbuf, rcvq>>
  BY <1>1, <1>2, StillStreams DEF Open
<1>3. CASE ReadData
  <2>1. PICK n \in 1..Len(rcvq) :
          /\ rbuf' = rbuf \o SubSeq(rcvq, 1, n)
          /\ rcvq' = SubSeq(rcvq, n+1, Len(rcvq))
    BY <1>3 DEF ReadData
  <2>2. rbuf \in Seq(Unit) /\ rcvq \in Seq(Unit) /\ outbox \in Seq(Unit)
    BY BufferTypes
  <2> DEFINE a == SubSeq(rcvq, 1, n)
             b == SubSeq(rcvq, n+1, Len(rcvq))
  <2>3. rcvq = a \o b
    BY <2>2, ConcatAdjacentSubSeq, SubSeqFull
  <2>4. a \in Seq(Unit) /\ b \in Seq(Unit) /\ rbuf' = rbuf \o a /\ rcvq' = b
    BY <2>1, <2>2, Cut
  <2> HIDE DEF a, b
  <2>5. rbuf' \o rcvq' = rbuf \o rcvq
    BY <2>2, <2>3, <2>4, JoinAssociative
  <2>6. In' = In /\ Out' = Out /\ received' \o sndq' = received \o sndq /\ asked' = asked
    BY <1>1, <2>5 DEF In, Out, Unsent, client
  <2>7. Open' => Open
    BY <1>1 DEF Open
  <2>8. QED
    BY <2>6, <2>7, StreamsKept
<1>4. QED
  BY <1>2, <1>3 DEF try_fill_buffer, ReadError, ReadAgain, ReadEof

LEMMA CutOfJoin ==
  ASSUME NEW s \in Seq(Unit), NEW t \in Seq(Unit), NEW n \in 0..Len(s)
  PROVE  SubSeq(s \o t, n + 1, Len(s \o t)) = SubSeq(s, n + 1, Len(s)) \o t
<1> DEFINE a == SubSeq(s \o t, n + 1, Len(s \o t))
           b == SubSeq(s, n + 1, Len(s)) \o t
<1>1. Len(s) \in Nat /\ Len(t) \in Nat /\ s \o t \in Seq(Unit) /\ Len(s \o t) = Len(s) + Len(t)
  BY Join
<1>2. a \in Seq(Unit) /\ Len(a) = Len(s) + Len(t) - n
  BY <1>1, Cut
<1>3. SubSeq(s, n + 1, Len(s)) \in Seq(Unit) /\ Len(SubSeq(s, n + 1, Len(s))) = Len(s) - n
  BY Cut
<1>4. b \in Seq(Unit) /\ Len(b) = Len(a)
  BY <1>1, <1>2, <1>3, Join
<1>5. \A i \in 1..Len(a) : a[i] = b[i]
  BY <1>1, <1>2, <1>3
<1>6. QED
  BY <1>2, <1>4, <1>5, SeqEqual

\* A header at the start of rbuf is that of the first request to be handled.
LEMMA FirstHeader ==
  ASSUME IInv, Len(rbuf) >= Header, NEW n \in 0..Len(asked),
         IsStream(In, RequestSet(n + 1, Len(asked)))
  PROVE  n + 1 \in 1..Len(asked) /\ rbuf[1].req = n + 1 /\ len = asked[n + 1].len
<1> DEFINE r == asked[n + 1]
           f == RequestUnits(n + 1, r)
<1>1. /\ AskedSound /\ Len(asked) \in Nat /\ In \in Seq(Unit) /\ n \in Nat
      /\ rbuf \in Seq(Unit) /\ rcvq \in Seq(Unit) /\ outbox \in Seq(Unit)
      /\ rcvq \o outbox \in Seq(Unit) /\ In = rbuf \o (rcvq \o outbox)
  <2>1. /\ AskedSound /\ Len(asked) \in Nat /\ In \in Seq(Unit)
        /\ rbuf \in Seq(Unit) /\ rcvq \in Seq(Unit) /\ outbox \in Seq(Unit)
    BY BufferTypes
  <2>2. rcvq \o outbox \in Seq(Unit) /\ In = rbuf \o (rcvq \o outbox)
    BY <2>1, Join, JoinAssociative DEF In
  <2>3. QED
    BY <2>1, <2>2
<1>2. Len(rbuf) \in Nat /\ 1 \in 1..Len(rbuf) /\ rbuf[1] \in Unit
  BY <1>1 DEF Header
<1>3. In[1] = rbuf[1] /\ Len(In) \in Nat /\ 1 \in 1..Len(In)
  BY <1>1, <1>2
<1>4. n + 1 \in 1..Len(asked)
  <2>1. In[1] \in RequestSet(n + 1, Len(asked))
    <3>1. In[1] \in Range(In)
      BY <1>1, <1>3, UnitsOf
    <3>2. QED
      BY <3>1 DEF IsStream
  <2>2. In[1].req \in (n + 1)..Len(asked)
    <3>1. n + 1 \in Nat \ {0}
      BY <1>1
    <3>2. QED
      BY <1>1, <2>1, <3>1, RequestSetUnits
  <2>3. n \in Nat /\ Len(asked) \in Nat
    BY <1>1
  <2>4. \A k \in Nat : \A x \in (n + 1)..k : n + 1 \in 1..k
    BY <2>3
  <2>5. QED
    BY <2>2, <2>3, <2>4
<1>5. r \in Requests /\ n + 1 \in 1..MaxRequests
  BY <1>1, <1>4, AskedAt
<1>6. /\ f \in Seq(Unit) /\ Ordered(f) /\ Len(f) = Header + r.body
      /\ f[1] = [req |-> n + 1, at |-> 1, len |-> r.len]
  BY <1>5, RequestStream
<1>7. /\ Range(f) \subseteq RequestSet(n + 1, Len(asked))
      /\ RequestSet(n + 1, Len(asked)) \ Range(f) = RequestSet(n + 1 + 1, Len(asked))
      /\ AllBefore(Range(f), RequestSet(n + 1 + 1, Len(asked)))
  BY <1>1, <1>4, FirstRequest
<1> HIDE DEF r, f
<1>8. Len(f) <= Len(In) /\ \A i \in 1..Len(f) : In[i] = f[i]
  BY <1>1, <1>6, <1>7, StreamStart
<1>9. rbuf[1] = f[1]
  <2>1. 1 \in 1..Len(f)
    BY <1>5, <1>6, RequestType DEF Header
  <2>2. QED
    BY <1>3, <1>8, <2>1
<1>10. rbuf[1].req = n + 1 /\ len = r.len
  BY <1>6, <1>9 DEF len
<1>11. QED
  BY <1>4, <1>10 DEF r

\* The request taken out of rbuf is the first of those to be handled, and the
\* whole of it.
LEMMA TakeFirst ==
  ASSUME IInv, Whole, NEW n \in 0..Len(asked), IsStream(In, RequestSet(n + 1, Len(asked)))
  PROVE  /\ n + 1 \in 1..Len(asked) /\ rbuf[1].req = n + 1
         /\ IsStream(SubSeq(rbuf, Header + len + 1, Len(rbuf)) \o rcvq \o outbox,
                     RequestSet(n + 2, Len(asked)))
<1> DEFINE r == asked[n + 1]
           f == RequestUnits(n + 1, r)
<1>1. /\ AskedSound /\ Len(asked) \in Nat /\ In \in Seq(Unit) /\ n \in Nat
      /\ rbuf \in Seq(Unit) /\ rcvq \in Seq(Unit) /\ outbox \in Seq(Unit)
      /\ rcvq \o outbox \in Seq(Unit) /\ In = rbuf \o (rcvq \o outbox)
  <2>1. /\ AskedSound /\ Len(asked) \in Nat /\ In \in Seq(Unit)
        /\ rbuf \in Seq(Unit) /\ rcvq \in Seq(Unit) /\ outbox \in Seq(Unit)
    BY BufferTypes
  <2>2. rcvq \o outbox \in Seq(Unit) /\ In = rbuf \o (rcvq \o outbox)
    BY <2>1, Join, JoinAssociative DEF In
  <2>3. QED
    BY <2>1, <2>2
<1>2. Len(rbuf) \in Nat /\ 1 \in 1..Len(rbuf) /\ rbuf[1] \in Unit
  BY <1>1 DEF Whole, Header
<1>3. n + 1 \in 1..Len(asked) /\ rbuf[1].req = n + 1 /\ len = r.len
  BY FirstHeader DEF Whole
<1>4. r \in Requests /\ n + 1 \in 1..MaxRequests
  BY <1>1, <1>3, AskedAt
<1>5. f \in Seq(Unit) /\ Ordered(f) /\ Len(f) = Header + r.body
  BY <1>4, RequestStream
<1>6. /\ Range(f) \subseteq RequestSet(n + 1, Len(asked))
      /\ RequestSet(n + 1, Len(asked)) \ Range(f) = RequestSet(n + 1 + 1, Len(asked))
      /\ AllBefore(Range(f), RequestSet(n + 1 + 1, Len(asked)))
  BY <1>1, <1>3, FirstRequest
<1> HIDE DEF r, f
<1>7. r.body = len
  <2>1. len \in Nat /\ ~(len > k_max_msg) /\ k_max_msg \in Nat
    BY <1>3, <1>4, RequestType, ConnectionAssumption DEF Whole, TooLong
  <2>2. QED
    BY <1>3, <1>4, <2>1, ConnectionAssumption
<1>8. Header + len \in 0..Len(rbuf) /\ Len(f) = Header + len
  BY <1>2, <1>4, <1>5, <1>7, RequestType DEF Whole, Header
<1>9. IsStream(SubSeq(In, Len(f) + 1, Len(In)), RequestSet(n + 1 + 1, Len(asked)))
  BY <1>1, <1>5, <1>6, StreamRest
<1>10. SubSeq(In, Header + len + 1, Len(In)) =
          SubSeq(rbuf, Header + len + 1, Len(rbuf)) \o (rcvq \o outbox)
  BY <1>1, <1>8, CutOfJoin
<1>11. SubSeq(rbuf, Header + len + 1, Len(rbuf)) \o (rcvq \o outbox) =
          SubSeq(rbuf, Header + len + 1, Len(rbuf)) \o rcvq \o outbox
  <2> DEFINE c == SubSeq(rbuf, Header + len + 1, Len(rbuf))
  <2>1. c \in Seq(Unit)
    BY <1>1, <1>8, Cut
  <2> HIDE DEF c
  <2>2. c \o (rcvq \o outbox) = c \o rcvq \o outbox
    BY <1>1, <2>1, JoinAssociative
  <2>3. QED
    BY <2>2 DEF c
<1>12. n + 1 + 1 = n + 2
  BY <1>1
<1>13. QED
  BY <1>3, <1>8, <1>9, <1>10, <1>11, <1>12

LEMMA OneStreams ==
  ASSUME IInv, IInv', StreamInv, try_one_request
  PROVE  StreamInv'
<1>1. pc = "one" /\ UNCHANGED <<socket, client>> /\ asked' = asked
  BY DEF try_one_request, client
<1>2. CASE NoRequest \/ BadRequest
  <2>1. UNCHANGED <<rbuf, wbuf, wbuf_sent, rcvq, sndq, reset, client>>
    BY <1>1, <1>2 DEF NoRequest, BadRequest, conn, socket
  <2>2. QED
    BY <1>1, <2>1, StillStreams DEF Open
<1>3. CASE Request /\ reset
  <2>1. ~Open' /\ received' \o sndq' = received \o sndq
    BY <1>1, <1>3 DEF Open, socket, client
  <2>2. QED
    BY <1>1, <2>1, StreamsKept
<1>4. CASE Request /\ ~reset
  <2>1. PICK n \in 0..Len(asked) : Handled(n)
    BY <1>1, <1>4 DEF StreamInv, Open
  <2> DEFINE r == asked[n + 1]
             g == ReplyUnits(n + 1, r)
  <2>2. /\ n + 1 \in 1..Len(asked) /\ rbuf[1].req = n + 1
        /\ IsStream(SubSeq(rbuf, Header + len + 1, Len(rbuf)) \o rcvq \o outbox,
                    RequestSet(n + 2, Len(asked)))
    BY <1>4, <2>1, TakeFirst DEF Handled, Request
  <2>3. AskedSound /\ Len(asked) \in Nat /\ n \in Nat /\ n + 1 - 1 = n /\ n + 1 + 1 = n + 2
    BY BufferTypes
  <2>4. r \in Requests /\ n + 1 \in 1..MaxRequests
    BY <2>2, <2>3, AskedAt
  <2>5. g \in Seq(Unit) /\ Ordered(g) /\ wbuf' = g
    BY <1>4, <2>2, <2>4, ReplyStream DEF Request
  <2>6. /\ ReplySet(1, n + 1) = ReplySet(1, n) \cup Range(g)
        /\ AllBefore(ReplySet(1, n), Range(g))
    BY <2>2, <2>3, NextReply
  <2> HIDE DEF r, g
  <2>7. wbuf = <<>> /\ wbuf_sent = 0 /\ wbuf_sent' = 0
    <3>1. wbuf = <<>>
      BY <1>1 DEF IInv, Phase, RepliesPending
    <3>2. Len(wbuf) = 0
      BY <3>1
    <3>3. QED
      BY <1>4, <3>1, <3>2 DEF IInv, TypeOK, Request
  <2>8. Unsent = <<>> /\ Unsent' = g
    <3>1. Unsent = <<>>
      BY <2>7 DEF Unsent
    <3>2. Unsent' = SubSeq(g, 1, Len(g))
      BY <2>5, <2>7 DEF Unsent
    <3>3. QED
      BY <2>5, <3>1, <3>2, SubSeqFull
  <2>9. Out' = Out \o g
    <3>1. received \o sndq \in Seq(Unit)
      BY BufferTypes, Join
    <3>2. Out = received \o sndq
      BY <2>8, <3>1, ConcatEmptySeq DEF Out
    <3>3. QED
      BY <1>1, <2>8, <3>2 DEF Out, socket, client
  <2>10. In' = SubSeq(rbuf, Header + len + 1, Len(rbuf)) \o rcvq \o outbox
    BY <1>1, <1>4 DEF In, Request, socket, client
  <2>11. IsStream(Out', ReplySet(1, n + 1))
    <3>1. IsStream(g, Range(g)) /\ IsStream(Out, ReplySet(1, n)) /\ Out \in Seq(Unit)
      BY <2>1, <2>5, BufferTypes DEF Handled, IsStream
    <3>2. IsStream(Out \o g, ReplySet(1, n) \cup Range(g))
      BY <2>5, <2>6, <3>1, StreamJoin
    <3>3. QED
      BY <2>6, <2>9, <3>2
  <2>12. Handled(n + 1)'
    BY <1>1, <2>2, <2>3, <2>10, <2>11, SetsUnchanged DEF Handled
  <2>13. n + 1 \in 0..Len(asked')
    BY <1>1, <2>2
  <2>14. Begins(received \o sndq, ReplySet(1, Len(asked)))'
    BY <2>12, <2>13, OutBeginsNext DEF RepliesBegin, Handled
  <2>15. QED
    BY <2>12, <2>13, <2>14 DEF StreamInv
<1>5. QED
  BY <1>2, <1>3, <1>4 DEF try_one_request

LEMMA FlushStreams ==
  ASSUME IInv, IInv', StreamInv, try_flush_buffer
  PROVE  StreamInv'
<1>1. pc \in {"flush", "flush_one"} /\ UNCHANGED <<rbuf, rcvq, fin, reset, client>>
  BY DEF try_flush_buffer
<1>2. CASE WriteError \/ WriteAgain
  <2>1. UNCHANGED <<wbuf, wbuf_sent, sndq>>
    BY <1>2 DEF WriteError, WriteAgain
  <2>2. QED
    BY <1>1, <2>1, StillStreams DEF Open
<1>3. CASE WriteData
  <2> DEFINE remain == Len(wbuf) - wbuf_sent
  <2>1. PICK n \in 1..SndCap :
          /\ n <= remain
          /\ sndq' = sndq \o SubSeq(wbuf, wbuf_sent + 1, wbuf_sent + n)
          /\ \/ n = remain /\ wbuf' = <<>> /\ wbuf_sent' = 0
             \/ wbuf_sent' = wbuf_sent + n /\ wbuf' = wbuf
    <3>1. Len(wbuf) \in Nat /\ wbuf_sent \in Nat /\ Len(sndq) \in Nat /\ SndCap \in Nat
      BY ConnectionAssumption DEF IInv, TypeOK
    <3>2. PICK n \in 1..SndCap :
            LET room == SndCap - Len(sndq)
            IN  /\ n = IF remain < room THEN remain ELSE room
                /\ sndq' = sndq \o SubSeq(wbuf, wbuf_sent + 1, wbuf_sent + n)
                /\ \/ n = remain /\ wbuf' = <<>> /\ wbuf_sent' = 0
                   \/ n < remain /\ wbuf_sent' = wbuf_sent + n /\ wbuf' = wbuf
      BY <1>3 DEF WriteData
    <3>3. n <= remain
      BY <3>1, <3>2
    <3>4. QED
      BY <3>2, <3>3
  <2> DEFINE a == SubSeq(wbuf, wbuf_sent + 1, wbuf_sent + n)
             b == SubSeq(wbuf, wbuf_sent + n + 1, Len(wbuf))
  <2>2. /\ Len(wbuf) \in Nat /\ wbuf_sent \in Nat /\ n \in Nat /\ wbuf_sent + n <= Len(wbuf)
        /\ wbuf \in Seq(Unit)
    BY <2>1 DEF IInv, TypeOK
  <2>3. a \in Seq(Unit) /\ b \in Seq(Unit)
    BY <2>2
  <2>4. Unsent = a \o b
    <3>1. /\ wbuf_sent + 1 \in 1..(Len(wbuf) + 1) /\ wbuf_sent + n \in (wbuf_sent + 1 - 1)..Len(wbuf)
          /\ Len(wbuf) \in (wbuf_sent + n)..Len(wbuf)
      BY <2>2
    <3>2. QED
      BY <2>2, <3>1, ConcatAdjacentSubSeq DEF Unsent
  <2>5. Unsent' = b
    <3>1. CASE n = remain /\ wbuf' = <<>> /\ wbuf_sent' = 0
      <4>1. Unsent' = <<>>
        BY <3>1 DEF Unsent
      <4>2. wbuf_sent + n = Len(wbuf)
        BY <2>2, <3>1
      <4>3. Len(b) = 0
        BY <2>2, <4>2
      <4>4. QED
        BY <2>3, <4>1, <4>3
    <3>2. CASE wbuf_sent' = wbuf_sent + n /\ wbuf' = wbuf
      BY <3>2 DEF Unsent
    <3>3. QED
      BY <2>1, <3>1, <3>2
  <2>6. sndq' = sndq \o a /\ received' = received /\ asked' = asked
    BY <1>1, <2>1 DEF client
  <2> HIDE DEF a, b
  <2>7. received \in Seq(Unit) /\ sndq \in Seq(Unit) /\ received \o sndq \in Seq(Unit)
    BY BufferTypes, Join
  <2>8. Out' = Out
    <3>1. Out = ((received \o sndq) \o a) \o b
      <4>1. Out = (received \o sndq) \o (a \o b)
        BY <2>4 DEF Out
      <4>2. QED
        BY <2>3, <2>7, <4>1, JoinAssociative
    <3>2. received' \o sndq' = (received \o sndq) \o a
      BY <2>3, <2>6, <2>7, JoinAssociative
    <3>3. QED
      BY <2>5, <3>1, <3>2 DEF Out
  <2>9. In' = In
    BY <1>1 DEF In, client
  <2>10. Open /\ Open'
    <3>1. pc' # "closed" /\ ~reset
      BY <1>1, <1>3 DEF WriteData, Stop, Leave
    <3>2. QED
      BY <1>1, <3>1 DEF Open
  <2>11. QED
    BY <2>6, <2>8, <2>9, <2>10, StreamsKept
<1>4. QED
  BY <1>2, <1>3 DEF try_flush_buffer

LEMMA DoneStreams ==
  ASSUME IInv', StreamInv, Done \/ IdleTimeout
  PROVE  StreamInv'
<1>1. ~Open' /\ received' \o sndq' = received \o sndq /\ asked' = asked
  BY DEF Done, IdleTimeout, conn_done, client, Open
<1>2. QED
  BY <1>1, StreamsKept

LEMMA AskStreams ==
  ASSUME IInv, IInv', StreamInv, NEW r \in Requests, Ask(r)
  PROVE  StreamInv'
<1> DEFINE m == Len(asked) + 1
           f == RequestUnits(m, r)
<1>1. /\ UNCHANGED <<conn, pc, socket, received>> /\ Open /\ outbox = <<>>
      /\ asked' = Append(asked, r) /\ outbox' = f /\ Len(asked) < MaxRequests
  BY DEF Ask, Open
<1>2. AskedSound /\ Len(asked) \in Nat /\ In \in Seq(Unit)
      /\ rbuf \in Seq(Unit) /\ rcvq \in Seq(Unit) /\ rbuf \o rcvq \in Seq(Unit)
  BY BufferTypes, Join
<1>3. PICK n \in 0..Len(asked) : Handled(n)
  BY <1>1 DEF StreamInv
<1>4. /\ Len(asked') = m /\ ReplySet(1, n)' = ReplySet(1, n)
      /\ RequestSet(n + 1, Len(asked))' = RequestSet(n + 1, Len(asked)) \cup Range(f)
      /\ AllBefore(RequestSet(n + 1, Len(asked)), Range(f))
  BY <1>1, <1>2, SetsOfAsk
<1>5. f \in Seq(Unit) /\ IsStream(f, Range(f))
  <2>1. m \in 1..MaxRequests
    BY <1>1, <1>2, ConnectionAssumption
  <2>2. QED
    BY <2>1, RequestStream DEF IsStream
<1> HIDE DEF f
<1>6. In' = In \o f
  <2>1. In = rbuf \o rcvq
    BY <1>1, <1>2, ConcatEmptySeq DEF In
  <2>2. QED
    BY <1>1, <2>1 DEF In, conn, socket
<1>7. Out' = Out
  BY <1>1 DEF Out, Unsent, conn, socket
<1>8. IsStream(In', RequestSet(n + 1, Len(asked))')
  BY <1>2, <1>3, <1>4, <1>5, <1>6, StreamJoin DEF Handled
<1>9. Handled(n)' /\ n \in 0..Len(asked')
  BY <1>2, <1>3, <1>4, <1>7, <1>8 DEF Handled
<1>10. Begins(received \o sndq, ReplySet(1, Len(asked)))'
  BY <1>9, OutBeginsNext DEF RepliesBegin, Handled
<1>11. QED
  BY <1>9, <1>10 DEF StreamInv

LEMMA HeadThenTail ==
  ASSUME NEW s \in Seq(Unit), s # <<>>
  PROVE  Head(s) \in Unit /\ Tail(s) \in Seq(Unit) /\ s = <<Head(s)>> \o Tail(s)
OBVIOUS

LEMMA WriteStreams ==
  ASSUME IInv, IInv', StreamInv, Write
  PROVE  StreamInv'
<1> DEFINE h == Head(outbox)
<1>1. /\ UNCHANGED <<conn, pc, sndq, fin, reset, asked, received>> /\ outbox # <<>>
      /\ rcvq' = Append(rcvq, h) /\ outbox' = Tail(outbox)
  BY DEF Write
<1>2. /\ rbuf \in Seq(Unit) /\ rcvq \in Seq(Unit) /\ outbox \in Seq(Unit)
      /\ rbuf \o rcvq \in Seq(Unit)
  BY BufferTypes, Join
<1>3. h \in Unit /\ outbox' \in Seq(Unit) /\ outbox = <<h>> \o outbox' /\ <<h>> \in Seq(Unit)
  BY <1>1, <1>2, HeadThenTail
<1> HIDE DEF h
<1>4. rbuf \o rcvq' = (rbuf \o rcvq) \o <<h>>
  BY <1>1, <1>2, <1>3, AppendIsConcat, JoinAssociative
<1>5. In' = In
  BY <1>1, <1>2, <1>3, <1>4, JoinAssociative DEF In, conn
<1>6. Out' = Out /\ received' \o sndq' = received \o sndq
  BY <1>1 DEF Out, Unsent, conn
<1>7. Open' => Open
  BY <1>1 DEF Open
<1>8. QED
  BY <1>1, <1>5, <1>6, <1>7, StreamsKept

LEMMA ReadStreams ==
  ASSUME IInv, IInv', StreamInv, Read
  PROVE  StreamInv'
<1> DEFINE h == Head(sndq)
<1>1. /\ UNCHANGED <<conn, pc, rcvq, fin, reset, asked, outbox>> /\ sndq # <<>>
      /\ received' = Append(received, h) /\ sndq' = Tail(sndq)
  BY DEF Read
<1>2. received \in Seq(Unit) /\ sndq \in Seq(Unit)
  BY BufferTypes
<1>3. h \in Unit /\ sndq' \in Seq(Unit) /\ sndq = <<h>> \o sndq' /\ <<h>> \in Seq(Unit)
  BY <1>1, <1>2, HeadThenTail
<1> HIDE DEF h
<1>4. received' \o sndq' = received \o sndq
  BY <1>1, <1>2, <1>3, AppendIsConcat, JoinAssociative
<1>5. Out' = Out /\ In' = In
  BY <1>1, <1>4 DEF Out, In, Unsent, conn
<1>6. Open' => Open
  BY <1>1 DEF Open
<1>7. QED
  BY <1>1, <1>4, <1>5, <1>6, StreamsKept

LEMMA ResetStreams ==
  ASSUME IInv, IInv', StreamInv, Reset
  PROVE  StreamInv'
<1>1. asked' = asked /\ ~Open' /\ received' = received /\ sndq' = <<>>
  BY DEF Reset, client, Open
<1>2. received \in Seq(Unit) /\ sndq \in Seq(Unit) /\ received' \o sndq' = received
  BY <1>1, BufferTypes, ConcatEmptySeq
<1>3. Begins(received, ReplySet(1, Len(asked)))
  <2>1. ReplySet(1, Len(asked)) \subseteq Unit
    <3>1. AskedSound /\ Len(asked) \in 0..Len(asked)
      BY BufferTypes
    <3>2. QED
      BY <3>1, ReplySetUnits
  <2>2. QED
    BY <1>2, <2>1, BeginsPrefix DEF StreamInv
<1>4. Begins(received \o sndq, ReplySet(1, Len(asked)))'
  BY <1>1, <1>2, <1>3, SetsUnchanged
<1>5. QED
  BY <1>1, <1>4 DEF StreamInv

LEMMA OtherStreams ==
  ASSUME IInv', StreamInv, poll_in \/ poll_out \/ Fin \/ UNCHANGED vars
  PROVE  StreamInv'
<1>1. UNCHANGED <<rbuf, wbuf, wbuf_sent, rcvq, sndq, reset, client>> /\ (Open' => Open)
  BY DEF poll_in, poll_out, Fin, vars, conn, socket, client, Open
<1>2. QED
  BY <1>1, StillStreams

LEMMA NextStreams == IInv /\ StreamInv /\ [Next]_vars => StreamInv'
<1> SUFFICES ASSUME IInv, StreamInv, [Next]_vars PROVE StreamInv'
  OBVIOUS
<1>1. IInv'
  BY NextIInv
<1>2. QED
  BY <1>1, FillStreams, OneStreams, FlushStreams, DoneStreams, AskStreams, WriteStreams,
     ReadStreams, ResetStreams, OtherStreams DEF Next, Server, Client

THEOREM StreamInvHolds == Spec => []StreamInv
BY InitIInv, NextIInv, InitStreams, NextStreams, PTL DEF Spec

\* Whatever the requests, the sizes of the buffers and the way the stream is
\* cut, no request and no reply is lost, repeated, reordered or torn, and what the
\* client has got is the beginning of the replies to its requests
\* (server.cpp:695-713, :778-806).
THEOREM StreamsMatchHolds == Spec => []StreamsMatch
<1>1. IInv /\ StreamInv => StreamsMatch
  <2> SUFFICES ASSUME IInv, StreamInv PROVE StreamsMatch
    OBVIOUS
  <2>1. ReplySet(1, Len(asked)) \subseteq Unit
    <3>1. AskedSound /\ Len(asked) \in 0..Len(asked)
      BY BufferTypes
    <3>2. QED
      BY <3>1, ReplySetUnits
  <2>2. Begins(received, ReplySet(1, Len(asked)))
    BY <2>1, BufferTypes, BeginsPrefix DEF StreamInv
  <2>3. pc # "closed" /\ ~reset =>
          \E n \in 0..Len(asked) :
             /\ IsStream(received \o sndq \o SubSeq(wbuf, wbuf_sent + 1, Len(wbuf)), ReplySet(1, n))
             /\ IsStream(rbuf \o rcvq \o outbox, RequestSet(n + 1, Len(asked)))
    BY DEF StreamInv, Open, Handled, Out, In, Unsent
  <2>4. QED
    BY <2>2, <2>3 DEF StreamsMatch
<1>2. QED
  BY IInvHolds, StreamInvHolds, <1>1, PTL
=============================================================================
