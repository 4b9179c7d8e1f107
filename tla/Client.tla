------------------------------- MODULE Client -------------------------------
(***************************************************************************)
(* client.cpp at the other end of a connection: it sends one command,      *)
(* reads one answer, prints it and ends.  Connection has the server's end  *)
(* and the socket; this module has the program in the place of             *)
(* Connection's arbitrary client, and the contents of the messages.        *)
(*                                                                         *)
(* A request is a record as in Connection with the command (cmd) and the   *)
(* answer do_request gives to it (answer).                                 *)
(***************************************************************************)
EXTENDS Connection, Wire

VARIABLES at,           \* where the client is
          shown,        \* the lines it has printed
          arr_bytes,    \* how much of the answer they stand for
          loops         \* the elements still to be begun in each call of on_response
                        \* that prints an array, the innermost last, after the one
                        \* value read_res asks for

printing == <<arr_bytes, loops>>
program == <<at, shown, printing>>
clientvars == <<vars, program>>

msg(text) == <<"msg", text>>
TooBig == <<out_err("ERR_2BIG")>>

\* The request for a command and its answer.
RequestFor(cmd, a) ==
  LET body == RequestBody(cmd)
  IN  [len |-> Len(body), body |-> Len(body), ok |-> parse_req(body) # {},
       out |-> Len(Output(a)), cmd |-> cmd, answer |-> a]

\* The output for r: its answer's, or that of an error when it is too big.
Sent(r) == IF Header + r.out > k_max_msg THEN TooBig ELSE r.answer

\* Every string of a message takes a unit besides its characters, so a message has no
\* room for more than k_max_args of them (in bytes: 4 + 4 * 1024 > 4096).
ASSUME ClientAssumption ==
  /\ \A r \in Requests : /\ r = RequestFor(r.cmd, r.answer)
                         /\ r.cmd \in Seq(Seq(Int)) /\ IsAnswer(r.answer)
  /\ ErrSize = Len(Output(TooBig))
  /\ k_max_msg <= k_max_args + 1
-----------------------------------------------------------------------------
ClientInit == Init /\ at = "start" /\ shown = <<>> /\ arr_bytes = 0 /\ loops = <<1>>

End(lines) == at' = "done" /\ shown' = shown \o lines /\ UNCHANGED printing
Goto(place) == at' = place /\ UNCHANGED <<shown, printing>>

\* send_req before write_all: a command that is too long is not sent.
send_req == /\ at = "start"
            /\ \/ \E r \in Requests : r.len <= k_max_msg /\ Ask(r) /\ Goto("write")
               \/ \E r \in Requests : r.len > k_max_msg /\ End(<<>>) /\ UNCHANGED vars

\* write_all: some of the rest is taken.
write_all == /\ at = "write"
             /\ Write
             /\ IF outbox' = <<>> THEN Goto("head") ELSE UNCHANGED program

\* The server has closed the connection: a write fails (and ends the client),
\* or the kernel takes what will never arrive.
WriteClosed == /\ at \in {"start", "write"} /\ pc = "closed"
               /\ End(<<>>) \/ Goto("head")
               /\ UNCHANGED vars

\* read_full: some of the header or of the body of the answer comes.
wanted == Header + received[1].len

ReadHeader == /\ at = "head"
              /\ Read
              /\ IF received'[1].len > k_max_msg THEN End(<<msg("too long")>>) ELSE Goto("body")

ReadBody == /\ at = "body"
            /\ Read
            /\ Goto(IF Len(received') = wanted THEN "print" ELSE "body")

\* Bug variant: the end of the stream is taken for nothing yet.
ReadFails_NotEof == /\ at \in {"head", "body"} /\ pc = "closed" /\ sndq # <<>>
                    /\ End(<<msg("read() error")>>)
                    /\ UNCHANGED vars

\* The end of the stream comes after what was sent; what the server had not read
\* when it closed makes the read fail at once.
ReadFails == /\ at \in {"head", "body"} /\ pc = "closed"
             /\ \/ at = "head" /\ sndq = <<>> /\ End(<<msg("EOF")>>)
                \/ End(<<msg("read() error")>>)
             /\ UNCHANGED vars

\* What has come: a unit of a reply is a unit of the output.
Content(u) == Output(Sent(asked[u.req]))[u.at - Header]

reply == [i \in 1..received[1].len |-> Content(received[Header + i])]

\* Bug variant: the count of an inner array is kept in place of the outer one's.
Begin_OneCount(a) == IF a[1] = "SER_ARR" THEN Append(Front(loops), Elements(a))
                     ELSE Append(Front(loops), Last(loops) - 1)

\* An element is begun, and with an array the loop over its elements.
Begin(a) == LET rest == Append(Front(loops), Last(loops) - 1)
            IN  IF a[1] = "SER_ARR" THEN Append(rest, Elements(a)) ELSE rest

\* on_response prints a value or the first line of an array; or it fails, and with
\* it all calls that wait for it.
on_response_value ==
  /\ at = "print" /\ Last(loops) > 0
  /\ LET res == on_response(SubSeq(reply, arr_bytes + 1, Len(reply)))
     IN  IF res = {} THEN End(<<msg("bad response")>>)
         ELSE /\ \E p \in res : /\ shown' = Append(shown, p.shown)
                                /\ arr_bytes' = arr_bytes + p.rv
                                /\ loops' = Begin(p.shown)
              /\ UNCHANGED at
  /\ UNCHANGED vars

\* The loop of an array ends and its call returns.
on_response_end ==
  /\ at = "print" /\ Last(loops) = 0 /\ Len(loops) > 1
  /\ loops' = Front(loops)
  /\ UNCHANGED <<vars, at, shown, arr_bytes>>

\* The end of read_res, and of main.
read_res == /\ at = "print" /\ loops = <<0>>
            /\ End(IF arr_bytes = received[1].len THEN <<>> ELSE <<msg("bad response")>>)
            /\ UNCHANGED vars

\* close(fd), or the process has ended.
Close == /\ at = "done"
         /\ Fin \/ Reset
         /\ UNCHANGED program

main == send_req \/ write_all \/ WriteClosed \/ ReadHeader \/ ReadBody \/ ReadFails
          \/ on_response_value \/ on_response_end \/ read_res

ClientNext == \/ main \/ Close
              \/ (Server \/ IdleTimeout) /\ UNCHANGED program

\* The server comes back to the connection, and the client's calls, which
\* block, return when they can.  Nothing makes the idle timer run out.
ClientSpec == ClientInit /\ [][ClientNext]_clientvars
                /\ WF_clientvars(Server /\ UNCHANGED program)
                /\ WF_clientvars(main)
-----------------------------------------------------------------------------
(* Properties *)

\* However the messages are cut, the client prints the answer to its command, to
\* the last element of nested arrays, or the error that stands for an answer
\* that is too big; or it says that the connection has ended.  It never finds
\* an answer too long or malformed (client.cpp:95-182, :201-217), and without a
\* word it ends only when its command was too long or could not be written.
AnswerShown ==
  \/ shown = <<>> /\ (at = "done" => asked = <<>> \/ pc = "closed")
  \/ shown \in {<<msg("EOF")>>, <<msg("read() error")>>} /\ at = "done" /\ pc = "closed"
  \/ /\ asked # <<>> /\ IsPrefix(shown, Sent(asked[1]))
     /\ at = "done" => shown = Sent(asked[1])

\* The server reads a request as the strings the client was given, and never
\* ends the connection of a client that is still there (server.cpp:172-210, :665,
\* :679), unless nothing has happened on it for too long.
RequestUnderstood ==
  /\ \A i \in DOMAIN asked : parse_req(RequestBody(asked[i].cmd)) = {asked[i].cmd}
  /\ state = "STATE_END" => at = "done"

\* The client ends: with the answer, or because the connection has.
ClientEnds == <>(at = "done")
=============================================================================
