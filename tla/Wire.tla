-------------------------------- MODULE Wire --------------------------------
(***************************************************************************)
(* The contents of messages: what client.cpp writes and server.cpp parses, *)
(* what server.cpp's out_* functions write and client.cpp prints.          *)
(*                                                                         *)
(* A message is a sequence of units, all of them numbers.  A tag or a      *)
(* number of 4 or 8 bytes is one unit, a string has one for each           *)
(* character; sizes are counted in units.  What a string stands for is     *)
(* left out.  A function that may fail gives a set: empty, or its result.  *)
(*                                                                         *)
(* An answer is the sequence of the calls of out_* that make it: out_arr   *)
(* is given the number of elements, which follow.                          *)
(***************************************************************************)
EXTENDS Integers, SequencesExt, Replies

CONSTANT k_max_args     \* the most strings of a request

ASSUME WireAssumption == k_max_args \in Nat

\* The enumerators of common.h.  (client.cpp declares the first four again, and
\* SER_ARR as another number: what it is compiled with must be common.h's.)
SER == [SER_NIL |-> 0, SER_ERR |-> 1, SER_STR |-> 2, SER_INT |-> 3, SER_DBL |-> 4, SER_ARR |-> 5]

\* The codes of out_err, and the text that goes with one.
Code == [ERR_UNKNOWN |-> 1, ERR_2BIG |-> 2, ERR_TYPE |-> 3, ERR_ARG |-> 4]
Text(code) == <<code>>
-----------------------------------------------------------------------------
(* Requests *)

StringUnits(s) == <<Len(s)>> \o s

\* send_req: the body of the message for the command cmd, a sequence of strings.
RequestBody(cmd) == <<Len(cmd)>> \o FlattenSeq([i \in DOMAIN cmd |-> StringUnits(cmd[i])])

\* Bug variant: a string that ends with the message is taken to be cut off.
Fits_Short(data, pos) == pos < Len(data) /\ pos + 1 + data[pos + 1] < Len(data)

\* There is a size at pos (from 0), and a string of that size after it.
Fits(data, pos) == pos < Len(data) /\ pos + 1 + data[pos + 1] <= Len(data)

\* The string at s.pos is taken out.
TakeString(data, s) ==
  LET size == data[s.pos + 1]
  IN  [pos |-> s.pos + 1 + size, out |-> Append(s.out, SubSeq(data, s.pos + 2, s.pos + 1 + size))]

\* parse_req: loop[i] is what its loop has after i strings.
parse_req(data) ==
  IF data = <<>> \/ data[1] > k_max_args THEN {}
  ELSE LET loop[i \in 0..data[1]] ==
             IF i = 0 THEN {[pos |-> 1, out |-> <<>>]}
             ELSE {TakeString(data, s) : s \in {t \in loop[i - 1] : Fits(data, t.pos)}}
       IN  {s.out : s \in {t \in loop[data[1]] : t.pos = Len(data)}}
-----------------------------------------------------------------------------
(* Answers *)

\* What one call of an out_* function appends.
ItemUnits(a) ==
  CASE a[1] = "SER_NIL" -> <<SER.SER_NIL>>
    [] a[1] = "SER_ERR" -> <<SER.SER_ERR, Code[a[2]]>> \o StringUnits(Text(Code[a[2]]))
    [] a[1] = "SER_STR" -> <<SER.SER_STR>> \o StringUnits(a[2])
    [] a[1] = "SER_INT" -> <<SER.SER_INT, a[2]>>
    [] a[1] = "SER_DBL" -> <<SER.SER_DBL, a[2]>>
    [] a[1] = "SER_ARR" -> <<SER.SER_ARR, a[2]>>

Output(answer) == FlattenSeq([i \in DOMAIN answer |-> ItemUnits(answer[i])])

Item == {out_nil} \cup ({"SER_ERR"} \X DOMAIN Code) \cup ({"SER_STR"} \X Seq(Int))
          \cup ({"SER_INT", "SER_DBL"} \X Int) \cup ({"SER_ARR"} \X Nat)

Elements(a) == IF a[1] = "SER_ARR" THEN a[2] ELSE 0

\* The values that are still to come after the first i calls.
Missing(answer) ==
  LET missing[i \in 0..Len(answer)] ==
        IF i = 0 THEN 1 ELSE missing[i - 1] - 1 + Elements(answer[i])
  IN  missing

\* A command makes one value: every array has as many elements as it announces.
IsAnswer(answer) ==
  /\ answer \in Seq(Item)
  /\ \A i \in DOMAIN answer : Missing(answer)[i - 1] > 0
  /\ Missing(answer)[Len(answer)] = 0

Printed(rv, a) == {[rv |-> rv, shown |-> a]}

PrintErr(data) ==
  IF Len(data) < 1 + 2 \/ Len(data) < 1 + 2 + data[3] THEN {}
  ELSE UNION {Printed(1 + 2 + data[3], out_err(e)) : e \in {c \in DOMAIN Code : Code[c] = data[2]}}

PrintStr(data) == IF Len(data) < 1 + 1 \/ Len(data) < 1 + 1 + data[2] THEN {}
                  ELSE Printed(1 + 1 + data[2], out_str(SubSeq(data, 3, 2 + data[2])))

PrintNumber(data, a) == IF Len(data) < 1 + 1 THEN {} ELSE Printed(1 + 1, a)

\* What on_response prints of the value at the start of data, and its size; of an
\* array, the line that begins it.
on_response(data) ==
  IF data = <<>> THEN {}
  ELSE CASE data[1] = SER.SER_NIL -> Printed(1, out_nil)
         [] data[1] = SER.SER_ERR -> PrintErr(data)
         [] data[1] = SER.SER_STR -> PrintStr(data)
         [] data[1] = SER.SER_INT -> PrintNumber(data, out_int(data[2]))
         [] data[1] = SER.SER_DBL -> PrintNumber(data, out_dbl(data[2]))
         [] data[1] = SER.SER_ARR -> PrintNumber(data, out_arr(data[2]))
         [] OTHER -> {}
=============================================================================
