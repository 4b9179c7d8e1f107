------------------------------ MODULE MCClient ------------------------------
(* Messages of at most eight units.  Every command of up to two short        *)
(* strings, whose characters could be taken for sizes, one command of the    *)
(* largest size and one a unit longer; answers of every kind, nested arrays, *)
(* one answer of the largest size and one a unit longer.                     *)
EXTENDS Client

MCStrings == BoundedSeq({1, 2}, 2)
MCCommands == BoundedSeq(MCStrings, 2)
                \cup {<<<<1, 2>>, <<1>>, <<2>>>>, <<<<1, 2, 1>>, <<2, 1, 2>>>>}
MCAnswers == {<<out_nil>>, <<out_err("ERR_TYPE")>>, <<out_str(<<1, 2, 1>>)>>, <<out_str(<<>>)>>,
              <<out_int(5)>>, <<out_arr(0)>>, <<out_arr(2), out_str(<<1>>), out_dbl(3)>>,
              <<out_arr(2), out_arr(1), out_nil, out_int(0)>>,
              <<out_arr(2), out_str(<<1, 2>>), out_dbl(3)>>}
MCRequests == {RequestFor(c, a) : c \in MCCommands, a \in MCAnswers}
MCErrSize == Len(Output(TooBig))
MCFaults == {"fin", "reset", "idle"}
=============================================================================
