------------------------------ MODULE Replies ------------------------------
(***************************************************************************)
(* The answers of a command (server.cpp's out_* functions): a tag and what *)
(* comes with it.  The bytes they are sent as are left out.                *)
(***************************************************************************)
out_nil == <<"SER_NIL">>
out_err(code) == <<"SER_ERR", code>>
out_str(s) == <<"SER_STR", s>>
out_int(i) == <<"SER_INT", i>>
out_dbl(x) == <<"SER_DBL", x>>
out_arr(elems) == <<"SER_ARR", elems>>
\* An array of tuples, a name and its score one after the other.
out_tuples(seq) == <<"SER_ARR", "tuples", seq>>
=============================================================================
