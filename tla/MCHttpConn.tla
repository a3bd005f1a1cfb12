----------------------------- MODULE MCHttpConn -----------------------------
(* HttpConn for TLC: files of one byte and of two.                         *)
EXTENDS HttpConn

SmallFiles == {<<"d1">>, <<"d1", "d2">>}
=============================================================================
