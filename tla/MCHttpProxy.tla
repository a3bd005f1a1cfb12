---------------------------- MODULE MCHttpProxy ----------------------------
(* HttpProxy for TLC: two clients at a time with whole requests, and one   *)
(* at a time with requests in pieces and connections refused.              *)
EXTENDS HttpProxy

Two == [users |-> 2, parts |-> 1, conns |-> 2, asked |-> 1, drops |-> 1, refused |-> 0]
One == [users |-> 1, parts |-> 2, conns |-> 2, asked |-> 2, drops |-> 1, refused |-> 1]

SmallLoads == {One, Two}
=============================================================================
