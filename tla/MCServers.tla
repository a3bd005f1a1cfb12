----------------------------- MODULE MCServers -----------------------------
(* Servers for TLC: two documents, one of which may have a proxy_pass that *)
(* parses or does not.                                                     *)
EXTENDS Servers

Proxy(port, path) == [protocol |-> "http", port |-> port, path |-> path]

Lists == {<<NoProxy, Proxy("80", "/")>>, <<NoProxy, Proxy(NoPart, NoPart)>>}
=============================================================================
