------------------------------ MODULE MCService ------------------------------
(* The client of p1 is named by the proxy, 10.0.0.1, in a header; p2 is the    *)
(* same client, past the proxy, with a header that holds no address.  plain    *)
(* goes to the HTTP server, which only redirects.                              *)
EXTENDS Service

MCServer == [p1 |-> "https", p2 |-> "https", plain |-> "http"]
MCPeer == [p1 |-> "10.0.0.1", p2 |-> "192.0.2.1", plain |-> "10.0.0.1"]
MCHeader == [p1 |-> "192.0.2.1", p2 |-> "no address", plain |-> ""]
=============================================================================
