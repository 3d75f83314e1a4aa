------------------------------ MODULE MCProxy ------------------------------
(* Two status connections and up to three versions of the row. *)
EXTENDS Proxy

CONSTANTS c1, c2

NoConn == {}
TwoConns == {c1, c2}
=============================================================================
