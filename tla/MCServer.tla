------------------------------ MODULE MCServer ------------------------------
(* Two clients: one may subscribe while the other's dispatcher emits.  With  *)
(* two events and room for one a stream can lag, and one that does not has   *)
(* two to send in order.  With two lines a client may start a recording and  *)
(* then subscribe, or be read once more after ctrl-c.                        *)
EXTENDS Server

CONSTANTS c1, c2

MCClients == {c1, c2}
=============================================================================
