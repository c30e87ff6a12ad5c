------------------------------ MODULE MCReactor ------------------------------
(* Three peers, and one number more than the table of handlers has entries. *)
EXTENDS Reactor
CONSTANTS p1, p2, p3
MCPeers == {p1, p2, p3}
=============================================================================
