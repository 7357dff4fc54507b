-------------------------- MODULE MCPeerLifecycle --------------------------
(* A small instance of PeerLifecycle. *)
EXTENDS PeerLifecycle

CONSTANTS p1, p2
=============================================================================
