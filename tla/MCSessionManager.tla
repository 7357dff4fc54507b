-------------------------- MODULE MCSessionManager --------------------------
(* A small instance of SessionManager. *)
EXTENDS SessionManager

\* Each session makes one call for the key.
SessionFor == [r1 |-> "s1", r2 |-> "s2"]
OneKey == [r \in Calls |-> "c"]
=============================================================================
