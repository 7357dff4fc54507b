----------------------- MODULE MCProviderQueryManager -----------------------
(* A small instance of ProviderQueryManager: every call is for the same key. *)
EXTENDS ProviderQueryManager

CONSTANT k1

SameKey == [c \in Clients |-> k1]
=============================================================================
