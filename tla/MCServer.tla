------------------------------ MODULE MCServer ------------------------------
(* A small instance of Server. *)
EXTENDS Server, TLC

CONSTANTS n1, n2

\* One call with two blocks and one with one.
Batches == n1 :> <<"a", "b">> @@ n2 :> <<"c">>

\* Two keys, and one that both lookups ask for.
KeysOf == [sizes |-> {"a", "b"}, blocks |-> {"a"}]
=============================================================================
