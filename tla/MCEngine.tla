------------------------------ MODULE MCEngine ------------------------------
(* A small instance of Engine. *)
EXTENDS Engine

CONSTANTS k1, p1, w1

Want(k, want, dontHave, full) ==
  [full |-> full, wants |-> [Empty EXCEPT ![k] = want], cancels |-> {}, dontHave |-> dontHave]

\* A want-have as it is broadcast, a want-block that asks for a DONT_HAVE, a
\* cancel, and full wantlists with and without an entry.
Mixed ==
  {[Nothing EXCEPT !.full = "full"]}
    \cup UNION {{Want(k, "have", {}, "delta"), Want(k, "block", {k}, "delta"), Want(k, "have", {}, "full"),
                 [Nothing EXCEPT !.cancels = {k}]} : k \in Cids}
=============================================================================
