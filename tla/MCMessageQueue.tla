--------------------------- MODULE MCMessageQueue ---------------------------
(* Small instances of MessageQueue. *)
EXTENDS MessageQueue, TLC

\* Two keys: not followed past a shutdown, which the runs with one key cover.
UntilShutdown == ~ctxDone

Symmetry == Permutations(Cids)
=============================================================================
