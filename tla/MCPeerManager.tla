--------------------------- MODULE MCPeerManager ---------------------------
(* Small instances of PeerManager. *)
EXTENDS PeerManager, TLC

CONSTANTS c1, c2

\* Every list of keys without repetition, as ReceiveFrom and
\* CancelSessionWants produce them from messages and sets.
DistinctLists == {<<c1>>, <<c2>>, <<c1, c2>>}

Symmetry == Permutations(Peers)
=============================================================================
