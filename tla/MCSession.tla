----------------------------- MODULE MCSession -----------------------------
(* Small instances of Session. *)
EXTENDS Session

CONSTANTS p1, p2, c1, c2, r1, r2

OneKey == [r \in Calls |-> c1]
TwoKeys == [r \in Calls |-> IF r = r1 THEN c1 ELSE c2]

\* Every peer has the first block only.
FirstHeld == [c \in Cids |-> IF c = c1 THEN Peers ELSE {}]

\* Every peer has every block.
HeldByAll == [c \in Cids |-> Peers]
=============================================================================
