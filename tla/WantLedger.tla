----------------------------- MODULE WantLedger -----------------------------
(***************************************************************************)
(* What PeerManager promises to the sessions, without its reverse index,   *)
(* its two kinds of wants and its filters: a want is asked of one peer, or *)
(* of all of them and of those that connect later; a cancel takes the key  *)
(* back everywhere, from whoever was asked for it and in whichever way.    *)
(***************************************************************************)
CONSTANTS Peers, Cids

VARIABLES
  connected,   \* peers with a queue
  everywhere,  \* keys asked of every peer
  asked        \* asked[p]: keys p's queue is to ask for

ledger == <<connected, everywhere, asked>>

Init ==
  /\ connected = {}
  /\ everywhere = {}
  /\ asked = [p \in Peers |-> {}]

Connect(p) ==
  /\ p \notin connected
  /\ connected' = connected \cup {p}
  /\ asked' = [asked EXCEPT ![p] = everywhere]
  /\ UNCHANGED everywhere

Disconnect(p) ==
  /\ p \in connected
  /\ connected' = connected \ {p}
  /\ asked' = [asked EXCEPT ![p] = {}]
  /\ UNCHANGED everywhere

Ask(p, ks) ==
  /\ p \in connected
  /\ asked' = [asked EXCEPT ![p] = @ \cup ks]
  /\ UNCHANGED <<connected, everywhere>>

AskEveryone(ks) ==
  /\ everywhere' = everywhere \cup ks
  /\ asked' = [p \in Peers |-> IF p \in connected THEN asked[p] \cup ks ELSE asked[p]]
  /\ UNCHANGED connected

Cancel(ks) ==
  /\ everywhere' = everywhere \ ks
  /\ asked' = [p \in Peers |-> IF p \in connected THEN asked[p] \ ks ELSE asked[p]]
  /\ UNCHANGED connected

Next ==
  \/ \E p \in Peers : Connect(p) \/ Disconnect(p)
  \/ \E p \in Peers, ks \in SUBSET Cids : Ask(p, ks)
  \/ \E ks \in SUBSET Cids : AskEveryone(ks) \/ Cancel(ks)

Spec == Init /\ [][Next]_ledger
=============================================================================
