----------------------------- MODULE PeerEvents -----------------------------
(***************************************************************************)
(* What connectEventManager promises to its listeners, without its queue,  *)
(* its three states and its lock: each peer has a state the network last   *)
(* reported (aim) and a published state that follows it one event at a     *)
(* time (view); an event reaches every listener, in their order, before    *)
(* the peer's next one, and a report that lasts is published in the end.   *)
(***************************************************************************)
EXTENDS Naturals

CONSTANTS Peers, NumListeners

VARIABLES
  aim,      \* peers that are usable, as last reported by the network
  view,     \* the same, as of each peer's last event
  told,     \* told[l]: the same, as listener l knows it
  stopped   \* no further event is published

avars == <<aim, view, told, stopped>>

Listeners == 1..NumListeners
Agree(p, S, T) == p \in S <=> p \in T
\* T with p in it exactly when it is in S.
Copied(p, S, T) == IF p \in S THEN T \cup {p} ELSE T \ {p}

Init ==
  /\ aim = {}
  /\ view = {}
  /\ told = [l \in Listeners |-> {}]
  /\ stopped = FALSE

Report(p) ==
  /\ aim' \in {aim \cup {p}, aim \ {p}}
  /\ UNCHANGED <<view, told, stopped>>

Publish(p) ==
  /\ ~stopped
  /\ ~Agree(p, aim, view)
  /\ \A l \in Listeners : Agree(p, told[l], view)
  /\ view' = Copied(p, aim, view)
  /\ UNCHANGED <<aim, told, stopped>>

Deliver(l, p) ==
  /\ ~Agree(p, told[l], view)
  /\ \A k \in 1..(l - 1) : Agree(p, told[k], view)
  /\ told' = [told EXCEPT ![l] = Copied(p, view, @)]
  /\ UNCHANGED <<aim, view, stopped>>

Stop ==
  /\ stopped' = TRUE
  /\ UNCHANGED <<aim, view, told>>

Next ==
  \/ \E p \in Peers : Report(p) \/ Publish(p)
  \/ \E l \in Listeners, p \in Peers : Deliver(l, p)
  \/ Stop

Safety == Init /\ [][Next]_avars

Spec ==
  /\ Safety
  /\ \A p \in Peers : WF_avars(Publish(p))
  /\ \A l \in Listeners, p \in Peers : WF_avars(Deliver(l, p))
=============================================================================
