------------------------ MODULE ConnectEventManager ------------------------
(***************************************************************************)
(* network/connecteventmanager.go: turns libp2p connection notifications,  *)
(* send failures and incoming messages into PeerConnected/PeerDisconnected *)
(* events.  Handlers run on any goroutine and only record the state they   *)
(* want for a peer; one worker goroutine applies the changes in FIFO order *)
(* and calls the listeners with the lock released.                         *)
(*                                                                         *)
(* Every action is one critical section of connectEventManager.lk.         *)
(***************************************************************************)
EXTENDS Naturals, Sequences

CONSTANTS Peers,         \* peer IDs
          NumListeners   \* len(connListeners)

ASSUME ListenersAssumption == NumListeners \in Nat \ {0}

VARIABLES
  tracked,      \* DOMAIN of the peers map
  newState,     \* peerState.newState; the zero value for an untracked peer
  curState,     \* peerState.curState; likewise
  pending,      \* peerState.pending; likewise
  changeQueue,  \* FIFO of peers whose state is to be applied
  stop,         \* set by Stop()
  worker,       \* where the worker goroutine is
  event,        \* the listener callback the worker is in the middle of
  onMessage,    \* peers with an OnMessage call between its two locks
  told,         \* told[l][p]: the last event given to listener l was PeerConnected(p)
  linked        \* libp2p has a connection to the peer (environment)

peerStates == <<tracked, newState, curState, pending, changeQueue>>
vars == <<peerStates, stop, worker, event, onMessage, told, linked>>

Listeners == 1..NumListeners
States == {"disconnected", "responsive", "unresponsive"}
WorkerStates == {"wait", "callback", "done"}
EventKinds == {"PeerConnected", "PeerDisconnected"}
Events == [peer : Peers, kind : EventKinds, next : Nat]

Init ==
  /\ tracked = {}
  /\ newState = [p \in Peers |-> "disconnected"]
  /\ curState = [p \in Peers |-> "disconnected"]
  /\ pending = [p \in Peers |-> FALSE]
  /\ changeQueue = <<>>
  /\ stop = FALSE
  /\ worker = "wait"
  /\ event \in [peer : Peers, kind : {"PeerDisconnected"}, next : {NumListeners + 1}]
  /\ onMessage = {}
  /\ told = [l \in Listeners |-> [p \in Peers |-> FALSE]]
  /\ linked = [p \in Peers |-> FALSE]

----------------------------------------------------------------------------
(* Handlers *)

\* The change has to be queued: it is not queued already and changes something.
Enqueues(p, s) == ~pending[p] /\ s # curState[p]

setState(p, s) ==
  /\ tracked' = tracked \cup {p}
  /\ newState' = [newState EXCEPT ![p] = s]
  /\ IF Enqueues(p, s)
       THEN /\ pending' = [pending EXCEPT ![p] = TRUE]
            /\ changeQueue' = Append(changeQueue, p)
       ELSE UNCHANGED <<pending, changeQueue>>
  /\ UNCHANGED curState

\* A libp2p connection was opened; called again for further connections.
Connected(p) ==
  /\ linked' = [linked EXCEPT ![p] = TRUE]
  /\ IF newState[p] = "responsive" THEN UNCHANGED peerStates ELSE setState(p, "responsive")
  /\ UNCHANGED <<stop, worker, event, onMessage, told>>

\* The last libp2p connection was closed; also called for a transient
\* connection, whose opening was ignored.
Disconnected(p) ==
  /\ linked' = [linked EXCEPT ![p] = FALSE]
  /\ IF newState[p] = "disconnected" THEN UNCHANGED peerStates ELSE setState(p, "disconnected")
  /\ UNCHANGED <<stop, worker, event, onMessage, told>>

\* A sender gave up on the peer.
MarkUnresponsive(p) ==
  /\ IF newState[p] = "responsive" THEN setState(p, "unresponsive") ELSE UNCHANGED peerStates
  /\ UNCHANGED <<stop, worker, event, onMessage, told, linked>>

\* OnMessage under the read lock: only an unresponsive peer is of interest.
OnMessageCheck(p) ==
  /\ newState[p] = "unresponsive"
  /\ onMessage' = onMessage \cup {p}
  /\ UNCHANGED <<peerStates, stop, worker, event, told, linked>>

OnMessageApply_NoRecheck(p) ==
  /\ p \in onMessage
  /\ onMessage' = onMessage \ {p}
  /\ setState(p, "responsive")
  /\ UNCHANGED <<stop, worker, event, told, linked>>

\* OnMessage under the write lock, which checks again.
OnMessageApply(p) ==
  /\ p \in onMessage
  /\ onMessage' = onMessage \ {p}
  /\ IF newState[p] = "unresponsive" THEN setState(p, "responsive") ELSE UNCHANGED peerStates
  /\ UNCHANGED <<stop, worker, event, told, linked>>

Stop ==
  /\ stop' = TRUE
  /\ UNCHANGED <<peerStates, worker, event, onMessage, told, linked>>

----------------------------------------------------------------------------
(* The worker goroutine *)

HasChange_NoSignal == worker = "wait" /\ ~stop /\ Len(changeQueue) > 1

\* waitChange returned true.
HasChange == worker = "wait" /\ ~stop /\ changeQueue # <<>>

\* The queued change was undone before the worker got to it.
WorkerSkip ==
  /\ HasChange
  /\ LET pid == Head(changeQueue) IN
       /\ curState[pid] = newState[pid]
       /\ pending' = [pending EXCEPT ![pid] = FALSE]
  /\ changeQueue' = Tail(changeQueue)
  /\ UNCHANGED <<tracked, newState, curState, stop, worker, event, onMessage, told, linked>>

NotifiesAnyLoss(old, new) == TRUE
NotifiesNotUnresponsive(old, new) ==
  new = "responsive" \/ (old = "responsive" /\ new = "disconnected")

\* Losing a peer that was already reported unresponsive is not an event.
Notifies(old, new) == new = "responsive" \/ old = "responsive"

\* The peer's entry is deleted.
Forgets(new) == new = "disconnected"

WorkerApply ==
  /\ HasChange
  /\ LET pid == Head(changeQueue)
         old == curState[pid]
         new == newState[pid]
     IN /\ old # new
        /\ pending' = [pending EXCEPT ![pid] = FALSE]
        /\ curState' = [curState EXCEPT ![pid] = new]
        /\ tracked' = IF Forgets(new) THEN tracked \ {pid} ELSE tracked
        /\ IF Notifies(old, new)
             THEN /\ worker' = "callback"
                  /\ event' = [peer |-> pid, next |-> 1,
                               kind |-> IF new = "responsive" THEN "PeerConnected"
                                                              ELSE "PeerDisconnected"]
             ELSE UNCHANGED <<worker, event>>
  /\ changeQueue' = Tail(changeQueue)
  /\ UNCHANGED <<newState, stop, onMessage, told, linked>>

\* The worker, without the lock, calls the next listener; after the last one
\* it takes the lock again.
Callback ==
  /\ worker = "callback"
  /\ told' = [told EXCEPT ![event.next] = [@ EXCEPT ![event.peer] = event.kind = "PeerConnected"]]
  /\ event' = [event EXCEPT !.next = @ + 1]
  /\ worker' = IF event.next = NumListeners THEN "wait" ELSE "callback"
  /\ UNCHANGED <<peerStates, stop, onMessage, linked>>

\* waitChange returned false: the worker ends, whatever is queued.
WorkerExit ==
  /\ worker = "wait" /\ stop
  /\ worker' = "done"
  /\ UNCHANGED <<peerStates, stop, event, onMessage, told, linked>>

Worker == WorkerSkip \/ WorkerApply \/ Callback \/ WorkerExit

Next ==
  \/ \E p \in Peers : \/ Connected(p) \/ Disconnected(p) \/ MarkUnresponsive(p)
                      \/ OnMessageCheck(p) \/ OnMessageApply(p)
  \/ Stop
  \/ Worker

\* The worker goroutine is scheduled and listeners return.
Fairness == WF_vars(Worker)

Spec == Init /\ [][Next]_vars /\ Fairness

----------------------------------------------------------------------------
(* Properties *)

\* Types of the variables; a peer without an entry has the zero state.
TypeOK ==
  /\ tracked \subseteq Peers
  /\ newState \in [Peers -> States]
  /\ curState \in [Peers -> States]
  /\ pending \in [Peers -> BOOLEAN]
  /\ changeQueue \in Seq(Peers)
  /\ stop \in BOOLEAN
  /\ worker \in WorkerStates
  /\ event \in Events
  /\ onMessage \subseteq Peers
  /\ told \in [Listeners -> [Peers -> BOOLEAN]]
  /\ linked \in [Peers -> BOOLEAN]
  /\ \A p \in Peers \ tracked : newState[p] = "disconnected" /\ curState[p] = "disconnected"

\* A peer is in the change queue exactly when it is marked pending, never
\* twice, and is tracked: the branch of worker() whose comment says "This
\* shouldn't be possible" is unreachable.
QueuedOnce ==
  /\ \A i, j \in DOMAIN changeQueue : changeQueue[i] = changeQueue[j] => i = j
  /\ \A p \in Peers : pending[p] <=> \E i \in DOMAIN changeQueue : changeQueue[i] = p
  /\ \A p \in Peers : pending[p] => p \in tracked

\* Every listener sees PeerConnected(p) and PeerDisconnected(p) alternate,
\* whatever changes while the worker calls it without the lock: a listener
\* still to be called was last told the opposite.
EventsAlternate ==
  worker = "callback" =>
    \A l \in event.next..NumListeners : told[l][event.peer] <=> event.kind = "PeerDisconnected"

\* The recorded state is "disconnected" exactly when there is no connection:
\* a message processed after the disconnect does not resurrect the peer
\* (the comment on OnMessage).
DisconnectedIffUnlinked ==
  \A p \in Peers : newState[p] = "disconnected" <=> ~linked[p]

\* Once the worker has nothing left to do, what it told every listener is
\* the state the handlers asked for last.
Quiescent == worker = "wait" /\ changeQueue = <<>>
SettledViewsAgree ==
  Quiescent => \A l \in Listeners, p \in Peers : told[l][p] <=> newState[p] = "responsive"

\* The manager implements its abstract specification PeerEvents, fairness
\* included: whatever handlers do while events are queued or delivered, a peer
\* that stays usable, or lost, is reported to every listener in the end, and
\* no event is repeated, invented or delivered out of order.
Responsive(state) == {p \in Peers : state[p] = "responsive"}
Abstract == INSTANCE PeerEvents
  WITH aim <- Responsive(newState),
       view <- Responsive(curState),
       told <- [l \in Listeners |-> {p \in Peers : told[l][p]}],
       stopped <- stop
ImplementsPeerEvents == Abstract!Spec
=============================================================================
