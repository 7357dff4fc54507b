--------------------- MODULE ConnectEventManagerProofs ---------------------
(***************************************************************************)
(* Safety of ConnectEventManager for any set of peers and any number of    *)
(* listeners.  The inductive invariant says what the worker owes: a peer   *)
(* that is not queued has nothing left to apply (NothingMissed), and every *)
(* listener was told the applied state of every peer, except the ones the  *)
(* worker is still going through (ViewsFollow).  The last section carries  *)
(* this over to PeerLifecycle, where the first listener keeps the queues.  *)
(***************************************************************************)
EXTENDS PeerLifecycle, SequenceTheorems, TLAPS

NothingMissed == \A p \in Peers : ~pending[p] => newState[p] = curState[p]

\* Listener l has not been called yet for the event in progress about p.
Owed(l, p) == worker = "callback" /\ event.peer = p /\ event.next <= l

ViewsFollow ==
  \A l \in Listeners, p \in Peers :
    told[l][p] <=> (IF Owed(l, p) THEN event.kind = "PeerDisconnected" ELSE curState[p] = "responsive")

CallbackApplied ==
  worker = "callback" =>
    /\ event.kind = "PeerConnected" <=> curState[event.peer] = "responsive"
    /\ event.next \in Listeners

IInv ==
  /\ TypeOK
  /\ QueuedOnce
  /\ NothingMissed
  /\ ViewsFollow
  /\ CallbackApplied
  /\ DisconnectedIffUnlinked

\* The initial state satisfies the invariant.
LEMMA InitIInv == Init => IInv
<1> SUFFICES ASSUME Init PROVE IInv
  OBVIOUS
<1>1. changeQueue \in Seq(Peers) /\ DOMAIN changeQueue = {}
  BY DEF Init
<1>2. event \in Events
  BY ListenersAssumption DEF Init, Events, EventKinds
<1>3. TypeOK
  BY <1>1, <1>2, Zenon DEF Init, TypeOK, States, WorkerStates, Listeners
<1>4. QueuedOnce
  BY <1>1 DEF Init, QueuedOnce
<1>5. NothingMissed /\ CallbackApplied /\ DisconnectedIffUnlinked
  BY DEF Init, NothingMissed, CallbackApplied, DisconnectedIffUnlinked
<1>6. ViewsFollow
  BY Zenon DEF Init, ViewsFollow, Owed
<1> QED BY <1>3, <1>4, <1>5, <1>6 DEF IInv

\* setState, which every handler ends in, keeps the queue and the pending
\* flags in step and never loses a change.
LEMMA SetStateQueue ==
  ASSUME NEW p \in Peers, NEW s \in States, setState(p, s), TypeOK, QueuedOnce, NothingMissed
  PROVE  /\ tracked' \subseteq Peers /\ newState' \in [Peers -> States]
         /\ pending' \in [Peers -> BOOLEAN] /\ changeQueue' \in Seq(Peers)
         /\ QueuedOnce' /\ NothingMissed'
<1>1. CASE Enqueues(p, s)
  <2>0. changeQueue' = Append(changeQueue, p) /\ changeQueue \in Seq(Peers)
    BY <1>1 DEF setState, TypeOK
  <2>1. /\ changeQueue' \in Seq(Peers)
        /\ Len(changeQueue') = Len(changeQueue) + 1
        /\ \A i \in 1..Len(changeQueue) : changeQueue'[i] = changeQueue[i]
        /\ changeQueue'[Len(changeQueue) + 1] = p
    BY <2>0, AppendProperties
  <2>2. \A i \in DOMAIN changeQueue : changeQueue[i] # p
    BY <1>1 DEF QueuedOnce, Enqueues
  <2>3. DOMAIN changeQueue = 1..Len(changeQueue) /\ DOMAIN changeQueue' = 1..Len(changeQueue)+1
        /\ Len(changeQueue) \in Nat
    BY <2>1 DEF TypeOK
  <2>4. /\ tracked' = tracked \cup {p} /\ newState' = [newState EXCEPT ![p] = s]
        /\ pending' = [pending EXCEPT ![p] = TRUE] /\ curState' = curState
    BY <1>1 DEF setState
  <2>5. \A i, j \in DOMAIN changeQueue' : changeQueue'[i] = changeQueue'[j] => i = j
    BY <2>1, <2>2, <2>3 DEF QueuedOnce
  <2>6. \A q \in Peers : pending'[q] <=> \E i \in DOMAIN changeQueue' : changeQueue'[i] = q
    <3> TAKE q \in Peers
    <3>1. CASE q = p
      <4>1. pending'[p] = TRUE
        BY <2>4 DEF TypeOK
      <4>2. Len(changeQueue) + 1 \in DOMAIN changeQueue'
        BY <2>3
      <4> QED BY <3>1, <4>1, <4>2, <2>1
    <3>2. CASE q # p
      <4>1. pending'[q] = pending[q]
        BY <3>2, <2>4 DEF TypeOK
      <4>2. (\E i \in DOMAIN changeQueue' : changeQueue'[i] = q)
              <=> \E i \in DOMAIN changeQueue : changeQueue[i] = q
        BY <3>2, <2>1, <2>3
      <4> QED BY <4>1, <4>2 DEF QueuedOnce
    <3> QED BY <3>1, <3>2
  <2>7. \A q \in Peers : pending'[q] => q \in tracked'
    BY <2>4 DEF TypeOK, QueuedOnce
  <2> QED
    BY <2>1, <2>4, <2>5, <2>6, <2>7 DEF TypeOK, QueuedOnce, NothingMissed
<1>2. CASE ~Enqueues(p, s)
  <2>1. /\ tracked' = tracked \cup {p} /\ newState' = [newState EXCEPT ![p] = s]
        /\ UNCHANGED <<pending, changeQueue, curState>>
    BY <1>2 DEF setState
  <2>2. NothingMissed'
    BY <1>2, <2>1 DEF TypeOK, NothingMissed, Enqueues
  <2> QED
    BY <2>1, <2>2 DEF TypeOK, QueuedOnce
<1> QED BY <1>1, <1>2

\* Taking the head off the queue and clearing its flag keeps the two in step.
LEMMA DequeueQueue ==
  ASSUME TypeOK, QueuedOnce, changeQueue # <<>>, changeQueue' = Tail(changeQueue),
         pending' = [pending EXCEPT ![Head(changeQueue)] = FALSE],
         \A p \in Peers : p \in tracked /\ p # Head(changeQueue) => p \in tracked'
  PROVE  QueuedOnce' /\ Head(changeQueue) \in Peers /\ changeQueue' \in Seq(Peers)
<1> DEFINE pid == Head(changeQueue)
<1>1. /\ pid \in Peers /\ pid = changeQueue[1]
      /\ changeQueue' \in Seq(Peers)
      /\ Len(changeQueue) \in Nat \ {0}
      /\ Len(changeQueue') = Len(changeQueue) - 1
      /\ DOMAIN changeQueue = 1..Len(changeQueue)
      /\ DOMAIN changeQueue' = 1..(Len(changeQueue) - 1)
      /\ \A i \in 1..(Len(changeQueue) - 1) : changeQueue'[i] = changeQueue[i + 1]
  BY HeadTailProperties, EmptySeq DEF TypeOK
<1>2. \A i, j \in DOMAIN changeQueue' : changeQueue'[i] = changeQueue'[j] => i = j
  BY <1>1 DEF QueuedOnce
<1>3. \A p \in Peers : pending'[p] <=> \E i \in DOMAIN changeQueue' : changeQueue'[i] = p
  <2> TAKE p \in Peers
  <2>1. CASE p = pid
    <3>1. ~pending'[p]
      BY <2>1 DEF TypeOK
    <3>2. \A i \in DOMAIN changeQueue' : changeQueue'[i] # p
      BY <2>1, <1>1 DEF QueuedOnce
    <3> QED BY <3>1, <3>2
  <2>2. CASE p # pid
    <3>1. pending'[p] = pending[p]
      BY <2>2 DEF TypeOK
    <3>2. ASSUME NEW i \in DOMAIN changeQueue, changeQueue[i] = p
          PROVE  i - 1 \in DOMAIN changeQueue' /\ changeQueue'[i - 1] = p
      BY <3>2, <2>2, <1>1
    <3>3. ASSUME NEW i \in DOMAIN changeQueue', changeQueue'[i] = p
          PROVE  i + 1 \in DOMAIN changeQueue /\ changeQueue[i + 1] = p
      BY <3>3, <1>1
    <3>4. pending[p] <=> \E i \in DOMAIN changeQueue : changeQueue[i] = p
      BY DEF QueuedOnce
    <3>5. (\E i \in DOMAIN changeQueue : changeQueue[i] = p) => \E i \in DOMAIN changeQueue' : changeQueue'[i] = p
      BY <3>2, Zenon
    <3>6. (\E i \in DOMAIN changeQueue' : changeQueue'[i] = p) => \E i \in DOMAIN changeQueue : changeQueue[i] = p
      BY <3>3, Zenon
    <3> QED BY <3>1, <3>4, <3>5, <3>6, Zenon
  <2> QED BY <2>1, <2>2
<1>4. \A p \in Peers : pending'[p] => p \in tracked'
  BY <1>1 DEF QueuedOnce, TypeOK
<1> QED BY <1>1, <1>2, <1>3, <1>4 DEF QueuedOnce

\* A handler that ends in setState, or returns early, keeps what the worker
\* owes: it changes neither what is applied nor what listeners were told.
LEMMA HandlerIInv ==
  ASSUME IInv, NEW p \in Peers, NEW s \in States,
         setState(p, s) \/ UNCHANGED peerStates,
         UNCHANGED <<stop, worker, event, told>>,
         onMessage' \subseteq Peers, linked' \in [Peers -> BOOLEAN],
         DisconnectedIffUnlinked'
  PROVE  IInv'
<1>1. CASE setState(p, s)
  <2>1. UNCHANGED curState
    BY <1>1 DEF setState
  <2>0. \A q \in Peers \ tracked' : newState'[q] = "disconnected" /\ curState'[q] = "disconnected"
    BY <1>1, <2>1 DEF setState, IInv, TypeOK
  <2>2. TypeOK'
    BY <1>1, <2>0, <2>1, SetStateQueue DEF IInv, TypeOK
  <2>3. QueuedOnce' /\ NothingMissed'
    BY <1>1, SetStateQueue DEF IInv
  <2>4. ViewsFollow' /\ CallbackApplied'
    BY <2>1 DEF IInv, ViewsFollow, CallbackApplied, Owed
  <2> QED BY <2>2, <2>3, <2>4 DEF IInv
<1>2. CASE UNCHANGED peerStates
  <2>1. TypeOK'
    BY <1>2 DEF IInv, TypeOK, peerStates
  <2>2. QueuedOnce' /\ NothingMissed'
    BY <1>2 DEF IInv, QueuedOnce, NothingMissed, peerStates
  <2>3. ViewsFollow' /\ CallbackApplied'
    BY <1>2 DEF IInv, ViewsFollow, CallbackApplied, Owed, peerStates
  <2> QED BY <2>1, <2>2, <2>3 DEF IInv
<1> QED BY <1>1, <1>2

\* The invariant is inductive: one step per action.
LEMMA NextIInv == IInv /\ [Next]_vars => IInv'
<1> SUFFICES ASSUME IInv, [Next]_vars PROVE IInv'
  OBVIOUS
<1>1. ASSUME NEW p \in Peers, Connected(p) PROVE IInv'
  <2>1. DisconnectedIffUnlinked'
    BY <1>1 DEF Connected, setState, peerStates, IInv, TypeOK, DisconnectedIffUnlinked
  <2> QED BY <1>1, <2>1, HandlerIInv DEF Connected, IInv, TypeOK, States
<1>2. ASSUME NEW p \in Peers, Disconnected(p) PROVE IInv'
  <2>1. DisconnectedIffUnlinked'
    BY <1>2 DEF Disconnected, setState, peerStates, IInv, TypeOK, DisconnectedIffUnlinked
  <2> QED BY <1>2, <2>1, HandlerIInv DEF Disconnected, IInv, TypeOK, States
<1>3. ASSUME NEW p \in Peers, MarkUnresponsive(p) PROVE IInv'
  <2>1. DisconnectedIffUnlinked'
    BY <1>3 DEF MarkUnresponsive, setState, peerStates, IInv, TypeOK, DisconnectedIffUnlinked
  <2> QED BY <1>3, <2>1, HandlerIInv DEF MarkUnresponsive, IInv, TypeOK, States
<1>4. ASSUME NEW p \in Peers, OnMessageCheck(p) PROVE IInv'
  <2>1. DisconnectedIffUnlinked'
    BY <1>4 DEF OnMessageCheck, peerStates, IInv, DisconnectedIffUnlinked
  <2> QED BY <1>4, <2>1, HandlerIInv DEF OnMessageCheck, IInv, TypeOK, States
<1>5. ASSUME NEW p \in Peers, OnMessageApply(p) PROVE IInv'
  <2>1. DisconnectedIffUnlinked'
    BY <1>5 DEF OnMessageApply, setState, peerStates, IInv, TypeOK, DisconnectedIffUnlinked
  <2> QED BY <1>5, <2>1, HandlerIInv DEF OnMessageApply, IInv, TypeOK, States
<1>6. CASE Stop
  BY <1>6 DEF Stop, peerStates, IInv, TypeOK, QueuedOnce, NothingMissed, ViewsFollow,
              CallbackApplied, Owed, DisconnectedIffUnlinked
<1>7. CASE WorkerSkip
  <2> DEFINE pid == Head(changeQueue)
  <2>1. /\ worker = "wait" /\ changeQueue # <<>> /\ changeQueue' = Tail(changeQueue)
        /\ curState[pid] = newState[pid] /\ pending' = [pending EXCEPT ![pid] = FALSE]
        /\ UNCHANGED <<tracked, newState, curState, stop, worker, event, onMessage, told, linked>>
    BY <1>7 DEF WorkerSkip, HasChange
  <2>2. QueuedOnce' /\ pid \in Peers /\ changeQueue' \in Seq(Peers)
    BY <2>1, DequeueQueue DEF IInv
  <2>3. TypeOK'
    BY <2>1, <2>2 DEF IInv, TypeOK
  <2>4. NothingMissed'
    BY <2>1, <2>2 DEF IInv, TypeOK, NothingMissed
  <2>5. ViewsFollow' /\ CallbackApplied' /\ DisconnectedIffUnlinked'
    BY <2>1 DEF IInv, ViewsFollow, CallbackApplied, Owed, DisconnectedIffUnlinked
  <2> QED BY <2>2, <2>3, <2>4, <2>5 DEF IInv
<1>8. CASE WorkerApply
  <2> DEFINE pid == Head(changeQueue)
             was == curState[pid]
             new == newState[pid]
  <2>1. /\ worker = "wait" /\ changeQueue # <<>> /\ changeQueue' = Tail(changeQueue)
        /\ was # new /\ pending' = [pending EXCEPT ![pid] = FALSE]
        /\ curState' = [curState EXCEPT ![pid] = new]
        /\ tracked' = IF new = "disconnected" THEN tracked \ {pid} ELSE tracked
        /\ IF Notifies(was, new)
             THEN /\ worker' = "callback"
                  /\ event' = [peer |-> pid, next |-> 1,
                               kind |-> IF new = "responsive" THEN "PeerConnected"
                                                              ELSE "PeerDisconnected"]
             ELSE UNCHANGED <<worker, event>>
        /\ UNCHANGED <<newState, stop, onMessage, told, linked>>
    BY <1>8 DEF WorkerApply, HasChange, Forgets
  <2>2. QueuedOnce' /\ pid \in Peers /\ changeQueue' \in Seq(Peers)
    BY <2>1, DequeueQueue DEF IInv
  <2>3. event' \in Events /\ worker' \in WorkerStates
    BY <2>1, <2>2 DEF IInv, TypeOK, Events, EventKinds, WorkerStates
  <2>4. TypeOK'
    <3>1. \A q \in Peers \ tracked' : newState'[q] = "disconnected" /\ curState'[q] = "disconnected"
      BY <2>1, <2>2 DEF IInv, TypeOK
    <3> QED BY <2>1, <2>2, <2>3, <3>1 DEF IInv, TypeOK
  <2>5. NothingMissed'
    BY <2>1, <2>2 DEF IInv, TypeOK, NothingMissed
  <2>6. DisconnectedIffUnlinked'
    BY <2>1 DEF IInv, DisconnectedIffUnlinked
  <2>7. CallbackApplied'
    BY <2>1, <2>2, ListenersAssumption DEF IInv, TypeOK, CallbackApplied, Listeners
  <2>8. ViewsFollow'
    <3> SUFFICES ASSUME NEW l \in Listeners, NEW p \in Peers
                 PROVE  (told[l][p] <=> IF Owed(l, p) THEN event.kind = "PeerDisconnected"
                                                      ELSE curState[p] = "responsive")'
      BY DEF ViewsFollow
    <3>1. told'[l][p] <=> curState[p] = "responsive"
      BY <2>1 DEF IInv, ViewsFollow, Owed
    <3>2. CASE p # pid
      BY <2>1, <3>1, <3>2 DEF IInv, TypeOK, Owed
    <3>3. CASE p = pid /\ Notifies(was, new)
      <4>1. Owed(l, p)'
        BY <2>1, <3>3 DEF Owed, Listeners
      <4>3. event'.kind = "PeerDisconnected" <=> new # "responsive"
        BY <2>1, <3>3
      <4>2. (was = "responsive") <=> ~(new = "responsive")
        BY <2>1, <3>3 DEF Notifies
      <4> QED BY <3>1, <3>3, <4>1, <4>2, <4>3
    <3>4. CASE p = pid /\ ~Notifies(was, new)
      BY <2>1, <2>2, <3>1, <3>4 DEF IInv, TypeOK, Owed, Notifies
    <3> QED BY <3>2, <3>3, <3>4
  <2> QED BY <2>2, <2>4, <2>5, <2>6, <2>7, <2>8 DEF IInv
<1>9. CASE Callback
  <2>1. /\ worker = "callback" /\ event.next \in Listeners /\ event.peer \in Peers
        /\ event.kind \in EventKinds
        /\ event.kind = "PeerConnected" <=> curState[event.peer] = "responsive"
    BY <1>9 DEF Callback, IInv, TypeOK, Events, EventKinds, CallbackApplied
  <2>2. /\ told' = [told EXCEPT ![event.next] = [@ EXCEPT ![event.peer] = event.kind = "PeerConnected"]]
        /\ event' = [event EXCEPT !.next = @ + 1]
        /\ worker' = IF event.next = NumListeners THEN "wait" ELSE "callback"
        /\ UNCHANGED <<peerStates, stop, onMessage, linked>>
    BY <1>9 DEF Callback
  <2>3. /\ event' \in Events /\ event'.peer = event.peer /\ event'.kind = event.kind
        /\ event'.next = event.next + 1
    <3>1. event \in Events /\ event.next \in Nat
      BY DEF IInv, TypeOK, Events
    <3> QED BY <2>2, <3>1 DEF Events
  <2>4. TypeOK'
    BY <2>1, <2>2, <2>3 DEF IInv, TypeOK, peerStates, WorkerStates
  <2>5. QueuedOnce' /\ NothingMissed' /\ DisconnectedIffUnlinked'
    BY <2>2 DEF IInv, QueuedOnce, NothingMissed, DisconnectedIffUnlinked, peerStates
  <2>6. CallbackApplied'
    BY <2>1, <2>2, <2>3, ListenersAssumption DEF CallbackApplied, Listeners, peerStates
  <2>7. ViewsFollow'
    <3> SUFFICES ASSUME NEW l \in Listeners, NEW p \in Peers
                 PROVE  (told[l][p] <=> IF Owed(l, p) THEN event.kind = "PeerDisconnected"
                                                      ELSE curState[p] = "responsive")'
      BY DEF ViewsFollow
    <3>1. CASE p # event.peer
      BY <2>1, <2>2, <2>3, <3>1 DEF IInv, TypeOK, ViewsFollow, Owed, peerStates
    <3>2. CASE p = event.peer /\ l = event.next
      <4>1. told'[l][p] <=> event.kind = "PeerConnected"
        BY <2>2, <3>2, Zenon DEF IInv, TypeOK
      <4>2. ~Owed(l, p)' /\ curState' = curState
        BY <2>2, <2>3, <3>2 DEF Owed, Listeners, peerStates
      <4> QED BY <2>1, <3>2, <4>1, <4>2
    <3>3. CASE p = event.peer /\ l < event.next
      BY <2>1, <2>2, <2>3, <3>3, ListenersAssumption
      DEF IInv, TypeOK, ViewsFollow, Owed, Listeners, peerStates
    <3>4. CASE p = event.peer /\ l > event.next
      BY <2>1, <2>2, <2>3, <3>4, ListenersAssumption
      DEF IInv, TypeOK, ViewsFollow, Owed, Listeners, peerStates
    <3> QED BY <2>1, <3>1, <3>2, <3>3, <3>4 DEF Listeners
  <2> QED BY <2>4, <2>5, <2>6, <2>7 DEF IInv
<1>10. CASE WorkerExit
  BY <1>10 DEF WorkerExit, peerStates, IInv, TypeOK, WorkerStates, QueuedOnce, NothingMissed,
               ViewsFollow, CallbackApplied, Owed, DisconnectedIffUnlinked
<1>11. CASE UNCHANGED vars
  <2>1. UNCHANGED <<tracked, newState, curState, pending, changeQueue, stop, worker, event, onMessage, told, linked>>
    BY <1>11, Zenon DEF vars, peerStates
  <2>2. TypeOK' /\ QueuedOnce'
    BY <2>1 DEF IInv, TypeOK, QueuedOnce
  <2>3. NothingMissed' /\ CallbackApplied' /\ DisconnectedIffUnlinked'
    BY <2>1 DEF IInv, NothingMissed, CallbackApplied, DisconnectedIffUnlinked
  <2>4. ViewsFollow'
    BY <2>1 DEF IInv, ViewsFollow, Owed
  <2> QED BY <2>2, <2>3, <2>4, Zenon DEF IInv
<1> QED
  BY <1>1, <1>2, <1>3, <1>4, <1>5, <1>6, <1>7, <1>8, <1>9, <1>10, <1>11 DEF Next, Worker

\* Type correctness of the whole manager.
THEOREM TypeCorrect == Spec => []TypeOK
BY InitIInv, NextIInv, PTL DEF Spec, IInv

\* The change queue holds each pending peer once and only tracked peers.
THEOREM QueuedOnceAlways == Spec => []QueuedOnce
BY InitIInv, NextIInv, PTL DEF Spec, IInv

\* A message that is processed late never makes a lost peer connected again.
THEOREM LinkFollowed == Spec => []DisconnectedIffUnlinked
BY InitIInv, NextIInv, PTL DEF Spec, IInv

\* A listener still owed the event in progress was last told the opposite.
LEMMA IInvAlternates == IInv => EventsAlternate
BY DEF IInv, TypeOK, Events, EventKinds, ViewsFollow, CallbackApplied, Owed, EventsAlternate, Listeners

\* Every listener sees connects and disconnects of a peer alternate.
THEOREM Alternation == Spec => []EventsAlternate
BY IInvAlternates, InitIInv, NextIInv, PTL DEF Spec

\* With the queue empty no peer has a change left to apply, and no listener is
\* owed an event.
LEMMA IInvSettles == IInv => SettledViewsAgree
<1> SUFFICES ASSUME IInv, Quiescent, NEW l \in Listeners, NEW p \in Peers
             PROVE  told[l][p] <=> newState[p] = "responsive"
  BY Zenon DEF SettledViewsAgree
<1>1. DOMAIN changeQueue = {}
  BY DEF Quiescent
<1>2. newState[p] = curState[p]
  BY <1>1 DEF IInv, QueuedOnce, NothingMissed
<1> QED BY <1>2, Zenon DEF Quiescent, IInv, ViewsFollow, Owed

\* With nothing queued, what listeners were told is what handlers last asked for.
THEOREM Settled == Spec => []SettledViewsAgree
BY IInvSettles, InitIInv, NextIInv, PTL DEF Spec

----------------------------------------------------------------------------
(* The refinement *)

\* A handler is a report about its peer, or changes nothing a listener may know.
LEMMA HandlerReports ==
  ASSUME TypeOK, NEW p \in Peers, NEW s \in States,
         setState(p, s) \/ UNCHANGED peerStates, UNCHANGED <<stop, told>>
  PROVE  Abstract!Report(p)
<1>1. UNCHANGED <<curState, told, stop>>
  BY DEF setState, peerStates
<1>2. Responsive(newState)' \in {Responsive(newState) \cup {p}, Responsive(newState) \ {p}}
  <2>1. CASE setState(p, s)
    <3>1. newState' = [newState EXCEPT ![p] = s] /\ newState \in [Peers -> States]
      BY <2>1 DEF setState, TypeOK
    <3>2. CASE s = "responsive"
      BY <3>1, <3>2 DEF Responsive
    <3>3. CASE s # "responsive"
      BY <3>1, <3>3 DEF Responsive
    <3> QED BY <3>2, <3>3
  <2>2. CASE UNCHANGED peerStates
    BY <2>2 DEF Responsive, peerStates
  <2> QED BY <2>1, <2>2
<1> QED BY <1>1, <1>2 DEF Abstract!Report, Responsive

\* Every step is a step of the abstract specification or leaves it alone.
LEMMA StepAbstract == IInv /\ [Next]_vars => [Abstract!Next]_(Abstract!avars)
<1> SUFFICES ASSUME IInv, [Next]_vars PROVE [Abstract!Next]_(Abstract!avars)
  OBVIOUS
<1>1. ASSUME NEW p \in Peers,
             Connected(p) \/ Disconnected(p) \/ MarkUnresponsive(p) \/ OnMessageCheck(p) \/ OnMessageApply(p)
      PROVE  Abstract!Report(p)
  <2>1. UNCHANGED <<stop, told>>
    BY <1>1 DEF Connected, Disconnected, MarkUnresponsive, OnMessageCheck, OnMessageApply
  <2>2. \E s \in States : setState(p, s) \/ UNCHANGED peerStates
    BY <1>1 DEF Connected, Disconnected, MarkUnresponsive, OnMessageCheck, OnMessageApply, States
  <2> QED BY <2>1, <2>2, HandlerReports DEF IInv
<1>2. CASE Stop
  BY <1>2 DEF Stop, peerStates, Responsive, Abstract!Next, Abstract!Stop
<1>3. CASE WorkerSkip \/ WorkerExit \/ UNCHANGED vars
  BY <1>3 DEF WorkerSkip, WorkerExit, vars, peerStates, Responsive, Abstract!avars
<1>4. CASE WorkerApply
  <2> DEFINE pid == Head(changeQueue)
  <2>1. /\ worker = "wait" /\ ~stop /\ changeQueue # <<>>
        /\ curState' = [curState EXCEPT ![pid] = newState[pid]]
        /\ UNCHANGED <<newState, stop, told>>
    BY <1>4 DEF WorkerApply, HasChange
  <2>2. pid \in Peers
    BY <2>1, HeadTailProperties, EmptySeq DEF IInv, TypeOK
  <2>3. \A l \in Listeners, p \in Peers : told[l][p] <=> curState[p] = "responsive"
    BY <2>1 DEF IInv, ViewsFollow, Owed
  <2>4. Responsive(curState)' = Abstract!Copied(pid, Responsive(newState), Responsive(curState))
    <3>1. CASE newState[pid] = "responsive"
      BY <2>1, <2>2, <3>1 DEF Responsive, Abstract!Copied, IInv, TypeOK
    <3>2. CASE newState[pid] # "responsive"
      BY <2>1, <2>2, <3>2 DEF Responsive, Abstract!Copied, IInv, TypeOK
    <3> QED BY <3>1, <3>2
  <2>5. CASE newState[pid] = "responsive" <=> curState[pid] = "responsive"
    <3>1. Responsive(curState)' = Responsive(curState)
      BY <2>1, <2>2, <2>5 DEF Responsive, IInv, TypeOK
    <3> QED BY <2>1, <3>1 DEF Abstract!avars, Responsive
  <2>6. CASE ~(newState[pid] = "responsive" <=> curState[pid] = "responsive")
    <3>1. ~Abstract!Agree(pid, Responsive(newState), Responsive(curState))
      BY <2>2, <2>6 DEF Abstract!Agree, Responsive
    <3>2. \A l \in Listeners :
            Abstract!Agree(pid, [k \in Listeners |-> {p \in Peers : told[k][p]}][l], Responsive(curState))
      BY <2>2, <2>3 DEF Abstract!Agree, Responsive
    <3>3. Abstract!Publish(pid)
      BY <2>1, <2>4, <3>1, <3>2, Zenon DEF Abstract!Publish, Abstract!Listeners, Listeners, Responsive
    <3> QED BY <2>2, <3>3 DEF Abstract!Next
  <2> QED BY <2>5, <2>6
<1>5. CASE Callback
  <2>0. PICK n \in Listeners, p \in Peers : n = event.next /\ p = event.peer
    BY <1>5 DEF Callback, IInv, TypeOK, Events, CallbackApplied
  <2> DEFINE new == event.kind = "PeerConnected"
             A == [l \in Listeners |-> {q \in Peers : told[l][q]}]
  <2>1. /\ worker = "callback" /\ event.kind \in EventKinds
        /\ new <=> curState[p] = "responsive"
        /\ UNCHANGED <<newState, curState, stop>>
        /\ told' = [told EXCEPT ![n] = [@ EXCEPT ![p] = new]]
    BY <1>5, <2>0 DEF Callback, IInv, TypeOK, Events, EventKinds, CallbackApplied, peerStates
  <2>2. told[n][p] <=> ~new
    BY <2>0, <2>1 DEF IInv, ViewsFollow, Owed, Listeners, EventKinds
  <2>3. \A k \in 1..(n - 1) : k \in Listeners /\ (told[k][p] <=> new)
    BY <2>0, <2>1, ListenersAssumption DEF IInv, ViewsFollow, Owed, Listeners
  <2>4. A' = [A EXCEPT ![n] = Abstract!Copied(p, Responsive(curState), @)]
    <3>1. ASSUME NEW l \in Listeners, l # n PROVE A'[l] = A[l]
      BY <2>1, <3>1 DEF IInv, TypeOK
    <3>2. A'[n] = Abstract!Copied(p, Responsive(curState), A[n])
      <4>1. CASE new
        BY <2>1, <4>1, Zenon DEF IInv, TypeOK, Abstract!Copied, Responsive
      <4>2. CASE ~new
        BY <2>1, <4>2, Zenon DEF IInv, TypeOK, Abstract!Copied, Responsive
      <4> QED BY <4>1, <4>2
    <3> QED BY <3>1, <3>2, Zenon
  <2>5. ~Abstract!Agree(p, A[n], Responsive(curState))
    BY <2>1, <2>2 DEF Abstract!Agree, Responsive
  <2>6. \A k \in 1..(n - 1) : Abstract!Agree(p, A[k], Responsive(curState))
    BY <2>1, <2>3 DEF Abstract!Agree, Responsive
  <2>7. Abstract!Deliver(n, p)
    BY <2>1, <2>4, <2>5, <2>6, Zenon DEF Abstract!Deliver, Responsive
  <2> QED BY <2>7 DEF Abstract!Next, Abstract!Listeners, Listeners
<1> QED
  BY <1>1, <1>2, <1>3, <1>4, <1>5 DEF Next, Worker, Abstract!Next

\* The event manager implements PeerEvents, apart from its fairness: each event
\* reaches every listener, in their order, before the peer's next event.
THEOREM Refinement == Spec => Abstract!Safety
<1>1. Init => Abstract!Init
  BY DEF Init, Abstract!Init, Abstract!Listeners, Listeners, Responsive
<1> QED BY <1>1, InitIInv, NextIInv, StepAbstract, PTL DEF Spec, Abstract!Safety

----------------------------------------------------------------------------
(* The queues of the first listener *)

\* PeerManager has a queue for the peers it was last told are connected, and
\* a sender at work belongs to a queue it still has.
QueuesFollow ==
  /\ queue \in [Peers -> {"none", "live", "dead"}]
  /\ sender \in [Peers -> {"idle", "sending", "failed", "marked"}]
  /\ \A p \in Peers : queue[p] # "none" <=> told[1][p]
  /\ \A p \in Peers : sender[p] # "idle" => queue[p] # "none"

LInv == IInv /\ QueuesFollow

\* The queues and their senders take no part in the event manager's own steps.
LEMMA LifecycleStep == [LNext]_lvars => [Next]_vars
<1> SUFFICES ASSUME [LNext]_lvars PROVE [Next]_vars
  OBVIOUS
<1>1. ASSUME NEW p \in Peers, Network(p) PROVE Next
  BY <1>1, Zenon DEF Network, Next
<1>2. ASSUME NEW p \in Peers, Sender(p) PROVE [Next]_vars
  <2>1. CASE MarkFailed(p) \/ OldMarks(p)
    BY <2>1, Zenon DEF MarkFailed, OldMarks, Next
  <2>2. CASE AttemptSucceeds(p) \/ AttemptsFail(p) \/ AttemptAgain(p) \/ QueueShutdown(p)
    BY <2>2, Zenon DEF AttemptSucceeds, AttemptsFail, AttemptAgain, QueueShutdown
  <2> QED BY <1>2, <2>1, <2>2, Zenon DEF Sender
<1>3. ASSUME NEW p \in Sending, SendMsg(p) PROVE UNCHANGED vars
  BY <1>3, Zenon DEF SendMsg
<1>4. CASE Listener
  BY <1>4, Zenon DEF Listener, Next, Worker
<1>5. CASE (Stop \/ WorkerSkip \/ WorkerApply \/ WorkerExit) /\ UNCHANGED queues
  BY <1>5, Zenon DEF Next, Worker
<1>6. CASE UNCHANGED lvars
  BY <1>6, Zenon DEF lvars
<1> QED BY <1>1, <1>2, <1>3, <1>4, <1>5, <1>6, Zenon DEF LNext

\* No peer is connected at first, and none has a queue.
LEMMA InitLInv == LInit => LInv
<1> SUFFICES ASSUME LInit PROVE LInv
  OBVIOUS
<1>1. 1 \in Listeners
  BY ListenersAssumption DEF Listeners
<1>2. QueuesFollow
  BY <1>1 DEF LInit, Init, QueuesFollow
<1> QED BY <1>2, InitIInv DEF LInit, LInv

\* Without an event, and with the queue of one peer staying what it is or dying,
\* the queues still follow what PeerManager was told.
LEMMA SenderFollows ==
  ASSUME QueuesFollow, NEW p \in Peers, Sender(p) PROVE QueuesFollow'
<1>1. UNCHANGED told
  BY DEF Sender, AttemptSucceeds, AttemptsFail, AttemptAgain, MarkFailed, QueueShutdown, OldMarks,
         MarkUnresponsive, vars
<1>2. CASE AttemptSucceeds(p)
  BY <1>1, <1>2 DEF AttemptSucceeds, QueuesFollow
<1>3. CASE AttemptsFail(p)
  BY <1>1, <1>3 DEF AttemptsFail, QueuesFollow
<1>4. CASE AttemptAgain(p)
  BY <1>1, <1>4 DEF AttemptAgain, QueuesFollow
<1>5. CASE MarkFailed(p)
  BY <1>1, <1>5 DEF MarkFailed, QueuesFollow
<1>6. CASE QueueShutdown(p)
  BY <1>1, <1>6 DEF QueueShutdown, QueuesFollow
<1>7. CASE OldMarks(p)
  BY <1>1, <1>7 DEF OldMarks, QueuesFollow
<1> QED BY <1>2, <1>3, <1>4, <1>5, <1>6, <1>7 DEF Sender

\* The first listener is called: PeerManager.Connected finds no queue and makes
\* one, PeerManager.Disconnected removes the one there is.
LEMMA ListenerFollows ==
  ASSUME LInv, Listener PROVE QueuesFollow'
<1>1. /\ event.next \in Listeners /\ event.peer \in Peers /\ event.kind \in EventKinds
      /\ told \in [Listeners -> [Peers -> BOOLEAN]] /\ 1 \in Listeners
  BY ListenersAssumption DEF Listener, Callback, LInv, IInv, TypeOK, Events, EventKinds, CallbackApplied, Listeners
<1>2. told' = [told EXCEPT ![event.next] = [@ EXCEPT ![event.peer] = event.kind = "PeerConnected"]]
  BY DEF Listener, Callback
<1>3. CASE event.next # 1
  <2>1. told'[1] = told[1]
    BY <1>1, <1>2, <1>3
  <2>2. UNCHANGED <<queue, sender>>
    BY <1>3 DEF Listener, queues
  <2> QED BY <2>1, <2>2 DEF LInv, QueuesFollow
<1>4. CASE event.next = 1
  <2> DEFINE p == event.peer
  <2>1. /\ told'[1][p] <=> event.kind = "PeerConnected"
        /\ \A q \in Peers \ {p} : told'[1][q] = told[1][q]
    BY <1>1, <1>2, <1>4, Zenon
  <2>2. CASE event.kind = "PeerConnected"
    <3>1. queue' = [queue EXCEPT ![p] = IF @ = "none" THEN "live" ELSE @] /\ sender' = sender
      BY <1>4, <2>2 DEF Listener, PeerConnected
    <3> QED BY <1>1, <2>1, <2>2, <3>1 DEF LInv, QueuesFollow
  <2>3. CASE event.kind # "PeerConnected"
    <3>1. queue' = [queue EXCEPT ![p] = "none"] /\ sender' = [sender EXCEPT ![p] = "idle"]
      BY <1>4, <2>3 DEF Listener, PeerDisconnected
    <3> QED BY <1>1, <2>1, <2>3, <3>1 DEF LInv, QueuesFollow
  <2> QED BY <2>2, <2>3
<1> QED BY <1>3, <1>4

\* The invariant is inductive.
LEMMA NextLInv == LInv /\ [LNext]_lvars => LInv'
<1> SUFFICES ASSUME LInv, [LNext]_lvars PROVE LInv'
  OBVIOUS
<1>1. IInv'
  BY LifecycleStep, NextIInv DEF LInv
<1>2. QueuesFollow'
  <2>1. ASSUME UNCHANGED <<told, queue, sender>> PROVE QueuesFollow'
    BY <2>1 DEF LInv, QueuesFollow
  <2>2. ASSUME NEW p \in Peers, Network(p) PROVE QueuesFollow'
    BY <2>1, <2>2 DEF Network, Connected, Disconnected, OnMessageApply, OnMessageCheck
  <2>3. ASSUME NEW p \in Peers, Sender(p) PROVE QueuesFollow'
    BY <2>3, SenderFollows DEF LInv
  <2>4. ASSUME NEW p \in Sending, SendMsg(p) PROVE QueuesFollow'
    BY <2>4, Zenon DEF SendMsg, vars, LInv, QueuesFollow
  <2>5. CASE Listener
    BY <2>5, ListenerFollows
  <2>6. CASE (Stop \/ WorkerSkip \/ WorkerApply \/ WorkerExit) /\ UNCHANGED queues
    BY <2>1, <2>6 DEF Stop, WorkerSkip, WorkerApply, WorkerExit, queues
  <2>7. CASE UNCHANGED lvars
    BY <2>1, <2>7 DEF lvars, vars, queues
  <2> QED
    BY <2>2, <2>3, <2>4, <2>5, <2>6, <2>7 DEF LNext
<1> QED BY <1>1, <1>2 DEF LInv

\* With no event left to deliver, PeerManager has a queue for exactly the
\* responsive peers, whichever way sends to them ended in between.
THEOREM QueuesSettled == LSpec => []QueueForResponsive
<1>1. LInv => QueueForResponsive
  <2> SUFFICES ASSUME LInv, Quiescent, NEW p \in Peers
               PROVE  queue[p] # "none" <=> newState[p] = "responsive"
    BY Zenon DEF QueueForResponsive
  <2>1. 1 \in Listeners
    BY ListenersAssumption DEF Listeners
  <2>2. told[1][p] <=> newState[p] = "responsive"
    BY <2>1, IInvSettles DEF LInv, SettledViewsAgree
  <2> QED BY <2>2 DEF LInv, QueuesFollow
<1> QED BY <1>1, InitLInv, NextLInv, PTL DEF LSpec

\* What the event manager alone guarantees it guarantees with its first
\* listener and the senders attached.
THEOREM LifecycleEvents ==
  LSpec => [](EventsAlternate /\ DisconnectedIffUnlinked /\ SettledViewsAgree)
<1>1. LInv => EventsAlternate /\ DisconnectedIffUnlinked /\ SettledViewsAgree
  BY IInvAlternates, IInvSettles DEF LInv, IInv
<1> QED BY <1>1, InitLInv, NextLInv, PTL DEF LSpec

\* They still see the events that PeerEvents allows, in its order.
THEOREM LifecycleRefinement == LSpec => Abstract!Safety
<1>1. Init => Abstract!Init
  BY DEF Init, Abstract!Init, Abstract!Listeners, Listeners, Responsive
<1>2. LInit => Abstract!Init
  BY <1>1 DEF LInit
<1>3. LInv /\ [LNext]_lvars => [Abstract!Next]_(Abstract!avars)
  BY LifecycleStep, StepAbstract DEF LInv
<1> QED BY <1>2, <1>3, InitLInv, NextLInv, PTL DEF LSpec, Abstract!Safety
=============================================================================
