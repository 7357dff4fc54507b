--------------------------- MODULE PeerLifecycle ---------------------------
(***************************************************************************)
(* How a peer's message queue lives and dies: the connection events of     *)
(* ConnectEventManager, whose first listener, the client, creates and      *)
(* removes the queue (PeerManager.Connected and Disconnected), and the     *)
(* sender of that queue (streamMessageSender.multiAttempt in               *)
(* network/ipfs_impl.go), which retries, marks the peer unresponsive and   *)
(* makes the queue shut itself down.                                       *)
(***************************************************************************)
EXTENDS ConnectEventManager

CONSTANTS MaxRetries,   \* attempts to send one message
          Sending       \* peers there is something to send to

ASSUME RetriesAssumption == MaxRetries \in Nat \ {0}

VARIABLES
  queue,     \* the queue PeerManager has for the peer: "none", "live" or "dead" (shut down)
  sender,    \* its sendMessage: "idle", "sending", "failed" (all attempts), "marked" (unresponsive)
  attempt,   \* multiAttempt's i
  heard,     \* peers heard of since their last send failed
  old        \* peers with a removed queue whose sender has yet to mark the peer unresponsive

queues == <<queue, sender, attempt, heard, old>>
lvars == <<vars, queues>>

LInit ==
  /\ Init
  /\ queue = [p \in Peers |-> "none"]
  /\ sender = [p \in Peers |-> "idle"]
  /\ attempt = [p \in Peers |-> 0]
  /\ heard = {}
  /\ old = {}

\* PeerManager.Connected: a peer that has a queue keeps it.
PeerConnected(p) ==
  /\ queue' = [queue EXCEPT ![p] = IF @ = "none" THEN "live" ELSE @]
  /\ UNCHANGED <<sender, attempt, heard, old>>

PeerDisconnected_KeepsDead(p) ==
  /\ queue' = [queue EXCEPT ![p] = IF @ = "dead" THEN @ ELSE "none"]
  /\ old' = IF sender[p] = "failed" THEN old \cup {p} ELSE old
  /\ sender' = [sender EXCEPT ![p] = "idle"]
  /\ UNCHANGED <<attempt, heard>>

\* PeerManager.Disconnected: the queue is dropped and shut down.  A sender
\* in the middle of its attempts sees the cancelled context and bails out;
\* one that has just checked it goes on to mark the peer.
PeerDisconnected(p) ==
  /\ queue' = [queue EXCEPT ![p] = "none"]
  /\ old' = IF sender[p] = "failed" THEN old \cup {p} ELSE old
  /\ sender' = [sender EXCEPT ![p] = "idle"]
  /\ UNCHANGED <<attempt, heard>>

Listener ==
  /\ Callback
  /\ IF event.next # 1 THEN UNCHANGED queues
     ELSE IF event.kind = "PeerConnected" THEN PeerConnected(event.peer)
     ELSE PeerDisconnected(event.peer)

SendMsg(p) ==
  /\ queue[p] = "live" /\ sender[p] = "idle"
  /\ sender' = [sender EXCEPT ![p] = "sending"]
  /\ attempt' = [attempt EXCEPT ![p] = 0]
  /\ UNCHANGED <<vars, queue, heard, old>>

AttemptSucceeds(p) ==
  /\ sender[p] = "sending"
  /\ sender' = [sender EXCEPT ![p] = "idle"]
  /\ UNCHANGED <<vars, queue, attempt, heard, old>>

\* The last attempt fails, or the peer does not speak the protocol.
AttemptsFail(p) ==
  /\ sender[p] = "sending"
  /\ sender' = [sender EXCEPT ![p] = "failed"]
  /\ heard' = heard \ {p}
  /\ UNCHANGED <<vars, queue, attempt, old>>

AttemptAgain(p) ==
  /\ sender[p] = "sending" /\ attempt[p] < MaxRetries - 1
  /\ attempt' = [attempt EXCEPT ![p] = @ + 1]
  /\ UNCHANGED <<vars, queue, sender, heard, old>>

MarkFailed_NoMark(p) ==
  /\ sender[p] = "failed"
  /\ sender' = [sender EXCEPT ![p] = "marked"]
  /\ UNCHANGED <<vars, queue, attempt, heard, old>>

MarkFailed(p) ==
  /\ sender[p] = "failed"
  /\ MarkUnresponsive(p)
  /\ sender' = [sender EXCEPT ![p] = "marked"]
  /\ UNCHANGED <<queue, attempt, heard, old>>

\* sendMessage returns after mq.Shutdown.
QueueShutdown(p) ==
  /\ sender[p] = "marked"
  /\ queue' = [queue EXCEPT ![p] = "dead"]
  /\ sender' = [sender EXCEPT ![p] = "idle"]
  /\ UNCHANGED <<vars, attempt, heard, old>>

OldMarks(p) ==
  /\ p \in old
  /\ MarkUnresponsive(p)
  /\ old' = old \ {p}
  /\ UNCHANGED <<queue, sender, attempt, heard>>

Sender(p) ==
  \/ AttemptSucceeds(p) \/ AttemptsFail(p) \/ AttemptAgain(p)
  \/ MarkFailed(p) \/ QueueShutdown(p) \/ OldMarks(p)

Network(p) ==
  /\ \/ (Connected(p) \/ OnMessageApply(p)) /\ heard' = heard \cup {p}
     \/ (Disconnected(p) \/ OnMessageCheck(p)) /\ UNCHANGED heard
  /\ UNCHANGED <<queue, sender, attempt, old>>

LNext ==
  \/ \E p \in Peers : \/ Network(p)
                      \/ Sender(p)
  \/ \E p \in Sending : SendMsg(p)
  \/ (Stop \/ WorkerSkip \/ WorkerApply \/ WorkerExit) /\ UNCHANGED queues
  \/ Listener

\* The worker runs, listeners return, and a send ends one way or the other.
LFairness ==
  /\ WF_lvars(((WorkerSkip \/ WorkerApply \/ WorkerExit) /\ UNCHANGED queues) \/ Listener)
  /\ \A p \in Peers : WF_lvars(Sender(p))

LSpec == LInit /\ [][LNext]_lvars /\ LFairness

----------------------------------------------------------------------------
(* Properties *)

\* Once the event worker has nothing left to do, PeerManager has a queue for
\* exactly the peers that are responsive.
QueueForResponsive ==
  Quiescent => \A p \in Peers : queue[p] # "none" <=> newState[p] = "responsive"

\* "the networking layer will emit a Disconnect event and the MessageQueue will
\* get cleaned up" (messagequeue.go:516): a queue that shut itself down is
\* removed, unless the peer is heard of again; then the worker may find nothing
\* changed, and the dead queue stays.
DeadQueueRemoved ==
  \A p \in Peers :
    queue[p] = "dead" ~> queue[p] # "dead" \/ p \in heard \/ stop
=============================================================================
