---------------------------- MODULE PeerManager ----------------------------
(***************************************************************************)
(* client/internal/peermanager: PeerManager keeps a message queue for each *)
(* connected peer and tells sessions when peers come and go; its           *)
(* peerWantManager records which want-blocks and want-haves each peer was  *)
(* sent, so that none is sent twice and every one is cancelled.            *)
(*                                                                         *)
(* All operations run under PeerManager.pqLk, so each is one action.       *)
(* peerQueues and peerWants have the same keys: both are written only by   *)
(* Connected and Disconnected, in one critical section.                    *)
(***************************************************************************)
EXTENDS Integers, FiniteSets, Sequences

CONSTANTS Peers,      \* peer IDs
          Cids,       \* block keys
          Sessions,   \* session IDs
          CancelLists \* the key lists SendCancels is called with

ASSUME CidsFinite == IsFiniteSet(Cids)
ASSUME CancelListsAreLists == CancelLists \subseteq Seq(Cids)

VARIABLES
  peerQueues,      \* connected peers: keys of PeerManager.peerQueues and of pwm.peerWants
  wantBlocks,      \* pwm.peerWants[p].wantBlocks; empty for a peer that is not connected
  wantHaves,       \* pwm.peerWants[p].wantHaves; likewise
  wantPeers,       \* reverse index: the peers sent a want for the key
  broadcastWants,  \* keys broadcast to every peer
  wantGauge,       \* metric: wants
  wantBlockGauge,  \* metric: want-blocks
  queued,          \* queued[p]: keys p's queue was asked to want and not to cancel
  sessions,        \* sessions known to the manager
  peerSessions,    \* peerSessions[p]: sessions to tell about p
  signalled        \* signalled[s][p]: the last SignalAvailability since s registered for p

wantState == <<wantBlocks, wantHaves, wantPeers, broadcastWants, wantGauge, wantBlockGauge, queued>>
sessionState == <<sessions, peerSessions, signalled>>
vars == <<peerQueues, wantState, sessionState>>

Signals == {"none", "available", "unavailable"}
Keys(ks) == {ks[i] : i \in DOMAIN ks}

Init ==
  /\ peerQueues = {}
  /\ wantBlocks = [p \in Peers |-> {}]
  /\ wantHaves = [p \in Peers |-> {}]
  /\ wantPeers = [c \in Cids |-> {}]
  /\ broadcastWants = {}
  /\ wantGauge = 0
  /\ wantBlockGauge = 0
  /\ queued = [p \in Peers |-> {}]
  /\ sessions = {}
  /\ peerSessions = [p \in Peers |-> {}]
  /\ signalled = [s \in Sessions |-> [p \in Peers |-> "none"]]

----------------------------------------------------------------------------
(* wantPeerCounts: what the peers in P, taken from the index, want of c *)

WantBlockSent(c, P) == \E p \in P : c \in wantBlocks[p]

WantedIgnoringBroadcast(c, P) == \E p \in P : c \in wantBlocks[p] \cup wantHaves[p]

Wanted(c, P) == c \in broadcastWants \/ \E p \in P : c \in wantBlocks[p] \cup wantHaves[p]

----------------------------------------------------------------------------
(* Peers *)

signalConnectsOnly(p, signal) ==
  signalled' = [s \in Sessions |->
                  IF s \in peerSessions[p] \cap sessions /\ signal = "available"
                  THEN [signalled[s] EXCEPT ![p] = signal] ELSE signalled[s]]

signalAvailability(p, signal) ==
  signalled' = [s \in Sessions |->
                  IF s \in peerSessions[p] \cap sessions
                  THEN [signalled[s] EXCEPT ![p] = signal] ELSE signalled[s]]

\* A new peer gets a queue, which is sent the current broadcast wants.
Connected(p) ==
  /\ peerQueues' = peerQueues \cup {p}
  /\ queued' = IF p \in peerQueues THEN queued ELSE [queued EXCEPT ![p] = broadcastWants]
  /\ signalAvailability(p, "available")
  /\ UNCHANGED <<wantBlocks, wantHaves, wantPeers, broadcastWants, wantGauge, wantBlockGauge,
                 sessions, peerSessions>>

reverseIndexRemove_Blocks(p) ==
  [c \in Cids |-> IF c \in wantBlocks[p] THEN wantPeers[c] \ {p} ELSE wantPeers[c]]

\* The index without the peer's wants.
reverseIndexRemove(p) ==
  [c \in Cids |-> IF c \in wantBlocks[p] \cup wantHaves[p] THEN wantPeers[c] \ {p} ELSE wantPeers[c]]

\* removePeer: forget the peer's wants; the gauges drop by the keys that no
\* other peer wants.
removePeer(p) ==
  LET others(c) == wantPeers[c] \ {p}
      lastBlocks == {c \in wantBlocks[p] : ~WantBlockSent(c, others(c))}
      lastWants(ks) == {c \in ks : ~Wanted(c, others(c))}
  IN /\ wantBlockGauge' = wantBlockGauge - Cardinality(lastBlocks)
     /\ wantGauge' = wantGauge - Cardinality(lastWants(wantBlocks[p]))
                               - Cardinality(lastWants(wantHaves[p]))
     /\ wantPeers' = reverseIndexRemove(p)
     /\ wantBlocks' = [wantBlocks EXCEPT ![p] = {}]
     /\ wantHaves' = [wantHaves EXCEPT ![p] = {}]

Disconnected(p) ==
  /\ p \in peerQueues
  /\ signalAvailability(p, "unavailable")
  /\ peerQueues' = peerQueues \ {p}
  /\ queued' = [queued EXCEPT ![p] = {}]
  /\ removePeer(p)
  /\ UNCHANGED <<broadcastWants, sessions, peerSessions>>

----------------------------------------------------------------------------
(* Wants *)

\* Keys that are not broadcast yet become broadcast wants; a peer that was
\* already sent a want for one of them is not sent it again.
BroadcastWantHaves(ks) ==
  LET unsent == ks \ broadcastWants IN
  /\ broadcastWants' = broadcastWants \cup unsent
  /\ wantGauge' = wantGauge + Cardinality({c \in unsent : wantPeers[c] = {}})
  /\ queued' = [p \in Peers |->
                  IF p \in peerQueues
                  THEN queued[p] \cup (unsent \ (wantBlocks[p] \cup wantHaves[p]))
                  ELSE queued[p]]
  /\ UNCHANGED <<peerQueues, wantBlocks, wantHaves, wantPeers, wantBlockGauge, sessionState>>

\* A want-block is sent unless one was sent before; a want-have unless any
\* want was, the broadcast included.  A peer without a queue is ignored.
SendWants(p, blocks, haves) ==
  LET fltWantBlks == blocks \ wantBlocks[p]
      fltWantHvs == haves \ (broadcastWants \cup wantBlocks[p] \cup fltWantBlks \cup wantHaves[p])
      sent == fltWantBlks \cup fltWantHvs
  IN /\ p \in peerQueues
     /\ wantBlockGauge' = wantBlockGauge +
          Cardinality({c \in fltWantBlks : ~WantBlockSent(c, wantPeers[c])})
     /\ wantGauge' = wantGauge + Cardinality({c \in sent : ~Wanted(c, wantPeers[c])})
     /\ wantBlocks' = [wantBlocks EXCEPT ![p] = @ \cup fltWantBlks]
     /\ wantHaves' = [wantHaves EXCEPT ![p] = (@ \ fltWantBlks) \cup fltWantHvs]
     /\ wantPeers' = [c \in Cids |-> IF c \in sent THEN wantPeers[c] \cup {p} ELSE wantPeers[c]]
     /\ queued' = [queued EXCEPT ![p] = @ \cup sent]
     /\ UNCHANGED <<peerQueues, broadcastWants, sessionState>>

\* The peers sendCancels visits: all of them if a broadcast want is among
\* the keys, else the ones in the index.
CancelPeers(ks) ==
  IF ks \cap broadcastWants # {} THEN peerQueues ELSE UNION {wantPeers[c] : c \in ks}

\* The keys a visited peer's queue is asked to cancel.
ToCancel(p, ks) == (ks \cap broadcastWants) \cup (ks \cap (wantBlocks[p] \cup wantHaves[p]))

\* The broadcast wants and the want-haves were left alone.
SendCancels_BlocksOnly(cancelKs) ==
  LET ks == Keys(cancelKs) IN
  /\ wantBlocks' = [p \in Peers |-> wantBlocks[p] \ ks]
  /\ wantPeers' = [c \in Cids |-> {p \in wantPeers[c] : c \in wantBlocks'[p] \cup wantHaves[p]}]
  /\ queued' = [p \in Peers |->
                  IF p \in peerQueues THEN wantBlocks'[p] \cup wantHaves[p] \cup broadcastWants ELSE {}]
  /\ wantBlockGauge' = Cardinality(UNION {wantBlocks'[p] : p \in peerQueues})
  /\ wantGauge' = Cardinality(broadcastWants \cup {c \in Cids : wantPeers'[c] # {}})
  /\ UNCHANGED <<peerQueues, wantHaves, broadcastWants, sessionState>>

\* sendCancels: the gauges drop once for each element of the list.
SendCancels(cancelKs) ==
  LET ks == Keys(cancelKs)
      visited == CancelPeers(ks) \cap peerQueues
  IN /\ wantBlockGauge' = wantBlockGauge - Cardinality(
          {i \in DOMAIN cancelKs : WantBlockSent(cancelKs[i], wantPeers[cancelKs[i]])})
     /\ wantGauge' = wantGauge - Cardinality(
          {i \in DOMAIN cancelKs : Wanted(cancelKs[i], wantPeers[cancelKs[i]])})
     /\ queued' = [p \in Peers |-> IF p \in visited THEN queued[p] \ ToCancel(p, ks) ELSE queued[p]]
     /\ wantBlocks' = [p \in Peers |-> IF p \in visited THEN wantBlocks[p] \ ks ELSE wantBlocks[p]]
     /\ wantHaves' = [p \in Peers |-> IF p \in visited THEN wantHaves[p] \ ks ELSE wantHaves[p]]
     /\ broadcastWants' = broadcastWants \ ks
     /\ wantPeers' = [c \in Cids |-> IF c \in ks THEN {} ELSE wantPeers[c]]
     /\ UNCHANGED <<peerQueues, sessionState>>

\* getWants and getWantBlocks: what the node reports to want.
getWants == broadcastWants \cup {c \in Cids : wantPeers[c] # {}}
getWantBlocks == UNION {wantBlocks[p] : p \in peerQueues}

----------------------------------------------------------------------------
(* Sessions (under psLk) *)

RegisterSession(p, s) ==
  /\ sessions' = sessions \cup {s}
  /\ peerSessions' = [peerSessions EXCEPT ![p] = @ \cup {s}]
  /\ UNCHANGED <<peerQueues, wantState, signalled>>

UnregisterSession(s) ==
  /\ peerSessions' = [p \in Peers |-> peerSessions[p] \ {s}]
  /\ sessions' = sessions \ {s}
  /\ signalled' = [signalled EXCEPT ![s] = [p \in Peers |-> "none"]]
  /\ UNCHANGED <<peerQueues, wantState>>

Next ==
  \/ \E p \in Peers : Connected(p) \/ Disconnected(p)
  \/ \E ks \in SUBSET Cids : BroadcastWantHaves(ks)
  \/ \E p \in Peers, blocks, haves \in SUBSET Cids : SendWants(p, blocks, haves)
  \/ \E ks \in CancelLists : SendCancels(ks)
  \/ \E p \in Peers, s \in Sessions : RegisterSession(p, s)
  \/ \E s \in Sessions : UnregisterSession(s)

Spec == Init /\ [][Next]_vars

----------------------------------------------------------------------------
(* Properties *)

\* Types of the variables; only a connected peer has wants.
TypeOK ==
  /\ peerQueues \subseteq Peers
  /\ wantBlocks \in [Peers -> SUBSET Cids]
  /\ wantHaves \in [Peers -> SUBSET Cids]
  /\ wantPeers \in [Cids -> SUBSET Peers]
  /\ broadcastWants \subseteq Cids
  /\ wantGauge \in Int
  /\ wantBlockGauge \in Int
  /\ queued \in [Peers -> SUBSET Cids]
  /\ sessions \subseteq Sessions
  /\ peerSessions \in [Peers -> SUBSET Sessions]
  /\ signalled \in [Sessions -> [Peers -> Signals]]
  /\ \A p \in Peers \ peerQueues : wantBlocks[p] = {} /\ wantHaves[p] = {}

\* The reverse index holds exactly the wants of the connected peers, and no
\* key is both a want-block and a want-have of a peer: the two branches of
\* wantPeerCounts and sendCancels that log an index error are unreachable.
IndexExact ==
  /\ \A c \in Cids, p \in Peers :
       p \in wantPeers[c] <=> p \in peerQueues /\ c \in wantBlocks[p] \cup wantHaves[p]
  /\ \A p \in Peers : wantBlocks[p] \cap wantHaves[p] = {}

\* "A peer's wants is the _union_ of the broadcast wants and the wants in
\* this list": what a peer's queue was asked for and not to cancel is what
\* the manager has on record, so a later cancel reaches every peer that was
\* sent the want, and no want is recorded that was not passed on.
QueuesFollowWants ==
  \A p \in peerQueues : queued[p] = wantBlocks[p] \cup wantHaves[p] \cup broadcastWants

\* The metrics count the keys that are wanted and the keys some peer was
\* sent a want-block for, through any order of wants, cancels, connects and
\* disconnects ("Keeps track of the number of active want-haves & want-blocks").
GaugesExact ==
  /\ wantGauge = Cardinality(getWants)
  /\ wantBlockGauge = Cardinality(getWantBlocks)

\* A session registered for a peer was last told whether it is connected,
\* if it was told anything since it registered.
SignalsFollowConnections ==
  \A s \in Sessions, p \in Peers :
    /\ signalled[s][p] = "available" => p \in peerQueues
    /\ signalled[s][p] = "unavailable" => p \notin peerQueues

\* Whatever way a key was asked for (want-block, want-have, an upgrade of one
\* to the other, a broadcast before or after the peer connected) and although
\* sendCancels visits only the peers its index names, a cancel takes it back
\* from every queue: the manager implements the abstract WantLedger.
Ledger == INSTANCE WantLedger
  WITH connected <- peerQueues, everywhere <- broadcastWants, asked <- queued
ImplementsWantLedger == Ledger!Spec
=============================================================================
