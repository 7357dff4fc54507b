------------------------- MODULE PeerManagerProofs -------------------------
(***************************************************************************)
(* PeerManager for any peers, keys and sessions.  The index, the queues    *)
(* and the signals are right whatever lists are cancelled (IInv); the      *)
(* gauges are right when no cancelled list repeats a key (GInv).           *)
(***************************************************************************)
EXTENDS PeerManager, FiniteSetTheorems, TLAPS

\* Only a registered session is told anything.
SignalledRegistered ==
  \A s \in Sessions, p \in Peers :
    /\ s \in peerSessions[p] => s \in sessions
    /\ signalled[s][p] # "none" => s \in peerSessions[p]

IInv ==
  /\ TypeOK
  /\ IndexExact
  /\ QueuesFollowWants
  /\ SignalsFollowConnections
  /\ SignalledRegistered

\* A set of keys has a size.
LEMMA KeysCard ==
  ASSUME NEW S \in SUBSET Cids
  PROVE  IsFiniteSet(S) /\ Cardinality(S) \in Int /\ Cardinality(S) \in Nat
BY CidsFinite, FS_Subset, FS_CardinalityType

\* So has a set of positions in a list.
LEMMA PositionsCard ==
  ASSUME NEW ks \in Seq(Cids), NEW I \in SUBSET DOMAIN ks
  PROVE  IsFiniteSet(I) /\ Cardinality(I) \in Int
<1>1. DOMAIN ks = 1..Len(ks) /\ Len(ks) \in Nat
  OBVIOUS
<1>2. IsFiniteSet(DOMAIN ks)
  BY <1>1, FS_Interval
<1>3. IsFiniteSet(I)
  BY <1>2, FS_Subset
<1> QED BY <1>3, FS_CardinalityType

\* The initial state satisfies the invariant.
LEMMA InitIInv == Init => IInv
BY DEF Init, IInv, TypeOK, IndexExact, QueuesFollowWants, SignalsFollowConnections,
       SignalledRegistered, Signals

\* Telling the sessions of p that it is, or is not, connected.
LEMMA SignalIInv ==
  ASSUME TypeOK, SignalsFollowConnections, SignalledRegistered, NEW p \in Peers,
         NEW signal \in Signals, signalAvailability(p, signal), UNCHANGED <<sessions, peerSessions>>,
         \/ signal = "available" /\ peerQueues' = peerQueues \cup {p}
         \/ signal = "unavailable" /\ peerQueues' = peerQueues \ {p}
  PROVE  /\ signalled' \in [Sessions -> [Peers -> Signals]]
         /\ SignalsFollowConnections' /\ SignalledRegistered'
<1>1. \A s \in Sessions, q \in Peers :
        signalled'[s][q] = IF q = p /\ s \in peerSessions[p] \cap sessions
                           THEN signal ELSE signalled[s][q]
  BY DEF signalAvailability, TypeOK
<1>2. signalled' \in [Sessions -> [Peers -> Signals]]
  BY DEF signalAvailability, TypeOK
<1>3. SignalledRegistered'
  BY <1>1 DEF SignalledRegistered, TypeOK
<1>4. SignalsFollowConnections'
  <2> SUFFICES ASSUME NEW s \in Sessions, NEW q \in Peers
               PROVE  /\ signalled'[s][q] = "available" => q \in peerQueues'
                      /\ signalled'[s][q] = "unavailable" => q \notin peerQueues'
    BY DEF SignalsFollowConnections
  <2>1. CASE q # p
    BY <1>1, <2>1 DEF SignalsFollowConnections
  <2>2. CASE q = p /\ s \in peerSessions[p] \cap sessions
    BY <1>1, <2>2
  <2>3. CASE q = p /\ s \notin peerSessions[p] \cap sessions
    BY <1>1, <2>3 DEF SignalledRegistered
  <2> QED BY <2>1, <2>2, <2>3
<1> QED BY <1>2, <1>3, <1>4

\* The invariant is inductive: one step per action.
LEMMA NextIInv == IInv /\ [Next]_vars => IInv'
<1> SUFFICES ASSUME IInv, [Next]_vars PROVE IInv'
  OBVIOUS
<1>1. ASSUME NEW p \in Peers, Connected(p) PROVE IInv'
  <2>1. /\ signalled' \in [Sessions -> [Peers -> Signals]]
        /\ SignalsFollowConnections' /\ SignalledRegistered'
    BY <1>1, SignalIInv DEF Connected, IInv, Signals
  <2>2. TypeOK'
    BY <1>1, <2>1 DEF Connected, IInv, TypeOK
  <2>3. IndexExact'
    BY <1>1 DEF Connected, IInv, TypeOK, IndexExact
  <2>4. QueuesFollowWants'
    BY <1>1 DEF Connected, IInv, TypeOK, QueuesFollowWants
  <2> QED BY <2>1, <2>2, <2>3, <2>4 DEF IInv
<1>2. ASSUME NEW p \in Peers, Disconnected(p) PROVE IInv'
  <2>1. /\ signalled' \in [Sessions -> [Peers -> Signals]]
        /\ SignalsFollowConnections' /\ SignalledRegistered'
    BY <1>2, SignalIInv DEF Disconnected, IInv, Signals
  <2>2. /\ wantBlocks' = [wantBlocks EXCEPT ![p] = {}] /\ wantHaves' = [wantHaves EXCEPT ![p] = {}]
        /\ wantPeers' = [c \in Cids |-> IF c \in wantBlocks[p] \cup wantHaves[p]
                                        THEN wantPeers[c] \ {p} ELSE wantPeers[c]]
        /\ peerQueues' = peerQueues \ {p} /\ queued' = [queued EXCEPT ![p] = {}]
        /\ UNCHANGED <<broadcastWants, sessions, peerSessions>>
    BY <1>2 DEF Disconnected, removePeer, reverseIndexRemove
  <2>3. wantGauge' \in Int /\ wantBlockGauge' \in Int
    BY <1>2, KeysCard DEF Disconnected, removePeer, IInv, TypeOK
  <2>4. TypeOK'
    BY <2>1, <2>2, <2>3 DEF IInv, TypeOK
  <2>5. IndexExact'
    BY <2>2 DEF IInv, TypeOK, IndexExact
  <2>6. QueuesFollowWants'
    BY <2>2 DEF IInv, TypeOK, QueuesFollowWants
  <2> QED BY <2>1, <2>4, <2>5, <2>6 DEF IInv
<1>3. ASSUME NEW ks \in SUBSET Cids, BroadcastWantHaves(ks) PROVE IInv'
  <2>1. wantGauge' \in Int
    BY <1>3, KeysCard DEF BroadcastWantHaves, IInv, TypeOK
  <2>2. TypeOK'
    BY <1>3, <2>1 DEF BroadcastWantHaves, IInv, TypeOK, sessionState
  <2>3. IndexExact'
    BY <1>3 DEF BroadcastWantHaves, IInv, IndexExact
  <2>4. QueuesFollowWants'
    BY <1>3 DEF BroadcastWantHaves, IInv, TypeOK, QueuesFollowWants
  <2>5. SignalsFollowConnections' /\ SignalledRegistered'
    BY <1>3 DEF BroadcastWantHaves, IInv, SignalsFollowConnections, SignalledRegistered, sessionState
  <2> QED BY <2>2, <2>3, <2>4, <2>5 DEF IInv
<1>4. ASSUME NEW p \in Peers, NEW blocks \in SUBSET Cids, NEW haves \in SUBSET Cids,
             SendWants(p, blocks, haves)
      PROVE  IInv'
  <2> DEFINE fltWantBlks == blocks \ wantBlocks[p]
             fltWantHvs == haves \ (broadcastWants \cup wantBlocks[p] \cup fltWantBlks \cup wantHaves[p])
             sent == fltWantBlks \cup fltWantHvs
  <2>1. /\ p \in peerQueues
        /\ wantBlocks' = [wantBlocks EXCEPT ![p] = @ \cup fltWantBlks]
        /\ wantHaves' = [wantHaves EXCEPT ![p] = (@ \ fltWantBlks) \cup fltWantHvs]
        /\ wantPeers' = [c \in Cids |-> IF c \in sent THEN wantPeers[c] \cup {p} ELSE wantPeers[c]]
        /\ queued' = [queued EXCEPT ![p] = @ \cup sent]
        /\ UNCHANGED <<peerQueues, broadcastWants, sessions, peerSessions, signalled>>
    BY <1>4, Zenon DEF SendWants, sessionState
  <2>2. wantGauge' \in Int /\ wantBlockGauge' \in Int
    BY <1>4, KeysCard DEF SendWants, IInv, TypeOK
  <2>3. TypeOK'
    BY <2>1, <2>2, Zenon DEF IInv, TypeOK
  <2>4. IndexExact'
    <3>1. /\ wantBlocks \in [Peers -> SUBSET Cids] /\ wantHaves \in [Peers -> SUBSET Cids]
          /\ wantPeers \in [Cids -> SUBSET Peers] /\ IndexExact
      BY Zenon DEF IInv, TypeOK
    <3> QED BY <2>1, <3>1 DEF IndexExact
  <2>5. QueuesFollowWants'
    <3>1. /\ wantBlocks \in [Peers -> SUBSET Cids] /\ wantHaves \in [Peers -> SUBSET Cids]
          /\ queued \in [Peers -> SUBSET Cids] /\ peerQueues \subseteq Peers /\ QueuesFollowWants
      BY Zenon DEF IInv, TypeOK
    <3> QED BY <2>1, <3>1 DEF QueuesFollowWants
  <2>6. SignalsFollowConnections' /\ SignalledRegistered'
    BY <2>1, Zenon DEF IInv, SignalsFollowConnections, SignalledRegistered
  <2> QED BY <2>3, <2>4, <2>5, <2>6 DEF IInv
<1>5. ASSUME NEW cancelKs \in CancelLists, SendCancels(cancelKs) PROVE IInv'
  <2> DEFINE ks == Keys(cancelKs)
             visited == CancelPeers(ks) \cap peerQueues
  <2>1. /\ queued' = [p \in Peers |-> IF p \in visited THEN queued[p] \ ToCancel(p, ks) ELSE queued[p]]
        /\ wantBlocks' = [p \in Peers |-> IF p \in visited THEN wantBlocks[p] \ ks ELSE wantBlocks[p]]
        /\ wantHaves' = [p \in Peers |-> IF p \in visited THEN wantHaves[p] \ ks ELSE wantHaves[p]]
        /\ broadcastWants' = broadcastWants \ ks
        /\ wantPeers' = [c \in Cids |-> IF c \in ks THEN {} ELSE wantPeers[c]]
        /\ UNCHANGED <<peerQueues, sessions, peerSessions, signalled>>
    <3>1. UNCHANGED <<peerQueues, sessionState>>
      BY <1>5, Zenon DEF SendCancels
    <3>2. UNCHANGED <<peerQueues, sessions, peerSessions, signalled>>
      BY <3>1 DEF sessionState
    <3> QED BY <1>5, <3>2, Zenon DEF SendCancels
  <2>2. wantGauge' \in Int /\ wantBlockGauge' \in Int
    BY <1>5, PositionsCard, CancelListsAreLists DEF SendCancels, IInv, TypeOK
  <2>3. TypeOK'
    BY <2>1, <2>2, Zenon DEF IInv, TypeOK
  <2>4. \A p \in peerQueues, c \in Cids :
          c \in ks /\ c \in wantBlocks[p] \cup wantHaves[p] => p \in visited
    BY DEF IInv, TypeOK, IndexExact, CancelPeers
  <2>5. IndexExact'
    BY <2>1, <2>4, Zenon DEF IInv, TypeOK, IndexExact
  <2>6. QueuesFollowWants'
    <3> SUFFICES ASSUME NEW p \in peerQueues
                 PROVE  queued'[p] = wantBlocks'[p] \cup wantHaves'[p] \cup broadcastWants'
      BY <2>1, Zenon DEF QueuesFollowWants
    <3>1. p \in Peers /\ queued[p] = wantBlocks[p] \cup wantHaves[p] \cup broadcastWants
      BY DEF IInv, TypeOK, QueuesFollowWants
    <3>2. CASE p \in visited
      BY <2>1, <3>1, <3>2 DEF ToCancel
    <3>3. CASE p \notin visited
      <4>1. broadcastWants \cap ks = {}
        BY <3>3 DEF CancelPeers
      <4> QED BY <2>1, <3>1, <3>3, <4>1
    <3> QED BY <3>2, <3>3
  <2>7. SignalsFollowConnections' /\ SignalledRegistered'
    BY <2>1, Zenon DEF IInv, SignalsFollowConnections, SignalledRegistered
  <2> QED BY <2>3, <2>5, <2>6, <2>7 DEF IInv
<1>6. ASSUME NEW p \in Peers, NEW s \in Sessions, RegisterSession(p, s) PROVE IInv'
  <2>1. TypeOK'
    BY <1>6 DEF RegisterSession, wantState, IInv, TypeOK
  <2>2. IndexExact' /\ QueuesFollowWants' /\ SignalsFollowConnections'
    BY <1>6 DEF RegisterSession, wantState, IInv, IndexExact, QueuesFollowWants, SignalsFollowConnections
  <2>3. SignalledRegistered'
    BY <1>6 DEF RegisterSession, IInv, TypeOK, SignalledRegistered
  <2> QED BY <2>1, <2>2, <2>3 DEF IInv
<1>7. ASSUME NEW s \in Sessions, UnregisterSession(s) PROVE IInv'
  <2>1. TypeOK'
    BY <1>7 DEF UnregisterSession, wantState, IInv, TypeOK, Signals
  <2>2. IndexExact' /\ QueuesFollowWants'
    BY <1>7 DEF UnregisterSession, wantState, IInv, IndexExact, QueuesFollowWants
  <2>3. SignalsFollowConnections' /\ SignalledRegistered'
    BY <1>7 DEF UnregisterSession, IInv, TypeOK, SignalsFollowConnections, SignalledRegistered
  <2> QED BY <2>1, <2>2, <2>3 DEF IInv
<1>8. CASE UNCHANGED vars
  BY <1>8 DEF vars, wantState, sessionState, IInv, TypeOK, IndexExact, QueuesFollowWants,
              SignalsFollowConnections, SignalledRegistered
<1> QED BY <1>1, <1>2, <1>3, <1>4, <1>5, <1>6, <1>7, <1>8 DEF Next

\* Type correctness: in particular a peer without a queue has no wants on record.
THEOREM TypeCorrect == Spec => []TypeOK
BY InitIInv, NextIInv, PTL DEF Spec, IInv

\* The reverse index of peerWantManager is exact.
THEOREM IndexAlwaysExact == Spec => []IndexExact
BY InitIInv, NextIInv, PTL DEF Spec, IInv

\* Every connected peer's queue was asked for exactly what is on record for
\* it, broadcast wants included, so SendCancels reaches every peer that was
\* sent a want.
THEOREM QueuesAlwaysFollow == Spec => []QueuesFollowWants
BY InitIInv, NextIInv, PTL DEF Spec, IInv

\* Sessions are told of every connect and disconnect of the peers they
\* registered for.
THEOREM SignalsAlwaysFollow == Spec => []SignalsFollowConnections
BY InitIInv, NextIInv, PTL DEF Spec, IInv

----------------------------------------------------------------------------
(* The refinement *)

\* Every step is a step of WantLedger or leaves it alone.
LEMMA StepLedger == IInv /\ [Next]_vars => [Ledger!Next]_(Ledger!ledger)
<1> SUFFICES ASSUME IInv, [Next]_vars PROVE [Ledger!Next]_(Ledger!ledger)
  OBVIOUS
<1>1. ASSUME NEW p \in Peers, Connected(p) PROVE Ledger!Connect(p) \/ UNCHANGED Ledger!ledger
  BY <1>1 DEF Connected, Ledger!Connect, Ledger!ledger
<1>2. ASSUME NEW p \in Peers, Disconnected(p) PROVE Ledger!Disconnect(p)
  BY <1>2 DEF Disconnected, Ledger!Disconnect
<1>3. ASSUME NEW ks \in SUBSET Cids, BroadcastWantHaves(ks) PROVE Ledger!AskEveryone(ks)
  <2>1. \A p \in Peers : queued'[p] = IF p \in peerQueues THEN queued[p] \cup ks ELSE queued[p]
    BY <1>3, Zenon DEF BroadcastWantHaves, IInv, TypeOK, QueuesFollowWants
  <2>2. queued' = [p \in Peers |-> IF p \in peerQueues THEN queued[p] \cup ks ELSE queued[p]]
    BY <1>3, <2>1, Zenon DEF BroadcastWantHaves
  <2> QED BY <1>3, <2>2, Zenon DEF BroadcastWantHaves, Ledger!AskEveryone
<1>4. ASSUME NEW p \in Peers, NEW blocks \in SUBSET Cids, NEW haves \in SUBSET Cids,
             SendWants(p, blocks, haves)
      PROVE  Ledger!Ask(p, blocks \cup haves)
  <2>1. queued'[p] = queued[p] \cup (blocks \cup haves)
    BY <1>4, Zenon DEF SendWants, IInv, TypeOK, QueuesFollowWants
  <2>2. queued' = [queued EXCEPT ![p] = @ \cup (blocks \cup haves)]
    BY <1>4, <2>1, Zenon DEF SendWants, IInv, TypeOK
  <2> QED BY <1>4, <2>2, Zenon DEF SendWants, Ledger!Ask
<1>5. ASSUME NEW cancelKs \in CancelLists, SendCancels(cancelKs)
      PROVE  Ledger!Cancel(Keys(cancelKs)) /\ Keys(cancelKs) \in SUBSET Cids
  <2> DEFINE ks == Keys(cancelKs)
  <2>1. ks \in SUBSET Cids
    BY CancelListsAreLists DEF Keys
  <2>2. ASSUME NEW p \in Peers
        PROVE  queued'[p] = IF p \in peerQueues THEN queued[p] \ ks ELSE queued[p]
    <3> HIDE DEF ks
    <3>1. CASE p \in CancelPeers(ks) \cap peerQueues
      BY <1>5, <3>1 DEF ks, SendCancels, ToCancel, IInv, TypeOK, QueuesFollowWants
    <3>2. CASE p \notin CancelPeers(ks) /\ p \in peerQueues
      <4>1. ks \cap broadcastWants = {} /\ \A c \in ks : p \notin wantPeers[c]
        BY <3>2 DEF CancelPeers
      <4>2. ks \cap queued[p] = {}
        BY <2>1, <3>2, <4>1 DEF IInv, TypeOK, IndexExact, QueuesFollowWants
      <4>3. queued'[p] = queued[p]
        BY <1>5, <3>2, Zenon DEF ks, SendCancels
      <4> QED BY <3>2, <4>2, <4>3
    <3>3. CASE p \notin peerQueues
      BY <1>5, <3>3, Zenon DEF SendCancels
    <3> QED BY <3>1, <3>2, <3>3
  <2>3. queued' = [p \in Peers |-> IF p \in peerQueues THEN queued[p] \ ks ELSE queued[p]]
    BY <1>5, <2>2, Zenon DEF SendCancels
  <2> QED BY <1>5, <2>1, <2>3, Zenon DEF SendCancels, Ledger!Cancel
<1>6. ASSUME NEW p \in Peers, NEW s \in Sessions, RegisterSession(p, s) PROVE UNCHANGED Ledger!ledger
  BY <1>6 DEF RegisterSession, wantState, Ledger!ledger
<1>7. ASSUME NEW s \in Sessions, UnregisterSession(s) PROVE UNCHANGED Ledger!ledger
  BY <1>7 DEF UnregisterSession, wantState, Ledger!ledger
<1>8. CASE UNCHANGED vars
  BY <1>8 DEF vars, wantState, Ledger!ledger
<1>9. ASSUME NEW p \in Peers, Connected(p) \/ Disconnected(p) PROVE [Ledger!Next]_(Ledger!ledger)
  BY <1>1, <1>2, <1>9 DEF Ledger!Next
<1>10. ASSUME NEW p \in Peers, NEW blocks \in SUBSET Cids, NEW haves \in SUBSET Cids,
              SendWants(p, blocks, haves)
       PROVE  Ledger!Next
  <2>1. blocks \cup haves \in SUBSET Cids
    OBVIOUS
  <2> QED BY <1>4, <1>10, <2>1, Zenon DEF Ledger!Next
<1>11. ASSUME NEW cancelKs \in CancelLists, SendCancels(cancelKs) PROVE Ledger!Next
  <2>1. PICK ks \in SUBSET Cids : ks = Keys(cancelKs)
    BY <1>5, <1>11
  <2> QED BY <1>5, <1>11, <2>1 DEF Ledger!Next
<1>12. ASSUME NEW ks \in SUBSET Cids, BroadcastWantHaves(ks) PROVE Ledger!Next
  BY <1>3, <1>12 DEF Ledger!Next
<1> QED BY <1>6, <1>7, <1>8, <1>9, <1>10, <1>11, <1>12 DEF Next

\* PeerManager implements WantLedger: although sendCancels visits only the
\* peers its index names, a cancelled key is taken back from every queue.
THEOREM RefinesWantLedger == Spec => ImplementsWantLedger
<1>1. Init => Ledger!Init
  BY DEF Init, Ledger!Init
<1> QED BY <1>1, InitIInv, NextIInv, StepLedger, PTL DEF Spec, ImplementsWantLedger, Ledger!Spec

----------------------------------------------------------------------------
(* The gauges *)

NoRepeats == \A ks \in CancelLists : \A i, j \in DOMAIN ks : ks[i] = ks[j] => i = j

GInv == IInv /\ GaugesExact

\* In a list without repeats, counting positions counts keys.
LEMMA CountPositions ==
  ASSUME NEW ks \in Seq(Cids), \A i, j \in DOMAIN ks : ks[i] = ks[j] => i = j, NEW S
  PROVE  Cardinality({i \in DOMAIN ks : ks[i] \in S}) = Cardinality(S \cap Keys(ks))
<1> DEFINE I == {i \in DOMAIN ks : ks[i] \in S}
           T == S \cap Keys(ks)
           f == [i \in I |-> ks[i]]
<1>0. /\ f \in [I -> T]
      /\ \A i, j \in I : f[i] = f[j] => i = j
      /\ \A c \in T : \E i \in I : f[i] = c
  BY DEF Keys
<1>1. f \in Bijection(I, T)
  BY <1>0 DEF Bijection, Injection, Surjection, IsInjective
<1>2. ExistsBijection(I, T)
  BY <1>1, Zenon DEF ExistsBijection
<1>3. IsFiniteSet(I)
  BY PositionsCard
<1> QED BY <1>2, <1>3, FS_Bijection

\* What wantPeerCounts reports, by the index, is what the node wants.
CountsRight ==
  /\ getWants \in SUBSET Cids /\ getWantBlocks \in SUBSET Cids
  /\ \A c \in Cids : Wanted(c, wantPeers[c]) <=> c \in getWants
  /\ \A c \in Cids : WantBlockSent(c, wantPeers[c]) <=> c \in getWantBlocks
  /\ \A c \in Cids : c \in getWants <=>
       c \in broadcastWants \/ \E p \in peerQueues : c \in wantBlocks[p] \cup wantHaves[p]
  /\ \A c \in Cids : c \in getWantBlocks <=> \E p \in peerQueues : c \in wantBlocks[p]

\* The counts are right because the index is exact.
LEMMA CountsByIndex == IInv => CountsRight
<1> SUFFICES ASSUME IInv PROVE CountsRight
  OBVIOUS
<1>1. \A c \in Cids : wantPeers[c] = {p \in peerQueues : c \in wantBlocks[p] \cup wantHaves[p]}
  BY DEF IInv, TypeOK, IndexExact
<1>2. getWants \in SUBSET Cids /\ getWantBlocks \in SUBSET Cids
  BY DEF IInv, TypeOK, getWants, getWantBlocks
<1>3. \A c \in Cids : c \in getWantBlocks <=> \E p \in peerQueues : c \in wantBlocks[p]
  BY DEF getWantBlocks
<1>4. \A c \in Cids : c \in getWants <=>
        c \in broadcastWants \/ \E p \in peerQueues : c \in wantBlocks[p] \cup wantHaves[p]
  BY <1>1 DEF getWants
<1> QED BY <1>1, <1>2, <1>3, <1>4 DEF CountsRight, Wanted, WantBlockSent

\* Sizes of a set of keys with others added or taken away.
LEMMA KeysAdded ==
  ASSUME NEW S \in SUBSET Cids, NEW T \in SUBSET Cids, S \cap T = {}
  PROVE  Cardinality(S \cup T) = Cardinality(S) + Cardinality(T)
<1>1. IsFiniteSet(S) /\ IsFiniteSet(T) /\ Cardinality(S) \in Nat /\ Cardinality(T) \in Nat
  BY KeysCard
<1>2. Cardinality(S \cup T) = Cardinality(S) + Cardinality(T) - Cardinality(S \cap T)
  BY <1>1, FS_Union
<1>3. Cardinality(S \cap T) = 0
  BY FS_EmptySet
<1> QED BY <1>1, <1>2, <1>3

LEMMA KeysRemoved ==
  ASSUME NEW S \in SUBSET Cids, NEW T \in SUBSET S
  PROVE  Cardinality(S \ T) = Cardinality(S) - Cardinality(T)
<1>1. S \cap T = T /\ T \in SUBSET Cids
  OBVIOUS
<1> QED BY <1>1, KeysCard, FS_Difference, Zenon

\* Every step keeps the gauges equal to the sizes of the sets they count.
LEMMA NextGInv == ASSUME NoRepeats PROVE GInv /\ [Next]_vars => GInv'
<1> SUFFICES ASSUME GInv, [Next]_vars PROVE GaugesExact'
  BY NextIInv DEF GInv
<1>a. CountsRight /\ IInv /\ IInv'
  BY NextIInv, CountsByIndex DEF GInv
<1>b. CountsRight'
  BY <1>a, CountsByIndex, PTL
<1>c. /\ wantGauge = Cardinality(getWants) /\ wantBlockGauge = Cardinality(getWantBlocks)
      /\ getWants \in SUBSET Cids /\ getWantBlocks \in SUBSET Cids
      /\ getWants' \in SUBSET Cids /\ getWantBlocks' \in SUBSET Cids
      /\ Cardinality(getWants) \in Nat /\ Cardinality(getWantBlocks) \in Nat
  BY <1>a, <1>b, KeysCard, Zenon DEF GInv, GaugesExact, CountsRight
<1>d. /\ peerQueues \subseteq Peers /\ wantPeers \in [Cids -> SUBSET Peers]
      /\ wantBlocks \in [Peers -> SUBSET Cids] /\ wantHaves \in [Peers -> SUBSET Cids]
      /\ \A c \in Cids, p \in Peers :
           p \in wantPeers[c] <=> p \in peerQueues /\ c \in wantBlocks[p] \cup wantHaves[p]
      /\ \A p \in Peers : wantBlocks[p] \cap wantHaves[p] = {}
  BY <1>a, Zenon DEF IInv, TypeOK, IndexExact
<1>1. ASSUME NEW p \in Peers, Connected(p) PROVE GaugesExact'
  <2>1. \A c \in Cids : (c \in getWants' <=> c \in getWants) /\ (c \in getWantBlocks' <=> c \in getWantBlocks)
    BY <1>a, <1>b, <1>1, Zenon DEF Connected, CountsRight, IInv, TypeOK
  <2>2. getWants' = getWants /\ getWantBlocks' = getWantBlocks
    BY <2>1, <1>c
  <2> QED BY <1>1, <2>2, <1>c DEF Connected, GaugesExact
<1>2. ASSUME NEW p \in Peers, Disconnected(p) PROVE GaugesExact'
  <2> DEFINE others(c) == wantPeers[c] \ {p}
             lastBlocks == {c \in wantBlocks[p] : ~WantBlockSent(c, others(c))}
             last1 == {c \in wantBlocks[p] : ~Wanted(c, others(c))}
             last2 == {c \in wantHaves[p] : ~Wanted(c, others(c))}
  <2>1. /\ wantBlockGauge' = wantBlockGauge - Cardinality(lastBlocks)
        /\ wantGauge' = wantGauge - Cardinality(last1) - Cardinality(last2)
        /\ p \in peerQueues /\ peerQueues' = peerQueues \ {p} /\ broadcastWants' = broadcastWants
        /\ wantBlocks' = [wantBlocks EXCEPT ![p] = {}] /\ wantHaves' = [wantHaves EXCEPT ![p] = {}]
    BY <1>2, Zenon DEF Disconnected, removePeer
  <2>2. \A c \in Cids : others(c) = {q \in peerQueues \ {p} : c \in wantBlocks[q] \cup wantHaves[q]}
    <3> TAKE c \in Cids
    <3>1. wantPeers[c] \subseteq Peers
      BY <1>d
    <3>2. \A q \in Peers : q \in wantPeers[c] <=> q \in peerQueues /\ c \in wantBlocks[q] \cup wantHaves[q]
      BY <1>d, Zenon
    <3> QED BY <1>d, <3>1, <3>2, Zenon
  <2>3. \A q \in peerQueues \ {p} : wantBlocks'[q] = wantBlocks[q] /\ wantHaves'[q] = wantHaves[q]
    BY <2>1, <1>d
  <2>4. /\ lastBlocks \in SUBSET getWantBlocks
        /\ last1 \cup last2 \in SUBSET getWants
        /\ last1 \in SUBSET Cids /\ last2 \in SUBSET Cids /\ last1 \cap last2 = {}
    <3>1. wantBlocks[p] \subseteq Cids /\ wantHaves[p] \subseteq Cids /\ wantBlocks[p] \cap wantHaves[p] = {}
      BY <1>d
    <3>2. /\ \A c \in wantBlocks[p] : c \in getWantBlocks /\ c \in getWants
          /\ \A c \in wantHaves[p] : c \in getWants
      BY <2>1, <3>1, <1>a, Zenon DEF CountsRight
    <3>3. lastBlocks \subseteq wantBlocks[p] /\ last1 \subseteq wantBlocks[p] /\ last2 \subseteq wantHaves[p]
      OBVIOUS
    <3> HIDE DEF lastBlocks, last1, last2
    <3> QED BY <3>1, <3>2, <3>3
  <2>5. \A c \in Cids : c \in getWantBlocks' <=> c \in getWantBlocks \ lastBlocks
    <3>1. \A c \in Cids : c \in getWantBlocks <=> \E q \in peerQueues : c \in wantBlocks[q]
      BY <1>a, Zenon DEF CountsRight
    <3>2. \A c \in Cids : c \in getWantBlocks' <=> \E q \in peerQueues' : c \in wantBlocks'[q]
      BY <1>b, Zenon DEF CountsRight
    <3>3. \A c \in Cids : c \in lastBlocks <=>
            c \in wantBlocks[p] /\ ~\E q \in peerQueues \ {p} : c \in wantBlocks[q]
      BY <2>2 DEF WantBlockSent
    <3> HIDE DEF lastBlocks
    <3> QED BY <2>1, <2>3, <3>1, <3>2, <3>3
  <2>6. \A c \in Cids : c \in getWants' <=> c \in getWants \ (last1 \cup last2)
    <3> DEFINE Wants(c, q) == c \in wantBlocks[q] \cup wantHaves[q]
    <3>1. \A c \in Cids : c \in getWants <=> c \in broadcastWants \/ \E q \in peerQueues : Wants(c, q)
      BY <1>a, Zenon DEF CountsRight
    <3>2. \A c \in Cids : c \in getWants' <=>
            c \in broadcastWants' \/ \E q \in peerQueues' : c \in wantBlocks'[q] \cup wantHaves'[q]
      BY <1>b, Zenon DEF CountsRight
    <3>3. \A c \in Cids : c \in getWants' <=> c \in broadcastWants \/ \E q \in peerQueues \ {p} : Wants(c, q)
      BY <2>1, <2>3, <3>2
    <3>4. \A c \in Cids : Wanted(c, others(c)) <=> c \in broadcastWants \/ \E q \in peerQueues \ {p} : Wants(c, q)
      BY <2>2 DEF Wanted
    <3>5. \A c \in Cids : c \in last1 \cup last2 <=> Wants(c, p) /\ ~Wanted(c, others(c))
      OBVIOUS
    <3> HIDE DEF last1, last2, Wants, others
    <3> QED BY <2>1, <3>1, <3>3, <3>4, <3>5
  <2>7. getWantBlocks' = getWantBlocks \ lastBlocks /\ getWants' = getWants \ (last1 \cup last2)
    BY <2>5, <2>6, <1>c, Zenon
  <2>8. /\ Cardinality(getWantBlocks') = Cardinality(getWantBlocks) - Cardinality(lastBlocks)
        /\ Cardinality(getWants') = Cardinality(getWants) - Cardinality(last1 \cup last2)
    BY <2>4, <2>7, <1>c, KeysRemoved, Zenon
  <2>9. Cardinality(last1 \cup last2) = Cardinality(last1) + Cardinality(last2)
    BY <2>4, KeysAdded, Zenon
  <2>10. Cardinality(last1) \in Nat /\ Cardinality(last2) \in Nat
    BY <2>4, KeysCard, Zenon
  <2> HIDE DEF last1, last2, lastBlocks
  <2> QED BY <2>1, <2>8, <2>9, <2>10, <1>c DEF GaugesExact
<1>3. ASSUME NEW ks \in SUBSET Cids, BroadcastWantHaves(ks) PROVE GaugesExact'
  <2> DEFINE new == {c \in ks \ broadcastWants : wantPeers[c] = {}}
  <2>1. /\ wantGauge' = wantGauge + Cardinality(new) /\ broadcastWants' = broadcastWants \cup ks
        /\ UNCHANGED <<peerQueues, wantBlocks, wantHaves, wantPeers, wantBlockGauge>>
    BY <1>3 DEF BroadcastWantHaves
  <2>2. new \in SUBSET Cids /\ getWants \cap new = {}
    BY DEF getWants
  <2>3. getWants' = getWants \cup new /\ getWantBlocks' = getWantBlocks
    <3>1. broadcastWants \in SUBSET Cids
      BY <1>a, Zenon DEF IInv, TypeOK
    <3> QED BY <2>1, <3>1, <1>d DEF getWants, getWantBlocks
  <2> QED BY <2>1, <2>2, <2>3, <1>c, KeysAdded DEF GaugesExact
<1>4. ASSUME NEW p \in Peers, NEW blocks \in SUBSET Cids, NEW haves \in SUBSET Cids,
             SendWants(p, blocks, haves)
      PROVE  GaugesExact'
  <2> DEFINE flt == blocks \ wantBlocks[p]
             hvs == haves \ (broadcastWants \cup wantBlocks[p] \cup flt \cup wantHaves[p])
             newBlocks == {c \in flt : ~WantBlockSent(c, wantPeers[c])}
             new == {c \in flt \cup hvs : ~Wanted(c, wantPeers[c])}
  <2>1. /\ wantBlockGauge' = wantBlockGauge + Cardinality(newBlocks)
        /\ wantGauge' = wantGauge + Cardinality(new)
        /\ p \in peerQueues /\ peerQueues' = peerQueues /\ broadcastWants' = broadcastWants
        /\ wantBlocks' = [wantBlocks EXCEPT ![p] = @ \cup flt]
        /\ wantHaves' = [wantHaves EXCEPT ![p] = (@ \ flt) \cup hvs]
    BY <1>4, Zenon DEF SendWants
  <2>2. /\ newBlocks \in SUBSET Cids /\ getWantBlocks \cap newBlocks = {}
        /\ new \in SUBSET Cids /\ getWants \cap new = {}
    BY <1>a, Zenon DEF CountsRight
  <2>3. /\ wantBlocks'[p] = wantBlocks[p] \cup flt
        /\ wantHaves'[p] = (wantHaves[p] \ flt) \cup hvs
        /\ \A q \in peerQueues \ {p} : wantBlocks'[q] = wantBlocks[q] /\ wantHaves'[q] = wantHaves[q]
    BY <2>1, <1>d
  <2>4. \A c \in Cids : c \in getWantBlocks' <=> c \in getWantBlocks \/ c \in flt
    <3>1. \A c \in Cids : c \in getWantBlocks <=> \E q \in peerQueues : c \in wantBlocks[q]
      BY <1>a, Zenon DEF CountsRight
    <3>2. \A c \in Cids : c \in getWantBlocks' <=> \E q \in peerQueues' : c \in wantBlocks'[q]
      BY <1>b, Zenon DEF CountsRight
    <3> HIDE DEF flt
    <3> QED BY <2>1, <2>3, <3>1, <3>2
  <2>5. \A c \in Cids : c \in getWants' <=> c \in getWants \/ c \in flt \cup hvs
    <3>1. \A c \in Cids : c \in getWants <=>
            c \in broadcastWants \/ \E q \in peerQueues : c \in wantBlocks[q] \cup wantHaves[q]
      BY <1>a, Zenon DEF CountsRight
    <3>2. \A c \in Cids : c \in getWants' <=>
            c \in broadcastWants' \/ \E q \in peerQueues' : c \in wantBlocks'[q] \cup wantHaves'[q]
      BY <1>b, Zenon DEF CountsRight
    <3> HIDE DEF flt, hvs
    <3> SUFFICES ASSUME NEW c \in Cids PROVE c \in getWants' <=> c \in getWants \/ c \in flt \cup hvs
      OBVIOUS
    <3>3. c \in wantBlocks'[p] \cup wantHaves'[p] <=> c \in wantBlocks[p] \cup wantHaves[p] \/ c \in flt \cup hvs
      BY <2>3
    <3> QED BY <2>1, <2>3, <3>1, <3>2, <3>3
  <2>6. getWantBlocks' = getWantBlocks \cup newBlocks /\ getWants' = getWants \cup new
    BY <2>4, <2>5, <1>a, <1>c, Zenon DEF CountsRight
  <2> HIDE DEF new, newBlocks
  <2> QED BY <2>1, <2>2, <2>6, <1>c, KeysAdded, Zenon DEF GaugesExact
<1>5. ASSUME NEW cancelKs \in CancelLists, SendCancels(cancelKs) PROVE GaugesExact'
  <2> DEFINE ks == Keys(cancelKs)
  <2>1. cancelKs \in Seq(Cids) /\ (\A i, j \in DOMAIN cancelKs : cancelKs[i] = cancelKs[j] => i = j)
        /\ \A i \in DOMAIN cancelKs : cancelKs[i] \in Cids
    BY CancelListsAreLists DEF NoRepeats
  <2>2. /\ {i \in DOMAIN cancelKs : WantBlockSent(cancelKs[i], wantPeers[cancelKs[i]])}
              = {i \in DOMAIN cancelKs : cancelKs[i] \in getWantBlocks}
        /\ {i \in DOMAIN cancelKs : Wanted(cancelKs[i], wantPeers[cancelKs[i]])}
              = {i \in DOMAIN cancelKs : cancelKs[i] \in getWants}
    BY <2>1, <1>a, Zenon DEF CountsRight
  <2>3. /\ wantBlockGauge' = wantBlockGauge - Cardinality(getWantBlocks \cap ks)
        /\ wantGauge' = wantGauge - Cardinality(getWants \cap ks)
    BY <1>5, <2>1, <2>2, CountPositions, Zenon DEF SendCancels
  <2>4. /\ broadcastWants' = broadcastWants \ ks /\ peerQueues' = peerQueues
        /\ \A p \in peerQueues : wantBlocks'[p] = wantBlocks[p] \ ks /\ wantHaves'[p] = wantHaves[p] \ ks
    <3>1. \A p \in peerQueues, c \in ks :
            c \in wantBlocks[p] \cup wantHaves[p] => p \in CancelPeers(ks)

      <4> SUFFICES ASSUME NEW p \in peerQueues, NEW c \in ks, c \in wantBlocks[p] \cup wantHaves[p]
                   PROVE  p \in CancelPeers(ks)
        BY Zenon
      <4>1. c \in Cids
        BY <2>1, Zenon DEF Keys
      <4>2. p \in wantPeers[c]
        BY <1>d, <4>1, Zenon
      <4> HIDE DEF ks
      <4> QED BY <4>2, Zenon DEF CancelPeers
    <3> QED BY <1>5, <3>1, <1>d, Zenon DEF SendCancels
  <2>5. \A c \in Cids : /\ c \in getWantBlocks' <=> c \in getWantBlocks \ ks
                        /\ c \in getWants' <=> c \in getWants \ ks
    <3>1. \A c \in Cids : c \in getWantBlocks <=> \E p \in peerQueues : c \in wantBlocks[p]
      BY <1>a, Zenon DEF CountsRight
    <3>2. \A c \in Cids : c \in getWantBlocks' <=> \E p \in peerQueues' : c \in wantBlocks'[p]
      BY <1>b, Zenon DEF CountsRight
    <3>3. \A c \in Cids : c \in getWants <=>
            c \in broadcastWants \/ \E p \in peerQueues : c \in wantBlocks[p] \cup wantHaves[p]
      BY <1>a, Zenon DEF CountsRight
    <3>4. \A c \in Cids : c \in getWants' <=>
            c \in broadcastWants' \/ \E p \in peerQueues' : c \in wantBlocks'[p] \cup wantHaves'[p]
      BY <1>b, Zenon DEF CountsRight
    <3> HIDE DEF ks
    <3>5. \A c \in Cids : c \in getWantBlocks' <=> c \in getWantBlocks \ ks
      <4>1. \A c \in Cids : \A p \in peerQueues : c \in wantBlocks'[p] <=> c \in wantBlocks[p] /\ c \notin ks
        BY <2>4, Zenon
      <4> QED BY <2>4, <3>1, <3>2, <4>1, Zenon
    <3>6. ASSUME NEW c \in Cids PROVE c \in getWants' <=> c \in getWants \ ks
      <4>1. \A p \in peerQueues : c \in wantBlocks'[p] \cup wantHaves'[p] <=>
              c \in wantBlocks[p] \cup wantHaves[p] /\ c \notin ks
        BY <2>4
      <4>2. c \in broadcastWants' <=> c \in broadcastWants /\ c \notin ks
        BY <2>4
      <4> QED BY <2>4, <3>3, <3>4, <4>1, <4>2, Zenon
    <3> QED BY <3>5, <3>6
  <2>6. getWantBlocks' = getWantBlocks \ ks /\ getWants' = getWants \ ks
    BY <2>5, <1>c
  <2>7. /\ Cardinality(getWantBlocks \ ks) = Cardinality(getWantBlocks) - Cardinality(getWantBlocks \cap ks)
        /\ Cardinality(getWants \ ks) = Cardinality(getWants) - Cardinality(getWants \cap ks)
    BY <1>c, KeysCard, FS_Difference, Zenon
  <2> QED BY <2>3, <2>6, <2>7, <1>c, Zenon DEF GaugesExact
<1>6. CASE UNCHANGED <<peerQueues, wantState>>
  BY <1>6, <1>c, Zenon DEF wantState, GaugesExact, getWants, getWantBlocks
<1> QED
  BY <1>1, <1>2, <1>3, <1>4, <1>5, <1>6 DEF Next, RegisterSession, UnregisterSession, vars

\* The metrics equal the number of wanted keys and of keys with a want-block
\* out, as long as no list of keys given to SendCancels repeats a key.
THEOREM GaugesAlwaysExact == NoRepeats => (Spec => []GaugesExact)
<1> SUFFICES ASSUME NoRepeats PROVE Spec => []GaugesExact
  OBVIOUS
<1>1. Init => GInv
  <2> SUFFICES ASSUME Init PROVE GInv
    OBVIOUS
  <2>1. getWants = {} /\ getWantBlocks = {}
    BY DEF Init, getWants, getWantBlocks
  <2> QED BY <2>1, InitIInv, FS_EmptySet, Zenon DEF Init, GInv, GaugesExact
<1>2. GInv /\ [Next]_vars => GInv'
  BY NextGInv
<1>3. GInv => GaugesExact
  BY DEF GInv
<1> QED BY <1>1, <1>2, <1>3, PTL DEF Spec
=============================================================================
