------------------------- MODULE SessionWantSender -------------------------
(***************************************************************************)
(* The want sender of one session (sessionwantsender.go), with the session *)
(* peers (sessionpeermanager.go), the block presence it consults           *)
(* (blockpresencemanager.go) and what the PeerManager remembers of the     *)
(* wants sent and of the peers the session registered for.                 *)
(*                                                                         *)
(* Changes wait in a channel.  The run loop takes all of them in one batch *)
(* and applies it in the phases of onChange; other goroutines run between  *)
(* the phases.  An update carries one key: processUpdates goes over the    *)
(* blocks, the DONT_HAVEs and the HAVEs of all updates of a batch, so a    *)
(* message with several keys is a batch with several updates.              *)
(***************************************************************************)
EXTENDS Integers, Sequences, FiniteSets, SequencesExt

CONSTANTS
  Peers, Cids, None,
  ChangesBufferSize,   \* capacity of the changes channel
  IncomingSize,        \* capacity of the session's incoming channel
  PeerDontHaveLimit    \* DONT_HAVEs in a row that prune a peer

\* No peer has the empty ID.
ASSUME NoneAssumption == None \notin Peers

VARIABLES
  wants,          \* keys of sws.wants
  blockPresence,  \* wantInfo.blockPresence: "absent", "unknown", "have", "dontHave"
  sentTo,         \* wantInfo.sentTo
  exhausted,      \* keys whose wantInfo.exhausted is set
  dontHaves,      \* peerConsecutiveDontHaves
  sentBlocks,     \* sentWantBlocksTracker
  changes,        \* the changes channel
  spawned,        \* availability changes held by goroutines
  phase,          \* where onChange is, with what its next phases need
  peers,          \* SessionPeerManager.peers
  tagged,         \* peers tagged in the connection manager
  protected,      \* peers protected in the connection manager
  discovered,     \* SessionPeerManager.peersDiscovered
  presence,       \* BlockPresenceManager: "unknown", "have", "dontHave"
  interest,       \* SessionInterestManager: "none", "interested", "wanted"
  connected,      \* peers with a queue in the PeerManager
  registered,     \* peers the session is registered for
  asked,          \* PeerManager: "none", "have" or "block", by peer and key
  bcast,          \* PeerManager: the broadcast wants
  owed,           \* the answers peers owe: to a want-have, to a want-block, or its timeout
  incoming,       \* the session's incoming channel
  late            \* operations held by goroutines of nonBlockingEnqueue

sender == <<wants, blockPresence, sentTo, exhausted, dontHaves, sentBlocks>>
channels == <<changes, spawned>>
session == <<peers, tagged, protected, discovered>>
manager == <<connected, registered>>
pending == <<asked, bcast, owed>>
operations == <<incoming, late>>

Change(kind, p, c) == [kind |-> kind, peer |-> p, cid |-> c]

Op(kind, keys) == [op |-> kind, keys |-> keys]
Idle == [at |-> "idle", dontHaves |-> {}, gone |-> {}, new |-> {}, cancels |-> {}]

NoPresence == [c \in Cids |-> [p \in Peers |-> "absent"]]

\* The channel has room for a change sent by addChange, which blocks.
AddChange(ch) ==
  /\ Len(changes) < ChangesBufferSize
  /\ changes' = Append(changes, ch)

\* addChangeNonBlocking: a goroutine waits when the channel is full.
SignalAvailability(ch) ==
  IF Len(changes) < ChangesBufferSize
  THEN changes' = Append(changes, ch) /\ UNCHANGED spawned
  ELSE spawned' = spawned \cup {ch} /\ UNCHANGED changes

\* Session.nonBlockingEnqueue.
NonBlockingEnqueue(o) ==
  IF Len(incoming) < IncomingSize
  THEN incoming' = Append(incoming, o) /\ UNCHANGED late
  ELSE late' = late \cup {o} /\ UNCHANGED incoming

\* A session that has got blocks of other keys from its peers, if it has any.
SenderInit ==
  /\ wants = {}
  /\ blockPresence = NoPresence
  /\ sentTo = [c \in Cids |-> None]
  /\ exhausted = {}
  /\ dontHaves = [p \in Peers |-> 0]
  /\ sentBlocks = [p \in Peers |-> {}]
  /\ changes = <<>> /\ spawned = {}
  /\ phase = Idle
  /\ tagged = peers /\ protected = peers /\ discovered = (peers # {})
  /\ presence = [c \in Cids |-> [p \in Peers |-> "unknown"]]
  /\ interest = [c \in Cids |-> "none"]
  /\ registered = peers
  /\ asked = [p \in Peers |-> [c \in Cids |-> "none"]]
  /\ bcast = {}
  /\ owed = [p \in Peers |-> [c \in Cids |-> {}]]
  /\ incoming = <<>> /\ late = {}

-----------------------------------------------------------------------------
(* What a batch of changes says. *)

Keys(b, kind) == {ch.cid : ch \in {x \in Range(b) : x.kind = kind}}

Tracked_LastOnly(b) ==
  {c \in Cids :
    LET ch == b[Len(b)]
    IN IF ch.cid = c /\ ch.kind \in {"add", "cancel"} THEN ch.kind = "add" ELSE c \in wants}

\* The wants after the adds and cancels of the batch, in their order.
Tracked(b) ==
  {c \in Cids :
    LET i == SelectLastInSeq(b, LAMBDA ch : ch.cid = c /\ ch.kind \in {"add", "cancel"})
    IN IF i = 0 THEN c \in wants ELSE b[i].kind = "add"}

\* The wants that the batch gives a new wantInfo.
Fresh(b) == {c \in Tracked(b) : c \notin wants \/ c \in Keys(b, "cancel")}

\* The updates from peers.  Those of local blocks have no peer.
Updates(b, kind) == {ch \in Range(b) : ch.kind = kind /\ ch.peer # None}
Senders(b) == {ch.peer : ch \in Updates(b, "block") \cup Updates(b, "have")}

\* The last word of the batch on a peer: "none", "available" or "unavailable".
\* A block or a HAVE from a peer says that it is available.
LastWord(b, p) ==
  LET i == SelectLastInSeq(b, LAMBDA ch : ch.peer = p
             /\ ch.kind \in {"block", "have", "available", "unavailable"})
  IN IF i = 0 THEN "none" ELSE IF b[i].kind = "unavailable" THEN "unavailable" ELSE "available"

NewlyAvailable(b) == {p \in Peers \ peers : LastWord(b, p) = "available"}
NewlyUnavailable(b) == {p \in peers : LastWord(b, p) = "unavailable"}

Received(b) == {ch.cid : ch \in Updates(b, "block")}

\* The HAVE and DONT_HAVE updates that processUpdates looks at.
Presences(b) ==
  {ch \in Updates(b, "have") \cup Updates(b, "dontHave") : ch.cid \notin Received(b)}

Refreshed_NewWantsBlind(b) ==
  (NewlyAvailable(b) \X Tracked(b)) \cup {<<ch.peer, ch.cid>> : ch \in Presences(b)}

\* updateWantBlockPresence is called for these peers and wants.
Refreshed(b) ==
  ((peers \ NewlyUnavailable(b)) \X Fresh(b))
    \cup (NewlyAvailable(b) \X Tracked(b))
    \cup {<<ch.peer, ch.cid>> : ch \in Presences(b)}

\* removePeer, or a DONT_HAVE to a want-block from the peer waited for.
StopsWaiting(b, c) ==
  LET p == sentTo[c] IN
  \/ p \in NewlyUnavailable(b)
  \/ \E ch \in Presences(b) :
       ch.kind = "dontHave" /\ ch.cid = c /\ ch.peer = p /\ c \in sentBlocks[p]

\* The peer's DONT_HAVEs in a row before those of the batch, and with them.
RowBefore(b, p) ==
  IF p \in NewlyAvailable(b) \cup NewlyUnavailable(b) \/ \E ch \in Updates(b, "block") : ch.peer = p
  THEN 0 ELSE dontHaves[p]
Row(b, p) ==
  RowBefore(b, p) + Cardinality({i \in DOMAIN b : b[i].kind = "dontHave" /\ b[i].peer = p})
SaysHave(b, p) == \E ch \in Updates(b, "have") : ch.peer = p

Pruned(b, left) ==
  {p \in Peers :
    /\ \E ch \in Updates(b, "dontHave") : ch.peer = p
    /\ Row(b, p) > PeerDontHaveLimit
    /\ ~SaysHave(b, p)
    /\ \A c \in left : presence[c][p] # "have"}

\* The first peer to deliver a want of the batch.
FirstSender(b, c) ==
  LET i == SelectInSeq(b, LAMBDA ch : ch.kind = "block" /\ ch.cid = c /\ ch.peer # None)
  IN b[i].peer

UpdatePeers_StaysTagged(b) ==
  /\ peers' = (peers \cup NewlyAvailable(b)) \ NewlyUnavailable(b)
  /\ tagged' = tagged \cup NewlyAvailable(b)
  /\ protected' = (protected \ NewlyUnavailable(b)) \cup
        ({FirstSender(b, c) : c \in Tracked(b) \cap Received(b)} \cap peers')
  /\ discovered' = (discovered \/ NewlyAvailable(b) # {})

\* SessionPeerManager.AddPeer, RemovePeer and ProtectConnection.
UpdatePeers(b) ==
  /\ peers' = (peers \cup NewlyAvailable(b)) \ NewlyUnavailable(b)
  /\ tagged' = (tagged \cup NewlyAvailable(b)) \ NewlyUnavailable(b)
  /\ protected' = (protected \ NewlyUnavailable(b)) \cup
        ({FirstSender(b, c) : c \in Tracked(b) \cap Received(b)} \cap peers')
  /\ discovered' = (discovered \/ NewlyAvailable(b) # {})

\* trackWant, untrackWant, updateWantsPeerAvailability and processUpdates.
UpdateWants(b) ==
  LET left == Tracked(b) \ Received(b) IN
  /\ wants' = left
  /\ blockPresence' = [c \in Cids |-> [p \in Peers |->
       IF c \notin left THEN "absent"
       ELSE IF <<p, c>> \in Refreshed(b) THEN presence[c][p]
       ELSE IF p \in NewlyUnavailable(b) \/ c \in Fresh(b) THEN "absent"
       ELSE blockPresence[c][p]]]
  /\ sentTo' = [c \in Cids |->
       IF c \notin left \/ c \in Fresh(b) \/ StopsWaiting(b, c) THEN None ELSE sentTo[c]]
  /\ exhausted' = {c \in (exhausted \cap left) \ Fresh(b) :
       \A p \in Peers : <<p, c>> \in Refreshed(b) => presence[c][p] # "have"}

\* RegisterSession, for every peer that sent a block or a HAVE.
Register(b) == registered' = registered \cup Senders(b)

-----------------------------------------------------------------------------
(* The run loop *)

\* onChange takes the batch, updates the availability of peers and the wants.
\* Pruned peers are signalled unavailable by a goroutine.
OnChange ==
  /\ phase.at = "idle"
  /\ changes # <<>>
  /\ LET b == changes IN
     /\ UpdateWants(b)
     /\ UpdatePeers(b)
     /\ Register(b)
     /\ dontHaves' = [p \in Peers |->
          IF SaysHave(b, p) THEN 0
          ELSE IF Row(b, p) > PeerDontHaveLimit THEN PeerDontHaveLimit ELSE Row(b, p)]
     /\ spawned' = spawned \cup
          {Change("unavailable", p, None) : p \in Pruned(b, Tracked(b) \ Received(b))}
     /\ phase' = [at |-> "exhausted",
                  dontHaves |-> {ch.cid : ch \in {x \in Presences(b) : x.kind = "dontHave"}},
                  gone |-> NewlyUnavailable(b), new |-> NewlyAvailable(b),
                  cancels |-> Keys(b, "cancel")]
  /\ changes' = <<>>
  /\ UNCHANGED <<sentBlocks, presence, interest, connected, pending, operations>>

\* AllPeersDoNotHaveBlock: something is known of the key, and all peers sent DONT_HAVE.
AllPeersDoNotHaveBlock(ps, c) ==
  /\ \E p \in Peers : presence[c][p] # "unknown"
  /\ \A p \in ps : presence[c][p] = "dontHave"

ExhaustedWants_DontHaves ==
  {c \in phase.dontHaves : AllPeersDoNotHaveBlock(peers, c)}

\* The wants to check, all of them after a peer became unavailable.
ExhaustedWants ==
  IF phase.gone # {} /\ peers = {} THEN wants
  ELSE {c \in (IF phase.gone # {} THEN wants ELSE phase.dontHaves) :
          AllPeersDoNotHaveBlock(peers, c)}

\* checkForExhaustedWants tells the session of the newly exhausted wants.
CheckForExhaustedWants ==
  /\ phase.at = "exhausted"
  /\ LET new == (ExhaustedWants \cap wants) \ exhausted IN
     /\ exhausted' = exhausted \cup new
     /\ IF new = {} THEN UNCHANGED operations ELSE NonBlockingEnqueue(Op("broadcast", new))
  /\ phase' = [phase EXCEPT !.at = IF phase.cancels = {} THEN "send" ELSE "cancel"]
  /\ UNCHANGED <<wants, blockPresence, sentTo, dontHaves, sentBlocks, channels, session,
                 presence, interest, manager, pending>>

\* PeerManager.SendCancels.  An answer may already be on its way.
SendCancels(ks) ==
  /\ UNCHANGED owed
  /\ asked' = [p \in Peers |-> [c \in Cids |-> IF c \in ks THEN "none" ELSE asked[p][c]]]
  /\ bcast' = bcast \ ks

\* SessionManager.CancelSessionWants: the keys have no session left.
CancelSessionWants ==
  /\ phase.at = "cancel"
  /\ LET ks == {c \in phase.cancels : interest[c] # "none"} IN
     /\ interest' = [c \in Cids |-> IF c \in ks THEN "none" ELSE interest[c]]
     /\ presence' = [c \in Cids |-> IF c \in ks THEN [p \in Peers |-> "unknown"] ELSE presence[c]]
     /\ SendCancels(ks)
  /\ phase' = [phase EXCEPT !.at = "send"]
  /\ UNCHANGED <<sender, channels, session, manager, operations>>

BestPeers_NotSure(c) == {p \in Peers : blockPresence[c][p] = "unknown"}

\* calculateBestPeer: peers that have the block before those that may have
\* it.  peerResponseTracker.choose may pick any of them.
BestPeers(c) ==
  LET with(bp) == {p \in Peers : blockPresence[c][p] = bp}
  IN IF with("have") # {} THEN with("have") ELSE with("unknown")

\* PeerManager.SendWants keeps what it has not sent before, if the peer is
\* connected; a want-block takes precedence over a want-have, and a key that
\* was broadcast needs no want-have.
AskedAfter(p, blocks, haves, c) ==
  IF p \notin connected THEN asked[p][c]
  ELSE IF c \in blocks THEN "block"
  ELSE IF c \in haves \ bcast /\ asked[p][c] = "none" THEN "have"
  ELSE asked[p][c]

\* The peer owes an answer to each want it had not been sent.  A want-block
\* has a DONT_HAVE timeout.
Owing(p, c, kind) ==
  IF kind = asked[p][c] THEN owed[p][c]
  ELSE owed[p][c] \cup (IF kind = "block" THEN {"block", "timeout"} ELSE {kind})

RecordSent_OnlyNew(wantBlocks) ==
  sentBlocks' = [p \in Peers |-> IF p \in phase.new THEN sentBlocks[p] \cup wantBlocks[p] ELSE sentBlocks[p]]

\* sentWantBlocksTracker.addSentWantBlocksTo.
RecordSent(wantBlocks) ==
  sentBlocks' = [p \in Peers |-> sentBlocks[p] \cup wantBlocks[p]]

\* sendNextWants and sendWants: each want that waits for no peer goes to its
\* best peer as a want-block and to the others as a want-have, new peers get
\* want-haves, and every message carries the other wants as want-haves.  One
\* operation tells the session of the wants sent to all peers.
SendNextWants ==
  /\ phase.at = "send"
  /\ phase' = Idle
  /\ LET next == IF peers = {} THEN {} ELSE {c \in wants : sentTo[c] = None /\ BestPeers(c) # {}}
     IN \E best \in [next -> Peers] :
       /\ \A c \in next : best[c] \in BestPeers(c)
       /\ sentTo' = [c \in Cids |-> IF c \in next THEN best[c] ELSE sentTo[c]]
       /\ LET wantBlocks == [p \in Peers |-> {c \in next : best[c] = p}]
              haves(p) == (IF p \in phase.new THEN wants ELSE {})
                            \cup (IF p \in peers THEN next \ wantBlocks[p] ELSE {})
              to == {p \in Peers : wantBlocks[p] \cup haves(p) # {}}
              wantHaves(p) == haves(p) \cup ((wants \ wantBlocks[p]) \ sentBlocks[p])
              sent == UNION {wantBlocks[p] \cup wantHaves(p) : p \in to}
          IN /\ RecordSent(wantBlocks)
             /\ asked' = [p \in Peers |-> [c \in Cids |->
                   IF p \in to THEN AskedAfter(p, wantBlocks[p], wantHaves(p), c) ELSE asked[p][c]]]
             /\ owed' = [p \in Peers |-> [c \in Cids |-> Owing(p, c, asked'[p][c])]]
             /\ IF to = {} THEN UNCHANGED operations ELSE NonBlockingEnqueue(Op("wantsSent", sent))
  /\ UNCHANGED <<wants, blockPresence, exhausted, dontHaves, channels, session,
                 presence, interest, manager, bcast>>

\* A goroutine of addChangeNonBlocking gets its change into the channel.
SpawnedChange ==
  \E ch \in spawned :
    /\ AddChange(ch)
    /\ spawned' = spawned \ {ch}
    /\ UNCHANGED <<sender, phase, session, presence, interest, manager, pending, operations>>

SenderLoop == OnChange \/ CheckForExhaustedWants \/ CancelSessionWants \/ SendNextWants

-----------------------------------------------------------------------------
(* What the sender promises *)

\* A want that waits for no peer, in a session that has peers, is one that
\* every peer of the session has answered with DONT_HAVE: no want is left
\* unsent while some peer may have the block, whatever mix of new wants,
\* cancels, answers and changes of availability a batch brought.
IdleWantsHopeless ==
  phase.at = "idle" =>
    \A c \in wants : sentTo[c] = None => \A p \in peers : blockPresence[c][p] = "dontHave"

\* The peer a want waits for was recorded as sent a want-block for it, so that
\* its DONT_HAVE ends the wait (processUpdates asks the tracker first).
WaitCanEnd ==
  phase.at = "idle" => \A c \in wants : sentTo[c] # None => c \in sentBlocks[sentTo[c]]
=============================================================================
