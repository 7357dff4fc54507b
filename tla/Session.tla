------------------------------ MODULE Session ------------------------------
(***************************************************************************)
(* One session (session.go, sessionwants.go): its run loop beside the want *)
(* sender, from GetBlocks (getter.go) to the publication of the block      *)
(* (client.go).  Peers answer what they were asked, slow ones perhaps too  *)
(* late.  Beyond that, in each behaviour at most MaxEvents times, a peer   *)
(* disconnects, a provider is found, a block is added locally, a call is   *)
(* cancelled, an extra call is made, the periodic search stops, or the     *)
(* session ends.                                                           *)
(***************************************************************************)
EXTENDS SessionWantSender

CONSTANTS
  Calls,        \* calls of GetBlocks, with one key each
  Extra,        \* the calls that count as events
  KeyOf,        \* the key of a call
  Holders,      \* the peers that have the block of a key
  Known,        \* peers that may have sent the session blocks of other keys earlier
  Slow,         \* keys for which answers may come after the DONT_HAVE timeout
  MaxEvents,    \* bound on what happens besides calls and answers
  BroadcastLimit

ASSUME SessionAssumption ==
  /\ KeyOf \in [Calls -> Cids] /\ Holders \in [Cids -> SUBSET Peers]
  /\ Slow \subseteq Cids /\ Known \subseteq Peers /\ Extra \subseteq Calls
  /\ {ChangesBufferSize, IncomingSize, PeerDontHaveLimit, BroadcastLimit} \subseteq Nat \ {0}
  /\ MaxEvents \in Nat

VARIABLES
  toFetch,      \* sessionWants.toFetch
  live,         \* sessionWants.liveWants
  ticked,       \* consecutiveTicks > 0
  searchTimer,  \* periodicSearchTimer: "armed" or "stopped"
  found,        \* providers and keys that searches of findMorePeers have yet to report
  calls,        \* "new", "open", "done" or "cancelled"
  inflight,     \* the message being handled for each peer, and for None the local blocks
  events,       \* what happened so far besides calls and answers
  life          \* "running", "untagged", "stopped" (want sender), "removed"

loop == <<toFetch, live, ticked, searchTimer, found>>
vars == <<sender, channels, phase, session, presence, interest, manager, pending,
          operations, loop, calls, inflight, events, life>>

NoMessage == [stage |-> "none", kind |-> "have", cid |-> None, publish |-> FALSE]
Sources == Peers \cup {None}

Event == events < MaxEvents /\ events' = events + 1

Init ==
  /\ connected \in SUBSET Peers
  /\ peers \in SUBSET (Known \cap connected)
  /\ SenderInit
  /\ toFetch = {} /\ live = {} /\ ticked = FALSE
  /\ searchTimer = "armed" /\ found = {}
  /\ calls = [r \in Calls |-> "new"]
  /\ inflight = [p \in Sources |-> NoMessage]
  /\ events = 0
  /\ life = "running"

-----------------------------------------------------------------------------
(* GetBlocks: subscribe, ask the session, hand over the block or cancel *)

Enqueue(o) ==
  /\ Len(incoming) < IncomingSize
  /\ incoming' = Append(incoming, o)
  /\ UNCHANGED late

GetBlocks(r) ==
  /\ calls[r] = "new" /\ life = "running"
  /\ calls' = [calls EXCEPT ![r] = "open"]
  /\ Enqueue(Op("want", {KeyOf[r]}))
  /\ IF r \in Extra THEN Event ELSE UNCHANGED events
  /\ UNCHANGED <<sender, channels, phase, session, presence, interest, manager, pending,
                 loop, inflight, life>>

\* The context of the call is done: handleIncoming cancels what remains.
CancelCall(r) ==
  /\ Event
  /\ calls[r] = "open" /\ life = "running"
  /\ calls' = [calls EXCEPT ![r] = "cancelled"]
  /\ Enqueue(Op("cancel", {KeyOf[r]}))
  /\ UNCHANGED <<sender, channels, phase, session, presence, interest, manager, pending,
                 loop, inflight, life>>

-----------------------------------------------------------------------------
(* The run loop *)

\* PeerManager.BroadcastWantHaves.  Only a peer with the block answers.
Broadcast(ks) ==
  /\ bcast' = bcast \cup ks
  /\ owed' = [p \in Peers |-> [c \in Cids |->
       IF c \in ks \ bcast /\ p \in connected \cap Holders[c] /\ asked[p][c] = "none"
       THEN owed[p][c] \cup {"have"} ELSE owed[p][c]]]
  /\ UNCHANGED asked

\* sessionWants.GetNextWants moves keys to the live wants, up to the limit.
\* None moves once the session has discovered peers.
NextWants(waiting) ==
  LET room == IF discovered THEN 0 ELSE BroadcastLimit - Cardinality(live)
  IN {ks \in SUBSET waiting :
        Cardinality(ks) = IF Cardinality(waiting) < room THEN Cardinality(waiting) ELSE room}

RecordSessionInterest(ks) ==
  interest' = [c \in Cids |-> IF c \in ks THEN "wanted" ELSE interest[c]]

WantBlocks(ks) ==
  /\ RecordSessionInterest(ks)
  /\ AddChange(Change("add", None, CHOOSE c \in ks : TRUE))
  /\ \E next \in NextWants(toFetch \cup ks) :
       /\ toFetch' = (toFetch \cup ks) \ next
       /\ live' = live \cup next
       /\ Broadcast(next)
  /\ UNCHANGED <<spawned, presence, ticked, searchTimer, found>>

\* sessionWants.BlocksReceived and RemoveSessionWants; the idle timer restarts.
HandleReceive(ks) ==
  LET wanted == ks \cap (toFetch \cup live) IN
  /\ toFetch' = toFetch \ ks
  /\ live' = live \ ks
  /\ interest' = [c \in Cids |-> IF c \in wanted /\ interest[c] = "wanted" THEN "interested" ELSE interest[c]]
  /\ ticked' = (ticked /\ wanted = {})
  /\ UNCHANGED <<channels, presence, pending, searchTimer, found>>

\* sessionWants.CancelPending, and the want sender is told.
CancelWants(ks) ==
  /\ toFetch' = toFetch \ ks
  /\ AddChange(Change("cancel", None, CHOOSE c \in ks : TRUE))
  /\ UNCHANGED <<spawned, presence, interest, pending, live, ticked, searchTimer, found>>

\* sessionWants.WantsSent.
WantsSent(ks) ==
  /\ live' = live \cup (ks \cap toFetch)
  /\ toFetch' = toFetch \ ks
  /\ UNCHANGED <<channels, presence, interest, pending, ticked, searchTimer, found>>

\* findMorePeers starts a search.
FindMorePeers(c) == found' = found \cup (Holders[c] \X {c})

\* Session.broadcast, for the exhausted wants or, on an idle tick, the live
\* ones.  Providers are looked for unless ticks follow one another.
BroadcastWants(ks) ==
  /\ Broadcast(ks)
  /\ IF ks # {} /\ ~ticked THEN \E c \in ks : FindMorePeers(c) ELSE UNCHANGED found
  /\ ticked' = (ticked \/ live # {})
  /\ UNCHANGED <<channels, presence, interest, toFetch, live, searchTimer>>

HandleOp ==
  /\ life = "running" /\ incoming # <<>>
  /\ LET o == Head(incoming) IN
     \/ o.op = "want" /\ WantBlocks(o.keys)
     \/ o.op = "receive" /\ HandleReceive(o.keys)
     \/ o.op = "cancel" /\ CancelWants(o.keys)
     \/ o.op = "wantsSent" /\ WantsSent(o.keys)
     \/ o.op = "broadcast" /\ BroadcastWants(o.keys)
  /\ incoming' = Tail(incoming)
  /\ UNCHANGED <<sender, phase, session, manager, late, calls, inflight, events, life>>

\* A goroutine of nonBlockingEnqueue gets its operation into the channel.
LateOp ==
  \E o \in late :
    /\ life = "running" /\ Len(incoming) < IncomingSize
    /\ incoming' = Append(incoming, o)
    /\ late' = late \ {o}
    /\ UNCHANGED <<sender, channels, phase, session, presence, interest, manager, pending,
                   loop, calls, inflight, events, life>>

LiveBroadcast == {ks \in SUBSET live :
  Cardinality(ks) = IF Cardinality(live) < BroadcastLimit THEN Cardinality(live) ELSE BroadcastLimit}

\* The idle timer fires.
IdleTick ==
  /\ life = "running"
  /\ \E ks \in LiveBroadcast : BroadcastWants(ks)
  /\ UNCHANGED <<sender, phase, session, manager, operations, calls, inflight, events, life>>

\* The periodic search timer fires; without a live want it is not reset, which
\* is bounded as an event, since it only takes later searches away.
PeriodicSearch ==
  /\ life = "running" /\ searchTimer = "armed"
  /\ \/ /\ live = {} /\ Event
        /\ searchTimer' = "stopped"
        /\ UNCHANGED <<found, pending>>
     \/ \E c \in live :
        /\ FindMorePeers(c)
        /\ Broadcast({c})
        /\ UNCHANGED <<searchTimer, events>>
  /\ UNCHANGED <<sender, channels, phase, session, presence, interest, manager, operations,
                 toFetch, live, ticked, calls, inflight, life>>

\* The search returns a provider, which counts as a HAVE for the want
\* sender; the BlockPresenceManager is not told.
FoundProvider(p, c) ==
  /\ Event
  /\ <<p, c>> \in found /\ life \in {"running", "untagged"}
  /\ found' = found \ {<<p, c>>}
  /\ AddChange(Change("have", p, c))
  /\ UNCHANGED <<sender, spawned, phase, session, presence, interest, manager, pending,
                 operations, toFetch, live, ticked, searchTimer, calls, inflight, life>>

-----------------------------------------------------------------------------
(* Messages: client.receiveBlocksFrom and SessionManager.ReceiveFrom *)

\* What a peer may answer to what it was asked; a holder may answer a
\* want-have with the block.  A timeout counts as DONT_HAVE.
Answers(p, c, owing) ==
  IF owing = "timeout" \/ p \notin Holders[c] THEN {"dontHave"}
  ELSE IF owing = "have" THEN {"have", "block"} ELSE {"block"}

Wanted_IfTracked(kind, c) == kind = "block" /\ c \in wants

\* SplitWantedUnwanted: some session wants the block.
Wanted(kind, c) == kind = "block" /\ interest[c] = "wanted"

\* SplitWantedUnwanted decides what will be published, then the
\* BlockPresenceManager is told.  A HAVE is not changed to a DONT_HAVE.
Receive(p, c) ==
  /\ inflight[p].stage = "none"
  /\ \E owing \in owed[p][c] : \E kind \in Answers(p, c, owing) :
     /\ owing = "timeout" => c \in Slow
     /\ owed' = [owed EXCEPT ![p][c] = IF owing = "timeout" THEN @ \ {owing} ELSE @ \ {owing, "timeout"}]
     /\ inflight' = [inflight EXCEPT ![p] =
          [stage |-> "sessions", kind |-> kind, cid |-> c,
           publish |-> Wanted(kind, c)]]
     /\ presence' = [presence EXCEPT ![c][p] =
          IF kind = "block" \/ @ = "have" THEN @ ELSE kind]
  /\ UNCHANGED <<sender, channels, phase, session, interest, manager, asked, bcast, operations,
                 loop, calls, events, life>>

\* NotifyNewBlocks: the block is always published.
NotifyNewBlock(c) ==
  /\ Event
  /\ inflight[None].stage = "none"
  /\ inflight' = [inflight EXCEPT ![None] =
       [stage |-> "sessions", kind |-> "block", cid |-> c, publish |-> TRUE]]
  /\ UNCHANGED <<sender, channels, phase, session, presence, interest, manager, pending,
                 operations, loop, calls, life>>

\* Session.ReceiveFrom, if the session is interested in the key: the want
\* sender is told, then the run loop.
TellSession(p) ==
  /\ inflight[p].stage = "sessions"
  /\ LET m == inflight[p]
         told == interest[m.cid] # "none" /\ life # "removed"
     IN /\ inflight' = [inflight EXCEPT ![p] =
             IF m.kind = "block" THEN [m EXCEPT !.stage = IF told THEN "loop" ELSE "publish"]
             ELSE NoMessage]
        /\ IF told /\ life # "stopped" THEN AddChange(Change(m.kind, p, m.cid)) ELSE UNCHANGED changes
  /\ UNCHANGED <<sender, spawned, phase, session, presence, interest, manager, pending,
                 operations, loop, calls, events, life>>

TellLoop(p) ==
  /\ inflight[p].stage = "loop"
  /\ inflight' = [inflight EXCEPT ![p].stage = "publish"]
  /\ IF life = "running" THEN Enqueue(Op("receive", {inflight[p].cid})) ELSE UNCHANGED operations
  /\ UNCHANGED <<sender, channels, phase, session, presence, interest, manager, pending,
                 loop, calls, events, life>>

\* SendCancels, then the block is published to the calls that wait for it.
Publish(p) ==
  /\ inflight[p].stage = "publish"
  /\ SendCancels({inflight[p].cid})
  /\ calls' = [r \in Calls |->
       IF inflight[p].publish /\ calls[r] = "open" /\ KeyOf[r] = inflight[p].cid
       THEN "done" ELSE calls[r]]
  /\ inflight' = [inflight EXCEPT ![p] = NoMessage]
  /\ UNCHANGED <<sender, channels, phase, session, presence, interest, manager, operations,
                 loop, events, life>>

-----------------------------------------------------------------------------
(* Connections and shutdown *)

\* PeerManager.Connected and Disconnected tell a registered session.
Signal(ch) ==
  IF ch.peer \in registered THEN SignalAvailability(ch) ELSE UNCHANGED channels

Connected(p) ==
  /\ p \notin connected
  /\ connected' = connected \cup {p}
  /\ Signal(Change("available", p, None))
  /\ owed' = [owed EXCEPT ![p] = [c \in Cids |-> IF c \in bcast /\ p \in Holders[c] THEN {"have"} ELSE {}]]
  /\ UNCHANGED <<sender, phase, session, presence, interest, registered, asked, bcast,
                 operations, loop, calls, inflight, events, life>>

Disconnected(p) ==
  /\ Event
  /\ p \in connected
  /\ connected' = connected \ {p}
  /\ Signal(Change("unavailable", p, None))
  /\ asked' = [asked EXCEPT ![p] = [c \in Cids |-> "none"]]
  /\ owed' = [owed EXCEPT ![p] = [c \in Cids |-> {}]]
  /\ UNCHANGED <<sender, phase, session, presence, interest, registered, bcast,
                 operations, loop, calls, inflight, life>>

\* handleShutdown: SessionPeerManager.Shutdown untags the peers it has.
Shutdown ==
  /\ Event
  /\ life = "running"
  /\ life' = "untagged"
  /\ tagged' = tagged \ peers /\ protected' = protected \ peers
  /\ calls' = [r \in Calls |-> IF calls[r] = "open" THEN "cancelled" ELSE calls[r]]
  /\ UNCHANGED <<sender, channels, phase, peers, discovered, presence, interest, manager,
                 pending, operations, loop, inflight>>

\* The want sender's loop sees its context done and unregisters the session.
StopSender ==
  /\ life = "untagged" /\ phase.at = "idle"
  /\ life' = "stopped"
  /\ registered' = {}
  /\ UNCHANGED <<sender, channels, phase, session, presence, interest, connected, pending,
                 operations, loop, calls, inflight, events>>

\* SessionManager.RemoveSession.
RemoveSession ==
  /\ life = "stopped"
  /\ life' = "removed"
  /\ LET ks == {c \in Cids : interest[c] # "none"} IN
     /\ presence' = [c \in Cids |-> IF c \in ks THEN [p \in Peers |-> "unknown"] ELSE presence[c]]
     /\ SendCancels(ks)
  /\ interest' = [c \in Cids |-> "none"]
  /\ UNCHANGED <<sender, channels, phase, session, manager, operations, loop, calls, inflight, events>>

SenderStep ==
  /\ life \in {"running", "untagged"}
  /\ SenderLoop
  /\ UNCHANGED <<loop, calls, inflight, events, life>>

SpawnedStep ==
  /\ life \in {"running", "untagged"}
  /\ SpawnedChange
  /\ UNCHANGED <<loop, calls, inflight, events, life>>

Next ==
  \/ \E r \in Calls : GetBlocks(r) \/ CancelCall(r)
  \/ HandleOp \/ LateOp \/ IdleTick \/ PeriodicSearch
  \/ \E c \in Cids : NotifyNewBlock(c)
  \/ \E p \in Peers, c \in Cids : FoundProvider(p, c) \/ Receive(p, c)
  \/ \E p \in Sources : TellSession(p) \/ TellLoop(p) \/ Publish(p)
  \/ \E p \in Peers : Connected(p) \/ Disconnected(p)
  \/ SenderStep \/ SpawnedStep
  \/ Shutdown \/ StopSender \/ RemoveSession

Spec == Init /\ [][Next]_vars

\* The goroutines run: the run loop, the want sender, the message handlers
\* and those that wait for a channel.  Peers answer what they were asked.
Fairness ==
  /\ WF_vars(HandleOp) /\ WF_vars(LateOp) /\ WF_vars(SenderStep) /\ WF_vars(SpawnedStep)
  /\ \A p \in Sources : WF_vars(TellSession(p)) /\ WF_vars(TellLoop(p)) /\ WF_vars(Publish(p))
  /\ \A p \in Peers, c \in Cids : WF_vars(Receive(p, c))

FairSpec == Spec /\ Fairness

-----------------------------------------------------------------------------
\* Nothing is on its way to the session or its want sender.
Quiet ==
  /\ life = "running" /\ phase.at = "idle"
  /\ changes = <<>> /\ spawned = {} /\ incoming = <<>> /\ late = {}
  /\ \A p \in Sources : inflight[p].stage = "none"

WantedKeys == {c \in Cids : interest[c] = "wanted"}

\* Once everything has been handled, a key that the session is recorded to
\* want (by the SessionInterestManager) is one that its run loop has queued or
\* sent and that its want sender tracks: calls, cancels and receipts, handled
\* by different goroutines, never leave the three apart.  As
\* how-bitswap-works.md:124 says: "When the client requests subsequent blocks
\* the Session informs the sessionWantSender. The sessionWantSender tells the
\* PeerManager to send `want-have` and `want-block` to peers in the session."
WantedIsPursued == Quiet => WantedKeys \subseteq (toFetch \cup live) \cap wants

\* A call does not wait for nobody: when its key is asked of no peer of the
\* session, because they answered DONT_HAVE or left, it has been asked of
\* everyone (session.go:273: "onPeersExhausted is called when all available
\* peers have sent DONT_HAVE for a set of cids (or all peers become
\* unavailable)").  The exceptions are keys that were never sent, in a session
\* without peers: those past the broadcast limit, and those asked for after
\* the peers it had discovered were gone.
OpenCallsAsked ==
  Quiet => \A r \in Calls : calls[r] = "open" =>
    LET c == KeyOf[r] IN
    sentTo[c] # None \/ c \in bcast \/ (c \in toFetch /\ peers = {})

\* The PeerManager and the connection manager agree with the session about its
\* peers, however answers, disconnects, pruning and shutdown interleave: it
\* is registered for each of them, so that it learns when one goes, only its
\* peers are protected, and while it runs exactly its peers are tagged.
SessionPeersAgree ==
  /\ life \in {"running", "untagged"} => peers \subseteq registered
  /\ protected \subseteq peers
  /\ life = "running" => tagged = peers

\* A call returns once a peer that has its block is connected, when no other
\* event happens: calls are not cancelled, peers stay and answer in time.
CallsReturn ==
  \A r \in Calls : calls[r] = "open" ~> calls[r] = "done" \/ Holders[KeyOf[r]] \cap connected = {}

\* client.go:324 says "Publish the block to any Bitswap clients that had
\* requested blocks": once everything has been handled, a call still open is
\* one whose block would be published, being wanted.
OpenCallsWanted == Quiet => \A r \in Calls : calls[r] = "open" => interest[KeyOf[r]] = "wanted"
=============================================================================
