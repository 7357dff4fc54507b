--------------------------- MODULE SessionManager ---------------------------
(***************************************************************************)
(* The sessions of a client side by side: sessionmanager.go and            *)
(* sessioninterestmanager.go, which they share, with the parts of          *)
(* client.go, getter.go, notifications.go, session.go and                  *)
(* sessionwantsender.go that call them.  A block that arrives, a cancelled *)
(* call, a session that ends and the closing of the client each go through *)
(* several critical sections, and the sessions run in between.             *)
(*                                                                         *)
(* What module Session has in detail is coarse here: a want sender takes   *)
(* one change at a time, the peers of a session stay and have the blocks,  *)
(* the channels are never full, and of the PeerManager only the keys that  *)
(* some peer is asked for are kept.                                        *)
(***************************************************************************)
EXTENDS Naturals, Sequences, FiniteSets

CONSTANTS
  Sids,        \* session IDs
  Cids,        \* block keys
  Calls,       \* calls of GetBlocks, with one key each
  SessionOf,   \* the session of a call
  KeyOf,       \* the key of a call
  Known,       \* sessions that may have found a peer earlier, for other keys
  MaxEvents    \* blocks that arrive, calls cancelled, sessions ended and Close, together

ASSUME CallsAssumption ==
  /\ SessionOf \in [Calls -> Sids] /\ KeyOf \in [Calls -> Cids]
  /\ Known \subseteq Sids
  /\ MaxEvents \in Nat

Arrivals == 1..MaxEvents

VARIABLES
  wants,       \* SessionInterestManager.wants: "none", "interested" or "wanted", by key and session
  sessions,    \* SessionManager.sessions
  smDown,      \* it is nil: Shutdown was called
  life,        \* "none", "running", "removing" (RemoveSession), "removed"
  ended,       \* sessions whose context is done
  incoming,    \* Session.incoming
  loop,        \* the run loop is in its "select" or, in wantBlocks, about to "ask"
  toFetch,     \* sessionWants.toFetch
  live,        \* sessionWants.liveWants
  discovered,  \* SessionPeerManager.peersDiscovered: the session has a peer
  changes,     \* sessionWantSender.changes
  cancelling,  \* the want sender is between the two halves of CancelSessionWants
  tracked,     \* sessionWantSender.wants
  sent,        \* those that wait for a peer (sentTo)
  cancelKs,    \* keys CancelSessionWants or RemoveSession has yet to cancel
  asked,       \* PeerManager: keys that some peer is asked for
  everAsked,   \* keys a peer was ever asked for, so that blocks of them may arrive
  calls,       \* "new", "open", "done", "ended"
  arrival,     \* where the handler of a block is
  closing,     \* the client's process is closing
  notifDown,   \* notifications are shut down
  events,
  missed,      \* history: sessions and keys told of a block that is not published
  revived      \* history: keys asked for again after their session cancelled them

interests == <<wants, cancelKs>>
manager == <<sessions, smDown, life, ended>>
loops == <<incoming, loop, toFetch, live>>
senders == <<discovered, changes, cancelling, tracked, sent>>
peers == <<asked, everAsked>>
client == <<closing, notifDown, events>>
history == <<missed, revived>>
vars == <<interests, manager, loops, senders, peers, calls, arrival, client, history>>

Op(kind, c) == [op |-> kind, key |-> c]
NotArrived == [at |-> "none"]
Finished == [at |-> "done"]

Init ==
  /\ wants = [c \in Cids |-> [s \in Sids |-> "none"]]
  /\ sessions = {} /\ smDown = FALSE
  /\ life = [s \in Sids |-> "none"] /\ ended = {}
  /\ incoming = [s \in Sids |-> <<>>] /\ loop = [s \in Sids |-> "select"]
  /\ toFetch = [s \in Sids |-> {}] /\ live = [s \in Sids |-> {}]
  /\ discovered \in SUBSET Known
  /\ changes = [s \in Sids |-> <<>>] /\ cancelling = [s \in Sids |-> FALSE]
  /\ tracked = [s \in Sids |-> {}] /\ sent = [s \in Sids |-> {}]
  /\ cancelKs = [s \in Sids |-> {}]
  /\ asked = {} /\ everAsked = {}
  /\ calls = [r \in Calls |-> "new"]
  /\ arrival = [h \in Arrivals |-> NotArrived]
  /\ closing = FALSE /\ notifDown = FALSE /\ events = 0
  /\ missed = {} /\ revived = {}

Event == events < MaxEvents /\ events' = events + 1

\* SessionInterestManager: the sessions interested in a key, whether one of them
\* still wants it, and whether a given session is interested.
Interested(c) == {s \in Sids : wants[c][s] # "none"}
Wanted(c) == \E s \in Sids : wants[c][s] = "wanted"
FilterSessionInterested(s, c) == wants[c][s] # "none"

Ask(ks) == asked' = asked \cup ks /\ everAsked' = everAsked \cup ks
SendCancels(ks) == asked' = asked \ ks /\ UNCHANGED everAsked

\* An operation for a session whose context is done may be dropped, and after
\* the session has stopped it is, like a change for its want sender.
Enqueue(s, o) ==
  \/ life[s] \in {"none", "running"} /\ incoming' = [incoming EXCEPT ![s] = Append(@, o)]
  \/ s \in ended /\ UNCHANGED incoming
AddChange(s, ch) == changes' = IF life[s] # "running" THEN changes ELSE [changes EXCEPT ![s] = Append(@, ch)]

-----------------------------------------------------------------------------
(* Sessions and calls *)

\* SessionManager.NewSession.  After Shutdown the session is not put on
\* record, and nobody ends it.
NewSession(s) ==
  /\ life' = [life EXCEPT ![s] = "running"]
  /\ sessions' = IF smDown THEN sessions ELSE sessions \cup {s}
  /\ UNCHANGED <<smDown, ended>>

\* GetBlocks, of a new session or of one in use: the call subscribes and sends
\* its want to the session.
GetBlocks(r) ==
  /\ calls[r] = "new"
  /\ calls' = [calls EXCEPT ![r] = "open"]
  /\ IF life[SessionOf[r]] = "none" THEN NewSession(SessionOf[r]) ELSE UNCHANGED manager
  /\ Enqueue(SessionOf[r], Op("want", KeyOf[r]))
  /\ UNCHANGED <<interests, loop, toFetch, live, senders, peers, arrival, client, history>>

EndCall(r) ==
  /\ calls[r] = "open"
  /\ calls' = [calls EXCEPT ![r] = "ended"]
  /\ Enqueue(SessionOf[r], Op("cancel", KeyOf[r]))
  /\ UNCHANGED <<interests, manager, loop, toFetch, live, senders, peers, arrival, history>>

CallEnds_SessionOnly(r) == SessionOf[r] \in ended /\ EndCall(r) /\ UNCHANGED client

\* handleIncoming returns, because the caller gives up, or because the session
\* or the notifications end.
CancelCall(r) == Event /\ EndCall(r) /\ UNCHANGED <<closing, notifDown>>
CallEnds(r) == (SessionOf[r] \in ended \/ notifDown) /\ EndCall(r) /\ UNCHANGED client

-----------------------------------------------------------------------------
(* The run loop of a session *)

RecordSessionInterest(s, c) == wants' = [wants EXCEPT ![c][s] = "wanted"]

RemoveSessionWants_EverySession(s, c) ==
  wants' = [wants EXCEPT ![c] = [t \in Sids |-> IF @[t] = "wanted" THEN "interested" ELSE @[t]]]

RemoveSessionWants(s, c) ==
  wants' = [wants EXCEPT ![c][s] = IF @ = "wanted" THEN "interested" ELSE @]

WantBlocks(s, c) ==
  /\ RecordSessionInterest(s, c)
  /\ toFetch' = [toFetch EXCEPT ![s] = @ \cup {c}]
  /\ AddChange(s, Op("add", c))
  /\ loop' = [loop EXCEPT ![s] = "ask"]
  /\ UNCHANGED live

HandleReceive(s, c) ==
  /\ IF c \in toFetch[s] \cup live[s] THEN RemoveSessionWants(s, c) ELSE UNCHANGED wants
  /\ toFetch' = [toFetch EXCEPT ![s] = @ \ {c}]
  /\ live' = [live EXCEPT ![s] = @ \ {c}]
  /\ UNCHANGED <<changes, loop>>

CancelPending(s, c) ==
  /\ toFetch' = [toFetch EXCEPT ![s] = @ \ {c}]
  /\ AddChange(s, Op("cancel", c))
  /\ UNCHANGED <<wants, live, loop>>

WantsSent(s, c) ==
  /\ toFetch' = [toFetch EXCEPT ![s] = @ \ {c}]
  /\ live' = [live EXCEPT ![s] = @ \cup (toFetch[s] \cap {c})]
  /\ UNCHANGED <<wants, changes, loop>>

HandleOp(s) ==
  /\ life[s] = "running" /\ loop[s] = "select" /\ incoming[s] # <<>>
  /\ LET o == Head(incoming[s]) IN
     \/ o.op = "want" /\ WantBlocks(s, o.key)
     \/ o.op = "receive" /\ HandleReceive(s, o.key)
     \/ o.op = "cancel" /\ CancelPending(s, o.key)
     \/ o.op = "wantsSent" /\ WantsSent(s, o.key)
  /\ incoming' = [incoming EXCEPT ![s] = Tail(@)]
  /\ UNCHANGED <<cancelKs, manager, discovered, cancelling, tracked, sent, peers, calls, arrival, client, history>>

LoopAsks_NotLive(s) ==
  /\ loop[s] = "ask"
  /\ IF s \in discovered
       THEN UNCHANGED <<toFetch, live, peers>>
       ELSE /\ Ask(toFetch[s])
            /\ toFetch' = [toFetch EXCEPT ![s] = {}]
            /\ UNCHANGED live
  /\ loop' = [loop EXCEPT ![s] = "select"]
  /\ UNCHANGED <<interests, manager, incoming, senders, calls, arrival, client, history>>

\* The rest of wantBlocks: without peers, everyone is asked.
LoopAsks(s) ==
  /\ loop[s] = "ask"
  /\ IF s \in discovered
       THEN UNCHANGED <<toFetch, live, peers>>
       ELSE /\ Ask(toFetch[s])
            /\ live' = [live EXCEPT ![s] = @ \cup toFetch[s]]
            /\ toFetch' = [toFetch EXCEPT ![s] = {}]
  /\ loop' = [loop EXCEPT ![s] = "select"]
  /\ UNCHANGED <<interests, manager, incoming, senders, calls, arrival, client, history>>

\* The idle timer fires: the live wants are asked of everyone.
IdleTick(s) ==
  /\ life[s] = "running" /\ loop[s] = "select" /\ live[s] # {}
  /\ Ask(live[s])
  /\ revived' = revived \cup {c \in live[s] : wants[c][s] = "none"}
  /\ UNCHANGED <<interests, manager, loops, senders, calls, arrival, client, missed>>

-----------------------------------------------------------------------------
(* The want sender of a session *)

\* sendNextWants: a session with peers asks them; the run loop is told.
SendNextWants(s) ==
  LET next == IF s \in discovered' THEN tracked'[s] \ sent[s] ELSE {} IN
  /\ sent' = [sent EXCEPT ![s] = (@ \cup next) \cap tracked'[s]]
  /\ Ask(next)
  /\ \/ next = {} /\ UNCHANGED incoming
     \/ \E c \in next : Enqueue(s, Op("wantsSent", c))

\* onChange with a new want or a block.
SenderTakes(s) ==
  /\ life[s] = "running" /\ ~cancelling[s] /\ changes[s] # <<>>
  /\ LET ch == Head(changes[s]) IN
     /\ ch.op \in {"add", "block"}
     /\ tracked' = [tracked EXCEPT ![s] = IF ch.op = "add" THEN @ \cup {ch.key} ELSE @ \ {ch.key}]
     /\ discovered' = IF ch.op = "block" THEN discovered \cup {s} ELSE discovered
  /\ SendNextWants(s)
  /\ changes' = [changes EXCEPT ![s] = Tail(@)]
  /\ UNCHANGED <<interests, manager, cancelling, loop, toFetch, live, calls, arrival, client, history>>

RemoveInterest_Wanted(s, ks) ==
  /\ wants' = [c \in Cids |-> IF c \in ks THEN [wants[c] EXCEPT ![s] = "none"] ELSE wants[c]]
  /\ cancelKs' = [cancelKs EXCEPT ![s] = {c \in ks : Interested(c) = {s} /\ wants[c][s] = "wanted"}]

\* RemoveSessionInterested and RemoveSession of the SessionInterestManager,
\* which return the keys that no session is interested in any more.
RemoveInterest(s, ks) ==
  /\ wants' = [c \in Cids |-> IF c \in ks THEN [wants[c] EXCEPT ![s] = "none"] ELSE wants[c]]
  /\ cancelKs' = [cancelKs EXCEPT ![s] = {c \in ks : Interested(c) = {s}}]

\* onChange with a cancel: CancelSessionWants removes the interest ...
SenderCancels(s) ==
  /\ life[s] = "running" /\ ~cancelling[s] /\ changes[s] # <<>>
  /\ LET ch == Head(changes[s]) IN
     /\ ch.op = "cancel"
     /\ tracked' = [tracked EXCEPT ![s] = @ \ {ch.key}]
     /\ sent' = [sent EXCEPT ![s] = @ \ {ch.key}]
     /\ RemoveInterest(s, {ch.key})
  /\ cancelling' = [cancelling EXCEPT ![s] = TRUE]
  /\ changes' = [changes EXCEPT ![s] = Tail(@)]
  /\ UNCHANGED <<manager, loops, discovered, peers, calls, arrival, client, history>>

\* ... and then cancels the keys that were returned.
CancelWants(s) ==
  /\ cancelling[s]
  /\ SendCancels(cancelKs[s])
  /\ cancelKs' = [cancelKs EXCEPT ![s] = {}]
  /\ cancelling' = [cancelling EXCEPT ![s] = FALSE]
  /\ UNCHANGED <<wants, manager, loops, discovered, changes, tracked, sent, calls, arrival, client, history>>

-----------------------------------------------------------------------------
(* Blocks that arrive *)

\* receiveBlocksFrom tells wanted blocks, which will be published, from others;
\* NotifyNewBlocks publishes all.
Arrive(h, c, from) ==
  /\ arrival[h] = NotArrived /\ \A g \in 1..h-1 : arrival[g] # NotArrived
  /\ Event
  /\ ~closing
  /\ from = "peer" => c \in everAsked
  /\ arrival' = [arrival EXCEPT ![h] =
       [at |-> "sessions", key |-> c, from |-> from, tell |-> {},
        publish |-> from = "local" \/ Wanted(c)]]
  /\ UNCHANGED <<interests, manager, loops, senders, peers, calls, closing, notifDown, history>>

InterestedSessions(h) ==
  /\ arrival[h].at = "sessions"
  /\ arrival' = [arrival EXCEPT ![h].at = "tell", ![h].tell = Interested(arrival[h].key)]
  /\ UNCHANGED <<interests, manager, loops, senders, peers, calls, client, history>>

\* Session.ReceiveFrom, for a session still on record and still interested: the
\* want sender, which ignores blocks that come from no peer, and the run loop.
TellSession(h, s) ==
  /\ arrival[h].at = "tell" /\ s \in arrival[h].tell /\ ~smDown
  /\ arrival' = [arrival EXCEPT ![h].tell = @ \ {s}]
  /\ LET c == arrival[h].key IN
     IF s \in sessions /\ FilterSessionInterested(s, c)
       THEN /\ IF arrival[h].from = "peer" THEN AddChange(s, Op("block", c)) ELSE UNCHANGED changes
            /\ Enqueue(s, Op("receive", c))
            /\ missed' = IF arrival[h].publish THEN missed ELSE missed \cup {<<s, c>>}
       ELSE UNCHANGED <<changes, incoming, missed>>
  /\ UNCHANGED <<interests, manager, loop, toFetch, live, discovered, cancelling, tracked, sent, peers, calls,
                 client, revived>>

\* Once the sessions are told the cancels are sent, unless ReceiveFrom returned
\* early after Shutdown, and the block is published.
Publish(h) ==
  /\ arrival[h].at = "tell"
  /\ \/ arrival[h].tell = {} /\ SendCancels({arrival[h].key})
     \/ arrival[h].tell # {} /\ smDown /\ UNCHANGED peers
  /\ calls' = [r \in Calls |->
       IF arrival[h].publish /\ ~notifDown /\ KeyOf[r] = arrival[h].key /\ calls[r] = "open"
         THEN "done" ELSE calls[r]]
  /\ arrival' = [arrival EXCEPT ![h] = Finished]
  /\ UNCHANGED <<interests, manager, loops, senders, client, history>>

-----------------------------------------------------------------------------
(* The end of a session and of the client *)

\* The owner of the session cancels its context.
EndSession(s) ==
  /\ Event
  /\ life[s] = "running" /\ s \notin ended
  /\ ended' = ended \cup {s}
  /\ UNCHANGED <<interests, sessions, smDown, life, loops, senders, peers, calls, arrival, closing, notifDown, history>>

\* handleShutdown: the want sender has stopped, and RemoveSession begins.  What
\* is left in the session and its channels is lost.
RemoveSession(s) ==
  /\ life[s] = "running" /\ s \in ended /\ loop[s] = "select" /\ ~cancelling[s]
  /\ RemoveInterest(s, Cids)
  /\ life' = [life EXCEPT ![s] = "removing"]
  /\ toFetch' = [toFetch EXCEPT ![s] = {}] /\ live' = [live EXCEPT ![s] = {}]
  /\ tracked' = [tracked EXCEPT ![s] = {}] /\ sent' = [sent EXCEPT ![s] = {}]
  /\ incoming' = [incoming EXCEPT ![s] = <<>>] /\ changes' = [changes EXCEPT ![s] = <<>>]
  /\ UNCHANGED <<sessions, smDown, ended, loop, discovered, cancelling, peers, calls, arrival, client, history>>

SessionRemoved(s) ==
  /\ life[s] = "removing"
  /\ SendCancels(cancelKs[s])
  /\ cancelKs' = [cancelKs EXCEPT ![s] = {}]
  /\ sessions' = sessions \ {s}
  /\ life' = [life EXCEPT ![s] = "removed"]
  /\ UNCHANGED <<wants, smDown, ended, loops, senders, calls, arrival, client, history>>

Close ==
  /\ Event
  /\ ~closing
  /\ closing' = TRUE
  /\ UNCHANGED <<interests, manager, loops, senders, peers, calls, arrival, notifDown, history>>

\* The goroutine of client.New ends the sessions, then the notifications.
Shutdown ==
  /\ closing /\ ~smDown
  /\ smDown' = TRUE
  /\ ended' = ended \cup sessions
  /\ sessions' = {}
  /\ UNCHANGED <<interests, life, loops, senders, peers, calls, arrival, client, history>>

NotifShutdown ==
  /\ smDown /\ ~notifDown
  /\ notifDown' = TRUE
  /\ UNCHANGED <<interests, manager, loops, senders, peers, calls, arrival, closing, events, history>>

-----------------------------------------------------------------------------
Inputs ==
  \/ \E s \in Sids : EndSession(s)
  \/ \E r \in Calls : GetBlocks(r) \/ CancelCall(r)
  \/ \E h \in Arrivals, c \in Cids, from \in {"peer", "local"} : Arrive(h, c, from)
  \/ Close

Work ==
  \/ \E r \in Calls : CallEnds(r)
  \/ \E s \in Sids : HandleOp(s) \/ LoopAsks(s) \/ IdleTick(s)
  \/ \E s \in Sids : SenderTakes(s) \/ SenderCancels(s) \/ CancelWants(s)
  \/ \E h \in Arrivals : InterestedSessions(h) \/ Publish(h)
  \/ \E h \in Arrivals, s \in Sids : TellSession(h, s)
  \/ \E s \in Sids : RemoveSession(s) \/ SessionRemoved(s)
  \/ Shutdown \/ NotifShutdown

Next == Inputs \/ Work

\* Goroutines are scheduled and the idle timer fires.  The inputs so far lead to
\* finitely many steps of Work that change anything, so it is enough that one
\* is taken while there are any.
Spec == Init /\ [][Next]_vars /\ WF_vars(Work)

-----------------------------------------------------------------------------
(* Properties *)

\* Nothing is under way.
Quiet ==
  /\ \A h \in Arrivals : arrival[h].at \in {"none", "done"}
  /\ \A s \in Sids :
       \/ life[s] \in {"none", "removed"}
       \/ /\ life[s] = "running" /\ s \notin ended
          /\ incoming[s] = <<>> /\ loop[s] = "select" /\ changes[s] = <<>> /\ ~cancelling[s]

\* client.go:324: "Publish the block to any Bitswap clients that had requested
\* blocks".  Once everything is handled an open call is one whose session still
\* wants the block, so that it will be published, whatever other sessions
\* received, cancelled and ended meanwhile.  The exception is a block taken for
\* unwanted just before the session asked for it: the session is told that it
\* has arrived, but it is not published.
OpenCallsWanted ==
  Quiet => \A r \in Calls : calls[r] = "open" /\ life[SessionOf[r]] = "running" =>
    \/ wants[KeyOf[r]][SessionOf[r]] = "wanted"
    \/ <<SessionOf[r], KeyOf[r]>> \in missed

\* sessionmanager.go:192: "Send CANCEL to all peers for blocks that no session
\* is interested in anymore."  Once everything is handled, no peer is asked for
\* a key that no session is interested in, although interest is removed and
\* cancels are sent in different critical sections.  The exception is a
\* cancelled want that is still among the live wants of its session: the idle
\* timer asks for it again, and nobody cancels it any more.
NotAskedInVain == Quiet => \A c \in asked : Interested(c) # {} \/ c \in revived

\* A call is open and nobody is asked for its key.
Unasked ==
  \E r \in Calls : /\ calls[r] = "open" /\ KeyOf[r] \notin asked
                   /\ <<SessionOf[r], KeyOf[r]>> \notin missed

\* A session whose want is cancelled by another (which lost interest, or told
\* everyone of a received block, just before this one asked) asks again: no call
\* stays open for ever with its key asked of nobody.
OpenCallsAskedAgain == []<>~Unasked

\* Close ends every call, also those of sessions that were created too late to
\* be ended themselves, and removes every session that was on record: as a
\* client that closes never opens again, it is enough to say that, again and
\* again, it is not closing or all has ended.
CloseEnds ==
  []<>(closing => /\ \A r \in Calls : calls[r] # "open"
                  /\ \A s \in Sids : s \in ended => life[s] = "removed")
=============================================================================
