---------------------------- MODULE MessageQueue ----------------------------
(***************************************************************************)
(* client/internal/messagequeue: the queue of wants and cancels for one    *)
(* peer.  Callers (serialised by PeerManager.pqLk) change the want lists   *)
(* under wllock and signal the runQueue goroutine, which debounces, turns  *)
(* the lists into messages and sends them.  Every action is one critical   *)
(* section of wllock, one channel or timer operation, or one network call. *)
(*                                                                         *)
(* A want list maps a key to "none", "have" or "block".  Time, priorities  *)
(* and message bytes are abstracted: a timer that is armed may fire, every *)
(* entry has size one, and which of the entries fit is left open.          *)
(***************************************************************************)
EXTENDS Naturals, FiniteSets

CONSTANTS Cids,            \* block keys
          maxMessageSize   \* entries that fill a message

ASSUME SizeAssumption == maxMessageSize \in Nat \ {0}

VARIABLES
  bcstPending, bcstSent,  \* mq.bcstWants: all entries are want-haves
  peerPending, peerSent,  \* mq.peerWants
  bcstAt, peerAt,         \* keys of the two sentAt maps
  cancels,                \* mq.cancels
  outgoingWork,           \* the signal channel, of capacity one, is full
  workScheduled,          \* runQueue's workScheduled is not zero
  scheduleWork,           \* its timer: "stopped", "armed" or "fired" (undrained)
  run,                    \* where the runQueue goroutine is
  connected,              \* mq.sender has been created
  snap,                   \* extractOutgoingMessage: the entries taken from the lists
  msg,                    \* mq.msg: what it says of each key
  timers,                 \* keys pending in dhTimeoutMgr
  addPending,             \* simulateDontHaveWithTimeout: keys about to be added
  cancelling, caller,     \* AddCancels: its keys, and where it is
  ctxDone,                \* mq.ctx is cancelled
  supportsHave,           \* the peer speaks a protocol with HAVE, once and for all
  askedBcst, askedPeer,   \* what the callers have asked for and not cancelled
  remote                  \* the peer's copy of the want list

lists == <<bcstPending, bcstSent, peerPending, peerSent, bcstAt, peerAt, cancels>>
\* Neither the callers nor runQueue change supportsHave.
loop == <<outgoingWork, workScheduled, scheduleWork>>
sending == <<run, connected, snap, msg, addPending, supportsHave>>
callers == <<cancelling, caller, askedBcst, askedPeer, supportsHave>>
vars == <<lists, loop, sending, callers, timers, ctxDone, remote>>

WantTypes == {"none", "have", "block"}
NoWants == [c \in Cids |-> "none"]
NoSnap == [peer |-> NoWants, bcst |-> {}, cancels |-> {}]
KeysOf(w) == {c \in Cids : w[c] # "none"}
Asked(c) == c \in askedBcst \/ askedPeer[c] # "none"

Init ==
  /\ bcstPending = {} /\ bcstSent = {} /\ bcstAt = {}
  /\ peerPending = NoWants /\ peerSent = NoWants /\ peerAt = {}
  /\ cancels = {}
  /\ outgoingWork = FALSE /\ workScheduled = FALSE /\ scheduleWork = "stopped"
  /\ run = "select" /\ connected = FALSE
  /\ snap = NoSnap /\ msg = NoWants /\ addPending = {}
  /\ timers = {} /\ ctxDone = FALSE /\ supportsHave \in BOOLEAN
  /\ cancelling = {} /\ caller = "idle"
  /\ askedBcst = {} /\ askedPeer = NoWants
  /\ remote = NoWants

----------------------------------------------------------------------------
(* Wantlist (client/wantlist): the effect of an operation on one entry *)

\* Adding a want-have does not override a want-block.
Add(e, type) == IF e = "block" \/ (e = "have" /\ type = "have") THEN e ELSE type

\* Removing a want-have does not remove a want-block.
Removes(e, type) == e # "none" /\ ~(e = "block" /\ type = "have")
RemoveType(e, type) == IF Removes(e, type) THEN "none" ELSE e

AddTo(w, ks, type) == [c \in Cids |-> IF c \in ks THEN Add(w[c], type) ELSE w[c]]
Absorb_Nothing(w, other) == w
Absorb(w, other) == [c \in Cids |-> IF other[c] = "none" THEN w[c] ELSE Add(w[c], other[c])]

hasPendingWork == bcstPending # {} \/ KeysOf(peerPending) # {} \/ cancels # {}

----------------------------------------------------------------------------
(* Callers.  The peer want manager asks for a key only if it has not asked *)
(* for it, or to turn a want-have into a want-block, and cancels only what *)
(* it asked for.                                                           *)

\* A new want for a key clears a cancel for it that is still to be sent.
ClearsCancels(ks) == cancels \ ks

AddBroadcastWantHaves(ks) ==
  /\ caller = "idle" /\ ks # {} /\ \A c \in ks : ~Asked(c)
  /\ bcstPending' = bcstPending \cup ks
  /\ cancels' = ClearsCancels(ks)
  /\ outgoingWork' = TRUE
  /\ askedBcst' = askedBcst \cup ks
  /\ UNCHANGED <<bcstSent, peerPending, peerSent, bcstAt, peerAt, workScheduled, scheduleWork,
                 sending, cancelling, caller, askedPeer, timers, ctxDone, remote>>

AddWants(blocks, haves) ==
  /\ caller = "idle" /\ blocks \cup haves # {} /\ blocks \cap haves = {}
  /\ \A c \in blocks : askedPeer[c] # "block"
  /\ \A c \in haves : ~Asked(c)
  /\ peerPending' = AddTo(AddTo(peerPending, haves, "have"), blocks, "block")
  /\ cancels' = ClearsCancels(blocks \cup haves)
  /\ outgoingWork' = TRUE
  /\ askedPeer' = AddTo(AddTo(askedPeer, haves, "have"), blocks, "block")
  /\ UNCHANGED <<bcstPending, bcstSent, peerSent, bcstAt, peerAt, workScheduled, scheduleWork,
                 sending, cancelling, caller, askedBcst, timers, ctxDone, remote>>

\* AddCancels, first step: cancel the DONT_HAVE timers.
AddCancels(ks) ==
  /\ caller = "idle" /\ ks # {} /\ \A c \in ks : Asked(c)
  /\ timers' = timers \ ks
  /\ cancelling' = ks /\ caller' = "cancel"
  /\ UNCHANGED <<lists, loop, sending, askedBcst, askedPeer, ctxDone, remote>>

NeedsSignal_PeerOnly(wasSent) == wasSent \cap KeysOf(peerSent) # {}

\* workReady
NeedsSignal(wasSent) == wasSent # {}

\* Second step, under wllock: only a want that was sent needs a cancel.
AddCancelsLocked ==
  LET wasSent == cancelling \cap (bcstSent \cup KeysOf(peerSent))
      Remove(w) == [c \in Cids |-> IF c \in cancelling THEN "none" ELSE w[c]]
  IN /\ caller = "cancel"
     /\ bcstPending' = bcstPending \ cancelling /\ bcstSent' = bcstSent \ cancelling
     /\ peerPending' = Remove(peerPending) /\ peerSent' = Remove(peerSent)
     /\ bcstAt' = bcstAt \ cancelling /\ peerAt' = peerAt \ cancelling
     /\ cancels' = cancels \cup wasSent
     /\ caller' = IF NeedsSignal(wasSent) THEN "signal" ELSE "idle"
     /\ askedBcst' = askedBcst \ cancelling /\ askedPeer' = Remove(askedPeer)
     /\ cancelling' = {}
     /\ UNCHANGED <<loop, sending, timers, ctxDone, remote>>

\* Last step, after the unlock.
AddCancelsSignal ==
  /\ caller = "signal"
  /\ outgoingWork' = TRUE
  /\ caller' = "idle"
  /\ UNCHANGED <<lists, workScheduled, scheduleWork, sending, cancelling, askedBcst, askedPeer,
                 timers, ctxDone, remote>>

Shutdown ==
  /\ ctxDone' = TRUE
  /\ UNCHANGED <<lists, loop, sending, callers, timers, remote>>

Caller ==
  \/ \E ks \in SUBSET Cids : AddBroadcastWantHaves(ks) \/ AddCancels(ks)
  \/ \E blocks, haves \in SUBSET Cids : AddWants(blocks, haves)
  \/ AddCancelsLocked \/ AddCancelsSignal

----------------------------------------------------------------------------
(* The runQueue goroutine *)

\* The head of the loop: with the context cancelled the goroutine ends, and
\* onShutdown shuts the timeout manager down.
Loop ==
  IF ctxDone THEN run' = "done" /\ timers' = {} ELSE run' = "select" /\ UNCHANGED timers

\* mq.Shutdown after a failure, and the head of the loop.
GiveUp ==
  /\ ctxDone' = TRUE /\ run' = "done" /\ timers' = {}
  /\ snap' = NoSnap /\ msg' = NoWants
  /\ UNCHANGED <<lists, loop, connected, addPending, callers, remote>>

ContextDone ==
  /\ run = "select" /\ ctxDone
  /\ run' = "done" /\ timers' = {}
  /\ UNCHANGED <<lists, loop, connected, snap, msg, addPending, callers, ctxDone, remote>>

\* Stop the debounce timer, draining it if it has fired: the drain would
\* block on a timer that is neither armed nor fired.
StopTimer == workScheduled => scheduleWork # "stopped"

\* A signal: extend the debounce timer.
TakeWorkDebounce ==
  /\ run = "select" /\ outgoingWork /\ StopTimer
  /\ outgoingWork' = FALSE /\ workScheduled' = TRUE /\ scheduleWork' = "armed"
  /\ Loop
  /\ UNCHANGED <<lists, connected, snap, msg, addPending, callers, ctxDone, remote>>

TakeWorkSend_KeepsTimer ==
  /\ run = "select" /\ outgoingWork /\ StopTimer
  /\ outgoingWork' = FALSE
  /\ scheduleWork' = "stopped"
  /\ run' = "sendIfReady"
  /\ UNCHANGED <<lists, workScheduled, connected, snap, msg, addPending, callers, timers, ctxDone, remote>>

\* A signal, and there is too much work or it waited too long: send now.
TakeWorkSend ==
  /\ run = "select" /\ outgoingWork /\ StopTimer
  /\ outgoingWork' = FALSE /\ workScheduled' = FALSE
  /\ scheduleWork' = "stopped"
  /\ run' = "sendIfReady"
  /\ UNCHANGED <<lists, connected, snap, msg, addPending, callers, timers, ctxDone, remote>>

TimerFires ==
  /\ scheduleWork = "armed"
  /\ scheduleWork' = "fired"
  /\ UNCHANGED <<lists, outgoingWork, workScheduled, sending, callers, timers, ctxDone, remote>>

Debounced ==
  /\ run = "select" /\ scheduleWork = "fired"
  /\ scheduleWork' = "stopped" /\ workScheduled' = FALSE
  /\ run' = "sendIfReady"
  /\ UNCHANGED <<lists, outgoingWork, connected, snap, msg, addPending, callers, timers, ctxDone, remote>>

sendIfReady ==
  /\ run = "sendIfReady"
  /\ IF hasPendingWork THEN run' = "sendMessage" /\ UNCHANGED timers ELSE Loop
  /\ UNCHANGED <<lists, loop, connected, snap, msg, addPending, callers, ctxDone, remote>>

\* The rebroadcast timer: copy the sent wants into the pending lists.
rebroadcastWantlist ==
  /\ run = "select"
  /\ bcstSent # {} \/ KeysOf(peerSent) # {}
  /\ bcstPending' = bcstPending \cup bcstSent
  /\ peerPending' = Absorb(peerPending, peerSent)
  /\ run' = "sendMessage"
  /\ UNCHANGED <<bcstSent, peerSent, bcstAt, peerAt, cancels, loop, connected, snap, msg, addPending,
                 callers, timers, ctxDone, remote>>

\* A response to the keys: their sent times have been used.
handleResponse(ks) ==
  /\ run = "select" /\ ks # {}
  /\ bcstAt' = bcstAt \ ks /\ peerAt' = peerAt \ ks
  /\ Loop
  /\ UNCHANGED <<bcstPending, bcstSent, peerPending, peerSent, cancels, loop, connected, snap, msg,
                 addPending, callers, ctxDone, remote>>

\* No stream could be opened.
ConnectFails ==
  /\ run = "sendMessage" /\ ~connected
  /\ GiveUp

\* What of the lists goes into one message: cancels first, then the peer's
\* wants, then broadcast wants, up to the entry that fills it.  A broadcast
\* want for a key that is in the message already takes no space.
Fits(cs, ps, bs, peerKeys) ==
  LET size == Cardinality(cs) + Cardinality(ps) + Cardinality(bs \ ps) IN
  /\ ps # {} => cs = cancels /\ Cardinality(cs) < maxMessageSize
  /\ bs # {} => ps = peerKeys /\ Cardinality(cs) + Cardinality(ps) < maxMessageSize
  /\ \/ size = maxMessageSize
     \/ size < maxMessageSize /\ cs = cancels /\ ps = peerKeys /\ bs = bcstPending

\* extractOutgoingMessage up to FINISH: take entries from the lists; a peer
\* that does not know HAVE is not sent the want-haves meant for it.
extractOutgoingMessage ==
  LET unsupported == {c \in Cids : ~supportsHave /\ peerPending[c] = "have"}
      Drop(w) == [c \in Cids |-> IF c \in unsupported THEN RemoveType(w[c], "have") ELSE w[c]]
      peerKeys == KeysOf(peerPending) \ unsupported
  IN /\ run = "sendMessage"
     /\ connected' = TRUE
     /\ peerPending' = Drop(peerPending) /\ peerSent' = Drop(peerSent)
     /\ peerAt' = peerAt \ {c \in unsupported : peerSent'[c] = "none"}
     /\ \E cs \in SUBSET cancels, ps \in SUBSET peerKeys, bs \in SUBSET bcstPending :
          /\ Fits(cs, ps, bs, peerKeys)
          /\ snap' = [peer |-> [c \in Cids |-> IF c \in ps THEN peerPending[c] ELSE "none"],
                      bcst |-> bs, cancels |-> cs]
     /\ run' = "finish"
     /\ UNCHANGED <<bcstPending, bcstSent, bcstAt, cancels, loop, msg, addPending, callers, timers,
                    ctxDone, remote>>

MarkedBcst_Unchecked == snap.bcst

\* MarkSent: the entries that are still pending, and so move to the sent lists.
MarkedPeer == {c \in KeysOf(snap.peer) : Removes(peerPending[c], snap.peer[c])}
MarkedBcst == snap.bcst \cap bcstPending

CancelsLeft_None == {}

\* The cancels that are not in the message.
CancelsLeft == cancels \ snap.cancels

\* The entries of the message: a key in several lists has one entry, with
\* the stronger want type, and a cancel wins.
MessageEntry(c) ==
  CASE c \in snap.cancels -> "cancel"
    [] c \in snap.bcst -> Add(snap.peer[c], IF supportsHave THEN "have" ELSE "block")
    [] OTHER -> snap.peer[c]

\* FINISH: under the lock again, move what was taken to the sent lists, and
\* remove from the message what changed in the meantime.
markSent ==
  LET changed == (KeysOf(snap.peer) \ MarkedPeer) \cup (snap.bcst \ MarkedBcst)
                   \cup (snap.cancels \ cancels)
  IN /\ run = "finish"
     /\ peerPending' = [c \in Cids |-> IF c \in MarkedPeer THEN "none" ELSE peerPending[c]]
     /\ peerSent' = [c \in Cids |-> IF c \in MarkedPeer THEN Add(peerSent[c], snap.peer[c])
                                                        ELSE peerSent[c]]
     /\ bcstPending' = bcstPending \ MarkedBcst
     /\ bcstSent' = bcstSent \cup MarkedBcst
     /\ cancels' = CancelsLeft
     /\ msg' = [c \in Cids |-> IF c \in changed THEN "none" ELSE MessageEntry(c)]
     /\ snap' = [peer |-> [c \in Cids |-> IF c \in MarkedPeer THEN snap.peer[c] ELSE "none"],
                 bcst |-> MarkedBcst, cancels |-> {}]
     /\ run' = "sendMsg"
     /\ UNCHANGED <<bcstAt, peerAt, loop, connected, addPending, callers, timers, ctxDone, remote>>

\* Nothing is left in the message.
MessageEmpty ==
  /\ run = "sendMsg" /\ KeysOf(msg) = {}
  /\ Loop
  /\ snap' = NoSnap
  /\ UNCHANGED <<lists, loop, connected, msg, addPending, callers, ctxDone, remote>>

\* SendMsg, which retries, delivers the message; the peer's engine adds its
\* wants to, and removes its cancels from, the list it keeps.
SendMsg ==
  /\ run = "sendMsg" /\ KeysOf(msg) # {}
  /\ remote' = [c \in Cids |-> CASE msg[c] = "cancel" -> "none"
                               [] msg[c] = "none" -> remote[c]
                               [] OTHER -> Add(remote[c], msg[c])]
  /\ run' = "onSent"
  /\ UNCHANGED <<lists, loop, connected, snap, msg, addPending, callers, timers, ctxDone>>

SendMsgFails ==
  /\ run = "sendMsg" /\ KeysOf(msg) # {}
  /\ GiveUp

\* The keys whose sending is to be timed: not the ones cancelled meanwhile.
SentAt(ks, sent) == ks \cap sent

onSent ==
  /\ run = "onSent"
  /\ peerAt' = peerAt \cup SentAt(KeysOf(snap.peer), KeysOf(peerSent))
  /\ bcstAt' = bcstAt \cup SentAt(snap.bcst, bcstSent)
  /\ run' = "simulate"
  /\ UNCHANGED <<bcstPending, bcstSent, peerPending, peerSent, cancels, loop, connected, snap, msg,
                 addPending, callers, timers, ctxDone, remote>>

\* simulateDontHaveWithTimeout, under the lock: the want-blocks of the
\* message that ask for a DONT_HAVE and have not been cancelled ...
simulateDontHaveWithTimeout ==
  /\ run = "simulate"
  /\ addPending' = {c \in KeysOf(snap.peer) : msg[c] = "block" /\ peerSent[c] # "none"}
  /\ snap' = NoSnap /\ msg' = NoWants
  /\ run' = "addPending"
  /\ UNCHANGED <<lists, loop, connected, callers, timers, ctxDone, remote>>

\* ... get a timer.
AddPendingTimers ==
  /\ run = "addPending"
  /\ timers' = timers \cup addPending
  /\ addPending' = {}
  /\ run' = "more"
  /\ UNCHANGED <<lists, loop, connected, snap, msg, callers, ctxDone, remote>>

\* Schedule what did not fit into the message.
MoreWork ==
  /\ run = "more"
  /\ outgoingWork' = (outgoingWork \/ hasPendingWork)
  /\ Loop
  /\ UNCHANGED <<lists, workScheduled, scheduleWork, connected, snap, msg, addPending, callers,
                 ctxDone, remote>>

\* The timeout manager gives up on a key.
DontHaveTimeout(c) ==
  /\ c \in timers
  /\ timers' = timers \ {c}
  /\ UNCHANGED <<lists, loop, sending, callers, ctxDone, remote>>

Sending ==
  \/ sendIfReady \/ extractOutgoingMessage \/ markSent \/ MessageEmpty \/ SendMsg
  \/ onSent \/ simulateDontHaveWithTimeout \/ AddPendingTimers \/ MoreWork

Next ==
  \/ Caller
  \/ Shutdown
  \/ ContextDone \/ TakeWorkDebounce \/ TakeWorkSend \/ TimerFires \/ Debounced
  \/ rebroadcastWantlist
  \/ \E ks \in SUBSET Cids : handleResponse(ks)
  \/ Sending
  \/ ConnectFails \/ SendMsgFails
  \/ \E c \in Cids : DontHaveTimeout(c)

\* Goroutines are scheduled, timers fire, and a select with several ready
\* cases takes each of them sometimes.  Work that is signalled again and
\* again is not put off for ever: sendMessageMaxDelay bounds the debouncing.
Fairness ==
  /\ WF_vars(AddCancelsLocked \/ AddCancelsSignal)
  /\ WF_vars(Sending)
  /\ WF_vars(TimerFires)
  /\ SF_vars(TakeWorkDebounce \/ TakeWorkSend)
  /\ SF_vars(TakeWorkSend \/ Debounced)
  /\ SF_vars(rebroadcastWantlist)

Spec == Init /\ [][Next]_vars /\ Fairness

----------------------------------------------------------------------------
(* Properties *)

Running == run # "done" /\ ~ctxDone

\* The lists hold what the callers ask for, whatever they ask for while a
\* message is put together without the lock: a want cancelled in the
\* meantime does not come back, and one added or upgraded is not lost.  And no
\* key to be cancelled is wanted or about to be, so a message never cancels a
\* want that it or an earlier one makes.  A sent time is kept only for a want
\* that is on record as sent (recallWantlist.SentAt, Remove and RemoveType).
QueueTracksWants ==
  /\ bcstAt \subseteq bcstSent /\ peerAt \subseteq KeysOf(peerSent)
  /\ \A c \in Cids :
       /\ c \in bcstPending \cup bcstSent <=> c \in askedBcst
       /\ peerPending[c] # "none" \/ peerSent[c] # "none" => askedPeer[c] # "none"
       /\ askedPeer[c] = "block" => "block" \in {peerPending[c], peerSent[c]}
       /\ askedPeer[c] = "have" /\ supportsHave => peerPending[c] # "none" \/ peerSent[c] # "none"
  /\ \A c \in cancels : ~Asked(c)
  /\ \A c \in snap.cancels : c \notin snap.bcst /\ snap.peer[c] = "none"

\* Draining the debounce timer never blocks runQueue: while work is
\* scheduled the timer is armed or has fired.
DrainNeverBlocks == workScheduled <=> scheduleWork # "stopped"

Signalled ==
  run = "select" /\ hasPendingWork => outgoingWork \/ workScheduled \/ caller = "signal"

\* No lost wakeup: no step leaves runQueue waiting while work is pending that
\* was neither signalled nor scheduled ("schedule sending the rest of the
\* wants in the next iteration of the event loop", messagequeue.go:553-555).
\* The exception is the early return for a message that came out empty, which
\* skips that check: when it had been cut short, the rest waits for a signal.
NoLostWakeup == [][Signalled /\ ~MessageEmpty => Signalled']_vars

\* A want reaches the peer unless it is cancelled or the queue shuts down.
WantsArrive ==
  \A c \in Cids :
    /\ askedPeer[c] = "block" ~> remote[c] = "block" \/ askedPeer[c] # "block" \/ ~Running
    /\ c \in askedBcst ~> remote[c] # "none" \/ c \notin askedBcst \/ ~Running

\* A queued cancel reaches the peer unless the key is wanted again.
CancelsArrive ==
  \A c \in Cids : c \in cancels ~> remote[c] = "none" \/ Asked(c) \/ ~Running
=============================================================================
