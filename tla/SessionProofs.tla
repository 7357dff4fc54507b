--------------------------- MODULE SessionProofs ---------------------------
(***************************************************************************)
(* What a session guarantees whatever its peers, keys, calls and channel   *)
(* sizes are.  Two inductive invariants: SenderInv says that the want      *)
(* sender knows something of every want and peer it has and recorded every *)
(* want it waits for, PeersInv that nobody is announced to the session     *)
(* that it is not registered for.                                          *)
(***************************************************************************)
EXTENDS Session, WellFoundedInduction, TLAPS

Answered == {"unknown", "have", "dontHave"}
Messages == [stage : {"none", "sessions", "loop", "publish"}, kind : {"have", "dontHave", "block"},
             cid : Cids \cup {None}, publish : BOOLEAN]

\* Between two batches of changes, and in the middle of one, the want sender
\* has a presence for each of its wants and session peers, and has recorded
\* the want-blocks it waits for.
PresenceKept == \A c \in wants, p \in peers : blockPresence[c][p] \in Answered
WaitsRecorded == \A c \in wants : sentTo[c] # None => c \in sentBlocks[sentTo[c]]

SenderInv ==
  /\ wants \subseteq Cids /\ peers \subseteq Peers
  /\ sentTo \in [Cids -> Sources]
  /\ presence \in [Cids -> [Peers -> Answered]]
  /\ "at" \in DOMAIN phase
  /\ PresenceKept
  /\ WaitsRecorded
  /\ IdleWantsHopeless

\* A peer is announced only to a session that is registered for it.
Announced(ch) == ch.kind = "available" => ch.peer \in registered
Running == life \in {"running", "untagged"}

PeersInv ==
  /\ changes \in Seq(Range(changes))
  /\ inflight \in [Sources -> Messages]
  /\ Running => \A ch \in Range(changes) \cup spawned : Announced(ch)
  /\ SessionPeersAgree

-----------------------------------------------------------------------------
(* Sequences of changes *)

\* A change added to a channel is the only one that is new in it.
LEMMA AppendChange ==
  ASSUME NEW S, NEW s \in Seq(S), NEW e
  PROVE  Append(s, e) \in Seq(Range(Append(s, e))) /\ Range(Append(s, e)) = Range(s) \cup {e}
<1>1. /\ s \in Seq(S \cup {e}) /\ Len(s) \in Nat /\ DOMAIN s = 1..Len(s)
      /\ DOMAIN Append(s, e) = 1..(Len(s) + 1) /\ Len(Append(s, e)) = Len(s) + 1
      /\ \A i \in 1..Len(s) : Append(s, e)[i] = s[i]
      /\ Append(s, e)[Len(s) + 1] = e
  OBVIOUS
<1>2. Range(Append(s, e)) = Range(s) \cup {e}
  BY <1>1 DEF Range
<1>3. Append(s, e) \in Seq(S \cup {e})
  BY <1>1
<1>4. \A i \in 1..Len(Append(s, e)) : Append(s, e)[i] \in Range(Append(s, e))
  BY <1>1 DEF Range
<1> QED BY <1>2, <1>3, <1>4

\* The last of some positions in a sequence is one of them.
LEMMA LastOfSome ==
  ASSUME NEW n \in Nat, NEW I \in SUBSET (1..n), I # {}
  PROVE  Max(I) \in I
<1> DEFINE T == {n - i : i \in I}
<1>1. \A j \in I : n - j \in T
  BY Zenon
<1>2. \A u \in T : \E j \in I : u = n - j
  BY Zenon
<1>3. T \in SUBSET Nat /\ T # {}
  <2>1. \A j \in I : n - j \in Nat
    OBVIOUS
  <2> QED BY <1>1, <1>2, <2>1, Zenon
<1> HIDE DEF T
<1>4. IsWellFoundedOn(OpToRel(<, Nat), Nat)
  BY NatLessThanWellFounded, Zenon
<1>5. PICK t \in T : \A u \in T : ~(<<u, t>> \in OpToRel(<, Nat))
  BY <1>3, <1>4, WFMin, Zenon
<1>6. \A u \in T : ~(u < t)
  BY <1>3, <1>5, Zenon DEF OpToRel
<1>7. PICK i \in I : t = n - i
  BY <1>2
<1>8. \A j \in I : i >= j
  <2> TAKE j \in I
  <2>1. ~(n - j < n - i)
    BY <1>1, <1>6, <1>7, Zenon
  <2>2. i \in Int /\ j \in Int
    OBVIOUS
  <2> QED BY <2>1, <2>2
<1>9. \E x \in I : \A y \in I : x >= y
  BY <1>8
<1> QED BY <1>9, Zenon DEF Max

\* A peer that becomes available was announced, or sent a block or a HAVE.
LEMMA AvailableAnnounced ==
  ASSUME NEW S, NEW b \in Seq(S), NEW p, LastWord(b, p) = "available"
  PROVE  \E ch \in Range(b) : ch.peer = p /\ ch.kind \in {"block", "have", "available"}
<1> DEFINE I == {i \in 1..Len(b) : b[i].peer = p /\ b[i].kind \in {"block", "have", "available", "unavailable"}}
<1>1. LastWord(b, p) = LET i == IF I # {} THEN Max(I) ELSE 0
                       IN IF i = 0 THEN "none" ELSE IF b[i].kind = "unavailable" THEN "unavailable" ELSE "available"
  BY DEF LastWord, SelectLastInSeq
<1>2. I # {} /\ b[Max(I)].kind # "unavailable"
  BY <1>1
<1>3. Len(b) \in Nat /\ I \in SUBSET (1..Len(b)) /\ DOMAIN b = 1..Len(b)
  OBVIOUS
<1>4. Max(I) \in I
  BY <1>2, <1>3, LastOfSome, Zenon
<1> QED BY <1>2, <1>3, <1>4 DEF Range

-----------------------------------------------------------------------------
(* The want sender *)

\* A step that leaves the wants, where they were sent, and the session peers
\* alone, and does not end a batch.
LEMMA SenderKept ==
  ASSUME SenderInv, UNCHANGED <<wants, blockPresence, sentTo, sentBlocks, peers>>,
         presence' \in [Cids -> [Peers -> Answered]],
         "at" \in DOMAIN phase', phase'.at = "idle" => phase.at = "idle"
  PROVE  SenderInv'
<1>1. PresenceKept' /\ WaitsRecorded'
  BY DEF SenderInv, PresenceKept, WaitsRecorded
<1>2. IdleWantsHopeless'
  BY DEF SenderInv, IdleWantsHopeless
<1> QED BY <1>1, <1>2 DEF SenderInv

\* Nothing is wanted at first.
LEMMA InitSender == Init => SenderInv
<1> SUFFICES ASSUME Init PROVE SenderInv
  OBVIOUS
<1>1. wants = {} /\ peers \subseteq Peers /\ sentTo = [c \in Cids |-> None] /\ phase = Idle
      /\ presence = [c \in Cids |-> [p \in Peers |-> "unknown"]]
  BY SessionAssumption DEF Init, SenderInit
<1>2. PresenceKept /\ WaitsRecorded /\ IdleWantsHopeless
  BY <1>1 DEF PresenceKept, WaitsRecorded, IdleWantsHopeless
<1>3. "at" \in DOMAIN phase
  BY <1>1 DEF Idle
<1> QED BY <1>1, <1>2, <1>3 DEF SenderInv, Sources, Answered

\* A batch: a new want is looked up for every peer that stays, a new peer for
\* every want; a want keeps its peer only if it was a want before.
LEMMA OnChangeSender == ASSUME SenderInv, OnChange PROVE SenderInv'
<1>1. PICK b : b = changes
  BY Zenon
<1> DEFINE left == Tracked(b) \ Received(b)
<1>2. /\ wants' = left
      /\ blockPresence' = [c \in Cids |-> [p \in Peers |->
           IF c \notin left THEN "absent"
           ELSE IF <<p, c>> \in Refreshed(b) THEN presence[c][p]
           ELSE IF p \in NewlyUnavailable(b) \/ c \in Fresh(b) THEN "absent"
           ELSE blockPresence[c][p]]]
      /\ sentTo' = [c \in Cids |->
           IF c \notin left \/ c \in Fresh(b) \/ StopsWaiting(b, c) THEN None ELSE sentTo[c]]
      /\ peers' = (peers \cup NewlyAvailable(b)) \ NewlyUnavailable(b)
      /\ UNCHANGED <<sentBlocks, presence>>
  BY <1>1, Zenon DEF OnChange, UpdateWants, UpdatePeers
<1>3. "at" \in DOMAIN phase' /\ phase'.at = "exhausted"
  BY DEF OnChange
<1>4. left \subseteq Cids /\ NewlyAvailable(b) \subseteq Peers
  BY Zenon DEF Tracked, NewlyAvailable
<1>5. \A c \in left : c \notin Fresh(b) => c \in wants
  BY DEF Fresh
<1>6. \A c \in left : \A p \in peers' : <<p, c>> \in Refreshed(b) \/ (p \in peers /\ c \notin Fresh(b) /\ p \notin NewlyUnavailable(b))
  BY <1>2, Zenon DEF Refreshed
<1> HIDE DEF left
<1>7. wants' \subseteq Cids /\ peers' \subseteq Peers /\ sentTo' \in [Cids -> Sources]
  BY <1>2, <1>4 DEF SenderInv, Sources
<1>8. PresenceKept'
  <2> SUFFICES ASSUME NEW c \in left, NEW p \in peers' PROVE blockPresence'[c][p] \in Answered
    BY <1>2, Zenon DEF PresenceKept
  <2>1. c \in Cids /\ p \in Peers /\ presence[c][p] \in Answered
    BY <1>4, <1>7 DEF SenderInv
  <2>2. blockPresence'[c][p] = IF <<p, c>> \in Refreshed(b) THEN presence[c][p]
                               ELSE IF p \in NewlyUnavailable(b) \/ c \in Fresh(b) THEN "absent"
                               ELSE blockPresence[c][p]
    BY <1>2, <2>1
  <2>3. CASE <<p, c>> \in Refreshed(b)
    BY <2>1, <2>2, <2>3
  <2>4. CASE <<p, c>> \notin Refreshed(b)
    <3>1. p \in peers /\ c \notin Fresh(b) /\ p \notin NewlyUnavailable(b) /\ c \in wants
      BY <1>5, <1>6, <2>4
    <3> QED BY <2>2, <2>4, <3>1 DEF SenderInv, PresenceKept
  <2> QED BY <2>3, <2>4
<1>9. WaitsRecorded'
  <2> SUFFICES ASSUME NEW c \in left, sentTo'[c] # None PROVE c \in sentBlocks[sentTo'[c]]
    BY <1>2 DEF WaitsRecorded
  <2>1. c \notin Fresh(b) /\ sentTo'[c] = sentTo[c]
    BY <1>2, <1>4
  <2> QED BY <1>5, <2>1 DEF SenderInv, WaitsRecorded
<1>10. IdleWantsHopeless'
  BY <1>3 DEF IdleWantsHopeless
<1> QED BY <1>2, <1>3, <1>7, <1>8, <1>9, <1>10 DEF SenderInv

\* The end of a batch: a want is sent unless nobody is left who may have it,
\* and what is sent is recorded.
LEMMA SendNextSender == ASSUME SenderInv, SendNextWants PROVE SenderInv'
<1> DEFINE next == IF peers = {} THEN {} ELSE {c \in wants : sentTo[c] = None /\ BestPeers(c) # {}}
<1>1. PICK best \in [next -> Peers] :
        /\ sentTo' = [c \in Cids |-> IF c \in next THEN best[c] ELSE sentTo[c]]
        /\ RecordSent([p \in Peers |-> {c \in next : best[c] = p}])
  BY Zenon DEF SendNextWants
<1>2. phase' = Idle /\ UNCHANGED <<wants, blockPresence, peers, presence>>
  BY Zenon DEF SendNextWants, session
<1>3. wants \subseteq Cids /\ peers \subseteq Peers /\ sentTo \in [Cids -> Sources]
  BY DEF SenderInv
<1>4. next \subseteq wants
  OBVIOUS
<1>5. \A c \in wants \ next : sentTo[c] = None /\ peers # {} => BestPeers(c) = {}
  OBVIOUS
<1> HIDE DEF next
<1>6. \A c \in Cids : /\ c \in next => sentTo'[c] = best[c] /\ best[c] \in Peers /\ best[c] # None
                      /\ c \notin next => sentTo'[c] = sentTo[c]
  BY <1>1, NoneAssumption
<1>7. \A p \in Peers : sentBlocks'[p] = sentBlocks[p] \cup {c \in next : best[c] = p}
  BY <1>1 DEF RecordSent
<1>8. sentTo' \in [Cids -> Sources]
  BY <1>1, <1>3, <1>6 DEF Sources
<1>9. WaitsRecorded'
  <2> SUFFICES ASSUME NEW c \in wants, sentTo'[c] # None PROVE c \in sentBlocks'[sentTo'[c]]
    BY <1>2 DEF WaitsRecorded
  <2>1. CASE c \in next
    <3>1. c \in {d \in next : best[d] = best[c]} /\ best[c] \in Peers /\ sentTo'[c] = best[c]
      BY <1>3, <1>6, <2>1
    <3> QED BY <1>7, <3>1
  <2>2. CASE c \notin next
    <3>1. sentTo'[c] = sentTo[c] /\ sentTo[c] \in Peers
      BY <1>3, <1>6, <2>2 DEF Sources
    <3>2. c \in sentBlocks[sentTo[c]]
      BY <3>1, NoneAssumption DEF SenderInv, WaitsRecorded
    <3> QED BY <1>7, <3>1, <3>2
  <2> QED BY <2>1, <2>2
<1>10. IdleWantsHopeless'
  <2> SUFFICES ASSUME NEW c \in wants, sentTo'[c] = None, NEW p \in peers
               PROVE  blockPresence[c][p] = "dontHave"
    BY <1>2 DEF IdleWantsHopeless
  <2>1. BestPeers(c) = {}
    BY <1>3, <1>5, <1>6
  <2>2. blockPresence[c][p] # "have" /\ blockPresence[c][p] # "unknown"
    BY <1>3, <2>1 DEF BestPeers
  <2>3. blockPresence[c][p] \in Answered
    BY DEF SenderInv, PresenceKept
  <2> QED BY <2>2, <2>3 DEF Answered
<1>11. PresenceKept'
  BY <1>2 DEF SenderInv, PresenceKept
<1>12. "at" \in DOMAIN phase'
  BY <1>2 DEF Idle
<1> QED BY <1>2, <1>8, <1>9, <1>10, <1>11, <1>12 DEF SenderInv

\* What the run loop handles does not touch the want sender.
LEMMA HandleOpRest ==
  ASSUME HandleOp
  PROVE  UNCHANGED <<sender, phase, session, manager, presence, inflight, life>>
BY Zenon DEF HandleOp, WantBlocks, HandleReceive, CancelWants, WantsSent, BroadcastWants

\* Every step of the session keeps the want sender's invariant.
LEMMA NextSender == ASSUME SenderInv, [Next]_vars PROVE SenderInv'
<1>1. presence \in [Cids -> [Peers -> Answered]] /\ "at" \in DOMAIN phase
  BY DEF SenderInv
<1>2. ASSUME UNCHANGED <<sender, phase, session>>, presence' \in [Cids -> [Peers -> Answered]]
      PROVE  SenderInv'
  BY <1>1, <1>2, SenderKept DEF sender, session
<1>3. ASSUME UNCHANGED <<sender, phase, session, presence>> PROVE SenderInv'
  BY <1>1, <1>2, <1>3
<1>4. ASSUME NEW r \in Calls, GetBlocks(r) \/ CancelCall(r) PROVE SenderInv'
  BY <1>3, <1>4, Zenon DEF GetBlocks, CancelCall
<1>5. CASE HandleOp
  BY <1>3, <1>5, HandleOpRest, Zenon
<1>6. CASE LateOp \/ PeriodicSearch
  BY <1>3, <1>6, Zenon DEF LateOp, PeriodicSearch
<1>7. CASE IdleTick
  BY <1>3, <1>7, Zenon DEF IdleTick, BroadcastWants
<1>8. ASSUME NEW c \in Cids, NotifyNewBlock(c) PROVE SenderInv'
  BY <1>3, <1>8, Zenon DEF NotifyNewBlock
<1>9. ASSUME NEW p \in Peers, NEW c \in Cids, FoundProvider(p, c) PROVE SenderInv'
  BY <1>3, <1>9, Zenon DEF FoundProvider
<1>10. ASSUME NEW p \in Peers, NEW c \in Cids, Receive(p, c) PROVE SenderInv'
  <2>1. PICK kind \in {"have", "dontHave", "block"} :
          presence' = [presence EXCEPT ![c][p] = IF kind = "block" \/ @ = "have" THEN @ ELSE kind]
    BY <1>10, Zenon DEF Receive, Answers
  <2>2. presence' \in [Cids -> [Peers -> Answered]]
    BY <1>1, <2>1 DEF Answered
  <2>3. UNCHANGED <<sender, phase, session>>
    BY <1>10 DEF Receive
  <2> QED BY <1>2, <2>2, <2>3
<1>11. ASSUME NEW p \in Sources, TellSession(p) \/ TellLoop(p) \/ Publish(p) PROVE SenderInv'
  BY <1>3, <1>11, Zenon DEF TellSession, TellLoop, Publish
<1>12. ASSUME NEW p \in Peers, Connected(p) \/ Disconnected(p) PROVE SenderInv'
  BY <1>3, <1>12, Zenon DEF Connected, Disconnected
<1>13. CASE Shutdown
  <2>1. UNCHANGED <<sender, phase, peers, presence>>
    BY <1>13 DEF Shutdown
  <2> QED BY <1>1, <2>1, SenderKept DEF sender
<1>14. CASE StopSender
  BY <1>3, <1>14, Zenon DEF StopSender
<1>15. CASE RemoveSession
  <2>1. presence' \in [Cids -> [Peers -> Answered]]
    BY <1>1, <1>15 DEF RemoveSession, Answered
  <2> QED BY <1>2, <1>15, <2>1, Zenon DEF RemoveSession
<1>16. CASE SpawnedStep
  BY <1>3, <1>16, Zenon DEF SpawnedStep, SpawnedChange
<1>17. CASE SenderStep
  <2>1. CASE CheckForExhaustedWants
    <3>1. /\ UNCHANGED <<wants, blockPresence, sentTo, sentBlocks, peers, presence>> /\ phase.at = "exhausted"
          /\ phase' = [phase EXCEPT !.at = IF phase.cancels = {} THEN "send" ELSE "cancel"]
      BY <2>1 DEF CheckForExhaustedWants, session
    <3>2. "at" \in DOMAIN phase' /\ phase'.at # "idle"
      BY <1>1, <3>1
    <3> QED BY <1>1, <3>1, <3>2, SenderKept
  <2>2. CASE CancelSessionWants
    <3>1. UNCHANGED <<wants, blockPresence, sentTo, sentBlocks, peers>> /\ phase' = [phase EXCEPT !.at = "send"]
      BY <2>2 DEF CancelSessionWants, sender, session
    <3>2. "at" \in DOMAIN phase' /\ phase'.at # "idle"
      BY <1>1, <3>1
    <3>3. presence' \in [Cids -> [Peers -> Answered]]
      BY <1>1, <2>2 DEF CancelSessionWants, Answered
    <3> QED BY <3>1, <3>2, <3>3, SenderKept
  <2> QED BY <1>17, <2>1, <2>2, OnChangeSender, SendNextSender DEF SenderStep, SenderLoop
<1>18. CASE UNCHANGED vars
  BY <1>3, <1>18 DEF vars
<1> QED
  BY <1>4, <1>5, <1>6, <1>7, <1>8, <1>9, <1>10, <1>11, <1>12, <1>13, <1>14, <1>15, <1>16, <1>17, <1>18, Zenon
  DEF Next

\* A want that waits for nobody has been answered with DONT_HAVE by every peer
\* of the session.
THEOREM WantsNotForgotten == Spec => []IdleWantsHopeless
<1>1. SenderInv => IdleWantsHopeless
  BY DEF SenderInv
<1> QED BY <1>1, InitSender, NextSender, PTL DEF Spec

\* The DONT_HAVE of the peer that a want waits for ends the wait.
THEOREM WaitsCanEnd == Spec => []WaitCanEnd
<1>1. SenderInv => WaitCanEnd
  BY DEF SenderInv, WaitsRecorded, WaitCanEnd
<1> QED BY <1>1, InitSender, NextSender, PTL DEF Spec

-----------------------------------------------------------------------------
(* The session peers *)

\* A step that leaves the session peers alone and adds only announced changes.
LEMMA ChannelsKept ==
  ASSUME PeersInv, UNCHANGED <<peers, tagged, protected, registered, life>>,
         inflight' \in [Sources -> Messages], changes' \in Seq(Range(changes')),
         \A ch \in Range(changes') \cup spawned' : ch \in Range(changes) \cup spawned \/ Announced(ch)
  PROVE  PeersInv'
<1>1. SessionPeersAgree'
  BY DEF PeersInv, SessionPeersAgree
<1>2. Running' => \A ch \in Range(changes') \cup spawned' : Announced(ch)'
  BY DEF PeersInv, Running, Announced
<1> QED BY <1>1, <1>2 DEF PeersInv

\* The same for a change added to the channel, if any.
LEMMA ChangeAdded ==
  ASSUME PeersInv, UNCHANGED <<spawned, peers, tagged, protected, registered, life>>,
         inflight' \in [Sources -> Messages], NEW ch, Announced(ch),
         AddChange(ch) \/ UNCHANGED changes
  PROVE  PeersInv'
<1>1. changes \in Seq(Range(changes))
  BY DEF PeersInv
<1>2. CASE AddChange(ch)
  <2>1. changes' \in Seq(Range(changes')) /\ Range(changes') = Range(changes) \cup {ch}
    BY <1>1, <1>2, AppendChange DEF AddChange
  <2> QED BY <2>1, ChannelsKept
<1>3. CASE UNCHANGED changes
  BY <1>1, <1>3, ChannelsKept
<1> QED BY <1>2, <1>3

\* The session starts registered for the peers it has, which are tagged.
LEMMA InitPeers == Init => PeersInv
<1> SUFFICES ASSUME Init PROVE PeersInv
  OBVIOUS
<1>1. changes = <<>> /\ spawned = {} /\ tagged = peers /\ protected = peers /\ registered = peers
  BY DEF Init, SenderInit
<1>2. changes \in Seq(Range(changes)) /\ Range(changes) = {}
  BY <1>1 DEF Range
<1>3. inflight \in [Sources -> Messages]
  BY DEF Init, NoMessage, Messages
<1>4. SessionPeersAgree
  BY <1>1 DEF SessionPeersAgree
<1> QED BY <1>1, <1>2, <1>3, <1>4 DEF PeersInv

\* A peer joins the session when it is announced, being registered for, or
\* when it sent a block or a HAVE, and is registered for now.
LEMMA OnChangePeers == ASSUME PeersInv, OnChange, UNCHANGED <<inflight, life>> PROVE PeersInv'
<1>1. PICK b : b = changes
  BY Zenon
<1>2. /\ peers' = (peers \cup NewlyAvailable(b)) \ NewlyUnavailable(b)
      /\ tagged' = (tagged \cup NewlyAvailable(b)) \ NewlyUnavailable(b)
      /\ protected' = (protected \ NewlyUnavailable(b)) \cup
            ({FirstSender(b, c) : c \in Tracked(b) \cap Received(b)} \cap peers')
      /\ registered' = registered \cup Senders(b)
      /\ spawned' = spawned \cup
            {Change("unavailable", p, None) : p \in Pruned(b, Tracked(b) \ Received(b))}
      /\ changes' = <<>>
  BY <1>1, Zenon DEF OnChange, UpdatePeers, Register
<1>3. /\ b \in Seq(Range(b)) /\ SessionPeersAgree /\ inflight \in [Sources -> Messages]
      /\ Running => \A ch \in Range(b) \cup spawned : Announced(ch)
  BY <1>1, Zenon DEF PeersInv
<1>4. ASSUME Running, NEW p \in NewlyAvailable(b) PROVE p \in registered'
  <2>1. p \in Peers /\ p # None /\ LastWord(b, p) = "available"
    BY NoneAssumption DEF NewlyAvailable
  <2>2. PICK ch \in Range(b) : ch.peer = p /\ ch.kind \in {"block", "have", "available"}
    BY <1>3, <2>1, AvailableAnnounced
  <2>3. CASE ch.kind = "available"
    BY <1>2, <1>3, <1>4, <2>2, <2>3, Zenon DEF Announced
  <2>4. CASE ch.kind \in {"block", "have"}
    <3>1. ch \in Updates(b, "block") \cup Updates(b, "have")
      BY <2>1, <2>2, <2>4 DEF Updates
    <3> QED BY <1>2, <2>2, <3>1, Zenon DEF Senders
  <2> QED BY <2>2, <2>3, <2>4
<1>5. SessionPeersAgree'
  <2>1. Running' => peers' \subseteq registered'
    BY <1>2, <1>3, <1>4 DEF SessionPeersAgree, Running
  <2>2. protected' \subseteq peers'
    BY <1>2, <1>3 DEF SessionPeersAgree
  <2>3. life' = "running" => tagged' = peers'
    BY <1>2, <1>3 DEF SessionPeersAgree
  <2> QED BY <2>1, <2>2, <2>3 DEF SessionPeersAgree, Running
<1>6. changes' \in Seq(Range(changes')) /\ Range(changes') = {}
  BY <1>2 DEF Range
<1>7. ASSUME Running, NEW ch \in spawned' PROVE Announced(ch)'
  <2>1. CASE ch \in spawned
    BY <1>2, <1>3, <1>7, <2>1 DEF Announced
  <2>2. CASE ch \notin spawned
    <3>1. \E p : ch = Change("unavailable", p, None)
      BY <1>2, <1>7, <2>2, Zenon
    <3>2. ch.kind = "unavailable"
      BY <3>1 DEF Change
    <3> QED BY <3>2 DEF Announced
  <2> QED BY <2>1, <2>2
<1> QED BY <1>3, <1>5, <1>6, <1>7 DEF PeersInv, Running

\* A connect or a disconnect is signalled to a session registered for the peer.
LEMMA SignalPeers ==
  ASSUME PeersInv, NEW ch, Signal(ch), UNCHANGED <<session, registered, inflight, life>>
  PROVE  PeersInv'
<1>1. UNCHANGED <<peers, tagged, protected, registered, life>>
  BY DEF session
<1>2. inflight' \in [Sources -> Messages] /\ changes \in Seq(Range(changes))
  BY DEF PeersInv
<1>3. CASE UNCHANGED channels
  BY <1>1, <1>2, <1>3, ChannelsKept DEF channels
<1>4. CASE ch.peer \in registered /\ changes' = Append(changes, ch) /\ UNCHANGED spawned
  <2>1. changes' \in Seq(Range(changes')) /\ Range(changes') = Range(changes) \cup {ch}
    BY <1>2, <1>4, AppendChange
  <2> QED BY <1>1, <1>2, <1>4, <2>1, ChannelsKept DEF Announced
<1>5. CASE ch.peer \in registered /\ spawned' = spawned \cup {ch} /\ UNCHANGED changes
  BY <1>1, <1>2, <1>5, ChannelsKept DEF Announced
<1> QED BY <1>3, <1>4, <1>5 DEF Signal, SignalAvailability

\* The run loop adds wants and cancels to the channel, no peers.
LEMMA HandleOpPeers == ASSUME PeersInv, HandleOp PROVE PeersInv'
<1>1. /\ UNCHANGED <<peers, tagged, protected, registered, life, inflight>>
      /\ inflight' \in [Sources -> Messages]
  BY HandleOpRest DEF session, manager, PeersInv
<1>2. spawned' = spawned /\ \E kind \in {"add", "cancel"} : \E c : AddChange(Change(kind, None, c)) \/ UNCHANGED changes
  BY Zenon DEF HandleOp, WantBlocks, HandleReceive, CancelWants, WantsSent, BroadcastWants, channels
<1>3. PICK kind \in {"add", "cancel"} : \E c : AddChange(Change(kind, None, c)) \/ UNCHANGED changes
  BY <1>2
<1>4. PICK c : AddChange(Change(kind, None, c)) \/ UNCHANGED changes
  BY <1>3
<1>5. Announced(Change(kind, None, c))
  BY DEF Announced, Change
<1> QED BY <1>1, <1>2, <1>4, <1>5, ChangeAdded

\* Every step of the session keeps the invariant of its peers.
LEMMA NextPeers == ASSUME PeersInv, [Next]_vars PROVE PeersInv'
<1>1. changes \in Seq(Range(changes)) /\ inflight \in [Sources -> Messages]
  BY DEF PeersInv
<1>2. ASSUME UNCHANGED <<channels, session, manager, life>>, inflight' \in [Sources -> Messages] PROVE PeersInv'
  BY <1>1, <1>2, ChannelsKept DEF channels, session, manager
<1>3. ASSUME UNCHANGED <<channels, session, manager, life, inflight>> PROVE PeersInv'
  BY <1>1, <1>2, <1>3
<1>4. ASSUME NEW r \in Calls, GetBlocks(r) \/ CancelCall(r) PROVE PeersInv'
  BY <1>3, <1>4, Zenon DEF GetBlocks, CancelCall
<1>5. CASE LateOp \/ PeriodicSearch
  BY <1>3, <1>5, Zenon DEF LateOp, PeriodicSearch
<1>6. CASE IdleTick
  BY <1>3, <1>6, Zenon DEF IdleTick, BroadcastWants
<1>7. ASSUME NEW c \in Cids, NotifyNewBlock(c) PROVE PeersInv'
  <2>1. inflight' \in [Sources -> Messages]
    BY <1>1, <1>7 DEF NotifyNewBlock, Messages, Sources
  <2> QED BY <1>2, <1>7, <2>1, Zenon DEF NotifyNewBlock
<1>8. ASSUME NEW p \in Peers, NEW c \in Cids, FoundProvider(p, c) PROVE PeersInv'
  <2>1. /\ UNCHANGED <<spawned, peers, tagged, protected, registered, life, inflight>>
        /\ AddChange(Change("have", p, c))
    BY <1>8 DEF FoundProvider, session, manager
  <2>2. Announced(Change("have", p, c))
    BY DEF Announced, Change
  <2> QED BY <1>1, <2>1, <2>2, ChangeAdded
<1>9. ASSUME NEW p \in Peers, NEW c \in Cids, Receive(p, c) PROVE PeersInv'
  <2>1. PICK kind \in {"have", "dontHave", "block"} :
          inflight' = [inflight EXCEPT ![p] =
            [stage |-> "sessions", kind |-> kind, cid |-> c, publish |-> Wanted(kind, c)]]
    BY <1>9, Zenon DEF Receive, Answers
  <2>2. inflight' \in [Sources -> Messages]
    BY <1>1, <2>1, Zenon DEF Messages, Sources, Wanted
  <2> QED BY <1>2, <1>9, <2>2, Zenon DEF Receive
<1>10. ASSUME NEW p \in Sources, TellSession(p) PROVE PeersInv'
  <2> DEFINE m == inflight[p]
  <2>1. m \in Messages
    BY <1>1
  <2>2. /\ UNCHANGED <<spawned, peers, tagged, protected, registered, life>>
        /\ AddChange(Change(m.kind, p, m.cid)) \/ UNCHANGED changes
        /\ \/ inflight' = [inflight EXCEPT ![p] = [m EXCEPT !.stage = "loop"]]
           \/ inflight' = [inflight EXCEPT ![p] = [m EXCEPT !.stage = "publish"]]
           \/ inflight' = [inflight EXCEPT ![p] = NoMessage]
    BY <1>10, Zenon DEF TellSession, session, manager
  <2>3. /\ [m EXCEPT !.stage = "loop"] \in Messages /\ [m EXCEPT !.stage = "publish"] \in Messages
        /\ NoMessage \in Messages
    BY <2>1 DEF Messages, NoMessage
  <2>4. inflight' \in [Sources -> Messages]
    BY <1>1, <2>2, <2>3
  <2>5. Announced(Change(m.kind, p, m.cid))
    BY <2>1 DEF Announced, Change, Messages
  <2> QED BY <2>2, <2>4, <2>5, ChangeAdded
<1>11. ASSUME NEW p \in Sources, TellLoop(p) \/ Publish(p) PROVE PeersInv'
  <2>1. inflight[p] \in Messages
    BY <1>1
  <2>2. [inflight[p] EXCEPT !.stage = "publish"] \in Messages /\ NoMessage \in Messages
    BY <2>1 DEF Messages, NoMessage
  <2>3. \/ inflight' = [inflight EXCEPT ![p] = [inflight[p] EXCEPT !.stage = "publish"]]
        \/ inflight' = [inflight EXCEPT ![p] = NoMessage]
    BY <1>11 DEF TellLoop, Publish
  <2>4. inflight' \in [Sources -> Messages]
    BY <1>1, <2>2, <2>3
  <2> QED BY <1>2, <1>11, <2>4, Zenon DEF TellLoop, Publish
<1>12. ASSUME NEW p \in Peers, Connected(p) \/ Disconnected(p) PROVE PeersInv'
  BY <1>12, SignalPeers, Zenon DEF Connected, Disconnected
<1>13. CASE Shutdown
  <2>1. /\ life' = "untagged" /\ life = "running" /\ UNCHANGED <<peers, registered, changes, spawned, inflight>>
        /\ protected' = protected \ peers
    BY <1>13 DEF Shutdown, channels, manager
  <2> QED BY <2>1 DEF PeersInv, SessionPeersAgree, Running, Announced
<1>14. CASE StopSender
  <2>1. life' = "stopped" /\ UNCHANGED <<peers, tagged, protected, changes, spawned, inflight>>
    BY <1>14 DEF StopSender, channels, session
  <2> QED BY <2>1 DEF PeersInv, SessionPeersAgree, Running
<1>15. CASE RemoveSession
  <2>1. life' = "removed" /\ UNCHANGED <<peers, tagged, protected, changes, spawned, inflight>>
    BY <1>15 DEF RemoveSession, channels, session
  <2> QED BY <2>1 DEF PeersInv, SessionPeersAgree, Running
<1>16. CASE SpawnedStep
  <2>1. PICK ch \in spawned :
          /\ AddChange(ch) /\ spawned' = spawned \ {ch}
          /\ UNCHANGED <<peers, tagged, protected, registered, life, inflight>>
    BY <1>16 DEF SpawnedStep, SpawnedChange, session, manager
  <2>2. changes' \in Seq(Range(changes')) /\ Range(changes') = Range(changes) \cup {ch}
    BY <1>1, <2>1, AppendChange DEF AddChange
  <2> QED BY <1>1, <2>1, <2>2, ChannelsKept
<1>17. CASE SenderStep
  <2>1. UNCHANGED <<inflight, life>>
    BY <1>17 DEF SenderStep
  <2>2. CASE OnChange
    BY <2>1, <2>2, OnChangePeers
  <2>3. CASE CheckForExhaustedWants \/ CancelSessionWants \/ SendNextWants
    <3>1. UNCHANGED <<channels, session, manager>>
      BY <2>3, Zenon DEF CheckForExhaustedWants, CancelSessionWants, SendNextWants
    <3> QED BY <1>3, <2>1, <3>1
  <2> QED BY <1>17, <2>2, <2>3 DEF SenderStep, SenderLoop
<1>18. CASE UNCHANGED vars
  BY <1>3, <1>18 DEF vars
<1> QED
  BY <1>4, <1>5, <1>6, <1>7, <1>8, <1>9, <1>10, <1>11, <1>12, <1>13, <1>14, <1>15, <1>16, <1>17, <1>18,
     HandleOpPeers, Zenon
  DEF Next

\* The PeerManager, the connection manager and the session agree on the peers
\* of the session, whatever order answers, announcements and shutdown come in.
THEOREM PeersAgree == Spec => []SessionPeersAgree
<1>1. PeersInv => SessionPeersAgree
  BY DEF PeersInv
<1> QED BY <1>1, InitPeers, NextPeers, PTL DEF Spec
=============================================================================
