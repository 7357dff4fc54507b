---------------------------- MODULE EngineProofs ----------------------------
(***************************************************************************)
(* What the engine never sends, and that it forgets no want, for any       *)
(* number of peers, keys, messages and task workers.                       *)
(***************************************************************************)
EXTENDS Engine, TLAPS

Call ==
  [pc : {"idle", "sizes", "index", "ledger"}, m : Messages \cup {Nothing}, todo : SUBSET Cids,
   found : SUBSET Cids, orphan : {"no", "yes"}, list : Wantlist]
Notification ==
  [pc : {"idle", "keys", "peers", "push"}, keys : SUBSET Cids, cids : SUBSET Cids, peers : SUBSET Peers,
   entry : SUBSET (Peers \X WantTypes), missing : SUBSET (Peers \X Cids)]
Envelope ==
  [pc : {"wait", "build", "sent", "send", "done"}, tasks : SUBSET Task, todo : SUBSET Cids,
   blocks : SUBSET Cids, haves : SUBSET Cids, dontHaves : SUBSET Cids, orphan : {"no", "yes"}]

Types ==
  /\ wantList \in [Peers -> Wantlist] /\ pending \subseteq Task
  /\ received \in [Peers -> Call] /\ notifier \in Notification /\ worker \in [Workers -> Envelope]
  /\ stored \subseteq Cids

\* A ledger records no want that the filter rejects.
LedgersAllowed == \A p \in Peers, k \in Cids : wantList[p][k] # "none" => <<p, k>> \notin denied

\* A MessageReceived call looks up wanted keys that the filter accepts, and
\* its wants for which the peer asked for DONT_HAVEs are noted.
CallAllowed(p, r) ==
  /\ r.todo \cup r.found \subseteq Wants(p, r.m)
  /\ \A k \in r.m.dontHave : r.m.wants[k] # "none" => <<p, k>> \in asked

\* The entry that a NotifyNewBlocks call has read is one for its only key.
NotifierAllowed ==
  /\ \A j, k \in notifier.cids : j = k
  /\ notifier.pc # "push" => notifier.entry = {}
  /\ \A x \in notifier.entry, k \in notifier.cids : <<x[1], k>> \notin denied

\* A task offers a block the peer may have, or is there to send a DONT_HAVE.
TaskAllowed(t) ==
  /\ "HaveBlock" \in t.flags => <<t.peer, t.cid>> \notin denied
  /\ "SendDontHave" \in t.flags => <<t.peer, t.cid>> \in asked
  /\ "HaveBlock" \in t.flags \/ "SendDontHave" \in t.flags

\* An envelope is for one peer and holds what that peer may get.
EnvelopeAllowed(e) ==
  /\ \A s, t \in e.tasks : s.peer = t.peer
  /\ \A t \in e.tasks :
       /\ TaskAllowed(t)
       /\ t.cid \in e.todo \cup e.blocks \cup e.haves => <<t.peer, t.cid>> \notin denied
       /\ t.cid \in e.dontHaves => <<t.peer, t.cid>> \in asked

IInv ==
  /\ Types /\ LedgersAllowed /\ NotifierAllowed
  /\ \A p \in Peers : CallAllowed(p, received[p])
  /\ \A t \in pending : TaskAllowed(t)
  /\ \A w \in Workers : EnvelopeAllowed(worker[w])

-----------------------------------------------------------------------------
\* Merging tasks of one topic keeps them allowed.
LEMMA MergeAllowed ==
  ASSUME NEW s \in Task, NEW e \in Task, SameTopic(e, s), TaskAllowed(s), TaskAllowed(e)
  PROVE  Merge(s, e) \in Task /\ TaskAllowed(Merge(s, e))
<1>1. /\ Merge(s, e) = [peer |-> e.peer, cid |-> e.cid,
                        flags |-> e.flags \cup (s.flags \cap {"HaveBlock", "IsWantBlock"})]
      /\ s.flags \subseteq Flags /\ e.flags \subseteq Flags /\ e.peer \in Peers /\ e.cid \in Cids
      /\ s.peer = e.peer /\ s.cid = e.cid
  BY DEF Merge, Task, SameTopic
<1>2. Merge(s, e) \in Task
  BY <1>1 DEF Task
<1>3. "SendDontHave" \in Merge(s, e).flags => "SendDontHave" \in e.flags
  BY <1>1
<1>4. "HaveBlock" \in Merge(s, e).flags <=> "HaveBlock" \in e.flags \/ "HaveBlock" \in s.flags
  BY <1>1
<1>5. TaskAllowed(Merge(s, e))
  BY <1>1, <1>3, <1>4 DEF TaskAllowed
<1> QED BY <1>2, <1>5

\* What is queued stays allowed when allowed tasks are pushed.
LEMMA PushAllowed ==
  ASSUME NEW queue \in SUBSET Task, NEW tasks \in SUBSET Task,
         \A t \in queue \cup tasks : TaskAllowed(t)
  PROVE  PushTasks(queue, tasks) \subseteq Task /\ \A t \in PushTasks(queue, tasks) : TaskAllowed(t)
<1> SUFFICES ASSUME NEW t \in PushTasks(queue, tasks) PROVE t \in Task /\ TaskAllowed(t)
  OBVIOUS
<1>1. \/ t \in queue \/ t \in tasks
      \/ \E e \in queue, s \in tasks : SameTopic(e, s) /\ t = Merge(s, e)
  BY Zenon DEF PushTasks
<1>2. ASSUME NEW e \in queue, NEW s \in tasks, SameTopic(e, s), t = Merge(s, e)
      PROVE  t \in Task /\ TaskAllowed(t)
  BY <1>2, MergeAllowed
<1> QED BY <1>1, <1>2

\* The tasks of a message.
LEMMA NewAllowed ==
  ASSUME NEW p \in Peers, NEW r \in Call, CallAllowed(p, r)
  PROVE  NewTasks(p, r.m, r.found) \subseteq Task /\ \A t \in NewTasks(p, r.m, r.found) : TaskAllowed(t)
<1> DEFINE m == r.m
<1> SUFFICES ASSUME NEW t \in NewTasks(p, m, r.found) PROVE t \in Task /\ TaskAllowed(t)
  OBVIOUS
<1>1. CASE t \in FoundTasks(p, m, r.found)
  <2>1. PICK k \in r.found :
          t = [peer |-> p, cid |-> k, flags |-> {"HaveBlock"}
                 \cup (IF sendAsBlock(m.wants[k], k) THEN {"IsWantBlock"} ELSE {})
                 \cup (IF k \in m.dontHave THEN {"SendDontHave"} ELSE {})]
    BY <1>1 DEF FoundTasks
  <2>2. k \in Cids /\ <<p, k>> \notin denied /\ (k \in m.dontHave => <<p, k>> \in asked)
    BY DEF CallAllowed, Wants
  <2>3. /\ t.peer = p /\ t.cid = k /\ t.flags \subseteq Flags /\ "HaveBlock" \in t.flags
        /\ "SendDontHave" \in t.flags => k \in m.dontHave
    BY <2>1 DEF Flags
  <2>4. t \in Task
    BY <2>1, <2>2 DEF Task, Flags
  <2> QED BY <2>2, <2>3, <2>4 DEF TaskAllowed
<1>2. CASE t \in DontHaveTasks(p, m, Denials(p, m) \cup (Wants(p, m) \ r.found))
  <2>1. PICK k \in (Denials(p, m) \cup (Wants(p, m) \ r.found)) \cap m.dontHave :
          t = [peer |-> p, cid |-> k,
               flags |-> {"SendDontHave"} \cup (IF m.wants[k] = "block" THEN {"IsWantBlock"} ELSE {})]
    BY <1>2 DEF DontHaveTasks
  <2>2. k \in Cids /\ <<p, k>> \in asked
    BY DEF CallAllowed, Wants, Denials
  <2>3. t.peer = p /\ t.cid = k /\ "HaveBlock" \notin t.flags /\ "SendDontHave" \in t.flags
    BY <2>1
  <2>4. t \in Task
    BY <2>1, <2>2 DEF Task, Flags
  <2> QED BY <2>2, <2>3, <2>4 DEF TaskAllowed
<1> QED BY <1>1, <1>2 DEF NewTasks

-----------------------------------------------------------------------------
\* The new engine has no calls, tasks or wants.
LEMMA InitIInv == Init => IInv
<1> SUFFICES ASSUME Init PROVE IInv
  OBVIOUS
<1>1. Empty \in Wantlist /\ \A k \in Cids : Empty[k] = "none"
  BY DEF Empty, Wantlist, WantTypes
<1>2. NoCall \in Call /\ NoNotify \in Notification /\ NoEnvelope \in Envelope
  BY <1>1 DEF NoCall, NoNotify, NoEnvelope, Call, Notification, Envelope
<1>3. Types
  BY <1>1, <1>2 DEF Init, Types
<1>4. LedgersAllowed
  BY <1>1 DEF Init, LedgersAllowed
<1>5. NotifierAllowed
  BY DEF Init, NotifierAllowed, NoNotify
<1>6. \A p \in Peers : CallAllowed(p, received[p])
  BY DEF Init, CallAllowed, NoCall, Nothing
<1>7. (\A t \in pending : TaskAllowed(t)) /\ \A w \in Workers : EnvelopeAllowed(worker[w])
  BY DEF Init, EnvelopeAllowed, NoEnvelope
<1> QED BY <1>3, <1>4, <1>5, <1>6, <1>7 DEF IInv

\* What a step that keeps the filter and forgets no request leaves allowed.
LEMMA StillAllowed ==
  ASSUME IInv, denied' = denied, asked \subseteq asked'
  PROVE  /\ wantList' = wantList => LedgersAllowed'
         /\ notifier' = notifier => NotifierAllowed'
         /\ \A p \in Peers : received'[p] = received[p] => CallAllowed(p, received[p])'
         /\ \A t : TaskAllowed(t) => TaskAllowed(t)'
         /\ \A w \in Workers : worker'[w] = worker[w] => EnvelopeAllowed(worker[w])'
<1>1. wantList' = wantList => LedgersAllowed'
  BY DEF IInv, LedgersAllowed
<1>2. notifier' = notifier => NotifierAllowed'
  BY DEF IInv, NotifierAllowed
<1>3. ASSUME NEW p \in Peers, received'[p] = received[p] PROVE CallAllowed(p, received[p])'
  BY <1>3 DEF IInv, CallAllowed, Wants
<1>4. ASSUME NEW t, TaskAllowed(t) PROVE TaskAllowed(t)'
  BY <1>4 DEF TaskAllowed
<1>5. ASSUME NEW w \in Workers, worker'[w] = worker[w] PROVE EnvelopeAllowed(worker[w])'
  BY <1>4, <1>5 DEF IInv, EnvelopeAllowed
<1> QED BY <1>1, <1>2, <1>3, <1>4, <1>5

\* The start of MessageReceived, the lookup of sizes, and the first two locks.
LEMMA ReceiveIInv ==
  ASSUME IInv, NEW p \in Peers,
         \/ \E m \in Messages : MessageReceived(p, m)
         \/ \E k \in Cids : GetSize(p, k)
         \/ ReceivedIndex(p) \/ ReceivedFind(p)
  PROVE  IInv'
<1>1. /\ UNCHANGED <<wantList, pending, notifier, worker, stored, denied>> /\ asked \subseteq asked'
      /\ \A q \in Peers \ {p} : received'[q] = received[q]
  BY Zenon DEF IInv, Types, MessageReceived, GetSize, ReceivedIndex, ReceivedFind, ledgers, environment, ghosts
<1>2. received' \in [Peers -> Call] /\ CallAllowed(p, received[p])'
  <2>1. ASSUME NEW m \in Messages, MessageReceived(p, m)
        PROVE  received' \in [Peers -> Call] /\ CallAllowed(p, received[p])'
    <3> DEFINE r == [NoCall EXCEPT !.pc = "sizes", !.m = m, !.todo = Wants(p, m)]
    <3>1. received' = [received EXCEPT ![p] = r] /\ received \in [Peers -> Call]
      BY <2>1, Zenon DEF MessageReceived, IInv, Types
    <3>2. Empty \in Wantlist
      BY DEF Empty, Wantlist, WantTypes
    <3>3. r.todo = Wants(p, m) /\ r.found = {} /\ r.m = m
      BY DEF NoCall
    <3>4. r \in Call
      BY <3>2, Zenon DEF NoCall, Call, Wants
    <3> HIDE DEF r
    <3>5. received' \in [Peers -> Call] /\ received'[p] = r
      BY <3>1, <3>4
    <3>6. \A k \in m.dontHave : m.wants[k] # "none" => <<p, k>> \in asked'
      BY <2>1, Zenon DEF MessageReceived
    <3> QED BY <1>1, <3>3, <3>5, <3>6 DEF CallAllowed, Wants
  <2>2. ASSUME NEW k \in Cids, GetSize(p, k)
        PROVE  received' \in [Peers -> Call] /\ CallAllowed(p, received[p])'
    <3>1. received[p] \in Call /\ received \in [Peers -> Call]
      BY DEF IInv, Types
    <3>2. /\ received'[p].todo = received[p].todo \ {k} /\ received'[p].m = received[p].m
          /\ received'[p].found \subseteq received[p].found \cup {k}
          /\ received' \in [Peers -> Call]
      <4>1. PICK fs \in SUBSET Cids :
              fs = IF k \in blockstore THEN received[p].found \cup {k} ELSE received[p].found
        BY <3>1, Zenon DEF Call
      <4>2. received' = [received EXCEPT ![p].todo = @ \ {k}, ![p].found = fs]
        BY <2>2, <4>1 DEF GetSize
      <4>3. /\ received'[p].todo = received[p].todo \ {k} /\ received'[p].m = received[p].m
            /\ received'[p].found = fs /\ received' \in [Peers -> Call]
        BY <3>1, <4>2, Zenon DEF Call
      <4> QED BY <4>1, <4>3
    <3>3. CallAllowed(p, received[p]) /\ k \in received[p].todo
      BY <2>2 DEF IInv, GetSize
    <3> QED BY <1>1, <3>2, <3>3 DEF CallAllowed, Wants
  <2>3. CASE ReceivedIndex(p) \/ ReceivedFind(p)
    <3>1. received[p] \in Call /\ received \in [Peers -> Call]
      BY DEF IInv, Types
    <3>2. /\ received'[p].todo = received[p].todo /\ received'[p].m = received[p].m
          /\ received'[p].found = received[p].found
          /\ received' \in [Peers -> Call]
      BY <2>3, <3>1 DEF ReceivedIndex, ReceivedFind, Call
    <3>3. CallAllowed(p, received[p])
      BY DEF IInv
    <3> QED BY <1>1, <3>2, <3>3 DEF CallAllowed, Wants
  <2> QED BY <2>1, <2>2, <2>3
<1>3. Types'
  BY <1>1, <1>2 DEF IInv, Types
<1> QED BY <1>1, <1>2, <1>3, StillAllowed DEF IInv

\* The ledger's lock: wants are recorded and tasks queued.
LEMMA LedgerIInv == ASSUME IInv, NEW p \in Peers, ReceivedLedger(p) PROVE IInv'
<1> DEFINE r == received[p]
           m == r.m
           before == IF r.orphan = "yes" THEN r.list ELSE wantList[p]
           kept == IF m.full = "full" THEN Empty ELSE before
           removed == {k \in m.cancels : kept[k] # "none"}
           after == [k \in Cids |-> IF k \in removed THEN "none"
                                    ELSE IF k \in Wants(p, m) THEN Add(kept[k], m.wants[k]) ELSE kept[k]]
           left == {t \in pending : t.peer # p \/ t.cid \notin removed}
           new == NewTasks(p, m, r.found)
<1>0. /\ Types /\ LedgersAllowed /\ r \in Call /\ CallAllowed(p, r)
      /\ m \in Message
  <2>1. r \in Call /\ CallAllowed(p, r)
    BY DEF IInv, Types
  <2>2. m \in Messages \cup {Nothing}
    BY <2>1 DEF Call
  <2>3. Nothing \in Message
    BY DEF Nothing, Message, Empty, Wantlist, WantTypes
  <2> QED BY <2>1, <2>2, <2>3, MessagesAssumption DEF IInv
<1>1. /\ wantList' = IF r.orphan = "yes" THEN wantList ELSE [wantList EXCEPT ![p] = after]
      /\ pending' = PushTasks(left, new)
      /\ received' = [received EXCEPT ![p] = NoCall]
      /\ UNCHANGED <<notifier, worker, stored, denied, asked>>
  BY Zenon DEF ReceivedLedger, environment
<1>2. Empty \in Wantlist /\ (\A k \in Cids : Empty[k] = "none") /\ m.wants \in Wantlist
  BY <1>0 DEF Empty, Wantlist, WantTypes, Message
<1>3. pending' \subseteq Task /\ \A t \in pending' : TaskAllowed(t)
  <2>1. new \subseteq Task /\ \A t \in new : TaskAllowed(t)
    BY <1>0, NewAllowed
  <2>2. left \subseteq Task /\ \A t \in left : TaskAllowed(t)
    BY DEF IInv, Types
  <2> HIDE DEF left, new
  <2> QED BY <1>1, <2>1, <2>2, PushAllowed
<1>4. wantList' \in [Peers -> Wantlist] /\ LedgersAllowed'
  <2>1. CASE r.orphan = "yes"
    BY <1>0, <1>1, <2>1, Zenon DEF Types, LedgersAllowed
  <2>2. CASE r.orphan # "yes"
    <3>1. kept \in Wantlist /\ \A k \in Cids : kept[k] # "none" => <<p, k>> \notin denied
      BY <1>0, <1>2, <2>2 DEF Types, LedgersAllowed
    <3>2. after \in Wantlist /\ \A k \in Cids : after[k] # "none" => <<p, k>> \notin denied
      <4> HIDE DEF kept, removed
      <4>1. ASSUME NEW k \in Cids
            PROVE  after[k] \in WantTypes /\ (after[k] # "none" => kept[k] # "none" \/ k \in Wants(p, m))
        BY <1>2, <3>1 DEF Add, Wantlist, WantTypes
      <4>2. \A k \in Wants(p, m) : <<p, k>> \notin denied
        BY DEF Wants
      <4> QED BY <3>1, <4>1, <4>2 DEF Wantlist
    <3> HIDE DEF after
    <3>3. wantList' = [wantList EXCEPT ![p] = after] /\ wantList \in [Peers -> Wantlist]
      BY <1>0, <1>1, <2>2 DEF Types
    <3> QED BY <1>0, <1>1, <3>2, <3>3, Zenon DEF LedgersAllowed
  <2> QED BY <2>1, <2>2
<1>5. received' \in [Peers -> Call] /\ \A q \in Peers : CallAllowed(q, received[q])'
  <2>1. NoCall \in Call /\ received \in [Peers -> Call]
    BY <1>0, <1>2 DEF NoCall, Call, Types
  <2>2. CallAllowed(p, received[p])'
    BY <1>1, <2>1, Zenon DEF CallAllowed, NoCall, Nothing
  <2>3. \A q \in Peers \ {p} : received'[q] = received[q]
    BY <1>1, <2>1, Zenon
  <2> QED BY <1>1, <2>1, <2>2, <2>3, StillAllowed, Zenon
<1>6. Types'
  BY <1>0, <1>1, <1>3, <1>4, <1>5, Zenon DEF Types
<1>7. \A t \in pending' : TaskAllowed(t)'
  BY <1>1, <1>3, Zenon DEF TaskAllowed
<1> HIDE DEF r, m, before, kept, removed, after, left, new
<1> QED BY <1>1, <1>4, <1>5, <1>6, <1>7, StillAllowed DEF IInv

\* NotifyNewBlocks.
LEMMA NotifyIInv == ASSUME IInv, Notify PROVE IInv'
<1>0. Types /\ LedgersAllowed /\ NotifierAllowed /\ notifier \in Notification
  BY DEF IInv, Types
<1>1. UNCHANGED <<wantList, received, worker, denied, asked>> /\ stored' \subseteq Cids
  BY <1>0, Zenon DEF Types, Notify, NotifyNewBlocks, NotifyPeers, NotifyEntry, NotifyPush, NotifyNext, NotifyCleanup,
              ledgers, environment, ghosts
<1>2. pending' \subseteq Task /\ \A t \in pending' : TaskAllowed(t)
  <2>1. CASE pending' = pending
    BY <2>1 DEF IInv, Types
  <2>2. CASE NotifyPush
    <3> DEFINE new == {[peer |-> x[1][1], cid |-> x[2], flags |-> {"HaveBlock"}
                          \cup (IF sendAsBlock(x[1][2], x[2]) THEN {"IsWantBlock"} ELSE {})]
                          : x \in notifier.entry \X notifier.cids}
    <3>1. pending' = PushTasks(pending, new)
      BY <2>2 DEF NotifyPush
    <3>2. ASSUME NEW t \in new PROVE t \in Task /\ TaskAllowed(t)
      <4>1. PICK e \in notifier.entry, k \in notifier.cids :
              t = [peer |-> e[1], cid |-> k, flags |-> {"HaveBlock"}
                     \cup (IF sendAsBlock(e[2], k) THEN {"IsWantBlock"} ELSE {})]
        BY <3>2
      <4>2. e[1] \in Peers /\ k \in Cids /\ <<e[1], k>> \notin denied
        BY <1>0 DEF Notification, NotifierAllowed
      <4>3. t \in Task
        BY <4>1, <4>2 DEF Task, Flags
      <4>4. t.peer = e[1] /\ t.cid = k /\ "HaveBlock" \in t.flags /\ "SendDontHave" \notin t.flags
        BY <4>1
      <4> QED BY <4>2, <4>3, <4>4 DEF TaskAllowed
    <3> HIDE DEF new
    <3>3. pending \subseteq Task /\ \A t \in pending : TaskAllowed(t)
      BY DEF IInv, Types
    <3> QED BY <3>1, <3>2, <3>3, PushAllowed
  <2> QED BY <2>1, <2>2, Zenon DEF Notify, NotifyNewBlocks, NotifyPeers, NotifyEntry, NotifyNext, NotifyCleanup
<1>3. notifier' \in Notification /\ NotifierAllowed'
  <2>1. CASE NotifyNewBlocks
    BY <1>0, <1>1, <2>1, Zenon DEF NotifyNewBlocks, NoNotify, Notification, NotifierAllowed, Types
  <2>2. ASSUME NEW k \in Cids, NotifyPeers(k) PROVE notifier' \in Notification /\ NotifierAllowed'
    BY <1>0, <1>1, <2>2, Zenon DEF NotifyPeers, Notification, NotifierAllowed
  <2>3. ASSUME NEW p \in Peers, NotifyEntry(p) PROVE notifier' \in Notification /\ NotifierAllowed'
    <3>1. PICK k \in notifier.cids :
            notifier' = IF p \in ledgerMap /\ wantList[p][k] # "none"
                          THEN [notifier EXCEPT !.pc = "push", !.peers = @ \ {p}, !.entry = {<<p, wantList[p][k]>>}]
                          ELSE [notifier EXCEPT !.peers = @ \ {p}, !.missing = @ \cup {<<p, k>>}]
      BY <2>3, Zenon DEF NotifyEntry
    <3>2. k \in Cids /\ wantList[p][k] \in WantTypes /\ \A j \in notifier.cids : j = k
      BY <1>0 DEF Notification, NotifierAllowed, Types, Wantlist
    <3>3. CASE p \in ledgerMap /\ wantList[p][k] # "none"
      <4>0. PICK e \in SUBSET (Peers \X WantTypes) : e = {<<p, wantList[p][k]>>}
        <5>1. <<p, wantList[p][k]>> \in Peers \X WantTypes
          BY <3>2
        <5> QED BY <5>1, Zenon
      <4>1. notifier' \in Notification
        BY <1>0, <3>1, <3>3, <4>0, Zenon DEF Notification
      <4>2. notifier'.cids = notifier.cids /\ notifier'.pc = "push" /\ notifier'.entry = {<<p, wantList[p][k]>>}
        BY <1>0, <3>1, <3>3 DEF Notification
      <4>3. <<p, k>> \notin denied
        BY <1>0, <3>2, <3>3 DEF LedgersAllowed
      <4> QED BY <1>0, <1>1, <3>2, <4>1, <4>2, <4>3 DEF NotifierAllowed
    <3>4. CASE ~(p \in ledgerMap /\ wantList[p][k] # "none")
      <4>0. PICK e \in SUBSET (Peers \X Cids) : e = notifier.missing \cup {<<p, k>>}
        <5>1. <<p, k>> \in Peers \X Cids /\ notifier.missing \subseteq Peers \X Cids
          BY <1>0, <3>2 DEF Notification
        <5> QED BY <5>1, Zenon
      <4>1. notifier' \in Notification
        BY <1>0, <3>1, <3>4, <4>0, Zenon DEF Notification
      <4>2. notifier'.cids = notifier.cids /\ notifier'.pc = notifier.pc /\ notifier'.entry = notifier.entry
        BY <1>0, <3>1, <3>4 DEF Notification
      <4> QED BY <1>0, <1>1, <4>1, <4>2 DEF NotifierAllowed
    <3> QED BY <3>3, <3>4
  <2>4. CASE NotifyPush
    BY <1>0, <1>1, <2>4, Zenon DEF NotifyPush, Notification, NotifierAllowed
  <2>5. CASE NotifyNext
    BY <1>0, <1>1, <2>5, Zenon DEF NotifyNext, Notification, NotifierAllowed
  <2>6. CASE NotifyCleanup
    BY <1>0, <1>1, <2>6, Zenon DEF NotifyCleanup, NoNotify, Notification, NotifierAllowed
  <2> QED BY <2>1, <2>2, <2>3, <2>4, <2>5, <2>6 DEF Notify
<1>4. Types'
  BY <1>0, <1>1, <1>2, <1>3 DEF Types
<1>5. \A t \in pending' : TaskAllowed(t)'
  BY <1>1, <1>2, Zenon DEF TaskAllowed
<1> QED BY <1>1, <1>3, <1>4, <1>5, StillAllowed DEF IInv

\* A task worker.
LEMMA WorkIInv == ASSUME IInv, NEW w \in Workers, Work(w) PROVE IInv'
<1>0. /\ Types /\ LedgersAllowed /\ (\A t \in pending : TaskAllowed(t))
      /\ worker[w] \in Envelope /\ worker \in [Workers -> Envelope] /\ EnvelopeAllowed(worker[w])
  BY DEF IInv, Types
<1>1. /\ UNCHANGED <<received, notifier, stored, denied, asked>>
      /\ pending' \subseteq pending /\ \A v \in Workers \ {w} : worker'[v] = worker[v]
  BY <1>0, Zenon DEF Work, PopTasks, GetBlock, EmptyEnvelope, SentFind, MessageSent, SendMessage, SendFails, TasksDone,
              environment, ghosts
<1>2. wantList' \in [Peers -> Wantlist] /\ LedgersAllowed'
  <2>1. CASE wantList' = wantList
    BY <1>0, <1>1, <2>1, Zenon DEF Types, LedgersAllowed
  <2>2. CASE MessageSent(w) /\ wantList' # wantList
    <3> DEFINE q == PeerOf(w)
               after == AfterSent(wantList[q], worker[w].blocks, worker[w].haves)
    <3>1. wantList' = [wantList EXCEPT ![q] = after] /\ wantList \in [Peers -> Wantlist]
      BY <1>0, <2>2 DEF MessageSent, Types
    <3>2. CASE q \notin Peers
      BY <2>2, <3>1, <3>2
    <3>3. CASE q \in Peers
      <4>1. after \in Wantlist /\ \A k \in Cids : after[k] # "none" => wantList[q][k] # "none"
        BY <3>1, <3>3 DEF AfterSent, Wantlist, WantTypes
      <4> HIDE DEF after, q
      <4> QED BY <1>0, <1>1, <3>1, <3>3, <4>1 DEF LedgersAllowed
    <3> QED BY <3>2, <3>3
  <2> QED BY <2>1, <2>2, Zenon
          DEF Work, PopTasks, GetBlock, EmptyEnvelope, SentFind, SendMessage, SendFails, TasksDone, ledgers
<1>3. worker' \in [Workers -> Envelope] /\ EnvelopeAllowed(worker[w])'
  <2>1. ASSUME NEW p \in Peers, PopTasks(w, p) PROVE worker' \in [Workers -> Envelope] /\ EnvelopeAllowed(worker[w])'
    <3>1. PICK ts \in (SUBSET {t \in pending : t.peer = p}) \ {{}} :
            worker' = [worker EXCEPT ![w] = [NoEnvelope EXCEPT !.pc = "build", !.tasks = ts,
              !.todo = {t.cid : t \in {u \in ts : {"HaveBlock", "IsWantBlock"} \subseteq u.flags}},
              !.haves = {t.cid : t \in {u \in ts : "HaveBlock" \in u.flags /\ "IsWantBlock" \notin u.flags}},
              !.dontHaves = {t.cid : t \in {u \in ts : "HaveBlock" \notin u.flags}}]]
      BY <2>1, Zenon DEF PopTasks
    <3>2. ts \subseteq Task /\ \A t \in ts : t.peer = p /\ t.cid \in Cids /\ TaskAllowed(t)
      BY <1>0 DEF Types, Task
    <3>3. PICK todo \in SUBSET Cids, haves \in SUBSET Cids, dontHaves \in SUBSET Cids :
            /\ todo = {t.cid : t \in {u \in ts : {"HaveBlock", "IsWantBlock"} \subseteq u.flags}}
            /\ haves = {t.cid : t \in {u \in ts : "HaveBlock" \in u.flags /\ "IsWantBlock" \notin u.flags}}
            /\ dontHaves = {t.cid : t \in {u \in ts : "HaveBlock" \notin u.flags}}
      BY <3>2, Zenon
    <3>4. worker' = [worker EXCEPT ![w] = [NoEnvelope EXCEPT !.pc = "build", !.tasks = ts,
                       !.todo = todo, !.haves = haves, !.dontHaves = dontHaves]]
      BY <3>1, <3>3
    <3>5. /\ worker' \in [Workers -> Envelope]
          /\ worker'[w].tasks = ts /\ worker'[w].todo = todo /\ worker'[w].blocks = {}
          /\ worker'[w].haves = haves /\ worker'[w].dontHaves = dontHaves
      BY <1>0, <3>2, <3>4, Zenon DEF NoEnvelope, Envelope
    <3>6. \A k \in todo \cup haves : <<p, k>> \notin denied
      BY <3>2, <3>3 DEF TaskAllowed
    <3>7. \A k \in dontHaves : <<p, k>> \in asked
      BY <3>2, <3>3 DEF TaskAllowed
    <3> QED BY <1>1, <3>2, <3>5, <3>6, <3>7 DEF EnvelopeAllowed, TaskAllowed
  <2>2. ASSUME NEW k \in Cids, GetBlock(w, k) PROVE worker' \in [Workers -> Envelope] /\ EnvelopeAllowed(worker[w])'
    <3> DEFINE e == worker[w]
               miss == k \notin blockstore /\ \E t \in e.tasks : t.cid = k /\ "SendDontHave" \in t.flags
    <3>1. /\ worker' \in [Workers -> Envelope] /\ worker'[w].tasks = e.tasks
          /\ worker'[w].todo = e.todo \ {k} /\ worker'[w].haves = e.haves
          /\ worker'[w].blocks \subseteq e.blocks \cup {k}
          /\ worker'[w].dontHaves = IF miss THEN e.dontHaves \cup {k} ELSE e.dontHaves
      <4>1. e \in Envelope /\ e.blocks \subseteq Cids /\ e.dontHaves \subseteq Cids
        BY <1>0 DEF Envelope
      <4>2. PICK bs \in SUBSET Cids : bs = IF k \in blockstore THEN e.blocks \cup {k} ELSE e.blocks
        BY <4>1, Zenon
      <4>3. PICK ds \in SUBSET Cids : ds = IF miss THEN e.dontHaves \cup {k} ELSE e.dontHaves
        BY <4>1, Zenon
      <4>4. worker' = [worker EXCEPT ![w].todo = @ \ {k}, ![w].blocks = bs, ![w].dontHaves = ds]
        BY <2>2, <4>2, <4>3 DEF GetBlock
      <4> HIDE DEF miss
      <4>5. /\ worker' \in [Workers -> Envelope] /\ worker'[w].tasks = e.tasks
            /\ worker'[w].todo = e.todo \ {k} /\ worker'[w].haves = e.haves
            /\ worker'[w].blocks = bs /\ worker'[w].dontHaves = ds
        BY <1>0, <4>4, Zenon DEF Envelope
      <4> QED BY <4>2, <4>3, <4>5, Zenon
    <3>2. k \in e.todo
      BY <2>2 DEF GetBlock
    <3>3. miss => \A t \in e.tasks : t.cid = k => <<t.peer, t.cid>> \in asked
      BY <1>0 DEF EnvelopeAllowed, TaskAllowed
    <3> HIDE DEF miss, e
    <3>4. EnvelopeAllowed(e)
      BY <1>0 DEF e
    <3> QED BY <1>1, <3>1, <3>2, <3>3, <3>4, Zenon DEF EnvelopeAllowed, TaskAllowed
  <2>3. CASE EmptyEnvelope(w) \/ TasksDone(w)
    <3>1. worker' = [worker EXCEPT ![w] = NoEnvelope] /\ NoEnvelope \in Envelope /\ NoEnvelope.tasks = {}
      BY <2>3, Zenon DEF EmptyEnvelope, TasksDone, NoEnvelope, Envelope
    <3> QED BY <1>0, <3>1 DEF EnvelopeAllowed
  <2>4. CASE SentFind(w) \/ MessageSent(w) \/ SendMessage(w) \/ SendFails(w)
    <3>1. /\ worker' \in [Workers -> Envelope] /\ worker'[w].tasks = worker[w].tasks
          /\ worker'[w].todo = worker[w].todo /\ worker'[w].haves = worker[w].haves
          /\ worker'[w].blocks = worker[w].blocks /\ worker'[w].dontHaves = worker[w].dontHaves
      BY <1>0, <2>4 DEF SentFind, MessageSent, SendMessage, SendFails, Envelope
    <3> QED BY <1>0, <1>1, <3>1, Zenon DEF EnvelopeAllowed, TaskAllowed
  <2> QED BY <2>1, <2>2, <2>3, <2>4 DEF Work
<1>4. Types'
  BY <1>0, <1>1, <1>2, <1>3 DEF Types
<1> QED BY <1>0, <1>1, <1>2, <1>3, <1>4, StillAllowed DEF IInv

\* Connections and the blockstore.
LEMMA EnvironmentIInv ==
  ASSUME IInv, \/ \E p \in Peers : PeerConnected(p) \/ PeerDisconnected(p)
               \/ \E k \in Cids : PutBlock(k) \/ DeleteBlock(k)
               \/ UNCHANGED vars
  PROVE  IInv'
<1>0. Types /\ LedgersAllowed /\ (\A t \in pending : TaskAllowed(t))
  BY DEF IInv
<1>1. ASSUME NEW p \in Peers, PeerDisconnected(p) PROVE IInv'
  <2>1. UNCHANGED <<pending, notifier, stored, denied, asked>>
    BY <1>1, Zenon DEF PeerDisconnected, environment
  <2>2. wantList' \in [Peers -> Wantlist] /\ LedgersAllowed'
    <3>1. Empty \in Wantlist /\ \A k \in Cids : Empty[k] = "none"
      BY DEF Empty, Wantlist, WantTypes
    <3> QED BY <1>0, <1>1, <2>1, <3>1, Zenon DEF PeerDisconnected, LedgersAllowed, Types
  <2>3. received' \in [Peers -> Call] /\ \A q \in Peers : CallAllowed(q, received[q])'
    <3>1. received \in [Peers -> Call] /\ wantList[p] \in Wantlist
      BY <1>0 DEF Types
    <3>2. /\ received' \in [Peers -> Call] /\ received'[p].m = received[p].m
          /\ received'[p].todo = received[p].todo /\ received'[p].found = received[p].found
          /\ \A q \in Peers \ {p} : received'[q] = received[q]
      <4> DEFINE r == received[p]
                 after == IF r.pc = "ledger" /\ r.orphan = "no"
                            THEN [r EXCEPT !.orphan = "yes", !.list = wantList[p]] ELSE r
      <4>1. received' = [received EXCEPT ![p] = after]
        BY <1>1, Zenon DEF PeerDisconnected
      <4>2. after \in Call /\ after.m = r.m /\ after.todo = r.todo /\ after.found = r.found
        BY <3>1, Zenon DEF Call
      <4> HIDE DEF after
      <4> QED BY <3>1, <4>1, <4>2
    <3>3. CallAllowed(p, received[p])
      BY DEF IInv
    <3>4. CallAllowed(p, received[p])'
      BY <2>1, <3>2, <3>3, Zenon DEF CallAllowed, Wants
    <3> QED BY <2>1, <3>2, <3>4, StillAllowed, Zenon
  <2>4. worker' \in [Workers -> Envelope] /\ \A w \in Workers : EnvelopeAllowed(worker[w])'
    <3>1. ASSUME NEW w \in Workers
          PROVE  /\ worker'[w] \in Envelope /\ worker'[w].tasks = worker[w].tasks
                 /\ worker'[w].todo = worker[w].todo /\ worker'[w].haves = worker[w].haves
                 /\ worker'[w].blocks = worker[w].blocks /\ worker'[w].dontHaves = worker[w].dontHaves
      BY <1>0, <1>1, Zenon DEF PeerDisconnected, Types, Envelope
    <3>2. worker' \in [Workers -> Envelope]
      BY <1>1, <3>1, Zenon DEF PeerDisconnected
    <3>3. ASSUME NEW w \in Workers PROVE EnvelopeAllowed(worker[w])'
      <4>1. EnvelopeAllowed(worker[w])
        BY DEF IInv
      <4> QED BY <2>1, <3>1, <4>1, Zenon DEF EnvelopeAllowed, TaskAllowed
    <3> QED BY <3>2, <3>3
  <2>5. Types'
    BY <1>0, <2>1, <2>2, <2>3, <2>4 DEF Types
  <2> QED BY <1>0, <2>1, <2>2, <2>3, <2>4, <2>5, StillAllowed DEF IInv
<1>2. CASE UNCHANGED <<wantList, pending, received, notifier, worker, denied, asked>> /\ stored' \subseteq Cids
  <2>1. Types'
    BY <1>0, <1>2 DEF Types
  <2> QED BY <1>0, <1>2, <2>1, StillAllowed DEF IInv
<1>3. \/ \E p \in Peers : PeerDisconnected(p)
      \/ UNCHANGED <<wantList, pending, received, notifier, worker, denied, asked>> /\ stored' \subseteq Cids
  BY <1>0 DEF PeerConnected, PutBlock, DeleteBlock, vars, ledgers, environment, ghosts, Types
<1> QED BY <1>1, <1>2, <1>3

-----------------------------------------------------------------------------
\* Every step keeps the invariant.
LEMMA NextIInv == IInv /\ [Next]_vars => IInv'
BY ReceiveIInv, LedgerIInv, NotifyIInv, WorkIInv, EnvironmentIInv DEF Next, Receive, Environment

\* The invariant holds throughout.
LEMMA AlwaysIInv == Spec => []IInv
BY InitIInv, NextIInv, PTL DEF Spec

\* No peer is sent, or told of, a block that the filter denies it, whether the
\* task came from its message or from a block stored later.
THEOREM DeniedIsNeverServed == Spec => []DeniedNeverServed
<1>1. IInv => DeniedNeverServed
  BY Zenon DEF IInv, EnvelopeAllowed, DeniedNeverServed
<1> QED BY <1>1, AlwaysIInv, PTL

\* No peer is sent a DONT_HAVE that it did not ask for.
THEOREM DontHavesAreAskedFor == Spec => []DontHaveAskedFor
<1>1. IInv => DontHaveAskedFor
  BY DEF IInv, EnvelopeAllowed, DontHaveAskedFor
<1> QED BY <1>1, AlwaysIInv, PTL

-----------------------------------------------------------------------------
(* The wants that are owed an answer *)

\* A ledger entry, or an entry of a message, that stands for a want.
Covers(entry, want) == entry # "none" /\ (want = "block" => entry = "block")

\* An envelope, or a task, that answers a want.
Answers(e, k, want) == k \in e.blocks \/ (k \in e.haves /\ want = "have")
Offers(t, p, k, want) ==
  t.peer = p /\ t.cid = k /\ "HaveBlock" \in t.flags /\ ("IsWantBlock" \in t.flags \/ want = "have")

Owed(p, k) == wanting[p][k] # "none" /\ <<p, k>> \notin denied /\ <<p, k>> \notin excused

\* The peer's MessageReceived call is about to record the want.
Calling(p, k) ==
  /\ received[p].pc # "idle" /\ Covers(received[p].m.wants[k], wanting[p][k])
  /\ received[p].pc \in {"index", "ledger"} => <<p, k>> \in peerLedger
  /\ received[p].pc = "ledger" => p \in ledgerMap

\* The want is recorded where NotifyNewBlocks will find it.
Recorded(p, k) == Covers(wantList[p][k], wanting[p][k]) /\ <<p, k>> \in peerLedger /\ p \in ledgerMap

\* The want is no longer recorded, as its answer is about to be sent.
Sending(w, p, k) == worker[w].pc = "send" /\ PeerOf(w) = p /\ Answers(worker[w], k, wanting[p][k])

Pursued(p, k) == Calling(p, k) \/ Recorded(p, k) \/ \E w \in Workers : Sending(w, p, k)

\* The call has found the block, or is going to, or NotifyNewBlocks is to run.
LookedUp(p, k) ==
  /\ Calling(p, k)
  /\ k \in received[p].todo \/ k \in received[p].found \/ k \in stored \/ k \in notifier.keys

\* NotifyNewBlocks has yet to read the peer's entry, or has read it.
Announced(p, k) ==
  Recorded(p, k) /\ (k \in stored \/ k \in notifier.keys \/ (k \in notifier.cids /\ p \in notifier.peers))
EntryRead(p, k) ==
  notifier.pc = "push" /\ k \in notifier.cids /\ \E x \in notifier.entry : x[1] = p /\ Covers(x[2], wanting[p][k])

\* A task waits that answers the want, or a worker has it.
Queued(p, k) == \E t \in pending : Offers(t, p, k, wanting[p][k])
Packed(w, p, k) ==
  /\ worker[w].pc \in {"build", "sent", "send"} /\ PeerOf(w) = p
  /\ k \in worker[w].todo \/ Answers(worker[w], k, wanting[p][k])

Underway(p, k) ==
  LookedUp(p, k) \/ Announced(p, k) \/ EntryRead(p, k) \/ Queued(p, k) \/ \E w \in Workers : Packed(w, p, k)

\* Every want that is owed is known to the engine and, if the block is there,
\* something is under way that answers it.
Tended(p, k) == Pursued(p, k) /\ (k \in blockstore => Underway(p, k))
NoneForgotten == \A p \in Peers, k \in Cids : Owed(p, k) => Tended(p, k)

\* What the peer has taken back or replaced in the message that a call works
\* on, it no longer waits for, and all sizes are looked up before the index.
CallSeen(p) ==
  /\ received[p].pc # "sizes" => received[p].todo = {}
  /\ received[p].pc # "idle" =>
       \A k \in Cids :
         /\ k \in received[p].m.cancels => wanting[p][k] = "none"
         /\ received[p].m.full = "full" => wanting[p][k] = "none" \/ Covers(received[p].m.wants[k], wanting[p][k])
         /\ received[p].orphan = "yes" => wanting[p][k] = "none"

\* A NotifyNewBlocks call has a key only while it goes through its peers.
NotifierTidy ==
  /\ notifier.pc \in {"idle", "keys"} => notifier.cids = {}
  /\ notifier.pc = "idle" => notifier.keys = {}

\* An envelope answers its tasks, and has all its blocks once it is built.
EnvelopeTidy(e) ==
  /\ e.todo \cup e.blocks \cup e.haves \subseteq {t.cid : t \in e.tasks}
  /\ e.pc # "build" => e.todo = {}

ServeInv ==
  /\ IInv /\ wanting \in [Peers -> Wantlist] /\ NotifierTidy /\ NoneForgotten
  /\ \A p \in Peers : CallSeen(p)
  /\ \A w \in Workers : EnvelopeTidy(worker[w])

-----------------------------------------------------------------------------
\* A merged task answers what either task answers.
LEMMA MergeOffers ==
  ASSUME NEW s \in Task, NEW e \in Task, SameTopic(e, s), NEW p, NEW k, NEW want,
         Offers(s, p, k, want) \/ Offers(e, p, k, want)
  PROVE  Offers(Merge(s, e), p, k, want)
<1>1. /\ Merge(s, e).peer = e.peer /\ Merge(s, e).cid = e.cid
      /\ Merge(s, e).flags = e.flags \cup (s.flags \cap {"HaveBlock", "IsWantBlock"})
  BY DEF Merge, Task
<1>2. \A f \in {"HaveBlock", "IsWantBlock"} : f \in s.flags \/ f \in e.flags => f \in Merge(s, e).flags
  BY <1>1, Zenon
<1>3. s.peer = e.peer /\ s.cid = e.cid
  BY Zenon DEF SameTopic
<1> QED BY <1>1, <1>2, <1>3, Zenon DEF Offers

\* A queued task, and a pushed one that is not dropped, is answered by what is
\* queued after the push.
LEMMA PushOffers ==
  ASSUME NEW queue \in SUBSET Task, NEW tasks \in SUBSET Task, NEW p, NEW k, NEW want,
         NEW t, t \in queue \/ (t \in tasks /\ ~Redundant(t)), Offers(t, p, k, want)
  PROVE  \E u \in PushTasks(queue, tasks) : Offers(u, p, k, want)
<1> DEFINE new == {s \in tasks : ~Redundant(s)}
<1>1. /\ \A e \in queue, s \in new : SameTopic(e, s) => Merge(s, e) \in PushTasks(queue, tasks)
      /\ \A e \in queue : (\A s \in new : ~SameTopic(s, e)) => e \in PushTasks(queue, tasks)
      /\ \A s \in new : (\A e \in queue : ~SameTopic(s, e)) => s \in PushTasks(queue, tasks)
  <2>1. PushTasks(queue, tasks) =
          {e \in queue : {s \in new : SameTopic(s, e)} = {}}
            \cup {Merge(x[2], x[1]) : x \in {y \in queue \X new : SameTopic(y[1], y[2])}}
            \cup {s \in new : \A e \in queue : ~SameTopic(s, e)}
    BY DEF PushTasks
  <2> HIDE DEF new
  <2>2. ASSUME NEW e \in queue, NEW s \in new, SameTopic(e, s) PROVE Merge(s, e) \in PushTasks(queue, tasks)
    <3>1. <<e, s>> \in {y \in queue \X new : SameTopic(y[1], y[2])}
      BY <2>2
    <3>2. Merge(<<e, s>>[2], <<e, s>>[1]) \in PushTasks(queue, tasks)
      BY <2>1, <3>1, Zenon
    <3> QED BY <3>2
  <2>3. ASSUME NEW e \in queue, \A s \in new : ~SameTopic(s, e) PROVE e \in PushTasks(queue, tasks)
    <3>1. {s \in new : SameTopic(s, e)} = {}
      BY <2>3
    <3> QED BY <2>1, <3>1, Zenon
  <2>4. ASSUME NEW s \in new, \A e \in queue : ~SameTopic(s, e) PROVE s \in PushTasks(queue, tasks)
    BY <2>1, <2>4, Zenon
  <2> QED BY <2>2, <2>3, <2>4
<1>2. new \subseteq Task /\ (t \in queue \/ t \in new)
  OBVIOUS
<1> HIDE DEF new
<1>3. \A s \in new, e \in queue : SameTopic(s, e) <=> SameTopic(e, s)
  BY DEF SameTopic
<1>4. \A s \in new, e \in queue : SameTopic(s, e) /\ (s = t \/ e = t) => Offers(Merge(s, e), p, k, want)
  BY <1>2, <1>3, MergeOffers
<1> QED BY <1>1, <1>2, <1>3, <1>4

\* The peer of an envelope is that of its tasks.
LEMMA PeerOfTasks ==
  ASSUME NEW w \in Workers
  PROVE  /\ worker'[w].tasks = worker[w].tasks => PeerOf(w)' = PeerOf(w)
         /\ \A p \in Peers : worker'[w].tasks # {} /\ (\A t \in worker'[w].tasks : t.peer = p) => PeerOf(w)' = p
<1> DEFINE PeerIn(ts) == CHOOSE p \in Peers : \E t \in ts : t.peer = p
<1>1. PeerOf(w) = PeerIn(worker[w].tasks) /\ PeerOf(w)' = PeerIn(worker'[w].tasks)
  BY DEF PeerOf
<1>2. ASSUME NEW ts, NEW p \in Peers, ts # {}, \A t \in ts : t.peer = p PROVE PeerIn(ts) = p
  <2>1. \E q \in Peers : \E t \in ts : t.peer = q
    BY <1>2
  <2>2. \E t \in ts : t.peer = PeerIn(ts)
    BY <2>1, Zenon
  <2> QED BY <1>2, <2>2
<1> HIDE DEF PeerIn
<1> QED BY <1>1, <1>2

-----------------------------------------------------------------------------
\* Envelopes alike but for the ledger that MessageSent holds.
SameWork(e, f) ==
  e.pc = f.pc /\ e.tasks = f.tasks /\ e.todo = f.todo /\ e.blocks = f.blocks /\ e.haves = f.haves

\* A step that leaves the want and its records leaves what comes of them.
LEMMA PursuitKept ==
  ASSUME NEW p \in Peers, NEW k \in Cids, wanting'[p][k] = wanting[p][k],
         <<p, k>> \in peerLedger => <<p, k>> \in peerLedger', p \in ledgerMap => p \in ledgerMap'
  PROVE  /\ received'[p] = received[p] /\ Calling(p, k) => Calling(p, k)'
         /\ wantList'[p][k] = wantList[p][k] /\ Recorded(p, k) => Recorded(p, k)'
<1>1. received'[p] = received[p] /\ Calling(p, k) => Calling(p, k)'
  BY Zenon DEF Calling
<1>2. wantList'[p][k] = wantList[p][k] /\ Recorded(p, k) => Recorded(p, k)'
  BY DEF Recorded
<1> QED BY <1>1, <1>2

\* The same for the envelope of a worker.
LEMMA WorkKept ==
  ASSUME NEW p \in Peers, NEW k \in Cids, wanting'[p][k] = wanting[p][k],
         NEW w \in Workers, SameWork(worker'[w], worker[w])
  PROVE  (Sending(w, p, k) => Sending(w, p, k)') /\ (Packed(w, p, k) => Packed(w, p, k)')
<1>1. PeerOf(w)' = PeerOf(w)
  BY PeerOfTasks, Zenon DEF SameWork
<1> QED BY <1>1, Zenon DEF SameWork, Sending, Packed, Answers

\* A step that neither changes nor excuses a want, nor what is recorded and
\* packed for it.
LeavesWant(p, k) ==
  /\ wanting'[p][k] = wanting[p][k] /\ wantList'[p][k] = wantList[p][k] /\ denied' = denied
  /\ <<p, k>> \in excused => <<p, k>> \in excused'
  /\ <<p, k>> \in peerLedger => <<p, k>> \in peerLedger'
  /\ p \in ledgerMap => p \in ledgerMap'
  /\ \A w \in Workers : SameWork(worker'[w], worker[w])

LeavesQueues == pending' = pending /\ notifier' = notifier /\ stored \subseteq stored'

\* Such a want is tended before the step, and after it whatever the step does
\* to the peer's call, provided that the call still serves it.
LEMMA TendedMoves ==
  ASSUME NoneForgotten, NEW p \in Peers, NEW k \in Cids, Owed(p, k)', LeavesWant(p, k)
  PROVE  /\ Pursued(p, k) /\ (k \in blockstore => Underway(p, k))
         /\ (Calling(p, k) => Pursued(p, k)') => Pursued(p, k)'
         /\ LeavesQueues /\ k \in blockstore /\ (LookedUp(p, k) => Underway(p, k)') => Underway(p, k)'
<1>1. Pursued(p, k) /\ (k \in blockstore => Underway(p, k))
  <2>1. Owed(p, k)
    BY Zenon DEF Owed, LeavesWant
  <2> QED BY <2>1 DEF NoneForgotten, Tended
<1>2. Recorded(p, k) => Recorded(p, k)'
  BY PursuitKept, Zenon DEF LeavesWant
<1>3. \A w \in Workers : (Sending(w, p, k) => Sending(w, p, k)') /\ (Packed(w, p, k) => Packed(w, p, k)')
  BY WorkKept, Zenon DEF LeavesWant
<1>4. (Calling(p, k) => Pursued(p, k)') => Pursued(p, k)'
  BY <1>1, <1>2, <1>3, Zenon DEF Pursued
<1>5. ASSUME LeavesQueues, k \in blockstore, LookedUp(p, k) => Underway(p, k)' PROVE Underway(p, k)'
  <2>1. (Queued(p, k) => Queued(p, k)') /\ (EntryRead(p, k) => EntryRead(p, k)')
    BY <1>5, Zenon DEF LeavesWant, LeavesQueues, Queued, EntryRead
  <2>2. Announced(p, k) => Announced(p, k)'
    BY <1>2, <1>5 DEF LeavesQueues, Announced
  <2> QED BY <1>1, <1>3, <1>5, <2>1, <2>2, Zenon DEF Underway
<1> QED BY <1>1, <1>4, <1>5, Zenon

\* So it is if the step leaves the call alone, or finds none.
LEMMA TendedKept ==
  ASSUME NoneForgotten, NEW p \in Peers, NEW k \in Cids, Owed(p, k)', LeavesWant(p, k),
         received'[p] = received[p] \/ received[p].pc = "idle"
  PROVE  Pursued(p, k)' /\ (LeavesQueues /\ k \in blockstore => Underway(p, k)')
<1>1. received'[p] = received[p] /\ Calling(p, k) => Calling(p, k)'
  BY PursuitKept, Zenon DEF LeavesWant
<1>2. Calling(p, k) => Calling(p, k)' /\ received'[p] = received[p]
  BY <1>1, Zenon DEF Calling
<1>3. Calling(p, k) => Pursued(p, k)'
  BY <1>2, Zenon DEF Pursued
<1>4. LeavesQueues /\ LookedUp(p, k) => LookedUp(p, k)'
  BY <1>2, Zenon DEF LeavesQueues, LookedUp
<1>5. LeavesQueues /\ LookedUp(p, k) => Underway(p, k)'
  BY <1>4, Zenon DEF Underway
<1> QED BY <1>3, <1>5, TendedMoves, Zenon

-----------------------------------------------------------------------------
\* Connections and the blockstore: a want is pursued, so that when its block
\* is stored it is found by the call in progress or by NotifyNewBlocks.
LEMMA EnvironmentServes ==
  ASSUME ServeInv, \/ \E q \in Peers : PeerConnected(q)
                   \/ \E j \in Cids : PutBlock(j) \/ DeleteBlock(j)
                   \/ UNCHANGED vars
  PROVE  NoneForgotten'
<1>1. /\ UNCHANGED <<wanting, denied, excused, peerLedger, wantList, received, worker, pending, notifier>>
      /\ ledgerMap \subseteq ledgerMap' /\ stored \subseteq stored'
      /\ \A k \in blockstore' : k \in blockstore \/ k \in stored'
  BY DEF PeerConnected, PutBlock, DeleteBlock, vars, ledgers, environment, ghosts
<1> SUFFICES ASSUME NEW p \in Peers, NEW k \in Cids, Owed(p, k)' PROVE Tended(p, k)'
  BY DEF NoneForgotten
<1>2. NoneForgotten /\ LeavesWant(p, k) /\ LeavesQueues /\ received'[p] = received[p]
  BY <1>1, Zenon DEF ServeInv, LeavesWant, LeavesQueues, SameWork
<1>3. Pursued(p, k)' /\ (k \in blockstore => Underway(p, k)')
  BY <1>2, TendedKept, Zenon
<1>4. ASSUME k \in stored' PROVE Underway(p, k)'
  <2>1. Calling(p, k)' => LookedUp(p, k)'
    BY <1>4, Zenon DEF LookedUp
  <2>2. Recorded(p, k)' => Announced(p, k)'
    BY <1>4, Zenon DEF Announced
  <2>3. \A w \in Workers : Sending(w, p, k)' => Packed(w, p, k)'
    BY Zenon DEF Sending, Packed
  <2> QED BY <1>3, <2>1, <2>2, <2>3, Zenon DEF Pursued, Underway
<1> QED BY <1>1, <1>3, <1>4, Zenon DEF Tended

\* A peer that goes is owed nothing.
LEMMA DisconnectedServes == ASSUME ServeInv, NEW q \in Peers, PeerDisconnected(q) PROVE NoneForgotten'
<1>0. /\ wanting \in [Peers -> Wantlist] /\ wantList \in [Peers -> Wantlist] /\ received \in [Peers -> Call]
      /\ worker \in [Workers -> Envelope]
  BY DEF ServeInv, IInv, Types
<1>1. /\ UNCHANGED <<denied, pending, notifier, blockstore, stored>>
      /\ wanting' = [wanting EXCEPT ![q] = Empty] /\ excused' = excused \ ({q} \X Cids)
      /\ wantList' = [wantList EXCEPT ![q] = Empty] /\ ledgerMap' = ledgerMap \ {q}
      /\ peerLedger' = peerLedger \ ({q} \X {k \in Cids : wantList[q][k] # "none"})
      /\ \A p \in Peers \ {q} : received'[p] = received[p]
  BY <1>0 DEF PeerDisconnected, environment
<1> SUFFICES ASSUME NEW p \in Peers, NEW k \in Cids, Owed(p, k)' PROVE Tended(p, k)'
  BY DEF NoneForgotten
<1>2. p # q
  <2>1. Empty[k] = "none"
    BY DEF Empty
  <2> QED BY <1>0, <1>1, <2>1 DEF Owed
<1>3. \A w \in Workers : SameWork(worker'[w], worker[w])
  BY <1>0 DEF PeerDisconnected, SameWork, Envelope
<1>4. NoneForgotten /\ LeavesWant(p, k) /\ LeavesQueues /\ received'[p] = received[p] /\ blockstore' = blockstore
  BY <1>0, <1>1, <1>2, <1>3, Zenon DEF ServeInv, LeavesWant, LeavesQueues
<1> QED BY <1>4, TendedKept, Zenon DEF Tended

\* What a message makes of the peer's wants: each want of the message covers
\* a want that it changes.
LEMMA MessageWants ==
  ASSUME ServeInv, NEW q \in Peers, NEW m \in Messages, MessageReceived(q, m), NEW k \in Cids
  PROVE  /\ wanting'[q][k] \in {m.wants[k], wanting[q][k], "none"}
         /\ wanting'[q][k] \in WantTypes
         /\ k \in m.cancels => wanting'[q][k] = "none"
         /\ m.full = "full" => wanting'[q][k] = m.wants[k]
<1>1. /\ wanting \in [Peers -> Wantlist] /\ wanting[q][k] \in WantTypes
      /\ m.wants[k] \in WantTypes /\ (k \in m.cancels => m.wants[k] = "none")
  BY MessagesAssumption DEF ServeInv, Wantlist, Message
<1>2. wanting'[q][k] =
        IF m.wants[k] = "block" \/ (m.wants[k] = "have" /\ (wanting[q][k] = "none" \/ m.full = "full")) THEN m.wants[k]
        ELSE IF k \in m.cancels \/ m.full = "full" THEN "none" ELSE wanting[q][k]
  BY <1>1 DEF MessageReceived
<1> QED BY <1>1, <1>2, Zenon DEF WantTypes

\* The start of MessageReceived: what the message changes is to be looked up.
LEMMA MessageServes ==
  ASSUME ServeInv, NEW q \in Peers, NEW m \in Messages, MessageReceived(q, m) PROVE NoneForgotten'
<1>0. wanting \in [Peers -> Wantlist] /\ received \in [Peers -> Call]
  BY DEF ServeInv, IInv, Types
<1>1. /\ UNCHANGED <<denied, pending, notifier, worker, blockstore, stored, ledgerMap, wantList, peerLedger>>
      /\ received[q].pc = "idle"
      /\ excused' = excused \ ({q} \X {j \in Cids : wanting'[q][j] # wanting[q][j]})
      /\ \A p \in Peers \ {q} : received'[p] = received[p] /\ wanting'[p] = wanting[p]
  BY <1>0 DEF MessageReceived, environment, ledgers
<1>2. received'[q].pc = "sizes" /\ received'[q].m = m /\ received'[q].todo = Wants(q, m)
  BY <1>0 DEF MessageReceived, NoCall
<1> SUFFICES ASSUME NEW p \in Peers, NEW k \in Cids, Owed(p, k)' PROVE Tended(p, k)'
  BY DEF NoneForgotten
<1>3. CASE wanting'[p][k] = wanting[p][k]
  <2>1. NoneForgotten /\ LeavesWant(p, k) /\ LeavesQueues /\ blockstore' = blockstore
    BY <1>1, <1>3, Zenon DEF ServeInv, LeavesWant, LeavesQueues, SameWork
  <2>2. received'[p] = received[p] \/ received[p].pc = "idle"
    BY <1>1, Zenon
  <2> QED BY <2>1, <2>2, TendedKept, Zenon DEF Tended
<1>4. CASE wanting'[p][k] # wanting[p][k]
  <2>1. p = q
    BY <1>1, <1>4, Zenon
  <2>2. wanting'[p][k] = m.wants[k] /\ m.wants[k] # "none" /\ <<p, k>> \notin denied
    <3>1. Owed(p, k)' => wanting'[p][k] # "none" /\ <<p, k>> \notin denied'
      BY Zenon DEF Owed
    <3>2. wanting'[p][k] # "none" /\ <<p, k>> \notin denied
      BY <1>1, <3>1, Zenon
    <3>3. wanting'[q][k] # wanting[q][k] /\ wanting'[q][k] # "none"
      BY <1>4, <2>1, <3>2, Zenon
    <3>4. wanting'[q][k] = m.wants[k]
      BY <3>3, MessageWants, Zenon DEF ServeInv
    <3> QED BY <2>1, <3>2, <3>4, Zenon
  <2>3. Calling(p, k)' /\ k \in received'[p].todo
    BY <1>2, <2>1, <2>2, Zenon DEF Calling, Covers, Wants
  <2> QED BY <2>3, Zenon DEF Tended, Pursued, Underway, LookedUp
<1> QED BY <1>3, <1>4, Zenon

\* A call after the lookup of one size.
LEMMA SizeFound ==
  ASSUME received \in [Peers -> Call], NEW q \in Peers, NEW j \in Cids, GetSize(q, j)
  PROVE  /\ received'[q].pc = received[q].pc /\ received'[q].m = received[q].m
         /\ received'[q].orphan = received[q].orphan
         /\ \A k \in received[q].todo : k \in received'[q].todo \/ (k = j /\ (k \in blockstore => k \in received'[q].found))
         /\ received[q].found \subseteq received'[q].found
         /\ \A p \in Peers \ {q} : received'[p] = received[p]
<1>1. PICK fs : fs = IF j \in blockstore THEN received[q].found \cup {j} ELSE received[q].found
  BY Zenon
<1>2. received' = [received EXCEPT ![q].todo = @ \ {j}, ![q].found = fs]
  BY <1>1 DEF GetSize
<1>3. /\ received'[q].pc = received[q].pc /\ received'[q].m = received[q].m
      /\ received'[q].orphan = received[q].orphan
      /\ received'[q].todo = received[q].todo \ {j} /\ received'[q].found = fs
      /\ \A p \in Peers \ {q} : received'[p] = received[p]
  BY <1>2 DEF Call
<1> QED BY <1>1, <1>3

\* The steps of MessageReceived before the ledger's lock: the block is found
\* if it is there, and the want is indexed before it is recorded.
LEMMA CallServes ==
  ASSUME ServeInv, NEW q \in Peers, (\E j \in Cids : GetSize(q, j)) \/ ReceivedIndex(q) \/ ReceivedFind(q)
  PROVE  NoneForgotten'
<1>0. received \in [Peers -> Call] /\ CallSeen(q) /\ NoneForgotten /\ received[q] \in Call
  BY DEF ServeInv, IInv, Types
<1>1. /\ UNCHANGED <<wanting, wantList, denied, excused, pending, notifier, worker, blockstore, stored>>
      /\ ledgerMap \subseteq ledgerMap' /\ received[q].pc # "idle"
      /\ \A p \in Peers \ {q} : received'[p] = received[p]
      /\ \/ peerLedger' = peerLedger
         \/ peerLedger' = (peerLedger \cup ({q} \X Wants(q, received[q].m))) \ ({q} \X received[q].m.cancels)
  <2>1. ASSUME NEW j \in Cids, GetSize(q, j)
        PROVE  /\ UNCHANGED <<wanting, wantList, denied, excused, pending, notifier, worker, blockstore, stored>>
               /\ UNCHANGED <<ledgerMap, peerLedger>> /\ received[q].pc # "idle"
               /\ \A p \in Peers \ {q} : received'[p] = received[p]
    <3>1. \A p \in Peers \ {q} : received'[p] = received[p]
      BY <1>0, <2>1, SizeFound, Zenon
    <3>2. received[q].pc = "sizes" /\ UNCHANGED <<ledgers, pending, notifier, worker, environment, ghosts>>
      BY <2>1, Zenon DEF GetSize
    <3> QED BY <3>1, <3>2 DEF environment, ledgers, ghosts
  <2>2. CASE ReceivedIndex(q)
    BY <1>0, <2>2 DEF ReceivedIndex, environment, ghosts
  <2>3. CASE ReceivedFind(q)
    BY <1>0, <2>3 DEF ReceivedFind, environment, ghosts
  <2> QED BY <2>1, <2>2, <2>3, Zenon
<1> SUFFICES ASSUME NEW p \in Peers, NEW k \in Cids, Owed(p, k)' PROVE Tended(p, k)'
  BY DEF NoneForgotten
<1>2. p = q => k \notin received[q].m.cancels
  BY <1>0, <1>1, Zenon DEF CallSeen, Owed
<1>3. LeavesWant(p, k) /\ LeavesQueues /\ blockstore' = blockstore
  BY <1>1, <1>2, Zenon DEF LeavesWant, LeavesQueues, SameWork
<1>4. CASE p # q
  BY <1>0, <1>1, <1>3, <1>4, TendedKept, Zenon DEF Tended
<1>5. CASE p = q
  <2>1. ASSUME Calling(p, k) PROVE Calling(p, k)' /\ (k \in blockstore /\ LookedUp(p, k) => LookedUp(p, k)')
    <3>1. ASSUME NEW j \in Cids, GetSize(q, j)
          PROVE  Calling(p, k)' /\ (k \in blockstore /\ LookedUp(p, k) => LookedUp(p, k)')
      <4>1. /\ received'[q].pc = received[q].pc /\ received'[q].m = received[q].m
            /\ k \in received[q].todo /\ k \in blockstore => k \in received'[q].todo \/ k \in received'[q].found
            /\ k \in received[q].found => k \in received'[q].found
        BY <1>0, <3>1, SizeFound, Zenon
      <4>2. UNCHANGED <<peerLedger, ledgerMap>>
        BY <3>1 DEF GetSize, ledgers
      <4>3. Calling(p, k)'
        BY <1>1, <1>5, <2>1, <4>1, <4>2, Zenon DEF Calling
      <4> QED BY <1>1, <1>5, <4>1, <4>3, Zenon DEF LookedUp
    <3>2. CASE ReceivedIndex(q) \/ ReceivedFind(q)
      <4>1. /\ received'[q].m = received[q].m /\ received'[q].todo = received[q].todo
            /\ received'[q].found = received[q].found
        BY <1>0, <3>2 DEF ReceivedIndex, ReceivedFind, Call
      <4>2. k \in Wants(q, received[q].m)
        BY <1>1, <1>5, <2>1, Zenon DEF Wants, Calling, Covers, Owed
      <4>3. CASE ReceivedIndex(q)
        <5>1. received'[q].pc = "index" /\ <<p, k>> \in peerLedger'
          BY <1>0, <1>2, <1>5, <4>2, <4>3 DEF ReceivedIndex, Call
        <5>2. Calling(p, k)'
          BY <1>1, <1>5, <2>1, <4>1, <5>1, Zenon DEF Calling
        <5> QED BY <1>1, <1>5, <4>1, <5>2, Zenon DEF LookedUp
      <4>4. CASE ReceivedFind(q)
        <5>1. received'[q].pc = "ledger" /\ received[q].pc = "index" /\ p \in ledgerMap' /\ peerLedger' = peerLedger
          BY <1>0, <1>5, <4>4 DEF ReceivedFind, Call
        <5>2. Calling(p, k)'
          BY <1>1, <1>5, <2>1, <4>1, <5>1, Zenon DEF Calling
        <5> QED BY <1>1, <1>5, <4>1, <5>2, Zenon DEF LookedUp
      <4> QED BY <3>2, <4>3, <4>4
    <3> QED BY <3>1, <3>2
  <2>2. Calling(p, k) => Pursued(p, k)'
    BY <2>1, Zenon DEF Pursued
  <2>3. k \in blockstore /\ LookedUp(p, k) => Underway(p, k)'
    BY <2>1, Zenon DEF LookedUp, Underway
  <2> QED BY <1>0, <1>3, <2>2, <2>3, TendedMoves, Zenon DEF Tended
<1> QED BY <1>4, <1>5

\* The task of a block that was found answers the want of the message.
LEMMA FoundOffers ==
  ASSUME NEW p, NEW m, NEW found, NEW k \in found, NEW want \in WantTypes, want # "none", Covers(m.wants[k], want)
  PROVE  \E t \in NewTasks(p, m, found) : Offers(t, p, k, want)
<1> DEFINE t == [peer |-> p, cid |-> k, flags |-> {"HaveBlock"}
                   \cup (IF sendAsBlock(m.wants[k], k) THEN {"IsWantBlock"} ELSE {})
                   \cup (IF k \in m.dontHave THEN {"SendDontHave"} ELSE {})]
<1>1. t \in NewTasks(p, m, found)
  <2>1. t \in FoundTasks(p, m, found)
    BY Zenon DEF FoundTasks
  <2> HIDE DEF t
  <2> QED BY <2>1, Zenon DEF NewTasks
<1>2. t.peer = p /\ t.cid = k /\ "HaveBlock" \in t.flags /\ (want = "block" => "IsWantBlock" \in t.flags)
  BY Zenon DEF sendAsBlock, Covers
<1>3. want = "block" \/ want = "have"
  BY DEF WantTypes
<1> HIDE DEF t
<1> QED BY <1>1, <1>2, <1>3 DEF Offers

\* The ledger's lock: what was found gets a task, and every want that is owed
\* is recorded.
LEMMA LedgerServes == ASSUME ServeInv, NEW q \in Peers, ReceivedLedger(q) PROVE NoneForgotten'
<1> DEFINE r == received[q]
           m == r.m
           before == IF r.orphan = "yes" THEN r.list ELSE wantList[q]
           kept == IF m.full = "full" THEN Empty ELSE before
           removed == {k \in m.cancels : kept[k] # "none"}
           after == [k \in Cids |-> IF k \in removed THEN "none"
                                    ELSE IF k \in Wants(q, m) THEN Add(kept[k], m.wants[k]) ELSE kept[k]]
           left == {t \in pending : t.peer # q \/ t.cid \notin removed}
           new == NewTasks(q, m, r.found)
<1>0. /\ IInv /\ Types /\ r \in Call /\ CallAllowed(q, r) /\ CallSeen(q) /\ NoneForgotten
      /\ wanting \in [Peers -> Wantlist] /\ wantList \in [Peers -> Wantlist] /\ received \in [Peers -> Call]
  BY DEF ServeInv, IInv, Types
<1>1. /\ r.pc = "ledger" /\ r.todo = {} /\ removed \subseteq m.cancels
      /\ wantList' = IF r.orphan = "yes" THEN wantList ELSE [wantList EXCEPT ![q] = after]
      /\ pending' = PushTasks(left, new)
      /\ excused' = excused \cup {<<q, t.cid>> : t \in {u \in new : Redundant(u)}}
      /\ received' = [received EXCEPT ![q] = NoCall]
      /\ UNCHANGED <<ledgerMap, peerLedger, notifier, worker, blockstore, stored, denied, wanting>>
  BY <1>0, Zenon DEF ReceivedLedger, environment, CallSeen
<1>2. new \in SUBSET Task /\ left \in SUBSET Task
  BY <1>0, NewAllowed, Zenon DEF Types
<1>3. \A t \in pending : t.peer # q \/ t.cid \notin m.cancels => t \in left
  BY <1>1, Zenon
<1>4. ASSUME NEW k \in Cids, k \notin m.cancels
      PROVE  /\ after[k] = IF k \in Wants(q, m) THEN Add(kept[k], m.wants[k]) ELSE kept[k]
             /\ r.orphan = "no" => kept[k] = IF m.full = "full" THEN "none" ELSE wantList[q][k]
  BY <1>4, Zenon DEF Empty
<1> HIDE DEF r, m, before, kept, removed, after, left, new
<1> SUFFICES ASSUME NEW p \in Peers, NEW k \in Cids, Owed(p, k)' PROVE Tended(p, k)'
  BY DEF NoneForgotten
<1>5. /\ wanting'[p][k] = wanting[p][k] /\ wanting[p][k] # "none" /\ wanting[p][k] \in WantTypes
      /\ <<p, k>> \notin denied /\ <<p, k>> \notin excused' /\ <<p, k>> \notin excused
      /\ peerLedger' = peerLedger /\ ledgerMap' = ledgerMap
  BY <1>0, <1>1, Zenon DEF Owed, Wantlist
<1>6. Pursued(p, k) /\ (k \in blockstore => Underway(p, k))
  BY <1>0, <1>5, Zenon DEF NoneForgotten, Tended, Owed
<1>7. p = q => k \notin m.cancels /\ r.orphan = "no" /\ (m.full = "full" => Covers(m.wants[k], wanting[p][k]))
  BY <1>0, <1>1, <1>5, Zenon DEF CallSeen, Call, r, m
<1>8. ASSUME p = q, Recorded(p, k) \/ Calling(p, k) PROVE Recorded(p, k)'
  <2>1. Covers(wantList[q][k], wanting[p][k]) \/ Covers(m.wants[k], wanting[p][k])
    BY <1>8, Zenon DEF Recorded, Calling, r, m
  <2>2. m.wants[k] # "none" => k \in Wants(q, m)
    BY <1>5, <1>8, Zenon DEF Wants
  <2>3. Covers(after[k], wanting[p][k])
    BY <1>4, <1>5, <1>7, <1>8, <2>1, <2>2, Zenon DEF Covers, Wants, Add
  <2>4. wantList'[p][k] = after[k]
    BY <1>0, <1>1, <1>7, <1>8, Zenon
  <2>5. <<p, k>> \in peerLedger /\ p \in ledgerMap
    BY <1>1, <1>8, Zenon DEF Recorded, Calling, r
  <2> QED BY <1>5, <2>3, <2>4, <2>5, Zenon DEF Recorded
<1>9. ASSUME p # q
      PROVE  received'[p] = received[p] /\ (Recorded(p, k) => Recorded(p, k)') /\ (Calling(p, k) => Calling(p, k)')
  <2>1. wantList'[p][k] = wantList[p][k] /\ received'[p] = received[p]
    BY <1>0, <1>1, <1>9, Zenon
  <2> QED BY <1>5, <2>1, PursuitKept, Zenon
<1>10. \A w \in Workers : (Sending(w, p, k) => Sending(w, p, k)') /\ (Packed(w, p, k) => Packed(w, p, k)')
  <2>1. \A w \in Workers : SameWork(worker'[w], worker[w])
    BY <1>1, Zenon DEF SameWork
  <2> QED BY <1>5, <2>1, WorkKept, Zenon
<1>11. Pursued(p, k)'
  BY <1>6, <1>8, <1>9, <1>10, Zenon DEF Pursued
<1>12. Queued(p, k) => Queued(p, k)'
  <2> SUFFICES ASSUME NEW t \in pending, Offers(t, p, k, wanting[p][k]) PROVE Queued(p, k)'
    BY Zenon DEF Queued
  <2>1. t \in left
    BY <1>3, <1>7, Zenon DEF Offers
  <2>2. \E u \in PushTasks(left, new) : Offers(u, p, k, wanting[p][k])
    BY <1>2, <2>1, PushOffers, Zenon
  <2> QED BY <1>1, <1>5, <2>2, Zenon DEF Queued
<1>13. ASSUME p = q, Calling(p, k), k \in r.found PROVE Queued(p, k)'
  <2>1. Covers(m.wants[k], wanting[p][k])
    BY <1>13, Zenon DEF Calling, r, m
  <2>2. PICK t \in new : Offers(t, p, k, wanting[p][k])
    BY <1>5, <1>13, <2>1, FoundOffers, Zenon DEF new
  <2>3. ~Redundant(t)
    <3>1. t.cid = k
      BY <2>2, Zenon DEF Offers
    <3> QED BY <1>1, <1>5, <1>13, <3>1, Zenon
  <2>4. \E u \in PushTasks(left, new) : Offers(u, p, k, wanting[p][k])
    BY <1>2, <2>2, <2>3, PushOffers, Zenon
  <2> QED BY <1>1, <1>5, <2>4, Zenon DEF Queued
<1>14. LookedUp(p, k) => LookedUp(p, k)' \/ Announced(p, k)' \/ Queued(p, k)'
  <2>1. CASE p # q
    BY <1>1, <1>9, <2>1, Zenon DEF LookedUp
  <2>2. CASE p = q
    BY <1>1, <1>8, <1>13, <2>2, Zenon DEF LookedUp, Announced, r
  <2> QED BY <2>1, <2>2
<1>15. (Announced(p, k) => Announced(p, k)') /\ (EntryRead(p, k) => EntryRead(p, k)')
  <2>1. Recorded(p, k) => Recorded(p, k)'
    BY <1>8, <1>9, Zenon
  <2> QED BY <1>1, <1>5, <2>1, Zenon DEF Announced, EntryRead
<1>16. k \in blockstore => Underway(p, k)'
  BY <1>6, <1>10, <1>12, <1>14, <1>15, Zenon DEF Underway
<1> QED BY <1>1, <1>11, <1>16, Zenon DEF Tended

\* The task that NotifyNewBlocks makes of an entry answers the want that the
\* entry stands for.
LEMMA EntryOffers ==
  ASSUME NEW entry, NEW cids, NEW x \in entry, NEW k \in cids, NEW want \in WantTypes, want # "none", Covers(x[2], want)
  PROVE  \E t \in {[peer |-> y[1][1], cid |-> y[2], flags |-> {"HaveBlock"}
                     \cup (IF sendAsBlock(y[1][2], y[2]) THEN {"IsWantBlock"} ELSE {})] : y \in entry \X cids} :
           Offers(t, x[1], k, want)
<1> DEFINE task(y) == [peer |-> y[1][1], cid |-> y[2], flags |-> {"HaveBlock"}
                         \cup (IF sendAsBlock(y[1][2], y[2]) THEN {"IsWantBlock"} ELSE {})]
<1>1. <<x, k>> \in entry \X cids
  OBVIOUS
<1>2. /\ task(<<x, k>>).peer = x[1] /\ task(<<x, k>>).cid = k /\ "HaveBlock" \in task(<<x, k>>).flags
      /\ want = "block" => "IsWantBlock" \in task(<<x, k>>).flags
  BY DEF sendAsBlock, Covers
<1>3. want = "block" \/ want = "have"
  BY DEF WantTypes
<1> HIDE DEF task
<1>4. Offers(task(<<x, k>>), x[1], k, want)
  BY <1>2, <1>3, Zenon DEF Offers
<1>5. \E t \in {task(y) : y \in entry \X cids} : Offers(t, x[1], k, want)
  BY <1>1, <1>4, Zenon
<1> QED BY <1>5, Zenon DEF task

\* What one step of NotifyNewBlocks does with a want that its call is to serve.
NotifyTends(p, k) ==
  /\ LookedUp(p, k) => LookedUp(p, k)'
  /\ Announced(p, k) => Announced(p, k)' \/ EntryRead(p, k)'
  /\ EntryRead(p, k) => EntryRead(p, k)' \/ Queued(p, k)'
  /\ Queued(p, k) => Queued(p, k)'

\* The start of NotifyNewBlocks and the lock under which it reads the index.
LEMMA NotifyKeysTends ==
  ASSUME ServeInv, NEW p \in Peers, NEW k \in Cids, Owed(p, k)', UNCHANGED <<wanting, received, pending>>,
         Calling(p, k) => Calling(p, k)', Recorded(p, k) => Recorded(p, k)',
         NotifyNewBlocks \/ \E j \in Cids : NotifyPeers(j)
  PROVE  NotifyTends(p, k)
<1>0. notifier \in Notification /\ NotifierTidy
  BY DEF ServeInv, IInv, Types
<1>1. Queued(p, k) => Queued(p, k)'
  BY DEF Queued
<1>2. CASE NotifyNewBlocks
  <2>1. notifier.pc = "idle" /\ notifier.keys = {} /\ notifier.cids = {} /\ notifier'.keys = stored
    BY <1>0, <1>2 DEF NotifyNewBlocks, NotifierTidy, NoNotify
  <2> QED BY <1>1, <2>1, Zenon DEF NotifyTends, LookedUp, Announced, EntryRead
<1>3. ASSUME NEW j \in Cids, NotifyPeers(j) PROVE NotifyTends(p, k)
  <2>1. /\ notifier.pc = "keys" /\ notifier.cids = {} /\ stored' = stored
        /\ notifier'.keys = notifier.keys \ {j} /\ notifier'.cids = {j}
        /\ notifier'.peers = {q \in Peers : <<q, j>> \in peerLedger}
        /\ excused' = excused \cup (Receiving(j) \X {j})
    <3>1. PICK ps : ps = {q \in Peers : <<q, j>> \in peerLedger}
      BY Zenon
    <3>2. /\ notifier.pc = "keys" /\ UNCHANGED environment /\ excused' = excused \cup (Receiving(j) \X {j})
          /\ notifier' = [notifier EXCEPT !.pc = "peers", !.keys = @ \ {j}, !.cids = {j}, !.peers = ps]
      BY <1>3, <3>1, Zenon DEF NotifyPeers
    <3>3. notifier'.keys = notifier.keys \ {j} /\ notifier'.cids = {j} /\ notifier'.peers = ps
      BY <1>0, <3>2 DEF Notification
    <3>4. notifier.cids = {}
      BY <1>0, <3>2 DEF NotifierTidy
    <3> QED BY <3>1, <3>2, <3>3, <3>4, Zenon DEF environment
  <2>2. Calling(p, k) => k # j
    <3>1. Calling(p, k) => p \in Receiving(k)
      BY Zenon DEF Calling, Covers, Receiving
    <3> QED BY <2>1, <3>1, Zenon DEF Owed
  <2>3. LookedUp(p, k) => LookedUp(p, k)'
    BY <2>1, <2>2, Zenon DEF LookedUp
  <2>4. Announced(p, k) => Announced(p, k)'
    BY <2>1, Zenon DEF Announced, Recorded
  <2>5. ~EntryRead(p, k)
    BY <2>1, Zenon DEF EntryRead
  <2> QED BY <1>1, <2>3, <2>4, <2>5 DEF NotifyTends
<1> QED BY <1>2, <1>3

\* The peers of one key: their entries are read and tasks pushed.
LEMMA NotifyPeersTends ==
  ASSUME ServeInv, NEW p \in Peers, NEW k \in Cids, Owed(p, k)', UNCHANGED <<wanting, received, stored>>,
         Calling(p, k) => Calling(p, k)', Recorded(p, k) => Recorded(p, k)',
         (\E q \in Peers : NotifyEntry(q)) \/ NotifyPush
  PROVE  NotifyTends(p, k)
<1>0. notifier \in Notification /\ NotifierAllowed /\ wanting[p][k] \in WantTypes /\ wanting[p][k] # "none"
  BY DEF ServeInv, IInv, Types, Wantlist, Owed
<1>1. ASSUME NEW q \in Peers, NotifyEntry(q) PROVE NotifyTends(p, k)
  <2>1. notifier.pc = "peers" /\ pending' = pending /\ wantList' = wantList
    BY <1>1, Zenon DEF NotifyEntry, ledgers
  <2>2. /\ notifier'.keys = notifier.keys /\ notifier'.cids = notifier.cids /\ notifier'.peers = notifier.peers \ {q}
        /\ \A j \in notifier.cids : q \in ledgerMap /\ wantList[q][j] # "none" =>
             notifier'.pc = "push" /\ notifier'.entry = {<<q, wantList[q][j]>>}
    <3>1. PICK j \in notifier.cids :
            notifier' = IF q \in ledgerMap /\ wantList[q][j] # "none"
                          THEN [notifier EXCEPT !.pc = "push", !.peers = @ \ {q}, !.entry = {<<q, wantList[q][j]>>}]
                          ELSE [notifier EXCEPT !.peers = @ \ {q}, !.missing = @ \cup {<<q, j>>}]
      BY <1>1, Zenon DEF NotifyEntry
    <3>2. \A i \in notifier.cids : i = j
      BY <1>0, Zenon DEF NotifierAllowed
    <3>3. CASE q \in ledgerMap /\ wantList[q][j] # "none"
      BY <1>0, <3>1, <3>2, <3>3 DEF Notification
    <3>4. CASE ~(q \in ledgerMap /\ wantList[q][j] # "none")
      BY <1>0, <3>1, <3>2, <3>4 DEF Notification
    <3> QED BY <3>3, <3>4, Zenon
  <2>3. LookedUp(p, k) => LookedUp(p, k)'
    BY <2>2, Zenon DEF LookedUp
  <2>4. Announced(p, k) => Announced(p, k)' \/ EntryRead(p, k)'
    <3>1. CASE p # q
      BY <2>2, <3>1, Zenon DEF Announced
    <3>2. ASSUME p = q, Recorded(p, k), k \in notifier.cids PROVE EntryRead(p, k)'
      <4>1. notifier'.pc = "push" /\ notifier'.entry = {<<p, wantList[p][k]>>}
        BY <2>2, <3>2, Zenon DEF Recorded, Covers
      <4>2. Covers(<<p, wantList[p][k]>>[2], wanting'[p][k]) /\ <<p, wantList[p][k]>>[1] = p
        BY <3>2, Zenon DEF Recorded
      <4> QED BY <2>2, <3>2, <4>1, <4>2, Zenon DEF EntryRead
    <3> QED BY <2>2, <3>1, <3>2, Zenon DEF Announced
  <2>5. ~EntryRead(p, k) /\ (Queued(p, k) => Queued(p, k)')
    BY <2>1, Zenon DEF EntryRead, Queued
  <2> QED BY <2>3, <2>4, <2>5 DEF NotifyTends
<1>2. CASE NotifyPush
  <2> DEFINE new == {[peer |-> x[1][1], cid |-> x[2], flags |-> {"HaveBlock"}
                        \cup (IF sendAsBlock(x[1][2], x[2]) THEN {"IsWantBlock"} ELSE {})]
                        : x \in notifier.entry \X notifier.cids}
  <2>1. /\ pending' = PushTasks(pending, new)
        /\ excused' = excused \cup {<<t.peer, t.cid>> : t \in {u \in new : Redundant(u)}}
        /\ notifier'.keys = notifier.keys /\ notifier'.cids = notifier.cids /\ notifier'.peers = notifier.peers
    BY <1>0, <1>2 DEF NotifyPush, Notification
  <2>2. new \in SUBSET Task /\ pending \in SUBSET Task
    <3>1. notifier.entry \subseteq Peers \X WantTypes /\ notifier.cids \subseteq Cids /\ pending \subseteq Task
      BY <1>0 DEF ServeInv, IInv, Types, Notification
    <3>2. ASSUME NEW e \in Peers, NEW c \in Cids, NEW fs \in SUBSET Flags
          PROVE  [peer |-> e, cid |-> c, flags |-> fs] \in Task
      BY <3>2 DEF Task
    <3>3. \A fs : fs = {"HaveBlock"} \/ fs = {"HaveBlock"} \cup {"IsWantBlock"} \/ fs = {"HaveBlock"} \cup {} =>
                fs \in SUBSET Flags
      BY DEF Flags
    <3>4. ASSUME NEW t \in new PROVE t \in Task
      <4>1. PICK x \in notifier.entry \X notifier.cids :
              t = [peer |-> x[1][1], cid |-> x[2],
                   flags |-> {"HaveBlock"} \cup (IF sendAsBlock(x[1][2], x[2]) THEN {"IsWantBlock"} ELSE {})]
        BY <3>4, Zenon
      <4> DEFINE fs == {"HaveBlock"} \cup (IF sendAsBlock(x[1][2], x[2]) THEN {"IsWantBlock"} ELSE {})
      <4>2. fs = {"HaveBlock"} \cup {"IsWantBlock"} \/ fs = {"HaveBlock"} \cup {}
        BY Zenon
      <4>3. x[1][1] \in Peers /\ x[2] \in Cids
        <5>1. x[1] \in notifier.entry /\ x[2] \in notifier.cids
          BY <4>1, Zenon
        <5>2. x[1] \in Peers \X WantTypes
          BY <3>1, <5>1, Zenon
        <5>3. x[1][1] \in Peers
          BY <5>2, Zenon
        <5> QED BY <3>1, <5>1, <5>3, Zenon
      <4>4. fs \in SUBSET Flags
        BY <3>3, <4>2, Zenon
      <4>5. t = [peer |-> x[1][1], cid |-> x[2], flags |-> fs]
        BY <4>1, Zenon
      <4> HIDE DEF fs
      <4> QED BY <3>2, <4>3, <4>4, <4>5, Zenon
    <3> QED BY <3>1, <3>4, Zenon
  <2>3. \A x \in notifier.entry : Covers(x[2], wanting[p][k]) /\ k \in notifier.cids =>
          \E t \in new : Offers(t, x[1], k, wanting[p][k])
    BY <1>0, EntryOffers, Zenon
  <2> HIDE DEF new
  <2>4. ASSUME NEW t, t \in pending \/ (t \in new /\ ~Redundant(t)), Offers(t, p, k, wanting[p][k]) PROVE Queued(p, k)'
    <3>1. \E u \in PushTasks(pending, new) : Offers(u, p, k, wanting[p][k])
      BY <2>2, <2>4, PushOffers, Zenon
    <3> QED BY <2>1, <3>1, Zenon DEF Queued
  <2>5. \A t \in new : Offers(t, p, k, wanting[p][k]) => ~Redundant(t)
    BY <2>1, Zenon DEF Owed, Offers
  <2>6. (EntryRead(p, k) => Queued(p, k)') /\ (Queued(p, k) => Queued(p, k)')
    BY <2>3, <2>4, <2>5, Zenon DEF EntryRead, Queued
  <2>7. (LookedUp(p, k) => LookedUp(p, k)') /\ (Announced(p, k) => Announced(p, k)')
    BY <2>1, Zenon DEF LookedUp, Announced
  <2> QED BY <2>6, <2>7 DEF NotifyTends
<1> QED BY <1>1, <1>2

\* The end of a key and of the call: nobody is left to be told.
LEMMA NotifyEndTends ==
  ASSUME ServeInv, NEW p \in Peers, NEW k \in Cids, UNCHANGED <<wanting, received, stored, pending>>,
         Calling(p, k) => Calling(p, k)', Recorded(p, k) => Recorded(p, k)', NotifyNext \/ NotifyCleanup
  PROVE  NotifyTends(p, k)
<1>0. notifier \in Notification /\ NotifierTidy
  BY DEF ServeInv, IInv, Types
<1>1. notifier.pc # "push" /\ (notifier.peers = {} \/ notifier.cids = {}) /\ notifier'.keys = notifier.keys
  <2>1. CASE NotifyNext
    BY <1>0, <2>1 DEF NotifyNext, Notification
  <2>2. CASE NotifyCleanup
    BY <1>0, <2>2, Zenon DEF NotifyCleanup, NoNotify, NotifierTidy
  <2> QED BY <2>1, <2>2, Zenon
<1>2. (Queued(p, k) => Queued(p, k)') /\ ~EntryRead(p, k)
  BY <1>1, Zenon DEF Queued, EntryRead
<1>3. (LookedUp(p, k) => LookedUp(p, k)') /\ (Announced(p, k) => Announced(p, k)')
  BY <1>1, Zenon DEF LookedUp, Announced
<1> QED BY <1>2, <1>3 DEF NotifyTends

\* NotifyNewBlocks: it removes no index entry of a recorded want, and excuses
\* the wants of the calls that it overlaps.
LEMMA NotifyServes == ASSUME ServeInv, Notify PROVE NoneForgotten'
<1>1. /\ UNCHANGED <<wanting, wantList, received, worker, blockstore, denied, ledgerMap>>
      /\ excused \subseteq excused'
  <2>1. UNCHANGED <<wanting, wantList, received, worker, blockstore, denied, ledgerMap>>
    BY Zenon DEF Notify, NotifyNewBlocks, NotifyPeers, NotifyEntry, NotifyPush, NotifyNext, NotifyCleanup,
                 ledgers, environment, ghosts
  <2>2. excused' = excused \/ \E s : excused' = excused \cup s
    BY Zenon DEF Notify, NotifyNewBlocks, NotifyPeers, NotifyEntry, NotifyPush, NotifyNext, NotifyCleanup, ghosts
  <2> QED BY <2>1, <2>2
<1>2. \/ peerLedger' = peerLedger
      \/ /\ peerLedger' = peerLedger \ Gone(notifier.missing)
         /\ excused' = excused \cup {x \in Gone(notifier.missing) : x[1] \in Receiving(x[2])}
  BY Zenon DEF Notify, NotifyNewBlocks, NotifyPeers, NotifyEntry, NotifyPush, NotifyNext, NotifyCleanup, ledgers
<1> SUFFICES ASSUME NEW p \in Peers, NEW k \in Cids, Owed(p, k)' PROVE Tended(p, k)'
  BY DEF NoneForgotten
<1>3. /\ wanting'[p][k] = wanting[p][k] /\ wantList'[p][k] = wantList[p][k] /\ received'[p] = received[p]
      /\ (p \in ledgerMap => p \in ledgerMap')
  BY <1>1
<1>4. Pursued(p, k) /\ (k \in blockstore => Underway(p, k))
  <2>1. Owed(p, k) /\ NoneForgotten
    BY <1>1 DEF Owed, ServeInv
  <2> QED BY <2>1 DEF NoneForgotten, Tended
<1>5. (Calling(p, k) => Calling(p, k)') /\ (Recorded(p, k) => Recorded(p, k)')
  <2>1. CASE <<p, k>> \in peerLedger => <<p, k>> \in peerLedger'
    BY <1>3, <2>1, PursuitKept, Zenon
  <2>2. CASE <<p, k>> \in peerLedger /\ <<p, k>> \notin peerLedger'
    <3>1. <<p, k>> \in Gone(notifier.missing) /\ (p \in Receiving(k) => <<p, k>> \in excused')
      BY <1>2, <2>2
    <3>2. ~Recorded(p, k)
      BY <3>1 DEF Gone, Recorded, Covers
    <3>3. ~Calling(p, k)
      BY <3>1, Zenon DEF Calling, Covers, Receiving, Owed
    <3> QED BY <3>2, <3>3
  <2> QED BY <2>1, <2>2
<1>6. \A w \in Workers : (Sending(w, p, k) => Sending(w, p, k)') /\ (Packed(w, p, k) => Packed(w, p, k)')
  <2>1. \A w \in Workers : SameWork(worker'[w], worker[w])
    BY <1>1 DEF SameWork
  <2> QED BY <1>3, <2>1, WorkKept, Zenon
<1>7. Pursued(p, k)'
  BY <1>4, <1>5, <1>6, Zenon DEF Pursued
<1>8. NotifyTends(p, k)
  <2>1. CASE NotifyNewBlocks \/ \E j \in Cids : NotifyPeers(j)
    <3>1. pending' = pending
      BY <2>1, Zenon DEF NotifyNewBlocks, NotifyPeers
    <3> QED BY <1>1, <1>5, <2>1, <3>1, NotifyKeysTends, Zenon
  <2>2. CASE (\E q \in Peers : NotifyEntry(q)) \/ NotifyPush
    <3>1. stored' = stored
      BY <2>2, Zenon DEF NotifyEntry, NotifyPush, environment
    <3> QED BY <1>1, <1>5, <2>2, <3>1, NotifyPeersTends, Zenon
  <2>3. CASE NotifyNext \/ NotifyCleanup
    <3>1. pending' = pending /\ stored' = stored
      BY <2>3, Zenon DEF NotifyNext, NotifyCleanup, environment
    <3> QED BY <1>1, <1>5, <2>3, <3>1, NotifyEndTends, Zenon
  <2> QED BY <2>1, <2>2, <2>3, Zenon DEF Notify
<1>9. k \in blockstore => Underway(p, k)'
  BY <1>4, <1>6, <1>8, Zenon DEF Underway, NotifyTends
<1> QED BY <1>1, <1>7, <1>9 DEF Tended

-----------------------------------------------------------------------------
\* What a step of a worker does with a want that is owed after it.
WorkTends(w, p, k) ==
  /\ wanting'[p][k] = wanting[p][k] /\ ~Sending(w, p, k)
  /\ Recorded(p, k) => Recorded(p, k)' \/ Sending(w, p, k)'
  /\ Queued(p, k) => Queued(p, k)' \/ Packed(w, p, k)'
  /\ k \in blockstore /\ Packed(w, p, k) => Packed(w, p, k)'

\* A popped task is packed.
LEMMA PopTends ==
  ASSUME ServeInv, NEW p \in Peers, NEW k \in Cids, NEW w \in Workers, NEW q \in Peers, PopTasks(w, q), Owed(p, k)'
  PROVE  WorkTends(w, p, k)
<1>0. worker \in [Workers -> Envelope] /\ wanting[p][k] \in WantTypes
  BY DEF ServeInv, IInv, Types, Wantlist
<1>1. /\ worker[w].pc = "wait" /\ UNCHANGED <<wanting, wantList, peerLedger, ledgerMap>>
      /\ wanting[p][k] # "none"
  BY Zenon DEF PopTasks, ledgers, ghosts, Owed
<1>2. PICK ts \in (SUBSET {t \in pending : t.peer = q}) \ {{}} :
        /\ pending' = pending \ ts
        /\ worker' = [worker EXCEPT ![w] = [NoEnvelope EXCEPT !.pc = "build", !.tasks = ts,
            !.todo = {t.cid : t \in {u \in ts : {"HaveBlock", "IsWantBlock"} \subseteq u.flags}},
            !.haves = {t.cid : t \in {u \in ts : "HaveBlock" \in u.flags /\ "IsWantBlock" \notin u.flags}},
            !.dontHaves = {t.cid : t \in {u \in ts : "HaveBlock" \notin u.flags}}]]
  BY Zenon DEF PopTasks
<1>3. PICK todo, haves, dontHaves :
        /\ todo = {t.cid : t \in {u \in ts : {"HaveBlock", "IsWantBlock"} \subseteq u.flags}}
        /\ haves = {t.cid : t \in {u \in ts : "HaveBlock" \in u.flags /\ "IsWantBlock" \notin u.flags}}
        /\ dontHaves = {t.cid : t \in {u \in ts : "HaveBlock" \notin u.flags}}
  BY Zenon
<1>4. worker' = [worker EXCEPT ![w] = [NoEnvelope EXCEPT !.pc = "build", !.tasks = ts,
                   !.todo = todo, !.haves = haves, !.dontHaves = dontHaves]]
  BY <1>2, <1>3, Zenon
<1>5. worker'[w].pc = "build" /\ worker'[w].tasks = ts /\ worker'[w].todo = todo /\ worker'[w].haves = haves
  BY <1>0, <1>4 DEF NoEnvelope
<1>6. PeerOf(w)' = q
  <2>1. worker'[w].tasks # {} /\ \A t \in worker'[w].tasks : t.peer = q
    <3>1. ts # {} /\ \A t \in ts : t.peer = q
      BY <1>2, Zenon
    <3> QED BY <1>5, <3>1, Zenon
  <2> QED BY <2>1, PeerOfTasks, Zenon
<1>7. ASSUME NEW t \in ts, Offers(t, p, k, wanting[p][k]) PROVE Packed(w, p, k)'
  <2>1. t.peer = q /\ t.peer = p /\ t.cid = k /\ "HaveBlock" \in t.flags
        /\ ("IsWantBlock" \in t.flags \/ wanting[p][k] = "have")
    BY <1>2, <1>7 DEF Offers
  <2>2. k \in todo \/ (k \in haves /\ wanting[p][k] = "have")
    <3>1. CASE "IsWantBlock" \in t.flags
      BY <1>3, <2>1, <3>1, Zenon
    <3>2. CASE "IsWantBlock" \notin t.flags
      BY <1>3, <2>1, <3>2, Zenon
    <3> QED BY <3>1, <3>2, Zenon
  <2> QED BY <1>1, <1>5, <1>6, <2>1, <2>2, Zenon DEF Packed, Answers
<1>8. Queued(p, k) => Queued(p, k)' \/ Packed(w, p, k)'
  BY <1>1, <1>2, <1>7 DEF Queued
<1>9. Recorded(p, k) => Recorded(p, k)'
  BY <1>1, Zenon DEF Recorded
<1>10. ~Sending(w, p, k) /\ ~Packed(w, p, k)
  BY <1>1, Zenon DEF Sending, Packed
<1> QED BY <1>1, <1>8, <1>9, <1>10, Zenon DEF WorkTends

\* An envelope after one block was looked up.
LEMMA BlockPacked ==
  ASSUME worker \in [Workers -> Envelope], NEW w \in Workers, NEW j \in Cids, GetBlock(w, j)
  PROVE  /\ worker'[w].pc = worker[w].pc /\ worker'[w].tasks = worker[w].tasks
         /\ worker'[w].haves = worker[w].haves /\ worker'[w].todo = worker[w].todo \ {j}
         /\ worker'[w].blocks = IF j \in blockstore THEN worker[w].blocks \cup {j} ELSE worker[w].blocks
         /\ \A v \in Workers \ {w} : worker'[v] = worker[v]
<1>1. PICK bs : bs = IF j \in blockstore THEN worker[w].blocks \cup {j} ELSE worker[w].blocks
  BY Zenon
<1>2. PICK ds : worker' = [worker EXCEPT ![w].todo = @ \ {j}, ![w].blocks = bs, ![w].dontHaves = ds]
  <2> DEFINE ds == IF j \notin blockstore /\ \E t \in worker[w].tasks : t.cid = j /\ "SendDontHave" \in t.flags
                     THEN worker[w].dontHaves \cup {j} ELSE worker[w].dontHaves
  <2>1. worker' = [worker EXCEPT ![w].todo = @ \ {j}, ![w].blocks = bs, ![w].dontHaves = ds]
    BY <1>1 DEF GetBlock
  <2> QED BY <2>1, Zenon
<1>3. /\ worker'[w].pc = worker[w].pc /\ worker'[w].tasks = worker[w].tasks
      /\ worker'[w].haves = worker[w].haves /\ worker'[w].todo = worker[w].todo \ {j}
      /\ worker'[w].blocks = bs /\ \A v \in Workers \ {w} : worker'[v] = worker[v]
  BY <1>2 DEF Envelope
<1> QED BY <1>1, <1>3, Zenon

\* A block that is there is packed, and an envelope that is built stays so.
LEMMA BuildTends ==
  ASSUME ServeInv, NEW p \in Peers, NEW k \in Cids, NEW w \in Workers,
         \/ \E j \in Cids : GetBlock(w, j)
         \/ EmptyEnvelope(w) \/ SentFind(w) \/ TasksDone(w)
  PROVE  WorkTends(w, p, k)
<1>0. worker \in [Workers -> Envelope] /\ worker[w] \in Envelope
  BY DEF ServeInv, IInv, Types
<1>1. UNCHANGED <<wanting, wantList, peerLedger, pending>> /\ ledgerMap \subseteq ledgerMap' /\ worker[w].pc # "send"
  <2>1. CASE \E j \in Cids : GetBlock(w, j)
    <3>1. UNCHANGED <<ledgers, pending, ghosts>> /\ worker[w].pc = "build"
      BY <2>1, Zenon DEF GetBlock
    <3> QED BY <3>1 DEF ledgers, ghosts
  <2>2. CASE EmptyEnvelope(w) \/ SentFind(w) \/ TasksDone(w)
    BY <2>2 DEF EmptyEnvelope, SentFind, TasksDone, Built, ledgers, ghosts
  <2> QED BY <2>1, <2>2
<1>2. Recorded(p, k) => Recorded(p, k)'
  BY <1>1 DEF Recorded
<1>3. (Queued(p, k) => Queued(p, k)') /\ ~Sending(w, p, k)
  BY <1>1, Zenon DEF Queued, Sending
<1>4. ASSUME k \in blockstore, Packed(w, p, k) PROVE Packed(w, p, k)'
  <2>1. ASSUME NEW j \in Cids, GetBlock(w, j) PROVE Packed(w, p, k)'
    <3>1. PeerOf(w)' = PeerOf(w)
      BY <1>0, <2>1, BlockPacked, PeerOfTasks, Zenon
    <3>2. /\ worker'[w].pc = worker[w].pc /\ worker'[w].haves = worker[w].haves
          /\ worker[w].blocks \subseteq worker'[w].blocks
          /\ k \in worker[w].todo => k \in worker'[w].todo \/ k \in worker'[w].blocks
      <4>1. /\ worker'[w].pc = worker[w].pc /\ worker'[w].haves = worker[w].haves
            /\ worker'[w].todo = worker[w].todo \ {j}
            /\ worker'[w].blocks = IF j \in blockstore THEN worker[w].blocks \cup {j} ELSE worker[w].blocks
        BY <1>0, <2>1, BlockPacked, Zenon
      <4> QED BY <1>4, <4>1, Zenon
    <3> QED BY <1>1, <1>4, <3>1, <3>2, Zenon DEF Packed, Answers
  <2>2. CASE EmptyEnvelope(w) \/ TasksDone(w)
    BY <1>4, <2>2, Zenon DEF EmptyEnvelope, TasksDone, Built, HasAnswer, Packed, Answers
  <2>3. CASE SentFind(w)
    <3>1. /\ worker'[w].pc = "sent" /\ worker'[w].tasks = worker[w].tasks /\ worker'[w].todo = worker[w].todo
          /\ worker'[w].blocks = worker[w].blocks /\ worker'[w].haves = worker[w].haves
      BY <1>0, <2>3 DEF SentFind, Envelope
    <3>2. PeerOf(w)' = PeerOf(w)
      BY <3>1, PeerOfTasks, Zenon
    <3> QED BY <1>1, <1>4, <3>1, <3>2, Zenon DEF Packed, Answers
  <2> QED BY <2>1, <2>2, <2>3
<1> QED BY <1>1, <1>2, <1>3, <1>4, Zenon DEF WorkTends

\* MessageSent removes a want from the ledger only when the envelope that is
\* about to be sent answers it.
LEMMA SentTends ==
  ASSUME ServeInv, NEW p \in Peers, NEW k \in Cids, NEW w \in Workers, MessageSent(w), Owed(p, k)'
  PROVE  WorkTends(w, p, k)
<1>0. /\ worker \in [Workers -> Envelope] /\ wanting[p][k] \in WantTypes
      /\ wantList \in [Peers -> Wantlist] /\ wantList[p][k] \in WantTypes
  BY DEF ServeInv, IInv, Types, Wantlist
<1>1. /\ worker[w].pc = "sent" /\ UNCHANGED <<wanting, peerLedger, ledgerMap, pending>> /\ wanting[p][k] # "none"
      /\ worker' = [worker EXCEPT ![w].pc = "send"]
      /\ \/ wantList' = wantList
         \/ wantList' = [wantList EXCEPT ![PeerOf(w)] = AfterSent(@, worker[w].blocks, worker[w].haves)]
  BY DEF MessageSent, ghosts, Owed
<1>2. /\ worker'[w].pc = "send" /\ worker'[w].tasks = worker[w].tasks /\ worker'[w].todo = worker[w].todo
      /\ worker'[w].blocks = worker[w].blocks /\ worker'[w].haves = worker[w].haves
  BY <1>0, <1>1 DEF Envelope
<1>3. PeerOf(w)' = PeerOf(w)
  BY <1>2, PeerOfTasks, Zenon
<1>4. ASSUME Recorded(p, k) PROVE Recorded(p, k)' \/ Sending(w, p, k)'
  <2>1. CASE wantList'[p][k] = wantList[p][k]
    BY <1>1, <1>4, <2>1 DEF Recorded
  <2>2. CASE wantList'[p][k] # wantList[p][k]
    <3>1. wantList' = [wantList EXCEPT ![PeerOf(w)] = AfterSent(@, worker[w].blocks, worker[w].haves)]
      BY <1>1, <2>2
    <3>2. PeerOf(w) = p
      BY <1>0, <2>2, <3>1, Zenon
    <3>3. wantList'[p][k] = AfterSent(wantList[p], worker[w].blocks, worker[w].haves)[k]
      BY <1>0, <3>1, <3>2, Zenon
    <3>4. k \in worker[w].blocks \/ (k \in worker[w].haves /\ wantList[p][k] = "have")
      BY <2>2, <3>3 DEF AfterSent
    <3>5. wantList[p][k] = "have" => wanting[p][k] = "have"
      BY <1>0, <1>1, <1>4 DEF Recorded, Covers, WantTypes
    <3>6. Answers(worker[w], k, wanting[p][k])'
      BY <1>1, <1>2, <3>4, <3>5 DEF Answers
    <3> QED BY <1>2, <1>3, <3>2, <3>6, Zenon DEF Sending
  <2> QED BY <2>1, <2>2, Zenon
<1>5. Packed(w, p, k) => Packed(w, p, k)'
  BY <1>1, <1>2, <1>3 DEF Packed, Answers
<1>6. (Queued(p, k) => Queued(p, k)') /\ ~Sending(w, p, k)
  BY <1>1 DEF Queued, Sending
<1> QED BY <1>1, <1>4, <1>5, <1>6 DEF WorkTends

\* A message that is delivered leaves no want that it answers, and one that is
\* lost excuses them.
LEMMA DeliverTends ==
  ASSUME ServeInv, NEW p \in Peers, NEW k \in Cids, NEW w \in Workers, SendMessage(w) \/ SendFails(w), Owed(p, k)'
  PROVE  WorkTends(w, p, k)
<1>0. /\ worker \in [Workers -> Envelope] /\ wanting \in [Peers -> Wantlist] /\ EnvelopeTidy(worker[w])
      /\ wanting'[p][k] # "none" /\ <<p, k>> \notin excused'
  BY Zenon DEF ServeInv, IInv, Types, Owed
<1>1. worker[w].pc = "send" /\ UNCHANGED <<wantList, peerLedger, ledgerMap, pending>> /\ worker[w].todo = {}
  BY <1>0 DEF SendMessage, SendFails, ledgers, EnvelopeTidy
<1>2. wanting'[p][k] = wanting[p][k] /\ ~(PeerOf(w) = p /\ Answers(worker[w], k, wanting[p][k]))
  <2>1. CASE SendMessage(w)
    <3>1. wanting' = [wanting EXCEPT ![PeerOf(w)] = StillWanting(@, worker[w].blocks, worker[w].haves)]
      BY <2>1 DEF SendMessage
    <3>2. CASE PeerOf(w) # p
      BY <1>0, <3>1, <3>2
    <3>3. CASE PeerOf(w) = p
      <4>1. wanting'[p][k] = StillWanting(wanting[p], worker[w].blocks, worker[w].haves)[k]
        BY <1>0, <3>1, <3>3
      <4>2. wanting'[p][k] = IF k \in worker[w].blocks \/ (k \in worker[w].haves /\ wanting[p][k] = "have")
                               THEN "none" ELSE wanting[p][k]
        BY <4>1, Zenon DEF StillWanting
      <4> QED BY <1>0, <4>2, Zenon DEF Answers
    <3> QED BY <3>2, <3>3, Zenon
  <2>2. CASE SendFails(w)
    <3>1. /\ wanting' = wanting
          /\ excused' = excused \cup ({PeerOf(w)} \X {t.cid : t \in worker[w].tasks})
      BY <2>2 DEF SendFails
    <3>2. Answers(worker[w], k, wanting[p][k]) => k \in {t.cid : t \in worker[w].tasks}
      BY <1>0, Zenon DEF EnvelopeTidy, Answers
    <3> QED BY <1>0, <3>1, <3>2, Zenon
  <2> QED BY <2>1, <2>2, Zenon
<1>3. ~Sending(w, p, k) /\ ~Packed(w, p, k)
  BY <1>1, <1>2, Zenon DEF Sending, Packed
<1>4. (Recorded(p, k) => Recorded(p, k)') /\ (Queued(p, k) => Queued(p, k)')
  BY <1>1, <1>2, Zenon DEF Recorded, Queued
<1> QED BY <1>2, <1>3, <1>4, Zenon DEF WorkTends

\* A task worker.
LEMMA WorkServes == ASSUME ServeInv, NEW w \in Workers, Work(w) PROVE NoneForgotten'
<1>1. /\ UNCHANGED <<received, notifier, blockstore, stored, denied, peerLedger>>
      /\ ledgerMap \subseteq ledgerMap' /\ excused \subseteq excused'
  <2>1. UNCHANGED <<received, notifier, environment, peerLedger>>
    BY Zenon DEF Work, PopTasks, GetBlock, EmptyEnvelope, SentFind, MessageSent, SendMessage, SendFails, TasksDone, ledgers
  <2>2. /\ ledgerMap' = ledgerMap \/ \E s : ledgerMap' = ledgerMap \cup s
        /\ excused' = excused \/ \E s : excused' = excused \cup s
    BY Zenon DEF Work, PopTasks, GetBlock, EmptyEnvelope, SentFind, MessageSent, SendMessage, SendFails, TasksDone,
                 ledgers, ghosts
  <2> QED BY <2>1, <2>2 DEF environment
<1>2. \A v \in Workers \ {w} : worker'[v] = worker[v]
  <2>1. worker \in [Workers -> Envelope]
    BY DEF ServeInv, IInv, Types
  <2>2. CASE \E j \in Cids : GetBlock(w, j)
    BY <2>1, <2>2, BlockPacked, Zenon
  <2>3. CASE \E e : worker' = [worker EXCEPT ![w] = e]
    BY <2>1, <2>3
  <2>4. CASE \E e : worker' = [worker EXCEPT ![w].pc = e]
    BY <2>1, <2>4
  <2>5. (\E j \in Cids : GetBlock(w, j)) \/ (\E e : worker' = [worker EXCEPT ![w] = e])
        \/ \E e : worker' = [worker EXCEPT ![w].pc = e]
    BY Zenon DEF Work, PopTasks, EmptyEnvelope, SentFind, MessageSent, SendMessage, SendFails, TasksDone
  <2> QED BY <2>2, <2>3, <2>4, <2>5, Zenon
<1> SUFFICES ASSUME NEW p \in Peers, NEW k \in Cids, Owed(p, k)' PROVE Tended(p, k)'
  BY DEF NoneForgotten
<1>3. WorkTends(w, p, k)
  BY PopTends, BuildTends, SentTends, DeliverTends, Zenon DEF Work
<1>4. wanting'[p][k] = wanting[p][k]
  BY <1>3, Zenon DEF WorkTends
<1>5. Pursued(p, k) /\ (k \in blockstore => Underway(p, k))
  <2>1. Owed(p, k) /\ NoneForgotten
    BY <1>1, <1>4, Zenon DEF Owed, ServeInv
  <2> QED BY <2>1 DEF NoneForgotten, Tended
<1>6. \A v \in Workers \ {w} : (Sending(v, p, k) => Sending(v, p, k)') /\ (Packed(v, p, k) => Packed(v, p, k)')
  <2>1. \A v \in Workers \ {w} : SameWork(worker'[v], worker[v])
    BY <1>2 DEF SameWork
  <2> QED BY <1>4, <2>1, WorkKept, Zenon
<1>7. Calling(p, k) => Calling(p, k)'
  BY <1>1, <1>4, Zenon DEF Calling
<1>8. Pursued(p, k)'
  BY <1>3, <1>5, <1>6, <1>7, Zenon DEF Pursued, WorkTends
<1>9. /\ LookedUp(p, k) => LookedUp(p, k)'
      /\ Announced(p, k) => Announced(p, k)' \/ Packed(w, p, k)'
      /\ EntryRead(p, k) => EntryRead(p, k)'
  <2>1. LookedUp(p, k) => LookedUp(p, k)'
    BY <1>1, <1>7, Zenon DEF LookedUp
  <2>2. Sending(w, p, k)' => Packed(w, p, k)'
    BY Zenon DEF Sending, Packed
  <2>3. Announced(p, k) => Announced(p, k)' \/ Packed(w, p, k)'
    BY <1>1, <1>3, <2>2, Zenon DEF Announced, WorkTends
  <2>4. EntryRead(p, k) => EntryRead(p, k)'
    BY <1>1, <1>4, Zenon DEF EntryRead
  <2> QED BY <2>1, <2>3, <2>4
<1>10. k \in blockstore => Underway(p, k)'
  BY <1>3, <1>5, <1>6, <1>9, Zenon DEF Underway, WorkTends
<1> QED BY <1>1, <1>8, <1>10 DEF Tended

-----------------------------------------------------------------------------
\* Calls: what the message of a call took back stays taken back.
LEMMA CallSeenKept == ASSUME ServeInv, [Next]_vars PROVE wanting' \in [Peers -> Wantlist] /\ \A p \in Peers : CallSeen(p)'
<1>0. wanting \in [Peers -> Wantlist] /\ received \in [Peers -> Call] /\ \A p \in Peers : CallSeen(p)
  BY DEF ServeInv, IInv, Types
<1>1. ASSUME NEW p \in Peers, received'[p].todo = received[p].todo, received'[p].pc = received[p].pc,
             received'[p].m = received[p].m, received'[p].orphan = received[p].orphan,
             \A k \in Cids : wanting'[p][k] = wanting[p][k] \/ wanting'[p][k] = "none"
      PROVE  CallSeen(p)'
  <2>1. CallSeen(p)
    BY <1>0, Zenon
  <2>2. received'[p].pc # "sizes" => received'[p].todo = {}
    BY <1>1, <2>1, Zenon DEF CallSeen
  <2>3. ASSUME received'[p].pc # "idle", NEW k \in Cids
        PROVE  /\ k \in received'[p].m.cancels => wanting'[p][k] = "none"
               /\ received'[p].m.full = "full" =>
                    wanting'[p][k] = "none" \/ Covers(received'[p].m.wants[k], wanting'[p][k])
               /\ received'[p].orphan = "yes" => wanting'[p][k] = "none"
    <3>1. /\ k \in received[p].m.cancels => wanting[p][k] = "none"
          /\ received[p].m.full = "full" =>
               wanting[p][k] = "none" \/ Covers(received[p].m.wants[k], wanting[p][k])
          /\ received[p].orphan = "yes" => wanting[p][k] = "none"
      BY <1>1, <2>1, <2>3, Zenon DEF CallSeen
    <3>2. wanting'[p][k] = wanting[p][k] \/ wanting'[p][k] = "none"
      BY <1>1, Zenon
    <3> QED BY <1>1, <3>1, <3>2, Zenon
  <2> QED BY <2>2, <2>3, Zenon DEF CallSeen
<1>2. ASSUME NEW q \in Peers, NEW m \in Messages, MessageReceived(q, m)
      PROVE  wanting' \in [Peers -> Wantlist] /\ \A p \in Peers : CallSeen(p)'
  <2> DEFINE want == [k \in Cids |->
               IF m.wants[k] = "block" \/ (m.wants[k] = "have" /\ (wanting[q][k] = "none" \/ m.full = "full")) THEN m.wants[k]
               ELSE IF k \in m.cancels \/ m.full = "full" THEN "none" ELSE wanting[q][k]]
  <2>1. wanting' = [wanting EXCEPT ![q] = want] /\ \A p \in Peers \ {q} : received'[p] = received[p]
    BY <1>0, <1>2 DEF MessageReceived
  <2>2. want \in Wantlist
    <3>1. m.wants \in Wantlist /\ wanting[q] \in Wantlist
      BY <1>0, MessagesAssumption DEF Message
    <3> QED BY <3>1 DEF Wantlist, WantTypes
  <2> HIDE DEF want
  <2>3. wanting' \in [Peers -> Wantlist] /\ \A p \in Peers \ {q} : wanting'[p] = wanting[p]
    BY <1>0, <2>1, <2>2
  <2>4. received'[q].pc = "sizes" /\ received'[q].m = m /\ received'[q].orphan = "no"
    BY <1>0, <1>2 DEF MessageReceived, NoCall
  <2>5. \A k \in Cids : /\ k \in m.cancels => wanting'[q][k] = "none"
                        /\ m.full = "full" => wanting'[q][k] = m.wants[k]
    BY <1>2, MessageWants, Zenon
  <2>6. CallSeen(q)'
    BY <2>4, <2>5, Zenon DEF CallSeen, Covers
  <2>7. \A p \in Peers \ {q} : CallSeen(p)'
    BY <1>1, <2>1, <2>3, Zenon
  <2> QED BY <2>3, <2>6, <2>7
<1>3. ASSUME NEW q \in Peers, PeerDisconnected(q)
      PROVE  wanting' \in [Peers -> Wantlist] /\ \A p \in Peers : CallSeen(p)'
  <2>1. Empty \in Wantlist /\ \A k \in Cids : Empty[k] = "none"
    BY DEF Empty, Wantlist, WantTypes
  <2>2. wanting' = [wanting EXCEPT ![q] = Empty] /\ \A p \in Peers \ {q} : received'[p] = received[p]
    BY <1>0, <1>3 DEF PeerDisconnected
  <2>3. /\ wanting' \in [Peers -> Wantlist] /\ \A k \in Cids : wanting'[q][k] = "none"
        /\ \A p \in Peers \ {q} : wanting'[p] = wanting[p]
    BY <1>0, <2>1, <2>2
  <2>4. received'[q].pc = received[q].pc /\ received'[q].todo = received[q].todo
    BY <1>0, <1>3 DEF PeerDisconnected, Call
  <2>5. CallSeen(q)'
    BY <1>0, <2>3, <2>4, Zenon DEF CallSeen
  <2>6. \A p \in Peers \ {q} : CallSeen(p)'
    BY <1>1, <2>2, <2>3, Zenon
  <2> QED BY <2>3, <2>5, <2>6, Zenon
<1>4. ASSUME NEW w \in Workers, SendMessage(w)
      PROVE  wanting' \in [Peers -> Wantlist] /\ \A p \in Peers : CallSeen(p)'
  <2>1. /\ wanting' = [wanting EXCEPT ![PeerOf(w)] = StillWanting(@, worker[w].blocks, worker[w].haves)]
        /\ received' = received
    BY <1>4 DEF SendMessage
  <2>2. ASSUME NEW p \in Peers
        PROVE  /\ StillWanting(wanting[p], worker[w].blocks, worker[w].haves) \in Wantlist
               /\ \A k \in Cids : wanting'[p][k] = wanting[p][k] \/ wanting'[p][k] = "none"
    <3>1. wanting[p] \in Wantlist
      BY <1>0
    <3>2. /\ StillWanting(wanting[p], worker[w].blocks, worker[w].haves) \in Wantlist
          /\ \A k \in Cids : \/ StillWanting(wanting[p], worker[w].blocks, worker[w].haves)[k] = wanting[p][k]
                             \/ StillWanting(wanting[p], worker[w].blocks, worker[w].haves)[k] = "none"
      BY <3>1, Zenon DEF StillWanting, Wantlist, WantTypes
    <3>3. \/ wanting'[p] = wanting[p]
          \/ wanting'[p] = StillWanting(wanting[p], worker[w].blocks, worker[w].haves)
      BY <1>0, <2>1
    <3> QED BY <3>2, <3>3, Zenon
  <2>3. wanting' \in [Peers -> Wantlist]
    <3>1. PICK q, f : q = PeerOf(w) /\ f = StillWanting(wanting[q], worker[w].blocks, worker[w].haves)
      BY Zenon
    <3>2. wanting' = [wanting EXCEPT ![q] = f] /\ (q \in Peers => f \in Wantlist)
      BY <2>1, <2>2, <3>1
    <3>3. CASE q \in Peers
      BY <1>0, <3>2, <3>3
    <3>4. CASE q \notin Peers
      <4>1. wanting' = wanting
        BY <1>0, <3>2, <3>4
      <4> QED BY <1>0, <4>1
    <3> QED BY <3>3, <3>4
  <2> QED BY <1>1, <2>1, <2>2, <2>3, Zenon
<1>5. ASSUME wanting' = wanting, NEW q \in Peers, \A p \in Peers \ {q} : received'[p] = received[p], CallSeen(q)'
      PROVE  wanting' \in [Peers -> Wantlist] /\ \A p \in Peers : CallSeen(p)'
  BY <1>0, <1>1, <1>5
<1>6. ASSUME NEW q \in Peers, Receive(q)
      PROVE  wanting' \in [Peers -> Wantlist] /\ \A p \in Peers : CallSeen(p)'
  <2>1. wanting' = wanting
    BY <1>6, Zenon DEF Receive, GetSize, ReceivedIndex, ReceivedFind, ReceivedLedger, ghosts
  <2>2. ASSUME NEW j \in Cids, GetSize(q, j) PROVE CallSeen(q)' /\ \A p \in Peers \ {q} : received'[p] = received[p]
    <3>1. /\ received'[q].pc = received[q].pc /\ received'[q].m = received[q].m
          /\ received'[q].orphan = received[q].orphan /\ \A p \in Peers \ {q} : received'[p] = received[p]
      BY <1>0, <2>2, SizeFound, Zenon
    <3>2. received[q].pc = "sizes" /\ CallSeen(q)
      BY <1>0, <2>2, Zenon DEF GetSize
    <3> QED BY <2>1, <3>1, <3>2, Zenon DEF CallSeen
  <2>3. CASE ReceivedIndex(q) \/ ReceivedFind(q)
    <3>1. /\ received[q].pc \in {"sizes", "index"} /\ received[q].todo = {}
          /\ received'[q].m = received[q].m /\ received'[q].orphan = received[q].orphan
          /\ received'[q].todo = received[q].todo /\ \A p \in Peers \ {q} : received'[p] = received[p]
      BY <1>0, <2>3 DEF ReceivedIndex, ReceivedFind, Call, CallSeen
    <3>2. CallSeen(q)'
      <4>1. CallSeen(q)
        BY <1>0, Zenon
      <4>2. received'[q].todo = {}
        BY <3>1, Zenon
      <4>3. received[q].pc # "idle"
        BY <3>1, Zenon
      <4>4. ASSUME NEW k \in Cids
            PROVE  /\ k \in received'[q].m.cancels => wanting'[q][k] = "none"
                   /\ received'[q].m.full = "full" =>
                        wanting'[q][k] = "none" \/ Covers(received'[q].m.wants[k], wanting'[q][k])
                   /\ received'[q].orphan = "yes" => wanting'[q][k] = "none"
        <5>1. /\ k \in received[q].m.cancels => wanting[q][k] = "none"
              /\ received[q].m.full = "full" =>
                   wanting[q][k] = "none" \/ Covers(received[q].m.wants[k], wanting[q][k])
              /\ received[q].orphan = "yes" => wanting[q][k] = "none"
          BY <4>1, <4>3, Zenon DEF CallSeen
        <5> QED BY <2>1, <3>1, <5>1, Zenon
      <4> QED BY <4>2, <4>4, Zenon DEF CallSeen
    <3> QED BY <1>5, <2>1, <3>1, <3>2, Zenon
  <2>4. CASE ReceivedLedger(q)
    <3>1. received' = [received EXCEPT ![q] = NoCall]
      BY <2>4, Zenon DEF ReceivedLedger
    <3>2. received'[q].pc = "idle" /\ received'[q].todo = {} /\ \A p \in Peers \ {q} : received'[p] = received[p]
      BY <1>0, <3>1, Zenon DEF NoCall
    <3>3. CallSeen(q)'
      BY <3>2, Zenon DEF CallSeen
    <3> QED BY <1>5, <2>1, <3>2, <3>3, Zenon
  <2> QED BY <1>5, <1>6, <2>1, <2>2, <2>3, <2>4, Zenon DEF Receive
<1>7. CASE wanting' = wanting /\ received' = received
  <2>1. \A p \in Peers : /\ received'[p].todo = received[p].todo /\ received'[p].pc = received[p].pc
                         /\ received'[p].m = received[p].m /\ received'[p].orphan = received[p].orphan
                         /\ \A k \in Cids : wanting'[p][k] = wanting[p][k]
    BY <1>7
  <2>2. wanting' \in [Peers -> Wantlist]
    BY <1>0, <1>7, Zenon
  <2> QED BY <1>1, <2>1, <2>2, Zenon
<1>8. \/ \E q \in Peers : Receive(q) \/ PeerDisconnected(q) \/ \E m \in Messages : MessageReceived(q, m)
      \/ \E w \in Workers : SendMessage(w)
      \/ wanting' = wanting /\ received' = received
  <2>1. Notify => wanting' = wanting /\ received' = received
    BY Zenon DEF Notify, NotifyNewBlocks, NotifyPeers, NotifyEntry, NotifyPush, NotifyNext, NotifyCleanup, ghosts
  <2>2. ASSUME NEW w \in Workers, Work(w) PROVE SendMessage(w) \/ (wanting' = wanting /\ received' = received)
    BY <2>2, Zenon DEF Work, PopTasks, GetBlock, EmptyEnvelope, SentFind, MessageSent, SendFails, TasksDone, ghosts
  <2>3. ASSUME NEW q \in Peers, PeerConnected(q) PROVE wanting' = wanting /\ received' = received
    BY <2>3, Zenon DEF PeerConnected, ghosts
  <2>4. ASSUME NEW j \in Cids, PutBlock(j) \/ DeleteBlock(j) PROVE wanting' = wanting /\ received' = received
    BY <2>4, Zenon DEF PutBlock, DeleteBlock, ghosts
  <2>5. UNCHANGED vars => wanting' = wanting /\ received' = received
    BY Zenon DEF vars, ghosts
  <2> QED BY <2>1, <2>2, <2>3, <2>4, <2>5, Zenon DEF Next, Environment
<1> QED BY <1>2, <1>3, <1>4, <1>6, <1>7, <1>8, Zenon

\* NotifyNewBlocks has a key only while it goes through its peers.
LEMMA NotifierTidyKept == ASSUME ServeInv, [Next]_vars PROVE NotifierTidy'
<1>0. NotifierTidy /\ notifier \in Notification
  BY DEF ServeInv, IInv, Types
<1>1. CASE NotifyNewBlocks
  BY <1>1 DEF NotifyNewBlocks, NoNotify, NotifierTidy
<1>2. ASSUME NEW j \in Cids, NotifyPeers(j) PROVE NotifierTidy'
  <2>1. PICK ps : notifier' = [notifier EXCEPT !.pc = "peers", !.keys = @ \ {j}, !.cids = {j}, !.peers = ps]
    BY <1>2, Zenon DEF NotifyPeers
  <2> QED BY <1>0, <2>1 DEF Notification, NotifierTidy
<1>3. ASSUME NEW q \in Peers, NotifyEntry(q) PROVE NotifierTidy'
  <2>1. /\ notifier.pc = "peers"
        /\ \/ \E e : notifier' = [notifier EXCEPT !.pc = "push", !.peers = @ \ {q}, !.entry = e]
           \/ \E s : notifier' = [notifier EXCEPT !.peers = @ \ {q}, !.missing = s]
    <3>1. PICK k \in notifier.cids :
            notifier' = IF q \in ledgerMap /\ wantList[q][k] # "none"
                          THEN [notifier EXCEPT !.pc = "push", !.peers = @ \ {q}, !.entry = {<<q, wantList[q][k]>>}]
                          ELSE [notifier EXCEPT !.peers = @ \ {q}, !.missing = @ \cup {<<q, k>>}]
      BY <1>3, Zenon DEF NotifyEntry
    <3>2. notifier.pc = "peers"
      BY <1>3, Zenon DEF NotifyEntry
    <3> QED BY <3>1, <3>2, Zenon
  <2>2. notifier'.pc \in {"peers", "push"}
    <3>1. ASSUME NEW e, notifier' = [notifier EXCEPT !.pc = "push", !.peers = @ \ {q}, !.entry = e]
          PROVE  notifier'.pc = "push"
      BY <1>0, <3>1 DEF Notification
    <3>2. ASSUME NEW s, notifier' = [notifier EXCEPT !.peers = @ \ {q}, !.missing = s]
          PROVE  notifier'.pc = notifier.pc
      BY <1>0, <3>2 DEF Notification
    <3> QED BY <2>1, <3>1, <3>2, Zenon
  <2> QED BY <2>2 DEF NotifierTidy
<1>4. CASE NotifyPush
  <2>1. notifier' = [notifier EXCEPT !.pc = "peers", !.entry = {}]
    BY <1>4, Zenon DEF NotifyPush
  <2> QED BY <1>0, <2>1 DEF Notification, NotifierTidy
<1>5. CASE NotifyNext
  BY <1>0, <1>5 DEF NotifyNext, Notification, NotifierTidy
<1>6. CASE NotifyCleanup
  BY <1>6, Zenon DEF NotifyCleanup, NoNotify, NotifierTidy
<1>7. CASE notifier' = notifier
  BY <1>0, <1>7 DEF NotifierTidy
<1>8. Notify \/ notifier' = notifier
  <2>1. ASSUME NEW q \in Peers, Receive(q) PROVE notifier' = notifier
    BY <2>1, Zenon DEF Receive, GetSize, ReceivedIndex, ReceivedFind, ReceivedLedger
  <2>2. ASSUME NEW w \in Workers, Work(w) PROVE notifier' = notifier
    BY <2>2, Zenon
    DEF Work, PopTasks, GetBlock, EmptyEnvelope, SentFind, MessageSent, SendMessage, SendFails, TasksDone
  <2>3. Environment => notifier' = notifier
    BY Zenon DEF Environment, PeerConnected, PeerDisconnected, PutBlock, DeleteBlock, MessageReceived
  <2>4. UNCHANGED vars => notifier' = notifier
    BY Zenon DEF vars
  <2> QED BY <2>1, <2>2, <2>3, <2>4, Zenon DEF Next
<1> QED BY <1>1, <1>2, <1>3, <1>4, <1>5, <1>6, <1>7, <1>8, Zenon DEF Notify

\* An envelope holds answers to its tasks only.
LEMMA EnvelopeTidyKept == ASSUME ServeInv, [Next]_vars PROVE \A w \in Workers : EnvelopeTidy(worker[w])'
<1>0. worker \in [Workers -> Envelope] /\ \A w \in Workers : EnvelopeTidy(worker[w])
  BY DEF ServeInv, IInv, Types
<1>1. ASSUME NEW w \in Workers, SameWork(worker'[w], worker[w]) PROVE EnvelopeTidy(worker[w])'
  BY <1>0, <1>1, Zenon DEF SameWork, EnvelopeTidy
<1>2. ASSUME NEW w \in Workers, EnvelopeTidy(worker[w])', \A v \in Workers \ {w} : worker'[v] = worker[v]
      PROVE  \A v \in Workers : EnvelopeTidy(worker[v])'
  BY <1>1, <1>2, Zenon DEF SameWork
<1>3. ASSUME NEW w \in Workers, NEW q \in Peers, PopTasks(w, q) PROVE \A v \in Workers : EnvelopeTidy(worker[v])'
  <2>1. PICK ts \in (SUBSET {t \in pending : t.peer = q}) \ {{}} :
          worker' = [worker EXCEPT ![w] = [NoEnvelope EXCEPT !.pc = "build", !.tasks = ts,
            !.todo = {t.cid : t \in {u \in ts : {"HaveBlock", "IsWantBlock"} \subseteq u.flags}},
            !.haves = {t.cid : t \in {u \in ts : "HaveBlock" \in u.flags /\ "IsWantBlock" \notin u.flags}},
            !.dontHaves = {t.cid : t \in {u \in ts : "HaveBlock" \notin u.flags}}]]
    BY <1>3, Zenon DEF PopTasks
  <2>2. PICK todo, haves, dontHaves :
          /\ todo = {t.cid : t \in {u \in ts : {"HaveBlock", "IsWantBlock"} \subseteq u.flags}}
          /\ haves = {t.cid : t \in {u \in ts : "HaveBlock" \in u.flags /\ "IsWantBlock" \notin u.flags}}
          /\ dontHaves = {t.cid : t \in {u \in ts : "HaveBlock" \notin u.flags}}
    BY Zenon
  <2>3. worker' = [worker EXCEPT ![w] = [NoEnvelope EXCEPT !.pc = "build", !.tasks = ts,
                     !.todo = todo, !.haves = haves, !.dontHaves = dontHaves]]
    BY <2>1, <2>2, Zenon
  <2>4. /\ worker'[w].pc = "build" /\ worker'[w].tasks = ts /\ worker'[w].todo = todo /\ worker'[w].haves = haves
        /\ worker'[w].blocks = {} /\ \A v \in Workers \ {w} : worker'[v] = worker[v]
    BY <1>0, <2>3 DEF NoEnvelope
  <2>5. todo \cup haves \subseteq {t.cid : t \in ts}
    BY <2>2
  <2>6. EnvelopeTidy(worker[w])'
    BY <2>4, <2>5, Zenon DEF EnvelopeTidy
  <2> QED BY <1>2, <2>4, <2>6, Zenon
<1>4. ASSUME NEW w \in Workers, NEW j \in Cids, GetBlock(w, j) PROVE \A v \in Workers : EnvelopeTidy(worker[v])'
  <2>1. /\ worker'[w].pc = worker[w].pc /\ worker'[w].tasks = worker[w].tasks
        /\ worker'[w].haves = worker[w].haves /\ worker'[w].todo = worker[w].todo \ {j}
        /\ worker'[w].blocks = IF j \in blockstore THEN worker[w].blocks \cup {j} ELSE worker[w].blocks
        /\ \A v \in Workers \ {w} : worker'[v] = worker[v]
    BY <1>0, <1>4, BlockPacked, Zenon
  <2>2. j \in worker[w].todo /\ EnvelopeTidy(worker[w])
    BY <1>0, <1>4, Zenon DEF GetBlock
  <2>3. EnvelopeTidy(worker[w])'
    BY <2>1, <2>2, Zenon DEF EnvelopeTidy
  <2> QED BY <1>2, <2>1, <2>3, Zenon
<1>5. ASSUME NEW w \in Workers, EmptyEnvelope(w) \/ TasksDone(w) PROVE \A v \in Workers : EnvelopeTidy(worker[v])'
  <2>1. worker' = [worker EXCEPT ![w] = NoEnvelope]
    BY <1>5, Zenon DEF EmptyEnvelope, TasksDone
  <2>2. worker'[w] = NoEnvelope /\ \A v \in Workers \ {w} : worker'[v] = worker[v]
    BY <1>0, <2>1
  <2>3. EnvelopeTidy(worker[w])'
    <3>1. /\ NoEnvelope.todo = {} /\ NoEnvelope.blocks = {} /\ NoEnvelope.haves = {}
      BY Zenon DEF NoEnvelope
    <3> QED BY <2>2, <3>1, Zenon DEF EnvelopeTidy
  <2> QED BY <1>2, <2>2, <2>3
<1>6. ASSUME NEW w \in Workers, SentFind(w) \/ MessageSent(w) \/ SendMessage(w) \/ SendFails(w)
      PROVE  \A v \in Workers : EnvelopeTidy(worker[v])'
  <2>1. PICK pc : worker' = [worker EXCEPT ![w].pc = pc]
    BY <1>6, Zenon DEF SentFind, MessageSent, SendMessage, SendFails
  <2>2. /\ worker'[w].tasks = worker[w].tasks /\ worker'[w].todo = worker[w].todo
        /\ worker'[w].blocks = worker[w].blocks /\ worker'[w].haves = worker[w].haves
        /\ \A v \in Workers \ {w} : worker'[v] = worker[v]
    BY <1>0, <2>1 DEF Envelope
  <2>3. worker[w].todo = {}
    BY <1>0, <1>6 DEF SentFind, MessageSent, SendMessage, SendFails, Built, EnvelopeTidy
  <2>4. EnvelopeTidy(worker[w])'
    BY <1>0, <2>2, <2>3, Zenon DEF EnvelopeTidy
  <2> QED BY <1>2, <2>2, <2>4, Zenon
<1>7. ASSUME NEW q \in Peers, PeerDisconnected(q) PROVE \A v \in Workers : EnvelopeTidy(worker[v])'
  <2>1. \A v \in Workers : SameWork(worker'[v], worker[v])
    BY <1>0, <1>7 DEF PeerDisconnected, SameWork, Envelope
  <2> QED BY <1>1, <2>1, Zenon
<1>8. CASE worker' = worker
  BY <1>0, <1>8 DEF EnvelopeTidy
<1>9. (\E w \in Workers : Work(w)) \/ (\E q \in Peers : PeerDisconnected(q)) \/ worker' = worker
  BY Zenon DEF Next, Environment, Receive, Notify, PeerConnected, PutBlock, DeleteBlock, MessageReceived,
               GetSize, ReceivedIndex, ReceivedFind, ReceivedLedger, NotifyNewBlocks, NotifyPeers,
               NotifyEntry, NotifyPush, NotifyNext, NotifyCleanup, vars
<1> QED BY <1>3, <1>4, <1>5, <1>6, <1>7, <1>8, <1>9, Zenon DEF Work

-----------------------------------------------------------------------------
\* The invariant of the wants holds throughout.
LEMMA AlwaysServeInv == Spec => []ServeInv
<1>1. Init => ServeInv
  <2> SUFFICES ASSUME Init PROVE ServeInv
    OBVIOUS
  <2>1. IInv
    BY InitIInv
  <2>2. Empty \in Wantlist /\ \A k \in Cids : Empty[k] = "none"
    BY DEF Empty, Wantlist, WantTypes
  <2>3. wanting \in [Peers -> Wantlist] /\ NoneForgotten
    BY <2>2 DEF Init, NoneForgotten, Owed
  <2>4. NotifierTidy /\ \A w \in Workers : EnvelopeTidy(worker[w])
    BY Zenon DEF Init, NoNotify, NoEnvelope, NotifierTidy, EnvelopeTidy
  <2>5. \A p \in Peers : CallSeen(p)
    BY Zenon DEF Init, NoCall, CallSeen
  <2> QED BY <2>1, <2>3, <2>4, <2>5 DEF ServeInv
<1>2. ServeInv /\ [Next]_vars => ServeInv'
  <2> SUFFICES ASSUME ServeInv, [Next]_vars PROVE ServeInv'
    OBVIOUS
  <2>1. IInv'
    BY NextIInv DEF ServeInv
  <2>2. NoneForgotten'
    BY EnvironmentServes, DisconnectedServes, MessageServes, CallServes, LedgerServes, NotifyServes, WorkServes, Zenon
       DEF Next, Receive, Environment
  <2> QED BY <2>1, <2>2, CallSeenKept, NotifierTidyKept, EnvelopeTidyKept, Zenon DEF ServeInv
<1> QED BY <1>1, <1>2, PTL DEF Spec

\* Once no call is in progress and no task waits, every want of a stored block
\* has been answered, except those that met one of the three races.
THEOREM WantsAreServed == Spec => []WantsServed
<1>1. ServeInv => WantsServed
  <2> SUFFICES ASSUME ServeInv, Settled, NEW x \in Unserved, x \notin excused PROVE FALSE
    BY Zenon DEF WantsServed
  <2>1. PICK p \in Peers, k \in Cids :
          x = <<p, k>> /\ k \in blockstore /\ wanting[p][k] # "none" /\ <<p, k>> \notin denied
    BY DEF Unserved
  <2>2. Owed(p, k) /\ NoneForgotten /\ NotifierTidy
    BY <2>1 DEF Owed, ServeInv
  <2>3. Underway(p, k)
    BY <2>1, <2>2, Zenon DEF NoneForgotten, Tended
  <2>4. /\ received[p].pc = "idle" /\ notifier.pc = "idle" /\ stored = {} /\ pending = {}
        /\ notifier.keys = {} /\ notifier.cids = {} /\ \A w \in Workers : worker[w].pc = "wait"
    BY <2>2 DEF Settled, NotifierTidy
  <2>5. ~LookedUp(p, k) /\ ~Announced(p, k) /\ ~EntryRead(p, k) /\ ~Queued(p, k)
    BY <2>4, Zenon DEF LookedUp, Calling, Announced, EntryRead, Queued
  <2>6. \A w \in Workers : ~Packed(w, p, k)
    BY <2>4, Zenon DEF Packed
  <2> QED BY <2>3, <2>5, <2>6, Zenon DEF Underway
<1> QED BY <1>1, AlwaysServeInv, PTL
=============================================================================
