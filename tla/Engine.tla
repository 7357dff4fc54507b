------------------------------- MODULE Engine -------------------------------
(***************************************************************************)
(* server/internal/decision/engine.go: answers the wants of other peers.   *)
(* MessageReceived records wants and queues tasks, NotifyNewBlocks queues  *)
(* tasks for the peers waiting for a block that has just been stored, and  *)
(* task workers turn tasks into messages that server/server.go sends.      *)
(* An action is one critical section (e.lock, a ledger's lk, the request   *)
(* queue's lock) or one blockstore call.                                   *)
(***************************************************************************)
EXTENDS Naturals, FiniteSets

CONSTANTS
  Peers, Cids,
  Large,      \* keys of blocks above maxBlockSizeReplaceHasWithBlock
  Messages,   \* the wantlists peers send
  Workers     \* server task workers, each with the engine worker that serves it

WantTypes == {"none", "have", "block"}
Flags == {"HaveBlock", "IsWantBlock", "SendDontHave"}
Task == [peer : Peers, cid : Cids, flags : SUBSET Flags]
Wantlist == [Cids -> WantTypes]

\* A wantlist message: every key at most once, as a want or as a cancel.
Message == [full : {"full", "delta"}, wants : Wantlist, cancels : SUBSET Cids, dontHave : SUBSET Cids]

ASSUME LargeAssumption == Large \subseteq Cids
ASSUME MessagesAssumption ==
  /\ Messages \subseteq Message
  /\ \A m \in Messages : \A k \in m.cancels : m.wants[k] = "none"

VARIABLES
  ledgerMap,    \* peers that have a ledger
  wantList,     \* ledger.wantList; empty for a peer without a ledger
  peerLedger,   \* the index: pairs <<peer, key>>
  pending,      \* peerRequestQueue: tasks waiting
  received,     \* per peer: the MessageReceived call in progress
  notifier,     \* the NotifyNewBlocks call in progress
  worker,       \* per worker: the envelope in progress
  blockstore,   \* keys of the stored blocks
  denied,       \* <<peer, key>> pairs that peerBlockRequestFilter rejects, once and for all
  stored,       \* blocks stored for which NotifyNewBlocks has yet to be called
  wanting,      \* what each peer waits for, as the peer sees it
  asked,        \* pairs <<peer, key>> for which the peer has asked for DONT_HAVEs
  excused       \* wants that met one of the races listed at WantsServed

ledgers == <<ledgerMap, wantList, peerLedger>>
environment == <<blockstore, stored, denied>>
ghosts == <<wanting, asked, excused>>
vars == <<ledgers, pending, received, notifier, worker, environment, ghosts>>

Empty == [k \in Cids |-> "none"]
Nothing == [full |-> "delta", wants |-> Empty, cancels |-> {}, dontHave |-> {}]
NoCall == [pc |-> "idle", m |-> Nothing, todo |-> {}, found |-> {}, orphan |-> "no", list |-> Empty]
NoEnvelope == [pc |-> "wait", tasks |-> {}, todo |-> {}, blocks |-> {}, haves |-> {}, dontHaves |-> {}, orphan |-> "no"]
NoNotify == [pc |-> "idle", keys |-> {}, cids |-> {}, peers |-> {}, entry |-> {}, missing |-> {}]

Init ==
  /\ ledgerMap = {}
  /\ wantList = [p \in Peers |-> Empty]
  /\ peerLedger = {}
  /\ pending = {}
  /\ received = [p \in Peers |-> NoCall]
  /\ notifier = NoNotify
  /\ worker = [w \in Workers |-> NoEnvelope]
  /\ blockstore \in SUBSET Cids
  /\ stored = {}
  /\ denied \in SUBSET (Peers \X Cids)
  /\ wanting = [p \in Peers |-> Empty]
  /\ asked = {}
  /\ excused = {}

----------------------------------------------------------------------------
(* The request queue: go-peertaskqueue with the engine's task merger *)

SameTopic(s, t) == s.peer = t.peer /\ s.cid = t.cid

\* Tasks popped and not yet done.
Active == UNION {worker[w].tasks : w \in Workers}

HasNewInfo(task, existing) ==
  \/ "IsWantBlock" \in task.flags /\ \A t \in existing : "IsWantBlock" \notin t.flags
  \/ "HaveBlock" \in task.flags /\ \A t \in existing : "HaveBlock" \notin t.flags

\* The merged task keeps the SendDontHave of the task that was there.
Merge(task, existing) ==
  [existing EXCEPT !.flags = @ \cup (task.flags \cap {"HaveBlock", "IsWantBlock"})]

\* A task that tells nothing new beyond one already popped is dropped.
Redundant(t) ==
  LET same == {a \in Active : SameTopic(a, t)} IN same # {} /\ ~HasNewInfo(t, same)

\* tasks: at most one per topic.
PushTasks(queue, tasks) ==
  LET new == {t \in tasks : ~Redundant(t)}
      Updates(e) == {t \in new : SameTopic(t, e)}
  IN  {e \in queue : Updates(e) = {}}
        \cup {Merge(x[2], x[1]) : x \in {y \in queue \X new : SameTopic(y[1], y[2])}}
        \cup {t \in new : \A e \in queue : ~SameTopic(t, e)}

----------------------------------------------------------------------------
(* MessageReceived *)

\* Keys wanted by m, split by the filter.
Wants(p, m) == {k \in Cids : m.wants[k] # "none" /\ <<p, k>> \notin denied}
Denials(p, m) == {k \in Cids : m.wants[k] # "none" /\ <<p, k>> \in denied}

\* The call starts: entries are split, and the size of each wanted block is
\* to be looked up.
MessageReceived(p, m) ==
  /\ received[p].pc = "idle"
  /\ received' = [received EXCEPT ![p] = [NoCall EXCEPT !.pc = "sizes", !.m = m, !.todo = Wants(p, m)]]
  /\ wanting' = [wanting EXCEPT ![p] = [k \in Cids |->
       IF m.wants[k] = "block" \/ (m.wants[k] = "have" /\ (@[k] = "none" \/ m.full = "full")) THEN m.wants[k]
       ELSE IF k \in m.cancels \/ m.full = "full" THEN "none" ELSE @[k]]]
  /\ asked' = asked \cup ({p} \X {k \in m.dontHave : m.wants[k] # "none"})
  /\ excused' = excused \ ({p} \X {k \in Cids : wanting'[p][k] # wanting[p][k]})
  /\ UNCHANGED <<ledgers, pending, notifier, worker, environment>>

\* getBlockSizes, one job per key.
GetSize(p, k) ==
  /\ received[p].pc = "sizes" /\ k \in received[p].todo
  /\ received' = [received EXCEPT ![p].todo = @ \ {k},
                                  ![p].found = IF k \in blockstore THEN @ \cup {k} ELSE @]
  /\ UNCHANGED <<ledgers, pending, notifier, worker, environment, ghosts>>

\* e.lock: the index.
ReceivedIndex(p) ==
  /\ received[p].pc = "sizes" /\ received[p].todo = {}
  /\ LET m == received[p].m
     IN  peerLedger' = (peerLedger \cup ({p} \X Wants(p, m))) \ ({p} \X m.cancels)
  /\ received' = [received EXCEPT ![p].pc = "index"]
  /\ UNCHANGED <<ledgerMap, wantList, pending, notifier, worker, environment, ghosts>>

\* e.lock: findOrCreate.
ReceivedFind(p) ==
  /\ received[p].pc = "index"
  /\ ledgerMap' = ledgerMap \cup {p}
  /\ received' = [received EXCEPT ![p].pc = "ledger"]
  /\ UNCHANGED <<wantList, peerLedger, pending, notifier, worker, environment, ghosts>>

\* Wantlist.Add: a want-have does not override a want-block.
Add(old, new) == IF old = "block" \/ new = "none" THEN old ELSE new

sendAsBlock(type, k) == type = "block" \/ k \notin Large

DontHaveTasks_Always(p, m, ks) ==
  {[peer |-> p, cid |-> k, flags |-> {"SendDontHave"} \cup (IF m.wants[k] = "block" THEN {"IsWantBlock"} ELSE {})]
     : k \in ks}

\* sendDontHave, if the peer asked for it.
DontHaveTasks(p, m, ks) ==
  {[peer |-> p, cid |-> k, flags |-> {"SendDontHave"} \cup (IF m.wants[k] = "block" THEN {"IsWantBlock"} ELSE {})]
     : k \in ks \cap m.dontHave}

FoundTasks(p, m, ks) ==
  {[peer |-> p, cid |-> k, flags |-> {"HaveBlock"}
       \cup (IF sendAsBlock(m.wants[k], k) THEN {"IsWantBlock"} ELSE {})
       \cup (IF k \in m.dontHave THEN {"SendDontHave"} ELSE {})] : k \in ks}

NewTasks_IgnoreFilter(p, m, found) ==
  FoundTasks(p, m, found \cup Denials(p, m)) \cup DontHaveTasks(p, m, Wants(p, m) \ found)

NewTasks(p, m, found) ==
  FoundTasks(p, m, found) \cup DontHaveTasks(p, m, Denials(p, m) \cup (Wants(p, m) \ found))

\* l.lk: the wantlist of the ledger that was found, which is no longer the
\* peer's if PeerDisconnected ran in between, and the request queue.
ReceivedLedger(p) ==
  /\ received[p].pc = "ledger"
  /\ LET r == received[p]
         m == r.m
         before == IF r.orphan = "yes" THEN r.list ELSE wantList[p]
         kept == IF m.full = "full" THEN Empty ELSE before
         removed == {k \in m.cancels : kept[k] # "none"}
         after == [k \in Cids |-> IF k \in removed THEN "none"
                                  ELSE IF k \in Wants(p, m) THEN Add(kept[k], m.wants[k]) ELSE kept[k]]
         new == NewTasks(p, m, r.found)
     IN  /\ wantList' = IF r.orphan = "yes" THEN wantList ELSE [wantList EXCEPT ![p] = after]
         /\ pending' = PushTasks({t \in pending : t.peer # p \/ t.cid \notin removed}, new)
         /\ excused' = excused \cup {<<p, t.cid>> : t \in {u \in new : Redundant(u)}}
  /\ received' = [received EXCEPT ![p] = NoCall]
  /\ UNCHANGED <<ledgerMap, peerLedger, notifier, worker, environment, wanting, asked>>

\* Calls of MessageReceived that are about to record a want of k.
Receiving(k) == {p \in Peers : received[p].pc # "idle" /\ received[p].m.wants[k] # "none"}

----------------------------------------------------------------------------
(* NotifyNewBlocks *)

NotifyNewBlocks ==
  /\ notifier.pc = "idle" /\ stored # {}
  /\ notifier' = [NoNotify EXCEPT !.pc = "keys", !.keys = stored]
  /\ stored' = {}
  /\ UNCHANGED <<ledgers, pending, received, worker, blockstore, denied, ghosts>>

\* e.lock: the peers that want the next block.
NotifyPeers(k) ==
  /\ notifier.pc = "keys" /\ k \in notifier.keys
  /\ notifier' = [notifier EXCEPT !.pc = "peers", !.keys = @ \ {k}, !.cids = {k},
                                  !.peers = {p \in Peers : <<p, k>> \in peerLedger}]
  /\ excused' = excused \cup (Receiving(k) \X {k})
  /\ UNCHANGED <<ledgers, pending, received, worker, environment, wanting, asked>>

\* The peer's ledger is looked up and its entry read.
NotifyEntry(p) ==
  /\ notifier.pc = "peers" /\ p \in notifier.peers
  /\ \E k \in notifier.cids :
       notifier' = IF p \in ledgerMap /\ wantList[p][k] # "none"
                     THEN [notifier EXCEPT !.pc = "push", !.peers = @ \ {p}, !.entry = {<<p, wantList[p][k]>>}]
                     ELSE [notifier EXCEPT !.peers = @ \ {p}, !.missing = @ \cup {<<p, k>>}]
  /\ UNCHANGED <<ledgers, pending, received, worker, environment, ghosts>>

\* With no lock held since the entry was read.
NotifyPush ==
  /\ notifier.pc = "push"
  /\ LET new == {[peer |-> x[1][1], cid |-> x[2], flags |-> {"HaveBlock"}
                   \cup (IF sendAsBlock(x[1][2], x[2]) THEN {"IsWantBlock"} ELSE {})]
                   : x \in notifier.entry \X notifier.cids}
     IN  /\ pending' = PushTasks(pending, new)
         /\ excused' = excused \cup {<<t.peer, t.cid>> : t \in {u \in new : Redundant(u)}}
  /\ notifier' = [notifier EXCEPT !.pc = "peers", !.entry = {}]
  /\ UNCHANGED <<ledgers, received, worker, environment, wanting, asked>>

NotifyNext ==
  /\ notifier.pc = "peers" /\ notifier.peers = {}
  /\ notifier' = [notifier EXCEPT !.pc = "keys", !.cids = {}]
  /\ UNCHANGED <<ledgers, pending, received, worker, environment, ghosts>>

\* Missing wants that are missing still.
Gone(missing) == {x \in missing : x[1] \notin ledgerMap \/ wantList[x[1]][x[2]] = "none"}

\* e.lock: stale index entries are removed.
NotifyCleanup ==
  /\ notifier.pc = "keys" /\ notifier.keys = {}
  /\ peerLedger' = peerLedger \ Gone(notifier.missing)
  /\ excused' = excused \cup {x \in Gone(notifier.missing) : x[1] \in Receiving(x[2])}
  /\ notifier' = NoNotify
  /\ UNCHANGED <<ledgerMap, wantList, pending, received, worker, environment, wanting, asked>>

----------------------------------------------------------------------------
(* Task workers *)

\* PopTasks takes some of a peer's tasks, as sizes and priorities have it.
\* A worker tries again on a signal and at every tick.
PopTasks(w, p) ==
  /\ worker[w].pc = "wait"
  /\ \E ts \in (SUBSET {t \in pending : t.peer = p}) \ {{}} :
       /\ pending' = pending \ ts
       /\ worker' = [worker EXCEPT ![w] = [NoEnvelope EXCEPT !.pc = "build", !.tasks = ts,
            !.todo = {t.cid : t \in {u \in ts : {"HaveBlock", "IsWantBlock"} \subseteq u.flags}},
            !.haves = {t.cid : t \in {u \in ts : "HaveBlock" \in u.flags /\ "IsWantBlock" \notin u.flags}},
            !.dontHaves = {t.cid : t \in {u \in ts : "HaveBlock" \notin u.flags}}]]
  /\ UNCHANGED <<ledgers, received, notifier, environment, ghosts>>

\* getBlocks, one job per key; a block that is gone becomes a DONT_HAVE.
GetBlock(w, k) ==
  /\ worker[w].pc = "build" /\ k \in worker[w].todo
  /\ worker' = [worker EXCEPT ![w].todo = @ \ {k},
       ![w].blocks = IF k \in blockstore THEN @ \cup {k} ELSE @,
       ![w].dontHaves = IF /\ k \notin blockstore
                           /\ \E t \in worker[w].tasks : t.cid = k /\ "SendDontHave" \in t.flags
                        THEN @ \cup {k} ELSE @]
  /\ UNCHANGED <<ledgers, pending, received, notifier, environment, ghosts>>

Built(w) == worker[w].pc = "build" /\ worker[w].todo = {}
HasAnswer(w) == worker[w].blocks \cup worker[w].haves \cup worker[w].dontHaves # {}

\* Nothing to send: the tasks are done.
EmptyEnvelope(w) ==
  /\ Built(w) /\ ~HasAnswer(w)
  /\ worker' = [worker EXCEPT ![w] = NoEnvelope]
  /\ UNCHANGED <<ledgers, pending, received, notifier, environment, ghosts>>

PeerOf(w) == CHOOSE p \in Peers : \E t \in worker[w].tasks : t.peer = p

\* e.lock: MessageSent finds the ledger.
SentFind(w) ==
  /\ Built(w) /\ HasAnswer(w)
  /\ ledgerMap' = ledgerMap \cup {PeerOf(w)}
  /\ worker' = [worker EXCEPT ![w].pc = "sent"]
  /\ UNCHANGED <<wantList, peerLedger, pending, received, notifier, environment, ghosts>>

AfterSent_AnyType(list, blocks, haves) == [k \in Cids |-> IF k \in blocks \cup haves THEN "none" ELSE list[k]]

\* Wantlist.RemoveType: a HAVE does not answer a want-block.
AfterSent(list, blocks, haves) ==
  [k \in Cids |-> IF k \in blocks \/ (k \in haves /\ list[k] = "have") THEN "none" ELSE list[k]]

\* What a peer still waits for after a message.
StillWanting(list, blocks, haves) ==
  [k \in Cids |-> IF k \in blocks \/ (k \in haves /\ list[k] = "have") THEN "none" ELSE list[k]]

\* l.lk: MessageSent removes what is about to be sent.
MessageSent(w) ==
  /\ worker[w].pc = "sent"
  /\ wantList' = IF worker[w].orphan = "yes" THEN wantList
                 ELSE [wantList EXCEPT ![PeerOf(w)] = AfterSent(@, worker[w].blocks, worker[w].haves)]
  /\ worker' = [worker EXCEPT ![w].pc = "send"]
  /\ UNCHANGED <<ledgerMap, peerLedger, pending, received, notifier, environment, ghosts>>

\* network.SendMessage delivers the message.
SendMessage(w) ==
  /\ worker[w].pc = "send"
  /\ wanting' = [wanting EXCEPT ![PeerOf(w)] = StillWanting(@, worker[w].blocks, worker[w].haves)]
  /\ worker' = [worker EXCEPT ![w].pc = "done"]
  /\ UNCHANGED <<ledgers, pending, received, notifier, environment, asked, excused>>

\* network.SendMessage fails.
SendFails(w) ==
  /\ worker[w].pc = "send"
  /\ excused' = excused \cup ({PeerOf(w)} \X {t.cid : t \in worker[w].tasks})
  /\ worker' = [worker EXCEPT ![w].pc = "done"]
  /\ UNCHANGED <<ledgers, pending, received, notifier, environment, wanting, asked>>

\* env.Sent: the tasks are done.
TasksDone(w) ==
  /\ worker[w].pc = "done"
  /\ worker' = [worker EXCEPT ![w] = NoEnvelope]
  /\ UNCHANGED <<ledgers, pending, received, notifier, environment, ghosts>>

----------------------------------------------------------------------------
(* Connections and the blockstore *)

PeerConnected(p) ==
  /\ ledgerMap' = ledgerMap \cup {p}
  /\ UNCHANGED <<wantList, peerLedger, pending, received, notifier, worker, environment, ghosts>>

\* The ledger goes, and with it the peer's wants; calls that hold it keep
\* working on it.
PeerDisconnected(p) ==
  /\ peerLedger' = peerLedger \ ({p} \X {k \in Cids : wantList[p][k] # "none"})
  /\ ledgerMap' = ledgerMap \ {p}
  /\ wantList' = [wantList EXCEPT ![p] = Empty]
  /\ received' = [received EXCEPT ![p] =
       IF @.pc = "ledger" /\ @.orphan = "no" THEN [@ EXCEPT !.orphan = "yes", !.list = wantList[p]] ELSE @]
  /\ worker' = [w \in Workers |->
       IF worker[w].pc = "sent" /\ PeerOf(w) = p THEN [worker[w] EXCEPT !.orphan = "yes"] ELSE worker[w]]
  /\ wanting' = [wanting EXCEPT ![p] = Empty]
  /\ excused' = excused \ ({p} \X Cids)
  /\ UNCHANGED <<pending, notifier, environment, asked>>

PutBlock(k) ==
  /\ k \notin blockstore
  /\ blockstore' = blockstore \cup {k}
  /\ stored' = stored \cup {k}
  /\ UNCHANGED <<ledgers, pending, received, notifier, worker, denied, ghosts>>

DeleteBlock(k) ==
  /\ k \in blockstore
  /\ blockstore' = blockstore \ {k}
  /\ UNCHANGED <<ledgers, pending, received, notifier, worker, stored, denied, ghosts>>

----------------------------------------------------------------------------
Receive(p) ==
  \/ \E k \in Cids : GetSize(p, k)
  \/ ReceivedIndex(p) \/ ReceivedFind(p) \/ ReceivedLedger(p)

Notify ==
  \/ NotifyNewBlocks
  \/ \E k \in Cids : NotifyPeers(k)
  \/ \E p \in Peers : NotifyEntry(p)
  \/ NotifyPush \/ NotifyNext \/ NotifyCleanup

Work(w) ==
  \/ \E p \in Peers : PopTasks(w, p)
  \/ \E k \in Cids : GetBlock(w, k)
  \/ EmptyEnvelope(w) \/ SentFind(w) \/ MessageSent(w) \/ SendMessage(w) \/ SendFails(w) \/ TasksDone(w)

Environment ==
  \/ \E p \in Peers : PeerConnected(p) \/ PeerDisconnected(p) \/ \E m \in Messages : MessageReceived(p, m)
  \/ \E k \in Cids : PutBlock(k) \/ DeleteBlock(k)

Next ==
  \/ \E p \in Peers : Receive(p)
  \/ Notify
  \/ \E w \in Workers : Work(w)
  \/ Environment

Spec == Init /\ [][Next]_vars

----------------------------------------------------------------------------
(* Properties *)

\* A block the filter denies to a peer is never sent or announced to it,
\* whether it was there when the peer asked or stored later.
DeniedNeverServed ==
  \A w \in Workers : \A t \in worker[w].tasks :
    t.cid \in worker[w].blocks \cup worker[w].haves => <<t.peer, t.cid>> \notin denied

\* A peer gets a DONT_HAVE only for a key for which it asked for one, however
\* tasks were merged and blocks came and went.
DontHaveAskedFor ==
  \A w \in Workers : \A t \in worker[w].tasks :
    t.cid \in worker[w].dontHaves => <<t.peer, t.cid>> \in asked

\* No call is in progress and no task waits.
Settled ==
  /\ \A p \in Peers : received[p].pc = "idle"
  /\ \A w \in Workers : worker[w].pc = "wait"
  /\ notifier.pc = "idle" /\ stored = {} /\ pending = {}

\* Wants for which the peer got nothing although the block is there.
Unserved ==
  {x \in Peers \X Cids : x[2] \in blockstore /\ wanting[x[1]][x[2]] # "none" /\ x \notin denied}

\* Once nothing is in progress, every want of a stored block is answered,
\* except one that met a race: a NotifyNewBlocks call for the key overlapped
\* the MessageReceived call, its task was dropped in favour of one in flight,
\* or the message that answered it could not be sent.
WantsServed == Settled => Unserved \subseteq excused
=============================================================================
