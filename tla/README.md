# A TLA+ model of go-bitswap

Bitswap exchanges content-addressed blocks between peers. A *client* asks peers
for blocks (want-have: "do you have it?", want-block: "send it"), and a *server*
answers (HAVE, DONT_HAVE, block). This directory models the concurrent core of
both, checks it with TLC on small instances and proves part of it with TLAPS for
all instances. `PROJECT.json` maps every definition to the lines it models and
lists components, hazards, runs, findings and theorems.

## 1. The system and its parts

| part | source | module | status |
|---|---|---|---|
| connection events | `network/connecteventmanager.go` | `ConnectEventManager`, abstractly `PeerEvents` | modelled, proved, refinement proved |
| network adapter, message sender | `network/ipfs_impl.go` | `PeerLifecycle` | retries and marking only |
| PeerManager, peerWantManager | `client/internal/peermanager` | `PeerManager`, abstractly `WantLedger` | modelled, proved, refinement proved |
| MessageQueue | `client/internal/messagequeue/messagequeue.go` | `MessageQueue` | modelled, safety proved |
| DONT_HAVE timeouts | `.../donthavetimeoutmgr.go` | `DontHaveTimeoutMgr` | modelled, proved |
| life of a queue | the four above | `PeerLifecycle` (extends `ConnectEventManager`) | modelled, safety proved |
| session want sender, session peers, block presence | `client/internal/session/sessionwantsender.go`, `sessionpeermanager`, `blockpresencemanager` | `SessionWantSender` | modelled, safety proved |
| session loop, its wants, interest, getter, client pipeline | `session.go`, `sessionwants.go`, `sessioninterestmanager`, `sessionmanager`, `getter`, `notifications`, `client.go` | `Session` (extends `SessionWantSender`) | one session in detail, proved in part |
| sessions side by side | `sessionmanager`, `sessioninterestmanager`, with `client.go`, `getter`, `notifications` | `SessionManager` | modelled, proved |
| provider searches | `client/internal/providerquerymanager` | `ProviderQueryManager` | modelled, safety proved |
| decision engine | `server/internal/decision` (`engine.go`, ledgers, `taskmerger.go`) | `Engine` | modelled without priorities and sizes, proved |
| server | `server/server.go` | `Engine` (task workers), `ProvidePipeline`, `Server` | modelled without statistics, safety proved |
| blockstore manager | `.../blockstoremanager.go` | `BlockstoreManager` | modelled, safety proved |
| score ledger | `.../scoreledger.go` | `ScoreLedger` | modelled without the averages, safety proved |
| goprocess (external) | as `server.go`, `engine.go` use it | `Process` | closing and closed |
| messages, want lists | `message`, `client/wantlist` | rules inside `MessageQueue`, `Engine` | encoding left out |
| facade, options, tracing, metrics, test network | root, `testnet`, ... | none | no state of their own, or test code |

How they interact. libp2p notifications and send failures reach
`connectEventManager`, whose worker calls `PeerManager.Connected` and
`Disconnected`; these create and remove one `MessageQueue` per peer and signal
the sessions registered for the peer. `GetBlocks` subscribes to the block and
puts an operation on the session's channel; the session loop records interest,
tells its want sender and, before it knows any peer, broadcasts. The want sender
decides which peer gets the want-block and which get want-haves and calls
`PeerManager.SendWants`. A message that comes in goes through
`client.receiveBlocksFrom`: wanted blocks are told from unwanted ones, the
sessions are told, cancels are sent, blocks are published. Timeouts enter on the
same path as DONT_HAVEs. On the other side the engine records wants in ledgers,
queues tasks, and its workers send the answers.

## 2. The modules

Each module is parameterised by the sets of peers, keys and so on; `MC<module>`
gives them values together with the `.cfg` files. An action is one critical
section, one channel or timer operation, or one call to the outside: this is the
grain at which goroutines interleave.

**ConnectEventManager.** `tracked`, `newState`, `curState`, `pending` and
`changeQueue` are the fields of the manager; `worker` and `event` say where the
worker goroutine is, with the listener it calls next. `Connected`,
`Disconnected`, `MarkUnresponsive` are the handlers; `OnMessage` is two actions
because it drops the read lock before taking the write lock. The worker's
callbacks run without the lock, so handlers interleave with them. `told` (what
each listener heard) and `linked` (whether a connection exists) are history.

**PeerManager.** All operations hold `pqLk`, so each is one action. `peerWants`
is kept as the want-blocks and want-haves per peer, `wantPeers` is the reverse
index, `wantGauge` and `wantBlockGauge` are the two gauges. What each queue was
asked for and what each session was last told are history variables.

**MessageQueue.** The pending and sent lists of `recallWantlist`, the cancels,
the debounce timer, and the program counter of `runQueue`. Building a message
takes two critical sections with the lock released in between, and
`AddCancels` touches the timeout manager before it takes the lock: both are
separate actions. `remote` is what the peer knows.

**DontHaveTimeoutMgr.** Time in ticks; the want queue with ages, the active map,
the timer, the timeout as it follows ping and message latency.

**PeerEvents, WantLedger.** What the two managers promise, without their data
structures. `PeerEvents`: each peer's changes are announced one event at a time,
to every listener in order, connects and disconnects alternating, and a change
that lasts is announced. `WantLedger`: what each connected peer is asked for, key
by key; a cancel takes the keys back from every peer that was asked.
`ConnectEventManager` and `PeerManager` instantiate them with a refinement mapping
(`ImplementsPeerEvents`, `ImplementsWantLedger`).

**PeerLifecycle.** Composes `ConnectEventManager` (one listener is the PeerManager)
with the sender: attempts, the last of which marks the peer unresponsive, and the
queue's own shutdown. It also models a sender that outlives its removed queue.

**SessionWantSender / Session.** Two goroutines of a session (run loop and want
sender), one handler per peer for incoming messages and one for local blocks.
The want sender takes all queued changes as one batch (`OnChange`), then checks
for exhausted wants, cancels, and sends (`phase`). The channels `changes` and
`incoming` are bounded; availability changes and operations that find them full
wait in goroutines (`spawned`, `late`) and may overtake each other. `presence`,
`interest`, `asked` and `bcast` are the BlockPresenceManager, the
SessionInterestManager and the PeerManager as this session sees them. `owed`
holds the answers peers still owe, so each want is answered once or times out. A message is
handled in the steps of `receiveBlocksFrom` (`inflight`). The handlers of the run
loop are single actions. An update has one key; one operation stands for the
`wantsSent` operations of all peers served by a `sendNextWants`.

**SessionManager.** Several sessions of one client, coarser than `Session`: a want
sender takes one change at a time, the peers of a session stay, channels are not
full, and of the PeerManager only the keys that some peer is asked for are kept.
What is fine-grained is what the sessions share: `wants` of the
SessionInterestManager, the sessions on record, the split into wanted and unwanted
blocks, telling the interested sessions one by one, cancels sent after interest
was removed in another critical section, publication, and the three steps of Close.
`missed` and `revived` are history: they mark the two races that the properties
name as exceptions.

**Server.** Composes three children of the server's process, each in a module of
its own, with the closing of that process (`Process`). `ProvidePipeline` has the
bounded channels `newBlocks` and `provideKeys`, the collector's local queue and the
goroutines behind the limit. `BlockstoreManager` has the callers of `jobPerKey`, the
workers and the unbuffered job channel (a hand-over is one step of both sides).
`ScoreLedger` has records with reference counts and the worker that samples scores
under the lock and updates tags outside it. `load`, chosen by `Init`, says which of
the three is busy in a behaviour: they share nothing but the process.

**ProviderQueryManager.** The run loop and its message channel, the buffer of
queries, workers, and the goroutine of each caller with its states from
"queued" to "closed".

**Engine.** Ledgers, the index of wanting peers, the request queue with merging,
`MessageReceived` and `NotifyNewBlocks` in the critical sections of the code, and
workers that look blocks up, record the message as sent and send it. `wanting`
(the peer's view) and `excused` (wants that met a listed race) are history. The
request queue (`go-peertaskqueue`) is external and is modelled from its use. The
engine's shutdown, which aborts lookups and with them the handling of a message, is
left out.

## 3. Runs

Each property is described where it is defined. Run, instance, states (distinct):

| run | instance | what it shows |
|---|---|---|
| `network` | 2 peers, 2 listeners, 1 peer that is sent to; 52 thousand | events alternate, a late message does not resurrect a peer, settled views agree, `ConnectEventManager` implements `PeerEvents` with its fairness; queues exist for responsive peers, and a dead one is removed unless the peer is heard of again |
| `peer_manager` | 2 peers, 2 keys, 1 session; 1,860 | reverse index, gauges and signals are exact; `PeerManager` implements `WantLedger` |
| `mq_races` | 2 keys, messages of one entry; 1.2 million | the lists follow the callers, cancels never hit a want, no wakeup is lost, draining the timer never blocks |
| `mq_liveness` | 1 key, whole messages; 26 thousand | wants and queued cancels arrive |
| `engine` | 1 peer, 1 key, 1 worker; 1.8 million | wants of stored blocks are answered but for the listed races; no DONT_HAVE that was not asked for; the filter holds |
| `providers` | 3 callers of 1 key, 2 workers, a channel of one slot; 105 thousand | no caller waits for a search nobody runs, callers get all providers, every call ends |
| `timeouts` | 2 keys, timeouts up to 4 ticks; 328 thousand | map and queue agree, no want is overdue |
| `session` | 1 peer that has one of 2 keys, known before or not, 2 calls, 1 event; 933 thousand | registrations, tags and protection agree with the session's peers; call, interest, run loop and want sender agree on what is wanted; no want is left unsent while a peer may have it, nor unreported when none has; waits can end |
| `session_peers` | 2 peers, channels of one slot; 147 thousand | calls return |
| `session_cancel` (fails) | 2 calls of 1 key, 1 event | see below |
| `sessions` | 2 sessions that want 1 key, 2 events; 468 thousand | a session's call is not lost to another's cancel or receipt, its want is asked again when another cancelled it, no peer is asked in vain, Close ends calls and sessions |
| `server` | 1 load at a time, small channels and pools; 74 thousand | accepted keys are announced, in order; lookups are complete and settled; scored peers are tagged; callers and Close return |

`session_cancel` is expected to fail. `client/client.go:324` says that a block is
published to any client that requested it. When a call is cancelled and another
call of the session asks for the key before the want sender has handled the
cancel, `CancelSessionWants` removes the session's interest in the key as a
whole; the block then counts as unwanted and the second call stays open. With
one call per key (`session`) the same property holds.

### What the properties leave out

While modelling, these behaviours of the code were met. The models have them; no
run checks them, or the property names them as an exception.

- `Engine`: a block stored between the size lookup and the recording of the want
  may notify nobody (`engine.go:655`); `NotifyNewBlocks` may take a want that is
  being recorded for a stale index entry (`engine.go:903`); the ledger forgets a
  want before its message is sent (`server.go:275`); a task is dropped in favour of
  one in flight for the same key. `WantsServed` excuses the wants that met one of
  these (`excused`). A want-block that asks for
  DONT_HAVE, merged into a want-have that did not, gets none if the block is
  removed meanwhile (`taskmerger.go:59`).
- `MessageQueue`: after want, cancel, want, cancel before anything is sent again,
  no cancel goes out (`messagequeue.go:346`); a message that was cut short and
  turned out empty does not schedule the rest (`messagequeue.go:531`, the
  exception in `NoLostWakeup`); a want may be recorded as sent that was dropped
  with a shared entry (`messagequeue.go:787`); a cancel may leave a DONT_HAVE
  timer running (`messagequeue.go:586`).
- `PeerLifecycle`: a message that arrives between the mark and the event worker
  makes the peer responsive again, and its dead queue stays
  (`messagequeue.go:541`, the exception in `DeadQueueRemoved`).
- `ConnectEventManager`: a connect and a disconnect that cancel out leave the
  entry in the map (`connecteventmanager.go:116`).
- `PeerManager`: a list of cancels that repeats a key subtracts it from the
  gauges twice (`peerwantmanager.go:314`); `GaugesExact` is for distinct keys.
- `ProviderQueryManager`: two searches for one key can run at once
  (`providerquerymanager.go:427`).
- Session: a block and a new request for its key in one batch leave the want
  untracked (`sessionwantsender.go:345`), which one call per key excludes; a
  DONT_HAVE of a peer just removed puts it back as a holder
  (`sessionwantsender.go:411`); keys asked for after all peers left are not
  broadcast (`session.go:453`, the exception in `OpenCallsAsked`); a peer may be tagged after the shutdown
  (`session.go:406`); the peer is pruned by the DONT_HAVE after the limit
  (`sessionwantsender.go:396`).

- `SessionManager`: a duplicate block taken for unwanted just before another
  session asks for its key is told to that session as received and not published,
  so that its call stays open (`client.go:300`, `missed` in `OpenCallsWanted`). A
  cancelled want that is still live is broadcast again by the idle tick, and stays
  with the PeerManager when its session is gone (`sessionwants.go:148`, `revived` in
  `NotAskedInVain`). A want cancelled by another session is broadcast again, but its
  want sender still counts it as sent to a peer whose DONT_HAVE timeout the cancel
  removed; `SessionManager` does not follow answers, so `OpenCallsAskedAgain` says
  that the key is asked for and not that the call returns.
- `Server`: when the context given to `New` ends and nobody calls Close,
  `NotifyNewBlocks` may wait for ever (the exception in `CallersReturn`); a peer that
  reconnects keeps the tag of its old record while its new score is 0
  (`scoreledger.go:200`, the exception in `ScoresTagged`). `newBlocks` is made before
  the options are applied (`server.go:97`), so `HasBlockBufferSize` as an option
  changes nothing; `HasBlockBufferSize` in the model is the default's stand-in.

### Bounds

Two peers are enough for what is about a peer and the others, two keys for a key
and the rest of a message or batch, two calls for calls that share a key.
`ChangesBufferSize`, `IncomingSize` and the `MaxQueue` of `ProviderQueryManager`
are the capacities of channels, made small so that full channels are common.
`MaxEvents` bounds what happens to a session besides calls and answers:
disconnects, providers found, local blocks, cancelled calls, calls in `Extra`, the
end of the periodic search (which only takes later searches away), the shutdown. Answers for a key in `Slow` may come after their DONT_HAVE timeout, any
number of times. `Known` are peers from which a session may have got blocks of
other keys before it starts: a session that is past discovery without the states
that lead there. In `session` one event is allowed; with two keys asked for freely
besides that event TLC had found no violation among 12 million states when it was
stopped, unfinished. In `sessions`, `MaxEvents` bounds arriving blocks, cancelled calls, ended
sessions and Close together: two are enough for an arrival or a cancel in one
session to race the same in the other, or Close. `MaxLatency` and `MaxQueue` bound the latencies and the
queue of the timeout manager, `PeerDontHaveLimit` and `BroadcastLimit` are 1
instead of 16 and 64. The engine's filter (`denied`) and the protocol of the peer
(`supportsHave`) are variables that `Init` chooses and no step changes, so that
one run covers all choices. `UntilShutdown` in `MCMessageQueue` and
`MCDontHaveTimeoutMgr` stops the exploration at shutdown. Symmetry is used only
in runs without liveness.

### Fairness

Goroutines that can run do run (weak fairness of the worker, run loops, message
handlers and waiting goroutines). In `MessageQueue` a `select` with several ready
cases takes each of them sometimes (strong fairness of taking work and of
rebroadcasts), which is Go's random choice; armed timers fire. Searches of
`ProviderQueryManager` end because they carry a timeout. In `session_peers`
peers answer what they were asked, which is an assumption about them, not about
the code. In `sessions` the idle timer fires, as session.go resets it after every
tick, and what is to be done is done (`WF(Work)`: the inputs lead to finitely many
steps that change anything). `server` has the same form. Nothing is assumed of
clients, connections or searches, and of idle ticks only in `sessions`.

## 4. Proofs

`ConnectEventManagerProofs` proves, for any set of peers and any number of
listeners, `TypeOK`, `QueuedOnce`, `DisconnectedIffUnlinked`, `EventsAlternate`
and `SettledViewsAgree`. The last two are not inductive: what a listener was told
says nothing about a change that is still queued. The invariant `IInv` adds what
the worker owes: a peer that is not pending has nothing left to apply
(`NothingMissed`), each listener was told the applied state of each peer unless
it is still to be called for the event in progress (`ViewsFollow`), and that
event is about the applied state (`CallbackApplied`). Assumption: at least one
listener. `Refinement` shows, from `IInv`, that initial states and steps map to those
of `PeerEvents`: a handler changes what the network reported, the worker's step
starts an event, a callback delivers it to the next listener, all else stutters.
The same module covers `PeerLifecycle`, whose steps are steps or stutters of the event
manager (`LifecycleStep`): the results carry over, and `QueueForResponsive` follows
from `QueuesFollow`: a peer has a queue exactly if the first listener was last told
that it is connected, and a sender at work has its queue.

`PeerManagerProofs` proves, for any peers, sessions and finite set of keys,
`TypeOK`, `IndexExact`, `QueuesFollowWants`, `SignalsFollowConnections` and,
assuming that no cancelled list repeats a key, `GaugesExact`. The first four are
inductive together with `SignalledRegistered` (a session that was told of a peer
is registered for it). The gauges need the index: a gauge changes by the number
of keys whose last want goes or whose first want comes, and the index says which
those are; the arithmetic is a chain of lemmas on cardinalities of the sets of
keys an operation adds or removes. `RefinesWantLedger` maps every operation to one
of `WantLedger`; the hard case is a cancel, which visits only the peers that the
index names, and for which exactness of the index (`IndexExact`) and of the queues
(`QueuesFollowWants`) is what makes the two agree.

`MessageQueueProofs` proves, for any keys and any message size, `QueueTracksWants`,
`DrainNeverBlocks` and `NoLostWakeup`. The first is inductive with the types of the
lists: the snapshot taken in the first critical section of
`extractOutgoingMessage` needs no link to the lists as they are later, because
`MarkSent` looks every entry up again. The second is inductive as it stands. The third is an action
property, shown action by action.

The same module proves, for any keys, latencies and bounds, `QueueMatchesMap` and
`NoneOverdue` of `DontHaveTimeoutMgr`, whose definitions have names of their own
(`TInit`, `TNext`, `TSpec`) so that one module can speak of both. There is one timer
for all wants, set for the first active entry. This is enough because the queue is
ordered by age (`Ordered`), so that the first active entry is the oldest, and the
timer runs out no later than each active entry's timeout or has just fired
(`InTime`); a timeout that shrinks checks the queue in the same critical section.

`ProviderQueryManagerProofs` proves, for any callers, keys, workers and channel
capacity, `ListenersHaveQuery` and `ListenersCatchUp`. The strengthening is
`FiledByKey`: a status holds a query for its own key and only listeners of that
key, also after the manager stopped. Without it the end of one search could take
away the search that another key's status counts on.

`EngineProofs` proves, for any peers, keys, messages and workers, `DeniedNeverServed`
and `DontHaveAskedFor`, where TLC's instance has one peer and one key. Both are
about envelopes, so the invariant follows the two facts back to where they come
from: the ledgers hold no denied want, a call looks up only what the filter accepts
and its DONT_HAVE requests are noted, the entry a `NotifyNewBlocks` call has read is
one for its only key, every task offers a block the peer may have or is there for a
DONT_HAVE, and all tasks of an envelope are for one peer. The central lemma is that
merging tasks of one topic keeps this (`MergeAllowed`, `PushAllowed`). Assumption:
the messages are well formed (`MessagesAssumption`).

`WantsServed` is proved in the same module. It speaks of moments when nothing is in
progress; `ServeInv` says for every moment why nothing can be forgotten: a want that
is owed (waited for, not denied, not excused) is *pursued* and, if the block is there,
its answer is *under way* (`Tended`). Pursued: a call is about to record it, or it is
recorded in ledger and index, or a worker that took it off the ledger sends the
answer. Under way: the call has looked the block up, is going to, or a
`NotifyNewBlocks` call will find the want; or that call has read the peer's entry; or
a queued task offers the answer; or a worker has it in its envelope. Each action
hands a want on from one of these to another. `PursuitKept`, `WorkKept` and
`TendedKept` say when a step that does not touch a want leaves it tended, so that each
action only accounts for the wants it moves; `MergeOffers` and `PushOffers` say that
merging never weakens what a queued task offers.

`SessionProofs` proves, for any peers, keys, calls, channel sizes and limits,
`IdleWantsHopeless`, `WaitCanEnd` and `SessionPeersAgree`. `SenderInv` adds that the want
sender has a presence for each pair of want and peer, and recorded each want-block it
waits for, in the middle of a batch too; the hard actions are `OnChange`, which applies
a whole batch, and the sending phase. `PeersInv` adds that no peer is announced, in
the channel or in a waiting goroutine, to a session that is not registered for it.
Assumption: `None` is not a peer (`NoneAssumption`).

`SessionManagerProofs` proves `NotAskedInVain` and `OpenCallsWanted` of `SessionManager`
for any sessions, keys, calls and arriving blocks, under the hypothesis `[]CancelsFinal`:
no call is cancelled while another of the same session and key is open or still to be
made. The hypothesis is needed. A session's want sender keeps one want per key, so the
cancel of one call takes away the want of another; this is what `session_cancel` shows.
It restricts the callers of one session only: other sessions may cancel, receive and
end the same key at any moment, and the client may be closed. Where no two calls share
session and key, both results hold for every behaviour (`OneCallPerKeySuffices`).
Neither invariant is inductive, because both speak of moments when nothing is under
way, and three invariants say what is under way at the others:

- `OrderlyInv`: in the queue of operations and in that of changes no cancel comes before
  a want of the same key, nor is one under way while a call waits, and what a session
  is going to ask for is on record as of interest to it: otherwise peers could be asked
  for a key after its interest was removed.
- `AskedInv`: a key that peers are asked for is of interest to some session, or a session
  that removed its interest has yet to send the cancel (the gap between the two critical
  sections of `CancelSessionWants` and of `RemoveSession`), or the idle timer revived it.
- `OpenInv`: for each open call its block is about to be published, or its want is
  queued or on record and every receipt of the key still queued is followed by a new
  want (`Pursued`).

`QueueAppend` and `QueueTail` say what a send and a receive do to the order of two
operations in a queue; each action then has a lemma per invariant.

`ServerProofs` proves, for any calls, batches, channel sizes, lookups, workers and peers,
`ProvidedInOrder`, `LookupsSettled` and `ScoresTagged`. `PipeInv`: what was accepted is
what was started followed by what is held, queued, next, collected and in `newBlocks`,
in this order (`Chain`), until the provide worker stops. `LookupInv`: each job a worker
has is awaited by its caller (`JobsAwaited`), a caller has handed over or will hand
over what is missing from its result (`LookupProgress`), and the pending gauge plus the
hand-overs not yet counted is the number of jobs not yet started (`GaugesBalance`):
the gauge itself may go below zero. `LedgerInv`: a score that the connection manager
does not know is among the updates that the worker took. Assumptions: a batch is a
list of keys (`BatchAssumption`), there is a worker (`WorkersAssumption`) and "none"
is not a lookup (`LookupsAssumption`).

The invariants of `EngineProofs`, `SessionProofs`, `SessionManagerProofs`, `ServerProofs`
and of the timeout manager were checked with TLC on the instances of the runs before
they were proved; those of `SessionManagerProofs` also, under `CancelsFinal`, with two
calls of one session and key.

Only model-checked:

- All liveness properties and the fairness part of `ImplementsPeerEvents`: the prover
  has no rules for ENABLED and fairness.
- `OpenCallsWanted`, `OpenCallsAsked` and `WantedIsPursued` of `Session`. They are not
  true for all values of the constants: when two calls of the session ask for one key,
  TLC finds behaviours that violate each of them. The cause is the one that
  `session_cancel` shows (a late cancel removes the interest that a second want has just
  recorded) or a batch that holds a block and a new request for its key. The run gives
  each key one call, where they hold. For `OpenCallsWanted` the argument is the one
  proved for `SessionManager`, whose want senders take changes one at a time; the
  detailed session, with batches, full channels and operations that overtake each
  other, is left to TLC.

`TypeOK`, `QueuedOnce` and `QueuesFollowWants` are proved and not repeated in runs.

## 5. Not modelled

- Wire encoding and generated code, libp2p streams, metrics, tracing, options and
  the test network: they have no concurrent state that the properties depend on.
- Floating-point averages (scores, latencies of sessions) and the delays computed
  from them: timers may fire at any time and a score may move by any sample, which
  allows all that the numbers allow.
- The message type and the want list as data structures (sizes, priorities, order of
  entries). Their rules for merging and upgrading entries are part of `MessageQueue`
  and `Engine`. In `MessageQueue` every entry counts as one towards
  `maxMessageSize`, and which entries fit is left open.
- Calls with several keys and `SyncGetBlock`: a call with several keys is several
  calls with one, cancelled together.
- The engine with connects that lag behind messages (`engine.go:963`): `Engine` alone
  has 1.8 million states for one peer, and the composition with
  `ConnectEventManager` is not built.
