-------------------------- MODULE ProvidePipeline --------------------------
(***************************************************************************)
(* The announcements of server/server.go: NotifyNewBlocks puts the keys of *)
(* new blocks into a bounded channel, provideCollector moves them, through *)
(* an unbounded list, into a second one, and provideWorker starts a        *)
(* goroutine for each key, a bounded number at a time, that announces it.  *)
(* Closing the server may come between any two steps.                      *)
(***************************************************************************)
EXTENDS Process, Naturals, Sequences, FiniteSets, Functions

CONSTANTS Notifiers,             \* calls of NotifyNewBlocks
          Batch,                 \* Batch[n]: the keys of the blocks n is called with
          HasBlockBufferSize,    \* capacity of newBlocks
          ProvideKeysBufferSize, \* capacity of provideKeys
          ProvideWorkerMax       \* goroutines that announce keys at the same time

ASSUME BuffersAssumption ==
  HasBlockBufferSize \in Nat \ {0} /\ ProvideKeysBufferSize \in Nat \ {0} /\ ProvideWorkerMax \in Nat \ {0}

ASSUME BatchAssumption == Batch \in [Notifiers -> Seq(UNION {Range(Batch[n]) : n \in Notifiers})]

VARIABLES
  provideEnabled,  \* the option: without it the workers of the pipeline are not started
  notify,       \* where each NotifyNewBlocks call is
  unsent,       \* unsent[n]: the blocks it has yet to put into newBlocks
  newBlocks,    \* channel
  collector,    \* provideCollector is running
  nextKey,      \* the collector's nextKey; empty when keysOut is nil
  toProvide,    \* the collector's list
  provideKeys,  \* channel; closed when the collector has returned
  spawner,      \* where provideWorker is
  held,         \* the key it received and has no token for yet
  providing,    \* keys whose goroutine is in network.Provide
  accepted,     \* history: the keys put into newBlocks, in order
  started       \* history: the keys a goroutine was started for, in order

pipe == <<newBlocks, collector, nextKey, toProvide, provideKeys, spawner, held, providing, accepted, started>>
outside == <<process, provideEnabled, notify, unsent>>
pipeline == <<provideEnabled, notify, unsent, pipe>>

ProvideInit ==
  /\ provideEnabled \in BOOLEAN
  /\ notify = [n \in Notifiers |-> "none"]
  /\ unsent = [n \in Notifiers |-> <<>>]
  /\ newBlocks = <<>>
  /\ collector = provideEnabled
  /\ nextKey = <<>>
  /\ toProvide = <<>>
  /\ provideKeys = <<>>
  /\ spawner = IF provideEnabled THEN "receive" ELSE "done"
  /\ held = <<>>
  /\ providing = {}
  /\ accepted = <<>>
  /\ started = <<>>

----------------------------------------------------------------------------
(* NotifyNewBlocks; what it tells the engine is part of module Engine *)

NotifyNewBlocks(n) ==
  /\ notify[n] = "none"
  /\ IF provideEnabled /\ ~closing
       THEN notify' = [notify EXCEPT ![n] = "sending"] /\ unsent' = [unsent EXCEPT ![n] = Batch[n]]
       ELSE notify' = [notify EXCEPT ![n] = "returned"] /\ UNCHANGED unsent
  /\ UNCHANGED <<process, provideEnabled, pipe>>

SendNewBlock(n) ==
  /\ notify[n] = "sending" /\ unsent[n] # <<>>
  /\ Len(newBlocks) < HasBlockBufferSize
  /\ newBlocks' = Append(newBlocks, Head(unsent[n]))
  /\ accepted' = Append(accepted, Head(unsent[n]))
  /\ unsent' = [unsent EXCEPT ![n] = Tail(@)]
  /\ UNCHANGED <<process, provideEnabled, notify, collector, nextKey, toProvide, provideKeys, spawner, held,
                 providing, started>>

\* The server closes meanwhile: the call waits for the process to close.
NotifyCloses(n) ==
  /\ notify[n] = "sending" /\ unsent[n] # <<>> /\ closing
  /\ notify' = [notify EXCEPT ![n] = "closing"]
  /\ UNCHANGED <<process, provideEnabled, unsent, pipe>>

NotifyReturns(n) ==
  /\ \/ notify[n] = "sending" /\ unsent[n] = <<>>
     \/ notify[n] = "closing" /\ closed
  /\ notify' = [notify EXCEPT ![n] = "returned"]
  /\ UNCHANGED <<process, provideEnabled, unsent, pipe>>

----------------------------------------------------------------------------
(* provideCollector *)

CollectorTakes_Overwrites ==
  /\ collector /\ newBlocks # <<>>
  /\ newBlocks' = Tail(newBlocks)
  /\ nextKey' = <<Head(newBlocks)>>
  /\ toProvide' = nextKey \o toProvide
  /\ UNCHANGED <<outside, collector, provideKeys, spawner, held, providing, accepted, started>>

CollectorTakes ==
  /\ collector /\ newBlocks # <<>>
  /\ newBlocks' = Tail(newBlocks)
  /\ IF nextKey = <<>>
       THEN nextKey' = <<Head(newBlocks)>> /\ UNCHANGED toProvide
       ELSE toProvide' = Append(toProvide, Head(newBlocks)) /\ UNCHANGED nextKey
  /\ UNCHANGED <<outside, collector, provideKeys, spawner, held, providing, accepted, started>>

CollectorHands ==
  /\ collector /\ nextKey # <<>> /\ Len(provideKeys) < ProvideKeysBufferSize
  /\ provideKeys' = provideKeys \o nextKey
  /\ IF toProvide # <<>>
       THEN nextKey' = <<Head(toProvide)>> /\ toProvide' = Tail(toProvide)
       ELSE nextKey' = <<>> /\ UNCHANGED toProvide
  /\ UNCHANGED <<outside, newBlocks, collector, spawner, held, providing, accepted, started>>

\* The collector returns and closes provideKeys.
CollectorExits ==
  /\ collector /\ ctxDone
  /\ collector' = FALSE
  /\ UNCHANGED <<outside, newBlocks, nextKey, toProvide, provideKeys, spawner, held, providing, accepted, started>>

----------------------------------------------------------------------------
(* provideWorker and its goroutines *)

SpawnerReceives ==
  /\ spawner = "receive" /\ provideKeys # <<>>
  /\ held' = <<Head(provideKeys)>>
  /\ provideKeys' = Tail(provideKeys)
  /\ spawner' = "limit"
  /\ UNCHANGED <<outside, newBlocks, collector, nextKey, toProvide, providing, accepted, started>>

SpawnerStarts ==
  /\ spawner = "limit" /\ Cardinality(providing) < ProvideWorkerMax
  /\ providing' = providing \cup {Head(held)}
  /\ started' = started \o held
  /\ held' = <<>>
  /\ spawner' = "receive"
  /\ UNCHANGED <<outside, newBlocks, collector, nextKey, toProvide, provideKeys, accepted>>

\* In both of its selects the worker also waits for the closing; a closed
\* channel is noticed when it is empty.
SpawnerExits ==
  /\ \/ spawner \in {"receive", "limit"} /\ closing
     \/ spawner = "receive" /\ ~collector /\ provideKeys = <<>>
  /\ spawner' = "done"
  /\ held' = <<>>
  /\ UNCHANGED <<outside, newBlocks, collector, nextKey, toProvide, provideKeys, providing, accepted, started>>

ProvideEnds_KeepsToken(k) == k \in providing /\ UNCHANGED <<process, pipeline>>

\* network.Provide returns, fails or times out, and the token is put back.
ProvideEnds(k) ==
  /\ k \in providing
  /\ providing' = providing \ {k}
  /\ UNCHANGED <<outside, newBlocks, collector, nextKey, toProvide, provideKeys, spawner, held, accepted, started>>

\* The pipeline's children of the process have returned.
ProvideDone == ~collector /\ spawner = "done"

Notifier(n) == SendNewBlock(n) \/ NotifyCloses(n) \/ NotifyReturns(n)
Spawner == SpawnerReceives \/ SpawnerStarts \/ SpawnerExits

----------------------------------------------------------------------------
(* Properties *)

\* Nothing was asked to stop: not the process, not the context given to New.
Running == ~closing /\ ~ctxDone

\* No key is lost, repeated or overtaken between newBlocks and the goroutine
\* that announces it: while the server runs, what is in the pipeline is what
\* was accepted and not started yet, in order; after that keys may be dropped
\* from the end only.
ProvidedInOrder ==
  LET passed == started \o held \o provideKeys
      Prefix(keys) == keys = SubSeq(accepted, 1, Len(keys))
  IN  /\ Running => accepted = passed \o nextKey \o toProvide \o newBlocks
      /\ Prefix(started)
      /\ spawner # "done" => Prefix(passed)

\* While the server runs, every accepted key is announced in the end, however
\* many wait behind the limit on goroutines.
AcceptedAreProvided == started # accepted ~> started = accepted \/ ~Running

Notifying == \E n \in Notifiers : notify[n] \notin {"none", "returned"}
=============================================================================
