------------------------------- MODULE Server -------------------------------
(***************************************************************************)
(* server/server.go and the parts of the decision engine that run beside   *)
(* its task queue, under one process: the announcements of new blocks, the *)
(* pool that looks blocks up and the score ledger, and how Close ends all  *)
(* of them.  What the task workers send is module Engine.                  *)
(*                                                                         *)
(* The parts share nothing but the process, so a behaviour gives work to   *)
(* one of them (load) and leaves the others idle until Close; the pipeline *)
(* is then not even started, the pool has one worker, and a sample of no   *)
(* records, which changes nothing, is left out.                            *)
(***************************************************************************)
EXTENDS ProvidePipeline, BlockstoreManager, ScoreLedger

CONSTANT Loads   \* which parts are given work, one at a time

VARIABLE load

svars == <<process, pipeline, lookups, ledgers, load>>

Init ==
  /\ ProcessInit /\ ProvideInit /\ LookupInit /\ LedgerInit
  /\ load \in Loads
  /\ provideEnabled => load = "provide"
  /\ load # "lookup" => \A w \in Workers \ {1} : worker[w] # Idle

\* Calls from outside.
Inputs ==
  \/ /\ load = "provide" /\ \E n \in Notifiers : NotifyNewBlocks(n)
     /\ UNCHANGED <<lookups, ledgers, load>>
  \/ /\ load = "lookup" /\ \E r \in Lookups : Lookup(r)
     /\ UNCHANGED <<pipeline, ledgers, load>>
  \/ /\ load = "score"
     /\ \E p \in Partners : \/ LedgerConnected(p) \/ LedgerDisconnected(p)
                            \/ \E x \in Exchanges : findOrCreate(x, p)
     /\ UNCHANGED <<pipeline, lookups, load>>

Provide ==
  /\ \/ \E n \in Notifiers : Notifier(n)
     \/ CollectorTakes \/ CollectorHands \/ CollectorExits \/ Spawner
     \/ \E k \in providing : ProvideEnds(k)
  /\ UNCHANGED <<lookups, ledgers, load>>

LookUp ==
  /\ (\E r \in Lookups : Caller(r)) \/ (\E w \in Workers : Worker(w)) \/ StopManager
  /\ UNCHANGED <<pipeline, ledgers, load>>

Score ==
  /\ \/ \E x \in Exchanges : AddBytes(x)
     \/ (ledgerMap # {} /\ Sample) \/ (\E u \in updates : ApplyUpdate(u)) \/ SampleEnds \/ SamplerExits
  /\ UNCHANGED <<pipeline, lookups, load>>

\* Every function started with px.Go has returned.
ChildrenDone == ProvideDone /\ LookupsDone /\ ledgerStop

CloseSteps ==
  \/ StopLedger /\ UNCHANGED <<pipeline, lookups, load>>
  \/ ((closing /\ CancelCtx) \/ ChildrenClosed(ChildrenDone)) /\ UNCHANGED <<pipeline, lookups, ledgers, load>>

Owner == (Close \/ CancelCtx) /\ UNCHANGED <<pipeline, lookups, ledgers, load>>

Work == Provide \/ LookUp \/ CloseSteps

Next == Inputs \/ Work \/ Score \/ Owner

\* Goroutines are scheduled, network.Provide returns (it has a timeout) and so
\* does the blockstore.  Each step of Work is one of finitely many that the calls
\* made so far lead to, so it is enough that one of them is taken while there
\* are any, which is less than fair scheduling.
Fairness == WF_svars(Work)

Spec == Init /\ [][Next]_svars /\ Fairness

----------------------------------------------------------------------------
(* Properties *)

\* Close returns, whatever the children are in the middle of: a task worker in
\* a lookup, a worker with a job, a collector with a full channel, the provide
\* worker without a token.
CloseReturns == closing ~> closed

\* Those who call the server return.  NotifyNewBlocks: full channels only delay
\* it, and when the server closes it waits for nothing that waits for it (if the
\* context given to New ends and nobody calls Close it may wait for ever: the
\* collector is gone and only the closing of the process would release it).  A
\* lookup: with more keys than workers, and when the manager stops before,
\* between or after the hand-overs.
CallersReturn ==
  /\ Notifying ~> ~Notifying \/ (ctxDone /\ ~closing)
  /\ LookingUp ~> ~LookingUp
=============================================================================
