------------------------- MODULE BlockstoreManager -------------------------
(***************************************************************************)
(* server/internal/decision/blockstoremanager.go: a pool of workers looks  *)
(* blocks up for the engine.  A lookup hands one job per key to the pool   *)
(* through an unbuffered channel, waits for the jobs it handed over, and   *)
(* gives up handing over when the manager stops.                           *)
(***************************************************************************)
EXTENDS Process, Integers, FiniteSets

CONSTANTS Cids,        \* block keys
          Stored,      \* the keys the blockstore has
          Lookups,     \* calls of getBlockSizes and getBlocks
          AskedFor,    \* AskedFor[r]: the keys r is called with
          CtxLookups,  \* those of the engine's task workers, whose context ends with the process
          MaxWorkers   \* the most workers the pool may have

ASSUME AskedForAssumption == AskedFor \in [Lookups -> SUBSET Cids]
ASSUME WorkersAssumption == MaxWorkers \in Nat \ {0}
\* NoJob is nobody's job.
ASSUME LookupsAssumption == "none" \notin Lookups

VARIABLES
  stopped,       \* stopChan is closed
  worker,        \* where each worker is and, if it has one, its job
  call,          \* where each lookup is
  todo,          \* keys without a job yet
  inFlight,      \* keys whose job was handed over and has not ended (the WaitGroup)
  res,           \* keys found
  err,           \* addJob failed
  pendingGauge,
  activeGauge

gauges == <<pendingGauge, activeGauge>>
lookups == <<stopped, worker, call, todo, inFlight, res, err, gauges>>

Workers == 1..MaxWorkers
NoJob == [by |-> "none"]
Job(r, c) == [by |-> r, key |-> c]
At(place, job) == [at |-> place, job |-> job]
Idle == At("select", NoJob)

\* start() has started some number of workers.
LookupInit ==
  /\ stopped = FALSE
  /\ \E workerCount \in Workers :
       worker = [w \in Workers |-> IF w <= workerCount THEN Idle ELSE At("exited", NoJob)]
  /\ call = [r \in Lookups |-> "none"]
  /\ todo = [r \in Lookups |-> {}]
  /\ inFlight = [r \in Lookups |-> {}]
  /\ res = [r \in Lookups |-> {}]
  /\ err = [r \in Lookups |-> FALSE]
  /\ pendingGauge = 0
  /\ activeGauge = 0

----------------------------------------------------------------------------
(* Callers *)

\* getBlockSizes or getBlocks.
Lookup(r) ==
  /\ call[r] = "none"
  /\ call' = [call EXCEPT ![r] = "adding"]
  /\ todo' = [todo EXCEPT ![r] = AskedFor[r]]
  /\ UNCHANGED <<process, stopped, worker, inFlight, res, err, gauges>>

\* addJob meets a worker that waits for a job; a select with several ready
\* cases may choose this one even when the manager is stopping.
AddJob(r, c, w) ==
  /\ call[r] = "adding" /\ c \in todo[r]
  /\ worker[w] = Idle
  /\ worker' = [worker EXCEPT ![w] = At("taken", Job(r, c))]
  /\ todo' = [todo EXCEPT ![r] = @ \ {c}]
  /\ inFlight' = [inFlight EXCEPT ![r] = @ \cup {c}]
  /\ call' = [call EXCEPT ![r] = "counting"]
  /\ UNCHANGED <<process, stopped, res, err, gauges>>

\* addJob counts the job after handing it over; the worker may be done by then.
CountPending(r) ==
  /\ call[r] = "counting"
  /\ pendingGauge' = pendingGauge + 1
  /\ call' = [call EXCEPT ![r] = "adding"]
  /\ UNCHANGED <<process, stopped, worker, todo, inFlight, res, err, activeGauge>>

AddJobFails_CtxOnly(r) ==
  /\ call[r] = "adding" /\ todo[r] # {}
  /\ r \in CtxLookups /\ ctxDone
  /\ err' = [err EXCEPT ![r] = TRUE]
  /\ todo' = [todo EXCEPT ![r] = {}]
  /\ UNCHANGED <<process, stopped, worker, call, inFlight, res, gauges>>

\* addJob fails: the loop over the keys ends.
AddJobFails(r) ==
  /\ call[r] = "adding" /\ todo[r] # {}
  /\ stopped \/ (r \in CtxLookups /\ ctxDone)
  /\ err' = [err EXCEPT ![r] = TRUE]
  /\ todo' = [todo EXCEPT ![r] = {}]
  /\ UNCHANGED <<process, stopped, worker, call, inFlight, res, gauges>>

Return_OnError(r) ==
  /\ call[r] = "adding" /\ todo[r] = {}
  /\ inFlight[r] = {} \/ err[r]
  /\ call' = [call EXCEPT ![r] = "returned"]
  /\ UNCHANGED <<process, stopped, worker, todo, inFlight, res, err, gauges>>

\* jobPerKey waits for the jobs it handed over, after an error as well.
Return(r) ==
  /\ call[r] = "adding" /\ todo[r] = {}
  /\ inFlight[r] = {}
  /\ call' = [call EXCEPT ![r] = "returned"]
  /\ UNCHANGED <<process, stopped, worker, todo, inFlight, res, err, gauges>>

----------------------------------------------------------------------------
(* Workers *)

StartJob(w) ==
  /\ worker[w].at = "taken"
  /\ worker' = [worker EXCEPT ![w].at = "running"]
  /\ pendingGauge' = pendingGauge - 1
  /\ activeGauge' = activeGauge + 1
  /\ UNCHANGED <<process, stopped, call, todo, inFlight, res, err>>

\* The job: a key that is not found, or fails, is left out of the result.
RunJob(w) ==
  /\ worker[w].at = "running"
  /\ LET r == worker[w].job.by
         c == worker[w].job.key
     IN /\ res' = [res EXCEPT ![r] = @ \cup ({c} \cap Stored)]
        /\ inFlight' = [inFlight EXCEPT ![r] = @ \ {c}]
  /\ worker' = [worker EXCEPT ![w] = At("ran", NoJob)]
  /\ UNCHANGED <<process, stopped, call, todo, err, gauges>>

EndJob(w) ==
  /\ worker[w].at = "ran"
  /\ activeGauge' = activeGauge - 1
  /\ worker' = [worker EXCEPT ![w] = Idle]
  /\ UNCHANGED <<process, stopped, call, todo, inFlight, res, err, pendingGauge>>

WorkerExit(w) ==
  /\ worker[w] = Idle /\ stopped
  /\ worker' = [worker EXCEPT ![w] = At("exited", NoJob)]
  /\ UNCHANGED <<process, stopped, call, todo, inFlight, res, err, gauges>>

----------------------------------------------------------------------------
(* The child of the process that stops the pool *)

StopManager_AfterClosed ==
  /\ closed /\ ~stopped
  /\ stopped' = TRUE
  /\ UNCHANGED <<process, worker, call, todo, inFlight, res, err, gauges>>

StopManager ==
  /\ closing /\ ~stopped
  /\ stopped' = TRUE
  /\ UNCHANGED <<process, worker, call, todo, inFlight, res, err, gauges>>

\* bsm.stop has returned, and no task worker is in a lookup.
LookupsDone ==
  /\ stopped /\ \A w \in Workers : worker[w].at = "exited"
  /\ \A r \in CtxLookups : call[r] \in {"none", "returned"}

\* The steps of one lookup and of one worker.
Caller(r) ==
  \/ CountPending(r) \/ AddJobFails(r) \/ Return(r)
  \/ \E c \in Cids, w \in Workers : AddJob(r, c, w)
Worker(w) == StartJob(w) \/ RunJob(w) \/ EndJob(w) \/ WorkerExit(w)

----------------------------------------------------------------------------
(* Properties *)

LookingUp == \E r \in Lookups : call[r] \notin {"none", "returned"}

\* A lookup that returned without an error has found every stored key it was
\* asked for, and after any return no worker is left that would write to the
\* result the caller now reads (jobPerKey waits for its jobs also after addJob
\* failed).  With no lookup and no job under way the two gauges are back at
\* zero, although a job may start, and end, before it was counted as pending.
LookupsSettled ==
  /\ \A r \in Lookups : call[r] = "returned" =>
       /\ ~err[r] => res[r] = AskedFor[r] \cap Stored
       /\ \A w \in Workers : worker[w].job.by # r
  /\ ~LookingUp /\ (\A w \in Workers : worker[w].job = NoJob)
       => pendingGauge = 0 /\ activeGauge = Cardinality({w \in Workers : worker[w].at = "ran"})

=============================================================================
