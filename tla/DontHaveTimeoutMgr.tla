------------------------- MODULE DontHaveTimeoutMgr -------------------------
(***************************************************************************)
(* client/internal/messagequeue/donthavetimeoutmgr.go: simulates a         *)
(* DONT_HAVE when a peer does not answer a want within a timeout that      *)
(* follows the latency of the peer.                                        *)
(*                                                                         *)
(* Time is a number of ticks.  An entry carries its age (clock.Since(sent))*)
(* and the timer the time it has left.  An action is one critical section  *)
(* of dhtm.lk.  Names are kept apart from those of MessageQueue, the other *)
(* component of the package.                                               *)
(***************************************************************************)
EXTENDS Integers, Sequences, FiniteSets

CONSTANTS
  Keys,
  defaultTimeout, maxTimeout, maxExpectedWantProcessTime,
  pingLatencyMultiplier, messageLatencyMultiplier,
  MaxLatency,   \* bound on the latencies measured
  MaxQueue      \* bound on the length of the queue

ASSUME TimesAssumption ==
  /\ {defaultTimeout, maxTimeout, maxExpectedWantProcessTime, pingLatencyMultiplier,
      messageLatencyMultiplier, MaxLatency, MaxQueue} \subseteq Nat
  /\ 0 < defaultTimeout /\ defaultTimeout <= maxTimeout

NoTimer == -1
Latencies == 0..MaxLatency

VARIABLES
  activeWants,    \* keys of the map
  wantQueue,      \* oldest first: the key, the age, and whether still active
  timeout,
  samples,        \* 0, 1, or 2 for more
  latency,        \* messageLatency.latency
  started,        \* "no", "pinging" or "yes"
  timer,          \* time left, or NoTimer if it is not running
  fired,          \* a value is in the timer's channel
  firing,         \* sets of expired keys that fireTimeout is about to report
  running         \* dhtm.ctx is not done

tvars == <<activeWants, wantQueue, timeout, samples, latency, started, timer, fired, firing, running>>

TInit ==
  /\ activeWants = {} /\ wantQueue = <<>>
  /\ timeout = defaultTimeout
  /\ samples = 0 /\ latency = 0
  /\ started = "no"
  /\ timer = NoTimer /\ fired = FALSE /\ firing = {}
  /\ running = TRUE

Min(a, b) == IF a < b THEN a ELSE b

\* What checkForTimeouts leaves in the queue: it stops at the first entry
\* that is active and within the timeout.
Kept(queue, t) ==
  LET stops == {i \in DOMAIN queue : queue[i].state = "active" /\ queue[i].age < t}
  IN  IF stops = {} THEN <<>>
      ELSE SubSeq(queue, CHOOSE i \in stops : \A j \in stops : i <= j, Len(queue))

\* The keys it takes for expired.
Expired(queue, t) ==
  LET gone == 1..(Len(queue) - Len(Kept(queue, t)))
  IN  {queue[i].c : i \in {j \in gone : queue[j].state = "active"}}

\* With timeout t, on the given queue and active keys.
checkForTimeouts(t, active, queue) ==
  LET kept == Kept(queue, t)
      expired == Expired(queue, t)
  IN  /\ wantQueue' = kept
      /\ activeWants' = active \ expired
      /\ firing' = IF expired = {} THEN firing ELSE firing \cup {expired}
      /\ timer' = IF kept = <<>> \/ ~running THEN timer ELSE t - kept[1].age

calculateTimeoutFromPingLatency(l) == Min(maxTimeout, maxExpectedWantProcessTime + pingLatencyMultiplier * l)
calculateTimeoutFromMessageLatency(l) == Min(maxTimeout, messageLatencyMultiplier * l)

\* alpha is 1 for the first sample and 1/2 from then on.
ewma(elapsed) == IF samples = 0 THEN elapsed ELSE (elapsed + latency) \div 2

----------------------------------------------------------------------------
Start ==
  /\ started = "no"
  /\ \E l \in Latencies :
       IF l > 0 THEN started' = "yes" /\ timeout' = calculateTimeoutFromPingLatency(l)
                ELSE started' = "pinging" /\ UNCHANGED timeout
  /\ UNCHANGED <<activeWants, wantQueue, samples, latency, timer, fired, firing, running>>

\* measurePingLatency: the ping is answered, or fails.
PingAnswered ==
  /\ started = "pinging"
  /\ started' = "yes"
  /\ IF samples > 0 THEN UNCHANGED <<timeout, activeWants, wantQueue, timer, firing>>
     ELSE \E l \in Latencies :
            /\ timeout' = calculateTimeoutFromPingLatency(l)
            /\ checkForTimeouts(timeout', activeWants, wantQueue)
  /\ UNCHANGED <<samples, latency, fired, running>>

PingFails ==
  /\ started = "pinging"
  /\ started' = "yes"
  /\ UNCHANGED <<activeWants, wantQueue, timeout, samples, latency, timer, fired, firing, running>>

Rechecks_Never(old, new) == FALSE

\* The timeout has decreased.
Rechecks(old, new) == new < old

UpdateMessageLatency(elapsed) ==
  /\ started # "no"
  /\ samples' = Min(2, samples + 1)
  /\ latency' = ewma(elapsed)
  /\ timeout' = calculateTimeoutFromMessageLatency(latency')
  /\ IF Rechecks(timeout, timeout') THEN checkForTimeouts(timeout', activeWants, wantQueue)
     ELSE UNCHANGED <<activeWants, wantQueue, timer, firing>>
  /\ UNCHANGED <<started, fired, running>>

NewEntry(c) == [c |-> c, age |-> 0, state |-> "active"]

Enqueued(queue, c) == Append(queue, NewEntry(c))

\* The message queue starts the manager before it sends anything.
AddPending(c) ==
  /\ started # "no" /\ Len(wantQueue) < MaxQueue
  /\ c \notin activeWants
  /\ LET queue == Enqueued(wantQueue, c)
     IN  IF activeWants = {} THEN checkForTimeouts(timeout, {c}, queue)
         ELSE /\ wantQueue' = queue
              /\ activeWants' = activeWants \cup {c}
              /\ UNCHANGED <<timer, firing>>
  /\ UNCHANGED <<timeout, samples, latency, started, fired, running>>

CancelPending_KeepsEntry(ks) ==
  /\ ks \cap activeWants # {}
  /\ activeWants' = activeWants \ ks
  /\ UNCHANGED <<wantQueue, timeout, samples, latency, started, timer, fired, firing, running>>

CancelPending(ks) ==
  /\ ks \cap activeWants # {}
  /\ wantQueue' = [i \in DOMAIN wantQueue |->
       IF wantQueue[i].c \in ks THEN [wantQueue[i] EXCEPT !.state = "cancelled"] ELSE wantQueue[i]]
  /\ activeWants' = activeWants \ ks
  /\ UNCHANGED <<timeout, samples, latency, started, timer, fired, firing, running>>

TimeoutFires ==
  /\ timer = 0
  /\ timer' = NoTimer /\ fired' = TRUE
  /\ UNCHANGED <<activeWants, wantQueue, timeout, samples, latency, started, firing, running>>

consumeTimeouts ==
  /\ fired /\ running
  /\ fired' = FALSE
  /\ checkForTimeouts(timeout, activeWants, wantQueue)
  /\ UNCHANGED <<timeout, samples, latency, started, running>>

\* onDontHaveTimeout is called, unless the manager was shut down.
fireTimeout ==
  /\ \E pending \in firing : firing' = firing \ {pending}
  /\ UNCHANGED <<activeWants, wantQueue, timeout, samples, latency, started, timer, fired, running>>

ShutdownTimeouts ==
  /\ running
  /\ running' = FALSE /\ timer' = NoTimer
  /\ UNCHANGED <<activeWants, wantQueue, timeout, samples, latency, started, fired, firing>>

\* Time passes, once timers that are due have been served: the goroutine
\* behind a timer is assumed to run within a tick.
Tick ==
  /\ running /\ timer # 0 /\ ~fired
  /\ wantQueue' = [i \in DOMAIN wantQueue |-> [wantQueue[i] EXCEPT !.age = @ + 1]]
  /\ timer' = IF timer = NoTimer THEN timer ELSE timer - 1
  /\ UNCHANGED <<activeWants, timeout, samples, latency, started, fired, firing, running>>

TNext ==
  \/ Start \/ PingAnswered \/ PingFails
  \/ \E l \in Latencies : UpdateMessageLatency(l)
  \/ \E c \in Keys : AddPending(c)
  \/ \E ks \in SUBSET Keys : CancelPending(ks)
  \/ TimeoutFires \/ consumeTimeouts \/ fireTimeout \/ ShutdownTimeouts \/ Tick

TSpec == TInit /\ [][TNext]_tvars

----------------------------------------------------------------------------
(* Properties *)

ActiveAt(c) == {i \in DOMAIN wantQueue : wantQueue[i].c = c /\ wantQueue[i].state = "active"}

\* Whatever was cancelled and added again, the map has exactly the keys that
\* are active in the queue, each is active there once, and the queue is in the
\* order in which wants were sent, which is what lets checkForTimeouts stop
\* early.
QueueMatchesMap ==
  /\ \A c \in Keys : Cardinality(ActiveAt(c)) = IF c \in activeWants THEN 1 ELSE 0
  /\ \A i, j \in DOMAIN wantQueue : i < j => wantQueue[i].age >= wantQueue[j].age

\* No want waits longer than the timeout, although the timeout moves while it
\* waits and only one timer runs: every change of the timeout and every new
\* first want leaves the timer early enough.  The timeout itself stays within
\* maxTimeout.
NoneOverdue ==
  /\ timeout <= maxTimeout
  /\ running => \A i \in DOMAIN wantQueue :
       wantQueue[i].state = "active" => wantQueue[i].age <= timeout
=============================================================================
