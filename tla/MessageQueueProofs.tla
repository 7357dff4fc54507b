------------------------- MODULE MessageQueueProofs -------------------------
(***************************************************************************)
(* What the runs check of the package messagequeue, proved for all values  *)
(* of the constants: of MessageQueue for any set of keys and any size of   *)
(* messages, and of DontHaveTimeoutMgr for any keys, timeouts, multipliers *)
(* and latencies.                                                          *)
(***************************************************************************)
EXTENDS MessageQueue, DontHaveTimeoutMgr, FiniteSetTheorems, WellFoundedInduction, TLAPS

(* The timeout manager: its queue, its map and its timer *)

Entry == [c : Keys, age : Nat, state : {"active", "cancelled"}]

TimeoutTypes ==
  /\ activeWants \subseteq Keys /\ wantQueue \in Seq(Entry)
  /\ timeout \in 0..maxTimeout
  /\ samples \in 0..2 /\ latency \in Nat
  /\ timer \in Nat \cup {NoTimer}

\* Every active key has one active entry.
Matches(active, queue) ==
  /\ \A c \in Keys : c \in active <=> \E i \in DOMAIN queue : queue[i].c = c /\ queue[i].state = "active"
  /\ \A i, j \in DOMAIN queue :
       queue[i].c = queue[j].c /\ queue[i].state = "active" /\ queue[j].state = "active" => i = j

Ordered(queue) == \A i, j \in DOMAIN queue : i < j => queue[i].age >= queue[j].age

\* An active entry is looked at in time: the timer runs out no later than its
\* timeout, or has run out, no later than that, and is about to be served.
InTime(entry) ==
  \/ timer # NoTimer /\ entry.age + timer <= timeout
  \/ fired /\ entry.age <= timeout

TimeoutInv ==
  /\ TimeoutTypes
  /\ Matches(activeWants, wantQueue) /\ Ordered(wantQueue)
  /\ started = "no" => wantQueue = <<>>
  /\ running => \A i \in DOMAIN wantQueue : wantQueue[i].state = "active" => InTime(wantQueue[i])

-----------------------------------------------------------------------------
\* A set of positions has a first one.
LEMMA FirstExists ==
  ASSUME NEW S \in SUBSET Nat, S # {}
  PROVE  \E i \in S : \A j \in S : i <= j
<1>1. IsWellFoundedOn(OpToRel(<, Nat), Nat)
  BY NatLessThanWellFounded, Zenon
<1>2. PICK i \in S : \A j \in S : ~(<<j, i>> \in OpToRel(<, Nat))
  BY <1>1, WFMin, Zenon
<1>3. \A j \in S : ~(j < i)
  BY <1>2, Zenon DEF OpToRel
<1> QED BY <1>3

\* checkForTimeouts drops a prefix of the queue without an entry that is
\* active and within the timeout; the rest, if any, starts with such an entry.
LEMMA KeptIsSuffix ==
  ASSUME NEW queue \in Seq(Entry), NEW t \in Nat
  PROVE  \E n \in 0..Len(queue) :
           /\ Kept(queue, t) \in Seq(Entry) /\ Len(Kept(queue, t)) = Len(queue) - n
           /\ \A i \in 1..(Len(queue) - n) : Kept(queue, t)[i] = queue[i + n]
           /\ \A i \in 1..n : ~(queue[i].state = "active" /\ queue[i].age < t)
           /\ n < Len(queue) => queue[n + 1].state = "active" /\ queue[n + 1].age < t
<1> DEFINE stops == {i \in DOMAIN queue : queue[i].state = "active" /\ queue[i].age < t}
<1>0. DOMAIN queue = 1..Len(queue) /\ Len(queue) \in Nat
  OBVIOUS
<1>1. CASE stops = {}
  <2>1. Kept(queue, t) = <<>>
    BY <1>1 DEF Kept
  <2>2. \A i \in 1..Len(queue) : ~(queue[i].state = "active" /\ queue[i].age < t)
    BY <1>0, <1>1
  <2>3. PICK n \in 0..Len(queue) : n = Len(queue)
    <3>1. Len(queue) \in 0..Len(queue)
      BY <1>0
    <3> QED BY <3>1
  <2>4. Kept(queue, t) \in Seq(Entry) /\ Len(Kept(queue, t)) = Len(queue) - n
    BY <1>0, <2>1, <2>3
  <2>5. \A i \in 1..(Len(queue) - n) : Kept(queue, t)[i] = queue[i + n]
    BY <1>0, <2>3
  <2> QED BY <2>2, <2>3, <2>4, <2>5
<1>2. CASE stops # {}
  <2> DEFINE m == CHOOSE i \in stops : \A j \in stops : i <= j
  <2>1. m \in stops /\ \A j \in stops : m <= j
    <3>1. stops \in SUBSET Nat
      BY <1>0
    <3>2. \E i \in stops : \A j \in stops : i <= j
      BY <1>2, <3>1, FirstExists, Zenon
    <3> QED BY <3>2
  <2>2. Kept(queue, t) = SubSeq(queue, m, Len(queue))
    BY <1>2, Zenon DEF Kept
  <2>3. m \in 1..Len(queue) /\ queue[m].state = "active" /\ queue[m].age < t
    BY <1>0, <2>1
  <2>4. ASSUME NEW i \in 1..(m - 1) PROVE ~(queue[i].state = "active" /\ queue[i].age < t)
    <3>1. i \in DOMAIN queue /\ ~(m <= i)
      BY <1>0, <2>3
    <3>2. i \notin stops
      BY <2>1, <3>1, Zenon
    <3> QED BY <3>1, <3>2
  <2> HIDE DEF m, stops
  <2>5. PICK n \in 0..Len(queue) : n = m - 1
    BY <1>0, <2>3
  <2>6. /\ SubSeq(queue, m, Len(queue)) \in Seq(Entry) /\ Len(SubSeq(queue, m, Len(queue))) = Len(queue) - n
        /\ \A i \in 1..(Len(queue) - n) : SubSeq(queue, m, Len(queue))[i] = queue[i + n]
    BY <1>0, <2>3, <2>5
  <2>7. m = n + 1
    BY <1>0, <2>3, <2>5
  <2> QED BY <2>2, <2>3, <2>4, <2>5, <2>6, <2>7, Zenon
<1> QED BY <1>1, <1>2

\* checkForTimeouts, with a timeout t, keeps map and queue together and sets
\* the timer for what is left.
LEMMA CheckKeeps ==
  ASSUME TimeoutTypes, NEW t \in 0..maxTimeout, timeout' = t, running' = running,
         NEW active \in SUBSET Keys, NEW queue \in Seq(Entry), Matches(active, queue), Ordered(queue),
         checkForTimeouts(t, active, queue)
  PROVE  /\ wantQueue' \in Seq(Entry) /\ activeWants' \subseteq Keys /\ timer' \in Nat \cup {NoTimer}
         /\ Matches(activeWants', wantQueue') /\ Ordered(wantQueue')
         /\ running' => \A i \in DOMAIN wantQueue' : wantQueue'[i].state = "active" => InTime(wantQueue[i])'
<1> DEFINE kept == Kept(queue, t)
           expired == Expired(queue, t)
<1>0. t \in Nat /\ Len(queue) \in Nat /\ DOMAIN queue = 1..Len(queue)
  BY TimesAssumption
<1>1. /\ wantQueue' = kept /\ activeWants' = active \ expired
      /\ timer' = IF kept = <<>> \/ ~running THEN timer ELSE t - kept[1].age
  BY DEF checkForTimeouts
<1>2. PICK n \in 0..Len(queue) :
        /\ kept \in Seq(Entry) /\ Len(kept) = Len(queue) - n
        /\ \A i \in 1..(Len(queue) - n) : kept[i] = queue[i + n]
        /\ \A i \in 1..n : ~(queue[i].state = "active" /\ queue[i].age < t)
        /\ n < Len(queue) => queue[n + 1].state = "active" /\ queue[n + 1].age < t
  BY <1>0, KeptIsSuffix, Zenon
<1>3. expired = {queue[i].c : i \in {j \in 1..n : queue[j].state = "active"}}
  <2>1. Len(queue) - Len(kept) = n
    BY <1>0, <1>2
  <2> QED BY <2>1 DEF Expired
<1> HIDE DEF kept, expired
<1>4. DOMAIN kept = 1..(Len(queue) - n) /\ \A i \in 1..(Len(queue) - n) : i + n \in DOMAIN queue
  BY <1>0, <1>2
<1>5. Ordered(kept)
  <2> SUFFICES ASSUME NEW i \in DOMAIN kept, NEW j \in DOMAIN kept, i < j PROVE kept[i].age >= kept[j].age
    BY DEF Ordered
  <2>1. i + n \in DOMAIN queue /\ j + n \in DOMAIN queue /\ kept[i] = queue[i + n] /\ kept[j] = queue[j + n]
    BY <1>2, <1>4, Zenon
  <2>2. i + n < j + n
    BY <1>0, <1>4
  <2> QED BY <2>1, <2>2 DEF Ordered
<1>6. Matches(active \ expired, kept)
  <2>1. ASSUME NEW i \in DOMAIN kept, NEW j \in DOMAIN kept,
               kept[i].c = kept[j].c, kept[i].state = "active", kept[j].state = "active"
        PROVE  i = j
    <3>1. i + n \in DOMAIN queue /\ j + n \in DOMAIN queue /\ kept[i] = queue[i + n] /\ kept[j] = queue[j + n]
      BY <1>2, <1>4
    <3>2. i + n = j + n
      BY <2>1, <3>1 DEF Matches
    <3> QED BY <1>0, <1>4, <3>2
  <2>2. ASSUME NEW c \in Keys, c \in active \ expired
        PROVE  \E i \in DOMAIN kept : kept[i].c = c /\ kept[i].state = "active"
    <3>1. PICK i \in DOMAIN queue : queue[i].c = c /\ queue[i].state = "active"
      BY <2>2 DEF Matches
    <3>2. i \notin 1..n
      BY <1>3, <2>2, <3>1
    <3>3. i - n \in DOMAIN kept /\ (i - n) + n = i
      BY <1>0, <1>4, <3>2
    <3>4. kept[i - n] = queue[i]
      BY <1>2, <1>4, <3>3
    <3> QED BY <3>1, <3>3, <3>4
  <2>3. ASSUME NEW c \in Keys, NEW i \in DOMAIN kept, kept[i].c = c, kept[i].state = "active"
        PROVE  c \in active \ expired
    <3>1. i + n \in DOMAIN queue /\ kept[i] = queue[i + n] /\ i + n \notin 1..n
      BY <1>0, <1>2, <1>4
    <3>2. c \in active
      BY <2>3, <3>1 DEF Matches
    <3>3. ASSUME c \in expired PROVE FALSE
      <4>1. PICK j \in 1..n : queue[j].state = "active" /\ queue[j].c = c
        BY <1>3, <3>3
      <4>2. j \in DOMAIN queue
        BY <1>0
      <4>3. j = i + n
        BY <2>3, <3>1, <4>1, <4>2 DEF Matches
      <4> QED BY <3>1, <4>3
    <3> QED BY <3>2, <3>3
  <2> QED BY <2>1, <2>2, <2>3 DEF Matches
<1>7. /\ timer' \in Nat \cup {NoTimer}
      /\ running' => \A i \in DOMAIN kept : timer' # NoTimer /\ kept[i].age + timer' <= t
  <2>1. CASE kept = <<>>
    BY <1>1, <2>1 DEF TimeoutTypes
  <2>2. CASE kept # <<>>
    <3>1. 1 \in DOMAIN kept /\ n < Len(queue) /\ kept[1] = queue[n + 1]
      BY <1>0, <1>2, <1>4, <2>2
    <3>2. kept[1].age \in Nat /\ kept[1].age < t /\ \A i \in DOMAIN kept : kept[i].age \in Nat
      <4>1. \A i \in DOMAIN kept : kept[i] \in Entry
        BY <1>2
      <4> QED BY <1>2, <3>1, <4>1 DEF Entry
    <3>3. ASSUME NEW i \in DOMAIN kept PROVE kept[i].age <= kept[1].age
      <4>1. CASE i = 1
        BY <3>2, <4>1
      <4>2. CASE i # 1
        <5>1. 1 < i
          BY <1>0, <1>4, <4>2
        <5> QED BY <1>5, <3>1, <3>2, <5>1 DEF Ordered
      <4> QED BY <4>1, <4>2
    <3>4. CASE ~running
      BY <1>1, <3>4 DEF TimeoutTypes
    <3>5. CASE running
      <4>1. timer' = t - kept[1].age
        BY <1>1, <2>2, <3>5
      <4>2. timer' \in Nat /\ timer' # NoTimer
        BY <1>0, <3>2, <4>1 DEF NoTimer
      <4>3. ASSUME NEW i \in DOMAIN kept PROVE kept[i].age + timer' <= t
        BY <1>0, <3>2, <3>3, <4>1
      <4> QED BY <4>2, <4>3
    <3> QED BY <3>4, <3>5
  <2> QED BY <2>1, <2>2
<1>8. running' => \A i \in DOMAIN wantQueue' : InTime(wantQueue[i])'
  BY <1>1, <1>7 DEF InTime
<1> QED BY <1>1, <1>2, <1>5, <1>6, <1>7, <1>8

-----------------------------------------------------------------------------
\* The new manager has an empty queue.
LEMMA InitTimeouts == TInit => TimeoutInv
<1> SUFFICES ASSUME TInit PROVE TimeoutInv
  OBVIOUS
<1>1. TimeoutTypes
  BY TimesAssumption DEF TInit, TimeoutTypes, NoTimer
<1>2. Matches(activeWants, wantQueue) /\ Ordered(wantQueue)
  BY DEF TInit, Matches, Ordered
<1> QED BY <1>1, <1>2 DEF TimeoutInv, TInit

\* The timeouts that latencies lead to are within the limit.
LEMMA TimeoutsLimited ==
  ASSUME NEW l \in Nat
  PROVE  /\ calculateTimeoutFromPingLatency(l) \in 0..maxTimeout
         /\ calculateTimeoutFromMessageLatency(l) \in 0..maxTimeout
<1>1. /\ maxTimeout \in Nat /\ maxExpectedWantProcessTime \in Nat
      /\ pingLatencyMultiplier \in Nat /\ messageLatencyMultiplier \in Nat
  BY TimesAssumption
<1>2. pingLatencyMultiplier * l \in Nat /\ messageLatencyMultiplier * l \in Nat
  BY <1>1
<1> QED BY <1>1, <1>2 DEF calculateTimeoutFromPingLatency, calculateTimeoutFromMessageLatency, Min

\* What is left when the queue, the timer and the timeout are not touched, or
\* the timeout only grows.
LEMMA QueueUntouched ==
  ASSUME TimeoutInv, TimeoutTypes', UNCHANGED <<activeWants, wantQueue, timer>>, fired => fired',
         running' => running, started' = "no" => started = "no",
         timeout <= timeout' \/ wantQueue = <<>>
  PROVE  TimeoutInv'
<1>1. ASSUME running', NEW i \in DOMAIN wantQueue, wantQueue[i].state = "active" PROVE InTime(wantQueue[i])'
  <2>1. InTime(wantQueue[i]) /\ timeout <= timeout'
    BY <1>1 DEF TimeoutInv
  <2>2. wantQueue[i].age \in Nat /\ timer \in Nat \cup {NoTimer} /\ timeout \in Nat /\ timeout' \in Nat
    <3>1. wantQueue[i] \in Entry
      BY DEF TimeoutInv, TimeoutTypes
    <3> QED BY <3>1, TimesAssumption DEF TimeoutInv, TimeoutTypes, Entry
  <2> QED BY <2>1, <2>2 DEF InTime, NoTimer
<1> QED BY <1>1 DEF TimeoutInv

\* Start comes before anything is queued, so its timeout concerns no want.
LEMMA StartIInv == ASSUME TimeoutInv, Start PROVE TimeoutInv'
<1>1. timeout' \in 0..maxTimeout
  <2>1. \A l \in Latencies : calculateTimeoutFromPingLatency(l) \in 0..maxTimeout
    BY TimeoutsLimited, TimesAssumption DEF Latencies
  <2> QED BY <2>1 DEF Start, TimeoutInv, TimeoutTypes
<1>2. TimeoutTypes'
  BY <1>1 DEF Start, TimeoutInv, TimeoutTypes
<1>3. started' # "no" /\ wantQueue = <<>>
  BY DEF Start, TimeoutInv
<1> QED BY <1>2, <1>3, QueueUntouched DEF Start

\* A step that checks for timeouts with the new timeout.
LEMMA CheckedIInv ==
  ASSUME TimeoutInv, started' # "no", running' = running,
         timeout' \in 0..maxTimeout, samples' \in 0..2, latency' \in Nat,
         NEW active \in SUBSET Keys, NEW queue \in Seq(Entry), Matches(active, queue), Ordered(queue),
         checkForTimeouts(timeout', active, queue)
  PROVE  TimeoutInv'
<1>1. PICK t \in 0..maxTimeout : t = timeout'
  OBVIOUS
<1>2. /\ wantQueue' \in Seq(Entry) /\ activeWants' \subseteq Keys /\ timer' \in Nat \cup {NoTimer}
      /\ Matches(activeWants', wantQueue') /\ Ordered(wantQueue')
      /\ running' => \A i \in DOMAIN wantQueue' : wantQueue'[i].state = "active" => InTime(wantQueue[i])'
  <2>1. TimeoutTypes /\ timeout' = t /\ checkForTimeouts(t, active, queue)
    BY <1>1 DEF TimeoutInv
  <2> QED BY <2>1, CheckKeeps, Zenon
<1>3. TimeoutTypes'
  BY <1>2 DEF TimeoutTypes
<1> QED BY <1>2, <1>3 DEF TimeoutInv

\* measurePingLatency: the first ping resets the timeout and checks at once.
LEMMA PingIInv == ASSUME TimeoutInv, PingAnswered \/ PingFails PROVE TimeoutInv'
<1>1. CASE UNCHANGED <<activeWants, wantQueue, timeout, timer>>
  <2>1. TimeoutTypes' /\ started' # "no" /\ UNCHANGED <<fired, running>> /\ timeout \in Nat
    <3>1. started' = "yes" /\ UNCHANGED <<samples, latency, fired, running>>
      BY Zenon DEF PingAnswered, PingFails
    <3>2. TimeoutTypes' /\ TimeoutTypes
      BY <1>1, <3>1, Zenon DEF TimeoutInv, TimeoutTypes
    <3>3. timeout \in Nat
      BY <3>2, TimesAssumption DEF TimeoutTypes
    <3> QED BY <3>1, <3>2, <3>3
  <2> QED BY <1>1, <2>1, QueueUntouched
<1>2. CASE PingAnswered /\ samples = 0
  <2>1. PICK l \in Latencies : /\ timeout' = calculateTimeoutFromPingLatency(l)
                               /\ checkForTimeouts(timeout', activeWants, wantQueue)
    BY <1>2 DEF PingAnswered
  <2>2. timeout' \in 0..maxTimeout
    BY <2>1, TimeoutsLimited, TimesAssumption DEF Latencies
  <2>3. started' # "no" /\ running' = running /\ samples' \in 0..2 /\ latency' \in Nat
    BY <1>2 DEF PingAnswered, TimeoutInv, TimeoutTypes
  <2>4. /\ activeWants \in SUBSET Keys /\ wantQueue \in Seq(Entry)
        /\ Matches(activeWants, wantQueue) /\ Ordered(wantQueue)
    BY DEF TimeoutInv, TimeoutTypes
  <2> QED BY <2>1, <2>2, <2>3, <2>4, CheckedIInv
<1>3. samples \in 0..2
  BY DEF TimeoutInv, TimeoutTypes
<1> QED BY <1>1, <1>2, <1>3 DEF PingAnswered, PingFails

\* UpdateMessageLatency checks again when the timeout decreased; a timeout that
\* grew leaves the timer early enough.
LEMMA UpdateIInv == ASSUME TimeoutInv, NEW l \in Latencies, UpdateMessageLatency(l) PROVE TimeoutInv'
<1>1. latency' \in Nat
  <2>1. l \in Nat /\ latency \in Nat
    BY TimesAssumption DEF Latencies, TimeoutInv, TimeoutTypes
  <2> QED BY <2>1 DEF UpdateMessageLatency, ewma
<1>2. timeout' \in 0..maxTimeout
  BY <1>1, TimeoutsLimited DEF UpdateMessageLatency
<1>3. samples' \in 0..2 /\ started' = started /\ started # "no" /\ UNCHANGED <<fired, running>>
  BY DEF UpdateMessageLatency, Min, TimeoutInv, TimeoutTypes
<1>4. timeout \in Nat /\ timeout' \in Nat
  BY <1>2, TimesAssumption DEF TimeoutInv, TimeoutTypes
<1>5. CASE timeout' < timeout
  <2>1. checkForTimeouts(timeout', activeWants, wantQueue)
    BY <1>5 DEF UpdateMessageLatency, Rechecks
  <2>2. /\ activeWants \in SUBSET Keys /\ wantQueue \in Seq(Entry)
        /\ Matches(activeWants, wantQueue) /\ Ordered(wantQueue)
    BY DEF TimeoutInv, TimeoutTypes
  <2> QED BY <1>1, <1>2, <1>3, <2>1, <2>2, CheckedIInv
<1>6. CASE ~(timeout' < timeout)
  <2>1. UNCHANGED <<activeWants, wantQueue, timer>>
    BY <1>6 DEF UpdateMessageLatency, Rechecks
  <2>2. TimeoutTypes'
    BY <1>1, <1>2, <1>3, <2>1 DEF TimeoutInv, TimeoutTypes
  <2>3. timeout <= timeout'
    BY <1>4, <1>6
  <2> QED BY <1>3, <2>1, <2>2, <2>3, QueueUntouched
<1> QED BY <1>5, <1>6

\* A key that is not active gets its one active entry at the end of the queue.
LEMMA EnqueuedKeeps ==
  ASSUME TimeoutInv, NEW c \in Keys, c \notin activeWants
  PROVE  /\ Enqueued(wantQueue, c) \in Seq(Entry)
         /\ Matches(activeWants \cup {c}, Enqueued(wantQueue, c)) /\ Ordered(Enqueued(wantQueue, c))
<1> DEFINE queue == Enqueued(wantQueue, c)
           last == Len(wantQueue) + 1
<1>0. wantQueue \in Seq(Entry)
  BY Zenon DEF TimeoutInv, TimeoutTypes
<1>1. wantQueue \in Seq(Entry) /\ Len(wantQueue) \in Nat /\ DOMAIN wantQueue = 1..Len(wantQueue)
  BY <1>0
<1>2. NewEntry(c) \in Entry /\ NewEntry(c).c = c /\ NewEntry(c).age = 0 /\ NewEntry(c).state = "active"
  BY DEF NewEntry, Entry
<1>3. /\ queue \in Seq(Entry) /\ DOMAIN queue = 1..last
      /\ queue[last] = NewEntry(c) /\ \A i \in DOMAIN wantQueue : queue[i] = wantQueue[i]
  BY <1>1, <1>2 DEF Enqueued
<1>4. \A i \in DOMAIN queue : i = last \/ i \in DOMAIN wantQueue
  BY <1>1, <1>3
<1>5. last \in DOMAIN queue /\ \A i \in DOMAIN wantQueue : i \in DOMAIN queue
  BY <1>1, <1>3
<1>6. \A i \in DOMAIN wantQueue : ~(wantQueue[i].c = c /\ wantQueue[i].state = "active")
  BY DEF TimeoutInv, Matches
<1> HIDE DEF queue, last
<1>7. ASSUME NEW d \in Keys
      PROVE  d \in activeWants \cup {c} <=> \E i \in DOMAIN queue : queue[i].c = d /\ queue[i].state = "active"
  <2>1. d \in activeWants <=> \E i \in DOMAIN wantQueue : wantQueue[i].c = d /\ wantQueue[i].state = "active"
    BY DEF TimeoutInv, Matches
  <2> QED BY <1>2, <1>3, <1>4, <1>5, <2>1
<1>8. ASSUME NEW i \in DOMAIN queue, NEW j \in DOMAIN queue,
             queue[i].c = queue[j].c, queue[i].state = "active", queue[j].state = "active"
      PROVE  i = j
  <2>1. CASE i \in DOMAIN wantQueue /\ j \in DOMAIN wantQueue
    BY <1>3, <1>8, <2>1 DEF TimeoutInv, Matches
  <2> QED BY <1>2, <1>3, <1>4, <1>6, <1>8, <2>1
<1>9. ASSUME NEW i \in DOMAIN queue, NEW j \in DOMAIN queue, i < j PROVE queue[i].age >= queue[j].age
  <2>1. i \in DOMAIN wantQueue
    BY <1>1, <1>3, <1>9 DEF last
  <2>2. CASE j \in DOMAIN wantQueue
    BY <1>3, <1>9, <2>1, <2>2 DEF TimeoutInv, Ordered
  <2>3. CASE j = last
    <3>1. wantQueue[i].age \in Nat
      <4>1. wantQueue[i] \in Entry
        BY <1>1, <2>1
      <4> QED BY <4>1 DEF Entry
    <3> QED BY <1>2, <1>3, <2>1, <2>3, <3>1
  <2> QED BY <1>4, <2>2, <2>3
<1> QED BY <1>3, <1>7, <1>8, <1>9, Zenon DEF Matches, Ordered, queue

\* AddPending: the first active want sets the timer; a later one is younger than
\* an active one the timer is already set for.
LEMMA AddPendingIInv == ASSUME TimeoutInv, NEW c \in Keys, AddPending(c) PROVE TimeoutInv'
<1> DEFINE queue == Enqueued(wantQueue, c)
<1>1. c \notin activeWants
  BY DEF AddPending
<1>2. queue \in Seq(Entry) /\ Matches(activeWants \cup {c}, queue) /\ Ordered(queue)
  BY <1>1, EnqueuedKeeps
<1>3. UNCHANGED <<timeout, samples, latency, started, fired, running>> /\ started # "no"
  BY DEF AddPending
<1>4. timeout \in 0..maxTimeout /\ samples \in 0..2 /\ latency \in Nat /\ activeWants \in SUBSET Keys
  BY DEF TimeoutInv, TimeoutTypes
<1>5. CASE activeWants = {}
  <2>1. checkForTimeouts(timeout', {c}, queue) /\ activeWants \cup {c} = {c}
    BY <1>3, <1>5 DEF AddPending
  <2> HIDE DEF queue
  <2> QED BY <1>2, <1>3, <1>4, <2>1, CheckedIInv
<1>6. CASE activeWants # {}
  <2>1. wantQueue' = queue /\ activeWants' = activeWants \cup {c} /\ timer' = timer
    BY <1>6 DEF AddPending
  <2>2. TimeoutTypes'
    BY <1>2, <1>3, <1>4, <2>1, Zenon DEF TimeoutTypes, TimeoutInv
  <2>3. ASSUME running', NEW i \in DOMAIN queue, queue[i].state = "active" PROVE InTime(wantQueue[i])'
    <3>0. wantQueue \in Seq(Entry)
      BY DEF TimeoutInv, TimeoutTypes
    <3>1. wantQueue \in Seq(Entry) /\ Len(wantQueue) \in Nat /\ DOMAIN wantQueue = 1..Len(wantQueue)
      BY <3>0
    <3>2. CASE i \in DOMAIN wantQueue
      <4>1. queue[i] = wantQueue[i]
        BY <3>1, <3>2 DEF Enqueued
      <4> QED BY <1>3, <2>1, <2>3, <3>2, <4>1, Zenon DEF TimeoutInv, InTime
    <3>3. CASE i = Len(wantQueue) + 1
      <4>1. queue[i].age = 0
        <5>1. queue[i] = NewEntry(c)
          BY <3>1, <3>3 DEF Enqueued
        <5> QED BY <5>1 DEF NewEntry
      <4>2. PICK j \in DOMAIN wantQueue : wantQueue[j].state = "active"
        BY <1>6 DEF TimeoutInv, TimeoutTypes, Matches
      <4>3. InTime(wantQueue[j])
        BY <1>3, <2>3, <4>2 DEF TimeoutInv
      <4>4. wantQueue[j].age \in Nat
        <5>1. wantQueue[j] \in Entry
          BY <3>1
        <5> QED BY <5>1 DEF Entry
      <4>5. timeout \in Nat /\ timer \in Nat \cup {NoTimer}
        BY <1>4, TimesAssumption DEF TimeoutInv, TimeoutTypes
      <4> HIDE DEF queue
      <4>6. (timer # NoTimer /\ 0 + timer <= timeout) \/ (fired /\ 0 <= timeout)
        BY <4>3, <4>4, <4>5 DEF InTime, NoTimer
      <4> QED BY <1>3, <2>1, <4>1, <4>6 DEF InTime
    <3>4. i \in DOMAIN wantQueue \/ i = Len(wantQueue) + 1
      BY <3>1 DEF Enqueued
    <3> QED BY <3>2, <3>3, <3>4
  <2> HIDE DEF queue
  <2>4. running' => \A i \in DOMAIN wantQueue' : wantQueue'[i].state = "active" => InTime(wantQueue[i])'
    BY <2>1, <2>3
  <2> QED BY <1>2, <1>3, <2>1, <2>2, <2>4, Zenon DEF TimeoutInv
<1> QED BY <1>5, <1>6

\* CancelPending takes the keys out of the map and marks their entries.
LEMMA CancelPendingIInv == ASSUME TimeoutInv, NEW ks \in SUBSET Keys, CancelPending(ks) PROVE TimeoutInv'
<1>1. wantQueue \in Seq(Entry) /\ Len(wantQueue) \in Nat /\ DOMAIN wantQueue = 1..Len(wantQueue)
  BY DEF TimeoutInv, TimeoutTypes
<1>2. \A i \in DOMAIN wantQueue : wantQueue[i] \in Entry
  BY <1>1
<1>3. wantQueue' = [i \in DOMAIN wantQueue |->
        IF wantQueue[i].c \in ks THEN [wantQueue[i] EXCEPT !.state = "cancelled"] ELSE wantQueue[i]]
  BY DEF CancelPending
<1>4. /\ DOMAIN wantQueue' = DOMAIN wantQueue
      /\ \A i \in DOMAIN wantQueue :
           /\ wantQueue'[i] \in Entry
           /\ wantQueue'[i].c = wantQueue[i].c /\ wantQueue'[i].age = wantQueue[i].age
           /\ wantQueue'[i].state = "active" <=> wantQueue[i].state = "active" /\ wantQueue[i].c \notin ks
  BY <1>2, <1>3 DEF Entry
<1>5. wantQueue' \in Seq(Entry)
  <2>1. wantQueue' \in [1..Len(wantQueue) -> Entry]
    BY <1>1, <1>3, <1>4
  <2> QED BY <1>1, <2>1
<1>6. /\ activeWants' = activeWants \ ks
      /\ UNCHANGED <<timeout, samples, latency, started, timer, fired, running>>
  BY DEF CancelPending
<1>7. TimeoutTypes'
  BY <1>5, <1>6 DEF TimeoutInv, TimeoutTypes
<1>8. Matches(activeWants', wantQueue')
  <2>1. Matches(activeWants, wantQueue)
    BY DEF TimeoutInv
  <2>2. ASSUME NEW c \in Keys
        PROVE  c \in activeWants' <=> \E i \in DOMAIN wantQueue' : wantQueue'[i].c = c /\ wantQueue'[i].state = "active"
    <3>1. c \in activeWants <=> \E i \in DOMAIN wantQueue : wantQueue[i].c = c /\ wantQueue[i].state = "active"
      BY <2>1, Zenon DEF Matches
    <3>2. c \in activeWants' <=> c \in activeWants /\ c \notin ks
      BY <1>6, Zenon
    <3> QED BY <1>4, <3>1, <3>2, Zenon
  <2>3. \A i, j \in DOMAIN wantQueue' : wantQueue'[i].c = wantQueue'[j].c /\ wantQueue'[i].state = "active"
                                          /\ wantQueue'[j].state = "active" => i = j
    BY <1>4, <2>1, Zenon DEF Matches
  <2> QED BY <2>2, <2>3 DEF Matches
<1>9. Ordered(wantQueue')
  BY <1>4, Zenon DEF TimeoutInv, Ordered
<1>10. running' => \A i \in DOMAIN wantQueue' : wantQueue'[i].state = "active" => InTime(wantQueue[i])'
  BY <1>4, <1>6, Zenon DEF TimeoutInv, InTime
<1>11. started' = "no" => wantQueue' = <<>>
  BY <1>3, <1>6 DEF TimeoutInv
<1> QED BY <1>7, <1>8, <1>9, <1>10, <1>11 DEF TimeoutInv

\* The timer runs out: it was set early enough for every active entry, so none
\* of them is overdue when the timer is served.
LEMMA TimerFiresIInv == ASSUME TimeoutInv, TimeoutFires PROVE TimeoutInv'
<1>1. /\ timer = 0 /\ fired' = TRUE /\ timer' = NoTimer
      /\ UNCHANGED <<activeWants, wantQueue, timeout, samples, latency, started, running>>
  BY DEF TimeoutFires
<1>2. TimeoutTypes'
  BY <1>1 DEF TimeoutInv, TimeoutTypes
<1>3. ASSUME running', NEW i \in DOMAIN wantQueue, wantQueue[i].state = "active" PROVE InTime(wantQueue[i])'
  <2>1. InTime(wantQueue[i])
    BY <1>1, <1>3 DEF TimeoutInv
  <2>2. wantQueue[i].age \in Nat /\ timeout \in Nat
    <3>1. wantQueue[i] \in Entry
      BY DEF TimeoutInv, TimeoutTypes
    <3> QED BY <3>1, TimesAssumption DEF TimeoutInv, TimeoutTypes, Entry
  <2>3. wantQueue[i].age <= timeout
    BY <1>1, <2>1, <2>2 DEF InTime
  <2> QED BY <1>1, <2>3 DEF InTime
<1> QED BY <1>1, <1>2, <1>3, Zenon DEF TimeoutInv

\* consumeTimeouts checks with the timeout of the moment.
LEMMA ConsumeTimeoutsIInv == ASSUME TimeoutInv, consumeTimeouts PROVE TimeoutInv'
<1>1. /\ UNCHANGED <<timeout, samples, latency, started, running>>
      /\ checkForTimeouts(timeout', activeWants, wantQueue)
  BY DEF consumeTimeouts
<1>2. /\ activeWants \in SUBSET Keys /\ wantQueue \in Seq(Entry)
      /\ timeout' \in 0..maxTimeout /\ samples' \in 0..2 /\ latency' \in Nat
      /\ Matches(activeWants, wantQueue) /\ Ordered(wantQueue)
  BY <1>1 DEF TimeoutInv, TimeoutTypes
<1>3. CASE started = "no"
  <2>1. wantQueue = <<>>
    BY <1>3 DEF TimeoutInv
  <2>2. wantQueue' = Kept(<<>>, timeout') /\ Kept(<<>>, timeout') = <<>>
    BY <1>1, <2>1 DEF checkForTimeouts, Kept
  <2>3. timer' = timer /\ activeWants' \subseteq activeWants
    BY <1>1, <2>1, <2>2 DEF checkForTimeouts
  <2>4. activeWants = {}
    BY <2>1 DEF TimeoutInv, TimeoutTypes, Matches
  <2>5. wantQueue' = wantQueue /\ activeWants' = activeWants
    BY <2>1, <2>2, <2>3, <2>4
  <2>6. TimeoutTypes'
    BY <1>1, <1>2, <2>3, <2>5 DEF TimeoutInv, TimeoutTypes
  <2>7. DOMAIN wantQueue' = {}
    BY <2>1, <2>5
  <2>8. running' => \A i \in DOMAIN wantQueue' : wantQueue'[i].state = "active" => InTime(wantQueue[i])'
    BY <2>7
  <2> QED BY <1>2, <2>1, <2>5, <2>6, <2>8 DEF TimeoutInv
<1>4. CASE started # "no"
  BY <1>1, <1>2, <1>4, CheckedIInv
<1> QED BY <1>3, <1>4

\* Time passes only while no timer is due, so an entry grows older as the
\* timer runs down.
LEMMA TickIInv == ASSUME TimeoutInv, Tick PROVE TimeoutInv'
<1>1. wantQueue \in Seq(Entry) /\ Len(wantQueue) \in Nat /\ DOMAIN wantQueue = 1..Len(wantQueue)
  BY DEF TimeoutInv, TimeoutTypes
<1>2. \A i \in DOMAIN wantQueue : wantQueue[i] \in Entry
  BY <1>1
<1>3. /\ wantQueue' = [i \in DOMAIN wantQueue |-> [wantQueue[i] EXCEPT !.age = @ + 1]]
      /\ UNCHANGED <<activeWants, timeout, samples, latency, started, fired, running>>
      /\ running /\ timer # 0 /\ ~fired
      /\ timer' = IF timer = NoTimer THEN timer ELSE timer - 1
  BY DEF Tick
<1>4. /\ DOMAIN wantQueue' = DOMAIN wantQueue
      /\ \A i \in DOMAIN wantQueue :
           /\ wantQueue[i].age \in Nat
           /\ wantQueue'[i] \in Entry
           /\ wantQueue'[i].c = wantQueue[i].c /\ wantQueue'[i].state = wantQueue[i].state
           /\ wantQueue'[i].age = wantQueue[i].age + 1
  BY <1>2, <1>3 DEF Entry
<1>5. wantQueue' \in Seq(Entry)
  <2>1. wantQueue' \in [1..Len(wantQueue) -> Entry]
    BY <1>1, <1>3, <1>4, Zenon
  <2> QED BY <1>1, <2>1
<1>6. timer \in Nat \cup {NoTimer} /\ timeout \in Nat
  BY TimesAssumption DEF TimeoutInv, TimeoutTypes
<1>7. timer' \in Nat \cup {NoTimer}
  BY <1>3, <1>6
<1>8. TimeoutTypes'
  BY <1>3, <1>5, <1>7 DEF TimeoutInv, TimeoutTypes
<1>9. Matches(activeWants', wantQueue')
  <2>1. Matches(activeWants, wantQueue) /\ activeWants' = activeWants
    BY <1>3 DEF TimeoutInv
  <2>2. PICK queue : queue = wantQueue'
    OBVIOUS
  <2>3. /\ DOMAIN queue = DOMAIN wantQueue
        /\ \A i \in DOMAIN wantQueue : queue[i].c = wantQueue[i].c /\ queue[i].state = wantQueue[i].state
    BY <1>4, <2>2
  <2>4. Matches(activeWants, queue)
    BY <2>1, <2>3 DEF Matches
  <2> QED BY <2>1, <2>2, <2>4
<1>10. Ordered(wantQueue')
  <2>1. Ordered(wantQueue)
    BY Zenon DEF TimeoutInv
  <2>2. PICK queue : queue = wantQueue'
    BY Zenon
  <2>3. DOMAIN queue = DOMAIN wantQueue /\ \A i \in DOMAIN wantQueue : queue[i].age = wantQueue[i].age + 1 /\ wantQueue[i].age \in Nat
    BY <1>4, <2>2, Zenon
  <2>4. Ordered(queue)
    BY <2>1, <2>3 DEF Ordered
  <2> QED BY <2>2, <2>4, Zenon
<1>11. ASSUME NEW i \in DOMAIN wantQueue, wantQueue'[i].state = "active" PROVE InTime(wantQueue[i])'
  <2>1. InTime(wantQueue[i]) /\ wantQueue[i].age \in Nat /\ wantQueue'[i].age = wantQueue[i].age + 1
    BY <1>3, <1>4, <1>11, Zenon DEF TimeoutInv
  <2>2. timer \in Nat /\ timer # NoTimer /\ wantQueue[i].age + timer <= timeout
    BY <1>3, <1>6, <2>1 DEF InTime
  <2>3. timer' = timer - 1 /\ timer' # NoTimer
    BY <1>3, <2>2 DEF NoTimer
  <2>4. wantQueue'[i].age + timer' <= timeout
    BY <1>6, <2>1, <2>2, <2>3
  <2> QED BY <1>3, <2>3, <2>4 DEF InTime
<1>12. started' = "no" => wantQueue' = <<>>
  BY <1>3 DEF TimeoutInv
<1>13. running' => \A i \in DOMAIN wantQueue' : wantQueue'[i].state = "active" => InTime(wantQueue[i])'
  BY <1>4, <1>11
<1> QED BY <1>8, <1>9, <1>10, <1>12, <1>13 DEF TimeoutInv

\* ShutdownTimeouts stops the timer, and with it the promise.
LEMMA ShutdownIInv == ASSUME TimeoutInv, ShutdownTimeouts PROVE TimeoutInv'
<1>1. TimeoutTypes' /\ ~running'
  BY Zenon DEF ShutdownTimeouts, TimeoutInv, TimeoutTypes
<1> QED BY <1>1, Zenon DEF ShutdownTimeouts, TimeoutInv

\* Every step keeps the inductive invariant.
LEMMA NextTimeouts == ASSUME TimeoutInv, [TNext]_tvars PROVE TimeoutInv'
<1>1. CASE fireTimeout \/ UNCHANGED tvars
  <2>1. UNCHANGED <<activeWants, wantQueue, timeout, samples, latency, started, timer, fired, running>>
    BY <1>1 DEF fireTimeout, tvars
  <2> QED BY <2>1, Zenon DEF TimeoutInv, TimeoutTypes, InTime
<1> QED BY <1>1, StartIInv, PingIInv, UpdateIInv, AddPendingIInv, CancelPendingIInv, TimerFiresIInv,
           ConsumeTimeoutsIInv, ShutdownIInv, TickIInv DEF TNext

\* The queue matches the map, and the timer is set early enough, in every
\* reachable state.
THEOREM AlwaysTimeoutInv == TSpec => []TimeoutInv
<1>1. TInit => TimeoutInv
  BY InitTimeouts
<1>2. TimeoutInv /\ [TNext]_tvars => TimeoutInv'
  BY NextTimeouts
<1> QED BY <1>1, <1>2, PTL DEF TSpec

-----------------------------------------------------------------------------
\* AddPending, CancelPending and checkForTimeouts keep the map and the queue
\* together: a key of the map has one active entry, whatever was cancelled and
\* added again, and the queue stays in the order in which wants were sent.
THEOREM QueueMatches == TSpec => []QueueMatchesMap
<1>1. ASSUME TimeoutInv PROVE QueueMatchesMap
  <2>1. ASSUME NEW c \in Keys PROVE Cardinality(ActiveAt(c)) = IF c \in activeWants THEN 1 ELSE 0
    <3>1. CASE c \in activeWants
      <4>1. PICK i \in DOMAIN wantQueue : wantQueue[i].c = c /\ wantQueue[i].state = "active"
        BY <1>1, <3>1 DEF TimeoutInv, Matches
      <4>2. ActiveAt(c) = {i}
        BY <1>1, <4>1 DEF TimeoutInv, Matches, ActiveAt
      <4> QED BY <3>1, <4>2, FS_Singleton
    <3>2. CASE c \notin activeWants
      <4>1. ActiveAt(c) = {}
        BY <1>1, <3>2 DEF TimeoutInv, Matches, ActiveAt
      <4> QED BY <3>2, <4>1, FS_EmptySet
    <3> QED BY <3>1, <3>2
  <2> QED BY <1>1, <2>1, Zenon DEF TimeoutInv, Ordered, QueueMatchesMap
<1> QED BY <1>1, AlwaysTimeoutInv, PTL

\* Whatever latencies are measured while wants wait, no want waits longer than
\* the timeout: the one timer is always set for the first active entry.
THEOREM NeverOverdue == TSpec => []NoneOverdue
<1>1. ASSUME TimeoutInv PROVE NoneOverdue
  <2>1. timeout \in Nat /\ timeout <= maxTimeout /\ timer \in Nat \cup {NoTimer}
    BY <1>1, TimesAssumption DEF TimeoutInv, TimeoutTypes
  <2>2. ASSUME running, NEW i \in DOMAIN wantQueue, wantQueue[i].state = "active"
        PROVE  wantQueue[i].age <= timeout
    <3>1. InTime(wantQueue[i])
      BY <1>1, <2>2 DEF TimeoutInv
    <3>2. wantQueue[i].age \in Nat
      <4>1. wantQueue[i] \in Entry
        BY <1>1 DEF TimeoutInv, TimeoutTypes
      <4> QED BY <4>1 DEF Entry
    <3>3. (timer \in Nat /\ wantQueue[i].age + timer <= timeout) \/ wantQueue[i].age <= timeout
      BY <2>1, <3>1, Zenon DEF InTime
    <3>4. PICK a \in Nat, t \in Nat : a = wantQueue[i].age /\ t = timeout
      BY <2>1, <3>2, Zenon
    <3>5. timer \in Nat /\ a + timer <= t => a <= t
      OBVIOUS
    <3> QED BY <3>3, <3>4, <3>5, Zenon
  <2> QED BY <2>1, <2>2 DEF NoneOverdue
<1> QED BY <1>1, AlwaysTimeoutInv, PTL

-----------------------------------------------------------------------------
(* The queue *)

\* The types of the variables that the proofs are about.
Types ==
  /\ bcstPending \subseteq Cids /\ bcstSent \subseteq Cids
  /\ peerPending \in [Cids -> WantTypes] /\ peerSent \in [Cids -> WantTypes]
  /\ cancels \subseteq Cids /\ cancelling \subseteq Cids
  /\ askedBcst \subseteq Cids /\ askedPeer \in [Cids -> WantTypes]
  /\ snap \in [peer : [Cids -> WantTypes], bcst : SUBSET Cids, cancels : SUBSET Cids]

IInv == Types /\ QueueTracksWants

-----------------------------------------------------------------------------
\* The new queue has empty lists.
LEMMA InitIInv == Init => IInv
<1> SUFFICES ASSUME Init PROVE IInv
  OBVIOUS
<1>1. Types
  BY Zenon DEF Init, Types, NoWants, NoSnap, WantTypes
<1>2. QueueTracksWants
  BY DEF Init, QueueTracksWants, NoWants, NoSnap, KeysOf
<1> QED BY <1>1, <1>2 DEF IInv

\* A step that leaves the lists, the callers and the message under way alone.
LEMMA SameLists ==
  ASSUME IInv, UNCHANGED <<lists, callers, snap>>
  PROVE  IInv'
BY Zenon DEF IInv, Types, QueueTracksWants, lists, callers, KeysOf, Asked

\* Every step of a caller, of runQueue and of a timer keeps the lists right.
LEMMA NextIInv == IInv /\ [Next]_vars => IInv'
<1> SUFFICES ASSUME IInv, [Next]_vars PROVE IInv'
  OBVIOUS
<1>1. ASSUME NEW ks \in SUBSET Cids, AddBroadcastWantHaves(ks) PROVE IInv'
  BY <1>1, Zenon DEF AddBroadcastWantHaves, IInv, Types, QueueTracksWants, KeysOf, Asked, ClearsCancels, sending
<1>2. ASSUME NEW blocks \in SUBSET Cids, NEW haves \in SUBSET Cids, AddWants(blocks, haves) PROVE IInv'
  <2> DEFINE Added(w) == AddTo(AddTo(w, haves, "have"), blocks, "block")
  <2>1. \A w \in [Cids -> WantTypes] :
          /\ Added(w) \in [Cids -> WantTypes]
          /\ \A c \in Cids : c \notin blocks \cup haves => Added(w)[c] = w[c]
          /\ \A c \in Cids : c \in blocks => Added(w)[c] = "block"
          /\ \A c \in Cids : c \in haves => Added(w)[c] # "none"
          /\ \A c \in Cids : c \notin blocks => (Added(w)[c] = "block" <=> w[c] = "block")
    <3> SUFFICES ASSUME NEW w \in [Cids -> WantTypes]
                 PROVE  /\ Added(w) \in [Cids -> WantTypes]
                        /\ \A c \in Cids : /\ c \notin blocks \cup haves => Added(w)[c] = w[c]
                                           /\ c \in blocks => Added(w)[c] = "block"
                                           /\ c \in haves => Added(w)[c] # "none"
                                           /\ c \notin blocks => (Added(w)[c] = "block" <=> w[c] = "block")
      BY Zenon
    <3>1. PICK u : u = AddTo(w, haves, "have")
      OBVIOUS
    <3>2. /\ u \in [Cids -> WantTypes]
          /\ \A c \in Cids : /\ c \notin haves => u[c] = w[c]
                             /\ c \in haves => u[c] # "none" /\ (u[c] = "block" <=> w[c] = "block")
      BY <3>1 DEF AddTo, Add, WantTypes
    <3>3. Added(w) = AddTo(u, blocks, "block")
      BY <3>1
    <3> HIDE DEF Added
    <3>4. /\ Added(w) \in [Cids -> WantTypes]
          /\ \A c \in Cids : (c \notin blocks => Added(w)[c] = u[c]) /\ (c \in blocks => Added(w)[c] = "block")
      BY <3>2, <3>3 DEF AddTo, Add, WantTypes
    <3> QED BY <3>2, <3>4
  <2>2. /\ peerPending' = Added(peerPending) /\ askedPeer' = Added(askedPeer)
        /\ cancels' = cancels \ (blocks \cup haves)
        /\ UNCHANGED <<bcstPending, bcstSent, peerSent, bcstAt, peerAt, askedBcst, cancelling, snap, supportsHave>>
    BY <1>2, Zenon DEF AddWants, ClearsCancels, sending
  <2> HIDE DEF Added
  <2>3. Types'
    BY <2>1, <2>2, Zenon DEF IInv, Types
  <2>4. QueueTracksWants'
    <3>1. Types /\ QueueTracksWants
      BY DEF IInv
    <3>2. (bcstAt \subseteq bcstSent /\ peerAt \subseteq KeysOf(peerSent))'
      BY <2>2, <3>1, Zenon DEF QueueTracksWants, KeysOf
    <3>3. ASSUME NEW c \in Cids
          PROVE  (/\ c \in bcstPending \cup bcstSent <=> c \in askedBcst
                  /\ peerPending[c] # "none" \/ peerSent[c] # "none" => askedPeer[c] # "none"
                  /\ askedPeer[c] = "block" => "block" \in {peerPending[c], peerSent[c]}
                  /\ askedPeer[c] = "have" /\ supportsHave => peerPending[c] # "none" \/ peerSent[c] # "none")'
      <4>0. peerPending \in [Cids -> WantTypes] /\ askedPeer \in [Cids -> WantTypes]
        BY <3>1, Zenon DEF Types
      <4>1. ASSUME NEW w \in [Cids -> WantTypes]
            PROVE  /\ c \notin blocks \cup haves => Added(w)[c] = w[c]
                   /\ c \in blocks => Added(w)[c] = "block"
                   /\ c \in haves => Added(w)[c] # "none"
                   /\ c \notin blocks => (Added(w)[c] = "block" <=> w[c] = "block")
        BY <2>1, Zenon
      <4>2. /\ c \in bcstPending \cup bcstSent <=> c \in askedBcst
            /\ peerPending[c] # "none" \/ peerSent[c] # "none" => askedPeer[c] # "none"
            /\ askedPeer[c] = "block" => "block" \in {peerPending[c], peerSent[c]}
            /\ askedPeer[c] = "have" /\ supportsHave => peerPending[c] # "none" \/ peerSent[c] # "none"
        BY <3>1, Zenon DEF QueueTracksWants
      <4> QED BY <2>2, <4>0, <4>1, <4>2, Zenon
    <3>4. (\A c \in cancels : ~Asked(c))'
      <4> SUFFICES ASSUME NEW c \in cancels' PROVE ~Asked(c)'
        OBVIOUS
      <4>1. c \in Cids /\ c \in cancels /\ c \notin blocks \cup haves /\ askedPeer \in [Cids -> WantTypes]
        BY <2>2, <3>1, Zenon DEF Types
      <4>2. ~Asked(c)
        BY <3>1, <4>1, Zenon DEF QueueTracksWants
      <4>3. askedPeer'[c] = askedPeer[c] /\ askedBcst' = askedBcst
        BY <2>1, <2>2, <4>1, Zenon
      <4> QED BY <4>2, <4>3, Zenon DEF Asked
    <3>5. (\A c \in snap.cancels : c \notin snap.bcst /\ snap.peer[c] = "none")'
      BY <2>2, <3>1, Zenon DEF QueueTracksWants
    <3> QED BY <3>2, <3>3, <3>4, <3>5, Zenon DEF QueueTracksWants
  <2> QED BY <2>3, <2>4 DEF IInv
<1>3. ASSUME NEW ks \in SUBSET Cids, AddCancels(ks) PROVE IInv'
  BY <1>3, Zenon DEF AddCancels, IInv, Types, QueueTracksWants, lists, sending, KeysOf, Asked
<1>4. CASE AddCancelsLocked
  BY <1>4, Zenon DEF AddCancelsLocked, IInv, Types, QueueTracksWants, sending, KeysOf, Asked, WantTypes
<1>5. CASE AddCancelsSignal
  BY <1>5, Zenon DEF AddCancelsSignal, IInv, Types, QueueTracksWants, lists, sending, KeysOf, Asked
<1>6. CASE Shutdown
  BY <1>6, SameLists DEF Shutdown, sending
<1>7. CASE ContextDone \/ TakeWorkDebounce \/ TakeWorkSend \/ Debounced
  BY <1>7, SameLists, Zenon DEF ContextDone, TakeWorkDebounce, TakeWorkSend, Debounced
<1>8. CASE TimerFires \/ \E c \in Cids : DontHaveTimeout(c)
  BY <1>8, SameLists DEF TimerFires, DontHaveTimeout, sending
<1>9. CASE rebroadcastWantlist
  BY <1>9, Zenon DEF rebroadcastWantlist, Absorb, Add, IInv, Types, QueueTracksWants, callers, KeysOf, Asked, WantTypes
<1>10. ASSUME NEW ks \in SUBSET Cids, handleResponse(ks) PROVE IInv'
  BY <1>10, Zenon DEF handleResponse, IInv, Types, QueueTracksWants, callers, KeysOf, Asked
<1>11. CASE sendIfReady
  BY <1>11, SameLists DEF sendIfReady
<1>12. CASE extractOutgoingMessage
  <2>1. PICK cs \in SUBSET cancels, ps \in SUBSET KeysOf(peerPending), bs \in SUBSET bcstPending :
          snap' = [peer |-> [c \in Cids |-> IF c \in ps THEN peerPending[c] ELSE "none"],
                   bcst |-> bs, cancels |-> cs]
    BY <1>12, Zenon DEF extractOutgoingMessage
  <2>2. /\ peerPending' \in [Cids -> WantTypes] /\ peerSent' \in [Cids -> WantTypes]
        /\ \A c \in Cids : peerPending'[c] # peerPending[c] =>
             peerPending[c] = "have" /\ peerPending'[c] = "none" /\ ~supportsHave
        /\ \A c \in Cids : peerSent'[c] # peerSent[c] =>
             peerSent[c] = "have" /\ peerSent'[c] = "none" /\ ~supportsHave
        /\ peerAt' \subseteq peerAt
        /\ \A c \in peerAt' : c \in Cids => peerSent'[c] = peerSent[c]
    <3> DEFINE unsupported == {c \in Cids : ~supportsHave /\ peerPending[c] = "have"}
               Drop(w) == [c \in Cids |-> IF c \in unsupported THEN RemoveType(w[c], "have") ELSE w[c]]
    <3>1. /\ peerPending' = Drop(peerPending) /\ peerSent' = Drop(peerSent)
          /\ peerAt' = peerAt \ {c \in unsupported : peerSent'[c] = "none"}
      BY <1>12, Zenon DEF extractOutgoingMessage
    <3>2. ASSUME NEW w \in [Cids -> WantTypes]
          PROVE  /\ Drop(w) \in [Cids -> WantTypes]
                 /\ \A c \in Cids : Drop(w)[c] # w[c] =>
                      c \in unsupported /\ ~supportsHave /\ w[c] = "have" /\ Drop(w)[c] = "none"
      BY DEF RemoveType, Removes, WantTypes
    <3>3. peerPending \in [Cids -> WantTypes] /\ peerSent \in [Cids -> WantTypes]
      BY DEF IInv, Types
    <3> HIDE DEF Drop, unsupported
    <3> QED BY <3>1, <3>2, <3>3, Zenon
  <2>3. UNCHANGED <<bcstPending, bcstSent, bcstAt, cancels, callers>>
    BY <1>12, Zenon DEF extractOutgoingMessage
  <2>4. Types'
    BY <2>1, <2>2, <2>3, Zenon DEF IInv, Types, callers, KeysOf, WantTypes
  <2>5. QueueTracksWants'
    <3>1. Types /\ QueueTracksWants /\ UNCHANGED <<askedBcst, askedPeer, supportsHave>>
      BY <2>3 DEF IInv, callers
    <3>2. (bcstAt \subseteq bcstSent /\ peerAt \subseteq KeysOf(peerSent))'
      <4>1. bcstAt \subseteq bcstSent /\ \A c \in peerAt : c \in Cids /\ peerSent[c] # "none"
        BY <3>1, Zenon DEF QueueTracksWants, KeysOf
      <4>2. \A c \in peerAt' : c \in Cids /\ peerSent'[c] # "none"
        BY <2>2, <4>1, Zenon
      <4> QED BY <2>3, <4>1, <4>2, Zenon DEF KeysOf
    <3>3. ASSUME NEW c \in Cids
          PROVE  (/\ c \in bcstPending \cup bcstSent <=> c \in askedBcst
                  /\ peerPending[c] # "none" \/ peerSent[c] # "none" => askedPeer[c] # "none"
                  /\ askedPeer[c] = "block" => "block" \in {peerPending[c], peerSent[c]}
                  /\ askedPeer[c] = "have" /\ supportsHave => peerPending[c] # "none" \/ peerSent[c] # "none")'
      BY <2>2, <2>3, <3>1, Zenon DEF QueueTracksWants
    <3>4. (\A c \in cancels : ~Asked(c))'
      BY <2>3, <3>1, Zenon DEF QueueTracksWants, Asked
    <3>5. (\A c \in snap.cancels : c \notin snap.bcst /\ snap.peer[c] = "none")'
      BY <2>1, <3>1, Zenon DEF Types, QueueTracksWants, KeysOf, Asked
    <3> QED BY <3>2, <3>3, <3>4, <3>5, Zenon DEF QueueTracksWants
  <2> QED BY <2>4, <2>5 DEF IInv
<1>13. CASE markSent
  <2>1. Types'
    BY <1>13, Zenon DEF markSent, MarkedPeer, MarkedBcst, CancelsLeft, Add, IInv, Types, callers, KeysOf, WantTypes
  <2>2. QueueTracksWants'
    BY <1>13, Zenon DEF markSent, MarkedPeer, MarkedBcst, CancelsLeft, Add, Removes, IInv, Types, QueueTracksWants,
                 callers, KeysOf, Asked, WantTypes
  <2> QED BY <2>1, <2>2 DEF IInv
<1>14. CASE MessageEmpty \/ simulateDontHaveWithTimeout \/ ConnectFails \/ SendMsgFails
  <2>1. /\ UNCHANGED <<lists, callers>>
        /\ snap' = snap \/ snap' = NoSnap
    BY <1>14, Zenon DEF MessageEmpty, simulateDontHaveWithTimeout, ConnectFails, SendMsgFails, GiveUp
  <2>2. /\ NoSnap \in [peer : [Cids -> WantTypes], bcst : SUBSET Cids, cancels : SUBSET Cids]
        /\ NoSnap.cancels = {}
    BY Zenon DEF NoSnap, NoWants, WantTypes
  <2>3. Types'
    BY <2>1, <2>2 DEF IInv, Types, lists, callers
  <2>4. \A c \in snap'.cancels : c \notin snap'.bcst /\ snap'.peer[c] = "none"
    BY <2>1, <2>2, Zenon DEF IInv, QueueTracksWants
  <2>5. QueueTracksWants'
    BY <2>1, <2>4, Zenon DEF IInv, QueueTracksWants, lists, callers, KeysOf, Asked
  <2> QED BY <2>3, <2>5 DEF IInv
<1>15. CASE SendMsg \/ AddPendingTimers \/ MoreWork
  BY <1>15, SameLists DEF SendMsg, AddPendingTimers, MoreWork
<1>16. CASE onSent
  BY <1>16, Zenon DEF onSent, SentAt, IInv, Types, QueueTracksWants, callers, KeysOf, Asked
<1>17. CASE UNCHANGED vars
  BY <1>17, SameLists DEF vars, sending
<1> QED
  BY <1>1, <1>2, <1>3, <1>4, <1>5, <1>6, <1>7, <1>8, <1>9, <1>10, <1>11, <1>12, <1>13, <1>14, <1>15,
     <1>16, <1>17 DEF Next, Caller, Sending

\* The lists hold what the callers ask for, and no cancel hits a want, for any
\* set of keys, any message size and any interleaving of callers with the
\* unlocked part of extractOutgoingMessage.
THEOREM QueueAlwaysTracks == Spec => []QueueTracksWants
<1>1. IInv => QueueTracksWants
  BY DEF IInv
<1> QED BY <1>1, InitIInv, NextIInv, PTL DEF Spec

-----------------------------------------------------------------------------
\* The debounce timer is armed or drained only where its channel allows it.
LEMMA NextDrain == DrainNeverBlocks /\ [Next]_vars => DrainNeverBlocks'
<1> SUFFICES ASSUME DrainNeverBlocks, [Next]_vars PROVE DrainNeverBlocks'
  OBVIOUS
<1>1. CASE Caller
  BY <1>1, Zenon DEF Caller, AddBroadcastWantHaves, AddWants, AddCancels, AddCancelsLocked, AddCancelsSignal, loop,
              DrainNeverBlocks
<1>2. CASE TakeWorkDebounce \/ TakeWorkSend \/ TimerFires \/ Debounced
  BY <1>2, Zenon DEF TakeWorkDebounce, TakeWorkSend, TimerFires, Debounced, DrainNeverBlocks
<1>3. CASE Sending
  <2>1. UNCHANGED <<workScheduled, scheduleWork>>
    <3>1. CASE sendIfReady \/ extractOutgoingMessage \/ markSent \/ MessageEmpty
      BY <3>1, Zenon DEF sendIfReady, extractOutgoingMessage, markSent, MessageEmpty, loop
    <3>2. CASE SendMsg
      BY <3>2, Zenon DEF SendMsg, loop
    <3>3. CASE onSent \/ simulateDontHaveWithTimeout \/ AddPendingTimers \/ MoreWork
      BY <3>3, Zenon DEF onSent, simulateDontHaveWithTimeout, AddPendingTimers, MoreWork, loop
    <3> QED BY <1>3, <3>1, <3>2, <3>3 DEF Sending
  <2> QED BY <2>1 DEF DrainNeverBlocks
<1>4. CASE Shutdown \/ ContextDone \/ rebroadcastWantlist \/ ConnectFails \/ SendMsgFails
  BY <1>4, Zenon DEF Shutdown, ContextDone, rebroadcastWantlist, ConnectFails, SendMsgFails, GiveUp, loop, DrainNeverBlocks
<1>5. CASE \/ \E ks \in SUBSET Cids : handleResponse(ks)
           \/ \E c \in Cids : DontHaveTimeout(c)
           \/ UNCHANGED vars
  BY <1>5, Zenon DEF handleResponse, DontHaveTimeout, vars, loop, DrainNeverBlocks
<1> QED BY <1>1, <1>2, <1>3, <1>4, <1>5 DEF Next

\* Stopping and draining the debounce timer never blocks runQueue.
THEOREM DrainAlwaysSafe == Spec => []DrainNeverBlocks
<1>1. Init => DrainNeverBlocks
  BY DEF Init, DrainNeverBlocks
<1> QED BY <1>1, NextDrain, PTL DEF Spec

-----------------------------------------------------------------------------
\* A step that may not put runQueue to sleep: it does not bring it to its
\* select, adds no work and takes back no signal.
LEMMA KeepsSignalled ==
  ASSUME Signalled, run' = "select" => run = "select", hasPendingWork' => hasPendingWork,
         UNCHANGED <<outgoingWork, workScheduled, caller>>
  PROVE  Signalled'
BY DEF Signalled

\* No step of a caller, of runQueue or of a timer leaves runQueue waiting with
\* work that is neither signalled nor scheduled, but for the early return for a
\* message that came out empty.
LEMMA StepKeepsWakeup == [Next]_vars => (Signalled /\ ~MessageEmpty => Signalled')
<1> SUFFICES ASSUME [Next]_vars, Signalled, ~MessageEmpty PROVE Signalled'
  OBVIOUS
<1>1. CASE \/ \E ks \in SUBSET Cids : AddBroadcastWantHaves(ks)
           \/ \E blocks, haves \in SUBSET Cids : AddWants(blocks, haves)
           \/ AddCancelsSignal
  BY <1>1, Zenon DEF AddBroadcastWantHaves, AddWants, AddCancelsSignal, Signalled
<1>2. CASE \E ks \in SUBSET Cids : AddCancels(ks)
  BY <1>2 DEF AddCancels, lists, loop, sending, Signalled, hasPendingWork
<1>3. CASE AddCancelsLocked
  <2>1. UNCHANGED <<outgoingWork, workScheduled, run>> /\ caller = "cancel"
    BY <1>3, Zenon DEF AddCancelsLocked, loop, sending
  <2>2. caller' = "signal" \/ (hasPendingWork' => hasPendingWork)
    BY <1>3, Zenon DEF AddCancelsLocked, NeedsSignal, hasPendingWork, KeysOf
  <2> QED BY <2>1, <2>2 DEF Signalled
<1>4. CASE TakeWorkDebounce \/ TakeWorkSend \/ Debounced
  BY <1>4 DEF TakeWorkDebounce, TakeWorkSend, Debounced, Signalled
<1>5. CASE Shutdown \/ TimerFires \/ (\E c \in Cids : DontHaveTimeout(c)) \/ UNCHANGED vars
  BY <1>5, KeepsSignalled, Zenon DEF Shutdown, TimerFires, DontHaveTimeout, vars, lists, loop, sending, callers, hasPendingWork
<1>6. CASE ContextDone \/ rebroadcastWantlist \/ ConnectFails \/ SendMsgFails
  BY <1>6, Zenon DEF ContextDone, rebroadcastWantlist, ConnectFails, SendMsgFails, GiveUp, Signalled
<1>7. CASE \E ks \in SUBSET Cids : handleResponse(ks)
  BY <1>7, KeepsSignalled, Zenon DEF handleResponse, loop, callers, hasPendingWork, Loop
<1>8. CASE sendIfReady
  BY <1>8 DEF sendIfReady, lists, Loop, hasPendingWork, Signalled
<1>9. CASE extractOutgoingMessage \/ markSent \/ onSent \/ simulateDontHaveWithTimeout \/ AddPendingTimers
  BY <1>9, Zenon DEF extractOutgoingMessage, markSent, onSent, simulateDontHaveWithTimeout, AddPendingTimers, Signalled
<1>10. CASE SendMsg
  <2>1. run' = "onSent"
    BY <1>10, Zenon DEF SendMsg
  <2> QED BY <2>1 DEF Signalled
<1>11. CASE MoreWork
  BY <1>11, Zenon DEF MoreWork, lists, hasPendingWork, Signalled
<1> QED
  BY <1>1, <1>2, <1>3, <1>4, <1>5, <1>6, <1>7, <1>8, <1>9, <1>10, <1>11 DEF Next, Caller, Sending

\* No wakeup of runQueue is lost, for any keys and message sizes.
THEOREM NoWakeupLost == Spec => NoLostWakeup
BY StepKeepsWakeup, PTL DEF Spec, NoLostWakeup
=============================================================================
