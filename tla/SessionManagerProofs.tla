------------------------ MODULE SessionManagerProofs ------------------------
(***************************************************************************)
(* What the sessions of a client promise together, for any sessions, keys, *)
(* calls and blocks that arrive, as long as no call is cancelled while     *)
(* another of the same session and key is open or still to be made.        *)
(***************************************************************************)
EXTENDS SessionManager, TLAPS

\* No call was ended while another of its session and key is open or to come.
\* Without this a session forgets the want of a call because another call was
\* cancelled: its want sender keeps one want for a key, however many ask for it.
CancelsFinal ==
  \A q, r \in Calls :
    SessionOf[q] = SessionOf[r] /\ KeyOf[q] = KeyOf[r] /\ calls[q] = "ended" => calls[r] \notin {"new", "open"}

OneCallPerKey ==
  \A q, r \in Calls : SessionOf[q] = SessionOf[r] /\ KeyOf[q] = KeyOf[r] => q = r

Ops == [op : {"want", "receive", "cancel", "wantsSent", "add", "block"}, key : Cids]
Interest == {"none", "interested", "wanted"}
Handled == [at : {"sessions", "tell"}, key : Cids, from : {"peer", "local"}, tell : SUBSET Sids, publish : BOOLEAN]

Types ==
  /\ wants \in [Cids -> [Sids -> Interest]] /\ cancelKs \in [Sids -> SUBSET Cids]
  /\ life \in [Sids -> {"none", "running", "removing", "removed"}]
  /\ incoming \in [Sids -> Seq(Ops)] /\ changes \in [Sids -> Seq(Ops)]
  /\ loop \in [Sids -> {"select", "ask"}] /\ cancelling \in [Sids -> BOOLEAN]
  /\ toFetch \in [Sids -> SUBSET Cids] /\ live \in [Sids -> SUBSET Cids] /\ tracked \in [Sids -> SUBSET Cids]
  /\ calls \in [Calls -> {"new", "open", "done", "ended"}]
  /\ arrival \in [Arrivals -> {NotArrived, Finished} \cup Handled]

Has(queue, o) == \E i \in DOMAIN queue : queue[i] = o
\* Every o of the queue comes before every p.
Precedes(o, p, queue) == \A i, j \in DOMAIN queue : queue[i] = o /\ queue[j] = p => i < j
\* After every o of the queue comes a p.
Followed(o, p, queue) == \A i \in DOMAIN queue : queue[i] = o => \E j \in DOMAIN queue : i < j /\ queue[j] = p

\* A call of the session and key is open or still to be made.
Awaited(s, c) == \E r \in Calls : SessionOf[r] = s /\ KeyOf[r] = c /\ calls[r] \in {"new", "open"}

\* A session is interested in what it is about to ask for, and no cancel that
\* is under way comes before a want of the same key.
Orderly(s, c) ==
  /\ Precedes(Op("want", c), Op("cancel", c), incoming[s])
  /\ Precedes(Op("add", c), Op("cancel", c), changes[s])
  /\ Has(changes[s], Op("cancel", c)) => ~Has(incoming[s], Op("want", c)) /\ c \notin toFetch[s]
  /\ Has(changes[s], Op("add", c)) \/ c \in toFetch[s] \cup tracked[s] => wants[c][s] # "none"
  /\ Awaited(s, c) => ~Has(incoming[s], Op("cancel", c)) /\ ~Has(changes[s], Op("cancel", c))

\* What peers are asked for is of interest, or about to be cancelled.
Covered(c) == Interested(c) # {} \/ (\E s \in Sids : c \in cancelKs[s]) \/ c \in revived

OrderlyInv == \A s \in Sids, c \in Cids : Orderly(s, c)

AskedInv ==
  /\ asked \subseteq Cids /\ \A c \in asked : Covered(c)
  /\ \A s \in Sids : cancelKs[s] # {} => (cancelling[s] /\ life[s] = "running") \/ life[s] = "removing"

\* A block of the key is about to be published.
Publishing(c) == ~smDown /\ \E h \in Arrivals : arrival[h] \in Handled /\ arrival[h].key = c /\ arrival[h].publish

\* The session has, or is about to have, the want of an open call on record,
\* and nothing that removes it is under way.
Pursued(s, c) ==
  /\ Has(incoming[s], Op("want", c)) \/ wants[c][s] = "wanted"
  /\ Followed(Op("receive", c), Op("want", c), incoming[s])

OpenCall(r) ==
  LET s == SessionOf[r]
      c == KeyOf[r]
  IN  calls[r] = "open" /\ life[s] = "running" /\ s \notin ended /\ <<s, c>> \notin missed
        => Publishing(c) \/ Pursued(s, c)

OpenInv ==
  /\ \A r \in Calls : OpenCall(r) /\ (calls[r] = "new" \/ life[SessionOf[r]] # "none")
  /\ \A s \in Sids : life[s] = "running" /\ ~smDown => s \in sessions
  /\ notifDown => smDown

-----------------------------------------------------------------------------
(* Queues *)

\* Operations are told apart by kind and key.
LEMMA OpFacts ==
  /\ \A k, l, c, d : Op(k, c) = Op(l, d) <=> k = l /\ c = d
  /\ \A k, c : Op(k, c).op = k /\ Op(k, c).key = c
  /\ \A k \in {"want", "receive", "cancel", "wantsSent", "add", "block"}, c \in Cids : Op(k, c) \in Ops
  /\ \A o \in Ops : o.key \in Cids /\ o = Op(o.op, o.key)
BY DEF Op, Ops

\* What Append does to the order in a queue.
LEMMA QueueAppend ==
  ASSUME NEW S, NEW queue \in Seq(S), NEW x \in S
  PROVE  /\ Append(queue, x) \in Seq(S)
         /\ \A o : Has(Append(queue, x), o) <=> Has(queue, o) \/ o = x
         /\ \A o, p :
              /\ Precedes(o, p, queue) /\ o # p /\ (x = o => ~Has(queue, p)) => Precedes(o, p, Append(queue, x))
              /\ Followed(o, p, queue) /\ x # o => Followed(o, p, Append(queue, x))
              /\ o # p /\ x = p => Followed(o, p, Append(queue, x))
<1>1. PICK n \in Nat : n = Len(queue) /\ DOMAIN queue = 1..n
  OBVIOUS
<1>2. PICK long : long = Append(queue, x)
  BY Zenon
<1>3. /\ long \in Seq(S) /\ DOMAIN long = 1..(n + 1) /\ long[n + 1] = x
      /\ \A i \in 1..n : long[i] = queue[i]
  BY <1>1, <1>2
<1>4. \A i \in 1..(n + 1) : i = n + 1 \/ i \in 1..n
  BY <1>1
<1>5. n + 1 \in 1..(n + 1) /\ \A i \in 1..n : i \in 1..(n + 1) /\ i < n + 1
  BY <1>1
<1>6. ASSUME NEW o PROVE Has(long, o) <=> Has(queue, o) \/ o = x
  BY <1>1, <1>3, <1>4, <1>5 DEF Has
<1>7. ASSUME NEW o, NEW p, Precedes(o, p, queue), o # p, x = o => ~Has(queue, p) PROVE Precedes(o, p, long)
  <2> SUFFICES ASSUME NEW i \in 1..(n + 1), NEW j \in 1..(n + 1), long[i] = o, long[j] = p PROVE i < j
    BY <1>3 DEF Precedes
  <2>1. CASE i \in 1..n /\ j \in 1..n
    BY <1>1, <1>3, <1>7, <2>1 DEF Precedes
  <2>2. CASE i = n + 1
    BY <1>1, <1>3, <1>4, <1>7, <2>2 DEF Has
  <2>3. CASE i \in 1..n /\ j = n + 1
    BY <1>5, <2>3
  <2> QED BY <1>4, <2>1, <2>2, <2>3
<1>8. ASSUME NEW o, NEW p, Followed(o, p, queue), x # o PROVE Followed(o, p, long)
  BY <1>1, <1>3, <1>4, <1>5, <1>8 DEF Followed
<1>9. ASSUME NEW o, NEW p, o # p, x = p PROVE Followed(o, p, long)
  BY <1>1, <1>3, <1>4, <1>5, <1>9 DEF Followed
<1> QED BY <1>2, <1>3, <1>6, <1>7, <1>8, <1>9

\* The same for operations of a session.
LEMMA OpsAppend ==
  ASSUME NEW queue \in Seq(Ops), NEW x \in Ops, NEW o, NEW p
  PROVE  /\ Has(queue, o) => Has(Append(queue, x), o)
         /\ Has(Append(queue, x), o) /\ o # x => Has(queue, o)
         /\ Followed(o, p, queue) /\ x # o => Followed(o, p, Append(queue, x))
BY QueueAppend

\* What taking the head does.
LEMMA QueueTail ==
  ASSUME NEW S, NEW queue \in Seq(S), queue # <<>>
  PROVE  /\ Tail(queue) \in Seq(S) /\ Head(queue) \in S /\ Has(queue, Head(queue))
         /\ \A o :
              /\ Has(Tail(queue), o) => Has(queue, o)
              /\ Has(queue, o) /\ Head(queue) # o => Has(Tail(queue), o)
         /\ \A o, p :
              /\ Precedes(o, p, queue) => Precedes(o, p, Tail(queue))
              /\ Precedes(o, p, queue) /\ Head(queue) = p => ~Has(Tail(queue), o)
              /\ Followed(o, p, queue) => Followed(o, p, Tail(queue))
              /\ Followed(o, p, queue) /\ Head(queue) = o => Has(Tail(queue), p)
<1>1. PICK n \in Nat : n + 1 = Len(queue) /\ DOMAIN queue = 1..(n + 1)
  <2>1. Len(queue) \in Nat /\ Len(queue) # 0 /\ DOMAIN queue = 1..Len(queue)
    OBVIOUS
  <2>2. Len(queue) - 1 \in Nat /\ (Len(queue) - 1) + 1 = Len(queue)
    BY <2>1
  <2> QED BY <2>1, <2>2, Zenon
<1>2. PICK rest : rest = Tail(queue)
  BY Zenon
<1>3. /\ rest \in Seq(S) /\ DOMAIN rest = 1..n /\ Head(queue) = queue[1] /\ Head(queue) \in S
      /\ \A i \in 1..n : rest[i] = queue[i + 1]
  BY <1>1, <1>2
<1>4. \A i \in 1..(n + 1) : i = 1 \/ (i - 1 \in 1..n /\ (i - 1) + 1 = i)
  BY <1>1
<1>5. 1 \in 1..(n + 1) /\ \A i \in 1..n : i + 1 \in 1..(n + 1) /\ 1 < i + 1
  BY <1>1
<1>6. \A i, j \in 1..n : i < j <=> i + 1 < j + 1
  BY <1>1
<1>7. Has(queue, Head(queue))
  BY <1>1, <1>3, <1>5 DEF Has
<1>8. ASSUME NEW o PROVE /\ Has(rest, o) => Has(queue, o)
                         /\ Has(queue, o) /\ Head(queue) # o => Has(rest, o)
  <2>1. ASSUME NEW i \in 1..n, rest[i] = o PROVE \E j \in 1..(n + 1) : queue[j] = o
    BY <1>3, <1>5, <2>1
  <2>2. ASSUME NEW i \in 1..(n + 1), queue[i] = o, Head(queue) # o PROVE \E j \in 1..n : rest[j] = o
    <3>1. i # 1
      BY <1>3, <2>2
    <3>2. i - 1 \in 1..n /\ (i - 1) + 1 = i
      BY <1>4, <3>1
    <3> QED BY <1>3, <2>2, <3>2, Zenon
  <2> QED BY <1>1, <1>3, <2>1, <2>2, Zenon DEF Has
<1>9. ASSUME NEW o, NEW p, Precedes(o, p, queue)
      PROVE  Precedes(o, p, rest) /\ (Head(queue) = p => ~Has(rest, o))
  <2>1. Precedes(o, p, rest)
    BY <1>1, <1>3, <1>5, <1>6, <1>9, Zenon DEF Precedes
  <2>2. ASSUME Head(queue) = p, NEW i \in 1..n, rest[i] = o PROVE FALSE
    <3>1. i + 1 < 1
      BY <1>1, <1>3, <1>5, <1>9, <2>2, Zenon DEF Precedes
    <3> QED BY <1>5, <3>1
  <2> QED BY <1>3, <2>1, <2>2 DEF Has
<1>10. ASSUME NEW o, NEW p, Followed(o, p, queue)
       PROVE  Followed(o, p, rest) /\ (Head(queue) = o => Has(rest, p))
  <2>1. ASSUME NEW i \in 1..(n + 1), queue[i] = o PROVE \E j \in 1..n : i < j + 1 /\ rest[j] = p
    <3>1. PICK j \in 1..(n + 1) : i < j /\ queue[j] = p
      BY <1>1, <1>10, <2>1 DEF Followed
    <3>2. j # 1
      BY <1>1, <3>1
    <3>3. j - 1 \in 1..n /\ (j - 1) + 1 = j
      BY <1>4, <3>2
    <3> QED BY <1>3, <3>1, <3>3, Zenon
  <2>2. ASSUME NEW i \in 1..n, rest[i] = o PROVE \E j \in 1..n : i < j /\ rest[j] = p
    <3>1. i + 1 \in 1..(n + 1) /\ queue[i + 1] = o
      BY <1>3, <1>5, <2>2
    <3>2. PICK j \in 1..n : i + 1 < j + 1 /\ rest[j] = p
      BY <2>1, <3>1
    <3> QED BY <1>6, <3>2
  <2>3. Head(queue) = o => \E j \in 1..n : rest[j] = p
    BY <1>3, <1>5, <2>1
  <2> QED BY <1>3, <2>2, <2>3, Zenon DEF Followed, Has
<1> QED BY <1>2, <1>3, <1>7, <1>8, <1>9, <1>10

\* An empty queue has no operations, in any order.
LEMMA QueueEmpty ==
  \A o, p : ~Has(<<>>, o) /\ Precedes(o, p, <<>>) /\ Followed(o, p, <<>>)
BY DEF Has, Precedes, Followed

-----------------------------------------------------------------------------
(* Types *)

\* Putting an operation into a session's queue, or dropping it.
LEMMA EnqueueTypes ==
  ASSUME Types, NEW s \in Sids, NEW o \in Ops, Enqueue(s, o)
  PROVE  incoming' \in [Sids -> Seq(Ops)]
<1>1. incoming[s] \in Seq(Ops) /\ incoming \in [Sids -> Seq(Ops)]
  BY DEF Types
<1>2. Append(incoming[s], o) \in Seq(Ops)
  BY <1>1, QueueAppend
<1> QED BY <1>1, <1>2, Zenon DEF Enqueue

\* The same for a change for the want sender.
LEMMA AddChangeTypes ==
  ASSUME Types, NEW s \in Sids, NEW o \in Ops, AddChange(s, o)
  PROVE  changes' \in [Sids -> Seq(Ops)]
<1>1. changes[s] \in Seq(Ops) /\ changes \in [Sids -> Seq(Ops)]
  BY DEF Types
<1>2. Append(changes[s], o) \in Seq(Ops)
  BY <1>1, QueueAppend
<1> QED BY <1>1, <1>2 DEF AddChange

\* RemoveInterest leaves a table of interests and a set of keys to cancel.
LEMMA RemoveInterestTypes ==
  ASSUME Types, NEW s \in Sids, NEW ks \in SUBSET Cids, RemoveInterest(s, ks)
  PROVE  wants' \in [Cids -> [Sids -> Interest]] /\ cancelKs' \in [Sids -> SUBSET Cids]
BY DEF RemoveInterest, Types, Interest

\* The calls and their queues.
LEMMA CallTypes ==
  ASSUME Types, NEW r \in Calls, GetBlocks(r) \/ EndCall(r)
  PROVE  Types'
<1>1. SessionOf[r] \in Sids /\ KeyOf[r] \in Cids
  BY CallsAssumption
<1>2. Op("want", KeyOf[r]) \in Ops /\ Op("cancel", KeyOf[r]) \in Ops
  BY <1>1, OpFacts
<1>3. incoming' \in [Sids -> Seq(Ops)]
  BY <1>1, <1>2, EnqueueTypes DEF GetBlocks, EndCall
<1>4. calls' \in [Calls -> {"new", "open", "done", "ended"}]
  BY Zenon DEF GetBlocks, EndCall, Types
<1>5. life' \in [Sids -> {"none", "running", "removing", "removed"}]
  <2>1. CASE life' = life
    BY <2>1 DEF Types
  <2>2. CASE life' = [life EXCEPT ![SessionOf[r]] = "running"]
    BY <2>2, Zenon DEF Types
  <2> QED BY <2>1, <2>2 DEF GetBlocks, NewSession, EndCall, manager
<1>6. UNCHANGED <<wants, cancelKs, changes, loop, cancelling, toFetch, live, tracked, arrival>>
  BY DEF GetBlocks, EndCall, interests, senders
<1> QED BY <1>3, <1>4, <1>5, <1>6 DEF Types

\* The run loop.
LEMMA LoopTypes ==
  ASSUME Types, NEW s \in Sids, HandleOp(s) \/ LoopAsks(s) \/ IdleTick(s)
  PROVE  Types'
<1>1. CASE HandleOp(s)
  <2>1. PICK o : o = Head(incoming[s])
    OBVIOUS
  <2>2. /\ incoming[s] \in Seq(Ops) /\ incoming[s] # <<>> /\ incoming' = [incoming EXCEPT ![s] = Tail(@)]
        /\ UNCHANGED <<cancelKs, life, cancelling, tracked, calls, arrival>>
    BY <1>1, Zenon DEF HandleOp, Types, manager
  <2>3. o \in Ops /\ Tail(incoming[s]) \in Seq(Ops)
    BY <2>1, <2>2, QueueTail
  <2>4. o.key \in Cids /\ Op("add", o.key) \in Ops /\ Op("cancel", o.key) \in Ops
    BY <2>3, OpFacts
  <2>5. WantBlocks(s, o.key) \/ HandleReceive(s, o.key) \/ CancelPending(s, o.key) \/ WantsSent(s, o.key)
    BY <1>1, <2>1 DEF HandleOp
  <2>6. changes' \in [Sids -> Seq(Ops)]
    BY <2>4, <2>5, AddChangeTypes DEF WantBlocks, HandleReceive, CancelPending, WantsSent, Types
  <2>7. wants' \in [Cids -> [Sids -> Interest]]
    <3>1. PICK c \in Cids : c = o.key
      BY <2>4
    <3>2. \/ RecordSessionInterest(s, c) \/ RemoveSessionWants(s, c) \/ wants' = wants
      BY <2>5, <3>1 DEF WantBlocks, HandleReceive, CancelPending, WantsSent
    <3>3. CASE RecordSessionInterest(s, c)
      BY <3>3 DEF Types, Interest, RecordSessionInterest
    <3>4. CASE RemoveSessionWants(s, c)
      <4>1. PICK v : v = IF wants[c][s] = "wanted" THEN "interested" ELSE wants[c][s]
        OBVIOUS
      <4>2. wants' = [wants EXCEPT ![c][s] = v] /\ v \in Interest
        BY <3>4, <4>1 DEF RemoveSessionWants, Types, Interest
      <4> QED BY <4>2 DEF Types
    <3> QED BY <3>2, <3>3, <3>4 DEF Types
  <2>8. /\ toFetch' \in [Sids -> SUBSET Cids] /\ live' \in [Sids -> SUBSET Cids]
        /\ loop' \in [Sids -> {"select", "ask"}]
    <3>1. PICK c \in Cids : c = o.key
      BY <2>4
    <3>2. CASE WantBlocks(s, c)
      BY <3>2 DEF WantBlocks, Types
    <3>3. CASE HandleReceive(s, c)
      BY <3>3 DEF HandleReceive, Types
    <3>4. CASE CancelPending(s, c)
      BY <3>4 DEF CancelPending, Types
    <3>5. CASE WantsSent(s, c)
      BY <3>5 DEF WantsSent, Types
    <3> QED BY <2>5, <3>1, <3>2, <3>3, <3>4, <3>5
  <2>9. incoming' \in [Sids -> Seq(Ops)]
    BY <2>2, <2>3 DEF Types
  <2> QED BY <2>2, <2>6, <2>7, <2>8, <2>9 DEF Types
<1>2. CASE LoopAsks(s)
  <2>1. UNCHANGED <<wants, cancelKs, life, incoming, changes, cancelling, tracked, calls, arrival>>
    BY <1>2 DEF LoopAsks, interests, manager, senders
  <2>2. /\ toFetch' \in [Sids -> SUBSET Cids] /\ live' \in [Sids -> SUBSET Cids]
        /\ loop' \in [Sids -> {"select", "ask"}]
    <3>1. CASE s \in discovered
      BY <1>2, <3>1 DEF LoopAsks, Types
    <3>2. CASE s \notin discovered
      <4>1. PICK ks \in SUBSET Cids : ks = live[s] \cup toFetch[s]
        BY Zenon DEF Types
      <4>2. toFetch' = [toFetch EXCEPT ![s] = {}] /\ live' = [live EXCEPT ![s] = ks] /\ loop' = [loop EXCEPT ![s] = "select"]
        BY <1>2, <3>2, <4>1 DEF LoopAsks
      <4> QED BY <4>2 DEF Types
    <3> QED BY <3>1, <3>2
  <2> QED BY <2>1, <2>2 DEF Types
<1>3. CASE IdleTick(s)
  <2>1. UNCHANGED <<wants, cancelKs, life, incoming, loop, toFetch, live, changes, cancelling, tracked, calls, arrival>>
    BY <1>3, Zenon DEF IdleTick, interests, manager, loops, senders
  <2> QED BY <2>1 DEF Types
<1> QED BY <1>1, <1>2, <1>3

\* The want sender.
LEMMA SenderTypes ==
  ASSUME Types, NEW s \in Sids, SenderTakes(s) \/ SenderCancels(s) \/ CancelWants(s)
  PROVE  Types'
<1>0. ASSUME changes[s] # <<>>
      PROVE  Head(changes[s]) \in Ops /\ Head(changes[s]).key \in Cids /\ Tail(changes[s]) \in Seq(Ops)
  <2>1. changes[s] \in Seq(Ops)
    BY DEF Types
  <2>2. Head(changes[s]) \in Ops /\ Tail(changes[s]) \in Seq(Ops)
    BY <1>0, <2>1, QueueTail
  <2> QED BY <2>2, OpFacts
<1>1. CASE SenderTakes(s)
  <2>1. changes[s] # <<>> /\ changes' = [changes EXCEPT ![s] = Tail(@)]
    BY <1>1, Zenon DEF SenderTakes
  <2>2. UNCHANGED <<wants, cancelKs, life, loop, toFetch, live, cancelling, calls, arrival>>
    BY <1>1, Zenon DEF SenderTakes, interests, manager
  <2>3. PICK ch \in Ops : ch.key \in Cids /\ tracked' = [tracked EXCEPT ![s] = IF ch.op = "add" THEN @ \cup {ch.key} ELSE @ \ {ch.key}]
    BY <1>0, <1>1, <2>1, Zenon DEF SenderTakes
  <2>4. tracked' \in [Sids -> SUBSET Cids]
    BY <2>3 DEF Types
  <2>5. incoming' \in [Sids -> Seq(Ops)]
    <3>1. SendNextWants(s)
      BY <1>1, Zenon DEF SenderTakes
    <3>2. CASE UNCHANGED incoming
      BY <3>2 DEF Types
    <3>3. CASE \E c \in Cids : Enqueue(s, Op("wantsSent", c))
      BY <3>3, OpFacts, EnqueueTypes, Zenon
    <3>4. tracked'[s] \subseteq Cids
      BY <2>4
    <3> QED BY <3>1, <3>2, <3>3, <3>4, Zenon DEF SendNextWants
  <2>6. changes' \in [Sids -> Seq(Ops)]
    BY <1>0, <2>1 DEF Types
  <2> QED BY <2>2, <2>4, <2>5, <2>6 DEF Types
<1>2. CASE SenderCancels(s)
  <2>1. changes[s] # <<>> /\ changes' = [changes EXCEPT ![s] = Tail(@)]
    BY <1>2, Zenon DEF SenderCancels
  <2>2. UNCHANGED <<life, incoming, loop, toFetch, live, calls, arrival>>
    BY <1>2, Zenon DEF SenderCancels, manager, loops
  <2>3. PICK ch \in Ops : /\ ch.key \in Cids /\ tracked' = [tracked EXCEPT ![s] = @ \ {ch.key}]
                          /\ RemoveInterest(s, {ch.key})
    BY <1>0, <1>2, <2>1, Zenon DEF SenderCancels
  <2>4. {ch.key} \in SUBSET Cids
    BY <2>3
  <2>5. wants' \in [Cids -> [Sids -> Interest]] /\ cancelKs' \in [Sids -> SUBSET Cids]
    BY <2>3, <2>4, RemoveInterestTypes
  <2>6. tracked' \in [Sids -> SUBSET Cids] /\ cancelling' \in [Sids -> BOOLEAN]
    <3>1. tracked \in [Sids -> SUBSET Cids] /\ cancelling \in [Sids -> BOOLEAN]
      BY Zenon DEF Types
    <3>2. cancelling' = [cancelling EXCEPT ![s] = TRUE]
      BY <1>2, Zenon DEF SenderCancels
    <3> QED BY <2>3, <3>1, <3>2
  <2>7. changes' \in [Sids -> Seq(Ops)]
    BY <1>0, <2>1 DEF Types
  <2> QED BY <2>2, <2>5, <2>6, <2>7 DEF Types
<1>3. CASE CancelWants(s)
  <2>1. UNCHANGED <<wants, life, incoming, loop, toFetch, live, changes, tracked, calls, arrival>>
    BY <1>3 DEF CancelWants, manager, loops
  <2>2. cancelKs' \in [Sids -> SUBSET Cids] /\ cancelling' \in [Sids -> BOOLEAN]
    BY <1>3 DEF CancelWants, Types
  <2> QED BY <2>1, <2>2 DEF Types
<1> QED BY <1>1, <1>2, <1>3

\* The handler of a block.
LEMMA ArrivalTypes ==
  ASSUME Types, NEW h \in Arrivals,
         \/ \E c \in Cids, from \in {"peer", "local"} : Arrive(h, c, from)
         \/ InterestedSessions(h) \/ Publish(h) \/ \E s \in Sids : TellSession(h, s)
  PROVE  Types'
<1>0. ASSUME arrival[h].at \in {"sessions", "tell"} PROVE arrival[h] \in Handled
  BY <1>0 DEF Types, NotArrived, Finished
<1>1. ASSUME NEW c \in Cids, NEW from \in {"peer", "local"}, Arrive(h, c, from) PROVE Types'
  <2>1. PICK a : a = [at |-> "sessions", key |-> c, from |-> from, tell |-> {}, publish |-> from = "local" \/ Wanted(c)]
    BY Zenon
  <2>2. a \in Handled
    BY <2>1 DEF Handled, Wanted
  <2>3. arrival' = [arrival EXCEPT ![h] = a]
    BY <1>1, <2>1, Zenon DEF Arrive
  <2>4. UNCHANGED <<wants, cancelKs, life, incoming, loop, toFetch, live, changes, cancelling, tracked, calls>>
    BY <1>1, Zenon DEF Arrive, interests, manager, loops, senders
  <2> QED BY <2>2, <2>3, <2>4 DEF Types
<1>2. CASE InterestedSessions(h)
  <2>1. arrival[h] \in Handled
    BY <1>0, <1>2 DEF InterestedSessions
  <2>2. PICK a : a = [arrival[h] EXCEPT !.at = "tell", !.tell = Interested(arrival[h].key)]
    OBVIOUS
  <2>3. a \in Handled
    BY <2>1, <2>2, Zenon DEF Handled, Interested
  <2>4. arrival' = [arrival EXCEPT ![h] = a]
    BY <1>2, <2>1, <2>2, Zenon DEF InterestedSessions, Types, Handled
  <2>5. UNCHANGED <<wants, cancelKs, life, incoming, loop, toFetch, live, changes, cancelling, tracked, calls>>
    BY <1>2 DEF InterestedSessions, interests, manager, loops, senders
  <2> QED BY <2>3, <2>4, <2>5 DEF Types
<1>3. CASE Publish(h)
  <2>1. arrival' = [arrival EXCEPT ![h] = Finished]
    BY <1>3, Zenon DEF Publish
  <2>2. UNCHANGED <<wants, cancelKs, life, incoming, loop, toFetch, live, changes, cancelling, tracked>>
    BY <1>3, Zenon DEF Publish, interests, manager, loops, senders
  <2>3. calls' \in [Calls -> {"new", "open", "done", "ended"}]
    BY <1>3, Zenon DEF Publish, Types
  <2> QED BY <2>1, <2>2, <2>3 DEF Types
<1>4. ASSUME NEW s \in Sids, TellSession(h, s) PROVE Types'
  <2>1. arrival[h] \in Handled /\ arrival[h].key \in Cids
    BY <1>0, <1>4 DEF TellSession, Handled
  <2>2. PICK a : a = [arrival[h] EXCEPT !.tell = @ \ {s}]
    BY Zenon
  <2>3. a \in Handled
    BY <2>1, <2>2 DEF Handled
  <2>4. arrival' = [arrival EXCEPT ![h] = a]
    BY <1>4, <2>1, <2>2 DEF TellSession, Types, Handled
  <2>5. Op("block", arrival[h].key) \in Ops /\ Op("receive", arrival[h].key) \in Ops
    BY <2>1, OpFacts, Zenon
  <2>6. changes' = changes \/ AddChange(s, Op("block", arrival[h].key))
    BY <1>4 DEF TellSession
  <2>7. incoming' = incoming \/ Enqueue(s, Op("receive", arrival[h].key))
    BY <1>4 DEF TellSession
  <2>8. changes' \in [Sids -> Seq(Ops)] /\ incoming' \in [Sids -> Seq(Ops)]
    BY <2>5, <2>6, <2>7, AddChangeTypes, EnqueueTypes, Zenon DEF Types
  <2>9. UNCHANGED <<wants, cancelKs, life, loop, toFetch, live, cancelling, tracked, calls>>
    BY <1>4 DEF TellSession, interests, manager
  <2> QED BY <2>3, <2>4, <2>8, <2>9 DEF Types
<1> QED BY <1>1, <1>2, <1>3, <1>4

\* The end of a session and of the client.
LEMMA EndTypes ==
  ASSUME Types,
         \/ Close \/ Shutdown \/ NotifShutdown
         \/ \E s \in Sids : EndSession(s) \/ RemoveSession(s) \/ SessionRemoved(s)
  PROVE  Types'
<1>1. CASE Close \/ Shutdown \/ NotifShutdown \/ \E s \in Sids : EndSession(s)
  <2>1. UNCHANGED <<wants, cancelKs, life, incoming, loop, toFetch, live, changes, cancelling, tracked, calls, arrival>>
    BY <1>1, Zenon DEF Close, Shutdown, NotifShutdown, EndSession, interests, manager, loops, senders
  <2> QED BY <2>1 DEF Types
<1>2. ASSUME NEW s \in Sids, RemoveSession(s) PROVE Types'
  <2>1. wants' \in [Cids -> [Sids -> Interest]] /\ cancelKs' \in [Sids -> SUBSET Cids]
    BY <1>2, RemoveInterestTypes, Zenon DEF RemoveSession
  <2>2. /\ incoming' = [incoming EXCEPT ![s] = <<>>] /\ changes' = [changes EXCEPT ![s] = <<>>]
        /\ <<>> \in Seq(Ops)
    <3>1. <<>> \in Seq(Ops)
      OBVIOUS
    <3> QED BY <1>2, <3>1, Zenon DEF RemoveSession
  <2>3. incoming' \in [Sids -> Seq(Ops)] /\ changes' \in [Sids -> Seq(Ops)]
    BY <2>2 DEF Types
  <2>4. /\ toFetch' = [toFetch EXCEPT ![s] = {}] /\ live' = [live EXCEPT ![s] = {}]
        /\ tracked' = [tracked EXCEPT ![s] = {}] /\ life' = [life EXCEPT ![s] = "removing"]
        /\ UNCHANGED <<loop, cancelling, calls, arrival>>
    BY <1>2, Zenon DEF RemoveSession
  <2> QED BY <2>1, <2>3, <2>4 DEF Types
<1>3. ASSUME NEW s \in Sids, SessionRemoved(s) PROVE Types'
  <2>1. cancelKs' = [cancelKs EXCEPT ![s] = {}] /\ life' = [life EXCEPT ![s] = "removed"]
    BY <1>3 DEF SessionRemoved
  <2>2. UNCHANGED <<wants, incoming, loop, toFetch, live, changes, cancelling, tracked, calls, arrival>>
    BY <1>3 DEF SessionRemoved, loops, senders
  <2> QED BY <2>1, <2>2 DEF Types
<1> QED BY <1>1, <1>2, <1>3

\* Every step keeps the types.
LEMMA NextTypes ==
  ASSUME Types, [Next]_vars
  PROVE  Types'
<1>1. CASE UNCHANGED vars
  BY <1>1 DEF vars, interests, manager, loops, senders, Types
<1>2. CASE Inputs
  BY <1>2, EndTypes, CallTypes, ArrivalTypes DEF Inputs, CancelCall
<1>3. CASE Work
  BY <1>3, EndTypes, CallTypes, ArrivalTypes, LoopTypes, SenderTypes DEF Work, CallEnds
<1> QED BY <1>1, <1>2, <1>3 DEF Next

-----------------------------------------------------------------------------
(* Cancels come after wants *)

\* A queue loses operations from its front and gets others than o and p.
Kept(old, new, o, p) ==
  /\ Precedes(o, p, old) => Precedes(o, p, new)
  /\ Has(new, o) => Has(old, o)
  /\ Has(new, p) => Has(old, p)

\* What the steps do to a queue keeps the order of the operations they do not add.
LEMMA KeptCases ==
  ASSUME NEW old \in Seq(Ops), NEW new, NEW o, NEW p, o # p,
         \/ new = old \/ new = <<>>
         \/ \E x \in Ops : x # o /\ x # p /\ new = Append(old, x)
         \/ old # <<>> /\ new = Tail(old)
  PROVE  Kept(old, new, o, p)
<1>1. CASE new = old
  BY <1>1 DEF Kept
<1>2. CASE new = <<>>
  BY <1>2, QueueEmpty DEF Kept
<1>3. ASSUME NEW x \in Ops, x # o, x # p, new = Append(old, x) PROVE Kept(old, new, o, p)
  BY <1>3, QueueAppend DEF Kept
<1>4. CASE old # <<>> /\ new = Tail(old)
  BY <1>4, QueueTail DEF Kept
<1> QED BY <1>1, <1>2, <1>3, <1>4

\* Enqueue and AddChange add the operation to the queue of the session, or not.
LEMMA EnqueueEffect ==
  ASSUME Types, NEW s \in Sids, NEW o, Enqueue(s, o)
  PROVE  /\ \A t \in Sids : t # s => incoming'[t] = incoming[t]
         /\ incoming'[s] = incoming[s] \/ incoming'[s] = Append(incoming[s], o)
         /\ s \notin ended => incoming'[s] = Append(incoming[s], o)
BY DEF Enqueue, Types

\* The same for the changes of a want sender.
LEMMA AddChangeEffect ==
  ASSUME Types, NEW s \in Sids, NEW o, AddChange(s, o)
  PROVE  /\ \A t \in Sids : t # s => changes'[t] = changes[t]
         /\ changes'[s] = changes[s] \/ changes'[s] = Append(changes[s], o)
BY DEF AddChange, Types

\* A step that keeps the order of what concerns the key in the queues of the
\* session, fetches and tracks no more, and removes no interest.
LEMMA OrderlyKept ==
  ASSUME NEW s \in Sids, NEW c \in Cids, Orderly(s, c),
         Kept(incoming[s], incoming'[s], Op("want", c), Op("cancel", c)),
         Kept(changes[s], changes'[s], Op("add", c), Op("cancel", c)),
         c \in toFetch'[s] => c \in toFetch[s],
         c \in tracked'[s] => c \in tracked[s] \/ wants'[c][s] # "none",
         wants[c][s] # "none" => wants'[c][s] # "none",
         Awaited(s, c)' => Awaited(s, c)
  PROVE  Orderly(s, c)'
BY Zenon DEF Orderly, Kept

\* Operations of different kinds differ.
LEMMA KindsDiffer ==
  ASSUME NEW c, NEW d
  PROVE  /\ Op("want", c) # Op("cancel", d) /\ Op("want", c) # Op("receive", d)
         /\ Op("add", c) # Op("cancel", d) /\ Op("cancel", c) # Op("receive", d)
         /\ Op("want", c) = Op("want", d) => c = d
BY OpFacts

\* The same for keys.
LEMMA KeysDiffer ==
  ASSUME NEW k, NEW l, NEW c, NEW d, Op(k, c) = Op(l, d)
  PROVE  c = d
BY OpFacts

\* The queues of a session are untouched, or get an operation of another kind or key.
LEMMA QueuesKept ==
  ASSUME Types, NEW s \in Sids, NEW c \in Cids,
         \/ incoming'[s] = incoming[s] \/ incoming'[s] = <<>>
         \/ \E x \in Ops : x # Op("want", c) /\ x # Op("cancel", c) /\ incoming'[s] = Append(incoming[s], x)
         \/ incoming[s] # <<>> /\ incoming'[s] = Tail(incoming[s]),
         \/ changes'[s] = changes[s] \/ changes'[s] = <<>>
         \/ \E x \in Ops : x # Op("add", c) /\ x # Op("cancel", c) /\ changes'[s] = Append(changes[s], x)
         \/ changes[s] # <<>> /\ changes'[s] = Tail(changes[s])
  PROVE  /\ Kept(incoming[s], incoming'[s], Op("want", c), Op("cancel", c))
         /\ Kept(changes[s], changes'[s], Op("add", c), Op("cancel", c))
<1>1. incoming[s] \in Seq(Ops) /\ changes[s] \in Seq(Ops)
  BY Zenon DEF Types
<1>2. Op("want", c) # Op("cancel", c) /\ Op("add", c) # Op("cancel", c)
  BY KindsDiffer, Zenon
<1>3. Kept(incoming[s], incoming'[s], Op("want", c), Op("cancel", c))
  BY <1>1, <1>2, KeptCases, Zenon
<1>4. Kept(changes[s], changes'[s], Op("add", c), Op("cancel", c))
  BY <1>1, <1>2, KeptCases, Zenon
<1> QED BY <1>3, <1>4, Zenon

\* A call that is made has no cancel before it; one that ends is the last.
LEMMA CallOrderly ==
  ASSUME Types, OrderlyInv, CancelsFinal', NEW r \in Calls, GetBlocks(r) \/ EndCall(r)
  PROVE  OrderlyInv'
<1> SUFFICES ASSUME NEW s \in Sids, NEW c \in Cids PROVE Orderly(s, c)'
  BY DEF OrderlyInv
<1>0. Orderly(s, c)
  BY DEF OrderlyInv
<1>1. PICK t \in Sids, d \in Cids : t = SessionOf[r] /\ d = KeyOf[r]
  BY CallsAssumption
<1>2. UNCHANGED <<wants, changes, toFetch, tracked>>
  BY Zenon DEF GetBlocks, EndCall, interests, senders
<1>3. (calls[r] = "new" /\ calls' = [calls EXCEPT ![r] = "open"]) \/ calls' = [calls EXCEPT ![r] = "ended"]
  BY Zenon DEF GetBlocks, EndCall
<1>4. Awaited(s, c)' => Awaited(s, c)
  <2>1. \A q \in Calls : calls'[q] \in {"new", "open"} => calls[q] \in {"new", "open"}
    <3>1. DOMAIN calls = Calls
      BY Zenon DEF Types
    <3> QED BY <1>3, <3>1
  <2> QED BY <2>1, Zenon DEF Awaited
<1>5. ASSUME NEW k \in {"want", "cancel"}, Enqueue(t, Op(k, d)), ~(s = t /\ c = d) PROVE Orderly(s, c)'
  <2>1. Op(k, d) \in Ops /\ (s = t => Op(k, d) # Op("want", c) /\ Op(k, d) # Op("cancel", c))
    BY <1>5, OpFacts
  <2>2. incoming'[s] = incoming[s] \/ (s = t /\ incoming'[s] = Append(incoming[s], Op(k, d)))
    BY <1>5, EnqueueEffect, Zenon
  <2>3. /\ Kept(incoming[s], incoming'[s], Op("want", c), Op("cancel", c))
        /\ Kept(changes[s], changes'[s], Op("add", c), Op("cancel", c))
    BY <1>2, <2>1, <2>2, QueuesKept, Zenon
  <2> QED BY <1>0, <1>2, <1>4, <2>3, OrderlyKept, Zenon
<1>6. incoming[t] \in Seq(Ops) /\ Op("want", d) \in Ops /\ Op("cancel", d) \in Ops /\ Op("want", d) # Op("cancel", d)
  <2>1. incoming[t] \in Seq(Ops)
    BY Zenon DEF Types
  <2> QED BY <2>1, OpFacts
<1>7. CASE GetBlocks(r) /\ s = t /\ c = d
  <2>1. Awaited(s, c)
    BY <1>1, <1>7, Zenon DEF GetBlocks, Awaited
  <2>2. ~Has(incoming[s], Op("cancel", c)) /\ ~Has(changes[s], Op("cancel", c))
    BY <1>0, <2>1, Zenon DEF Orderly
  <2>3. Enqueue(s, Op("want", c))
    BY <1>1, <1>7, Zenon DEF GetBlocks
  <2>4. incoming'[s] = incoming[s] \/ incoming'[s] = Append(incoming[s], Op("want", c))
    BY <2>3, EnqueueEffect, Zenon
  <2>5. Precedes(Op("want", c), Op("cancel", c), incoming[s])
    BY <1>0, Zenon DEF Orderly
  <2>6. ~Has(incoming'[s], Op("cancel", c)) /\ Precedes(Op("want", c), Op("cancel", c), incoming'[s])
    <3>1. PICK queue \in Seq(Ops), x \in Ops, p \in Ops : queue = incoming[s] /\ x = Op("want", c) /\ p = Op("cancel", c)
      BY <1>6, <1>7
    <3>2. x # p /\ ~Has(queue, p) /\ Precedes(x, p, queue)
      BY <1>6, <1>7, <2>2, <2>5, <3>1, Zenon
    <3>3. ~Has(Append(queue, x), p) /\ Precedes(x, p, Append(queue, x))
      BY <3>2, QueueAppend
    <3> QED BY <2>4, <3>1, <3>2, <3>3, Zenon
  <2> QED BY <1>0, <1>2, <2>2, <2>6, Zenon DEF Orderly
<1>8. CASE EndCall(r) /\ s = t /\ c = d
  <2>1. calls'[r] = "ended"
    BY <1>8, Zenon DEF EndCall, Types
  <2>2. ~Awaited(s, c)'
    BY <1>1, <1>8, <2>1, Zenon DEF CancelsFinal, Awaited
  <2>3. Enqueue(s, Op("cancel", c))
    BY <1>1, <1>8, Zenon DEF EndCall
  <2>4. incoming'[s] = incoming[s] \/ incoming'[s] = Append(incoming[s], Op("cancel", c))
    BY <2>3, EnqueueEffect, Zenon
  <2>5. Precedes(Op("want", c), Op("cancel", c), incoming[s])
    BY <1>0, Zenon DEF Orderly
  <2>6. /\ Precedes(Op("want", c), Op("cancel", c), incoming'[s])
        /\ Has(incoming'[s], Op("want", c)) => Has(incoming[s], Op("want", c))
    <3>1. PICK queue \in Seq(Ops), x \in Ops, o \in Ops : queue = incoming[s] /\ x = Op("cancel", c) /\ o = Op("want", c)
      BY <1>6, <1>8
    <3>2. o # x /\ Precedes(o, x, queue)
      BY <1>6, <1>8, <2>5, <3>1
    <3>3. (Has(Append(queue, x), o) => Has(queue, o)) /\ Precedes(o, x, Append(queue, x))
      BY <3>2, QueueAppend
    <3> QED BY <2>4, <3>1, <3>2, <3>3, Zenon
  <2> QED BY <1>0, <1>2, <2>2, <2>6, Zenon DEF Orderly
<1>9. Enqueue(t, Op("want", d)) \/ Enqueue(t, Op("cancel", d))
  BY <1>1, Zenon DEF GetBlocks, EndCall
<1> QED BY <1>5, <1>7, <1>8, <1>9

\* RemoveSessionWants leaves a session interested.
LEMMA RemoveSessionWantsEffect ==
  ASSUME Types, NEW t \in Sids, NEW d \in Cids, RemoveSessionWants(t, d), NEW s \in Sids, NEW c \in Cids
  PROVE  /\ wants[c][s] # "none" => wants'[c][s] # "none"
         /\ ~(s = t /\ c = d) => wants'[c][s] = wants[c][s]
<1>1. PICK v : v = IF wants[d][t] = "wanted" THEN "interested" ELSE wants[d][t]
  OBVIOUS
<1>2. wants' = [wants EXCEPT ![d][t] = v] /\ (wants[d][t] # "none" => v # "none")
  BY <1>1 DEF RemoveSessionWants
<1>3. wants'[c][s] = IF s = t /\ c = d THEN v ELSE wants[c][s]
  BY <1>2 DEF Types
<1> QED BY <1>2, <1>3

\* The run loop: a want is on record before the want sender hears of it, and a
\* cancel that the want sender is sent comes after every want.
LEMMA HandleOpOrderly ==
  ASSUME Types, OrderlyInv, NEW t \in Sids, HandleOp(t)
  PROVE  OrderlyInv'
<1> SUFFICES ASSUME NEW s \in Sids, NEW c \in Cids PROVE Orderly(s, c)'
  BY DEF OrderlyInv
<1>0. Orderly(s, c)
  BY DEF OrderlyInv
<1>1. PICK queue \in Seq(Ops), todo \in Seq(Ops) : queue = incoming[t] /\ todo = changes[t]
  BY DEF Types
<1>2. queue # <<>> /\ incoming' = [incoming EXCEPT ![t] = Tail(queue)] /\ UNCHANGED <<tracked, calls>> /\ life[t] = "running"
  BY <1>1, Zenon DEF HandleOp
<1>3. PICK o \in Ops : o = Head(queue)
  BY <1>2, QueueTail
<1>4. PICK d \in Cids : d = o.key /\ o = Op(o.op, d)
  BY <1>3, OpFacts
<1>5. \/ o = Op("want", d) /\ WantBlocks(t, d)
      \/ o = Op("receive", d) /\ HandleReceive(t, d)
      \/ o = Op("cancel", d) /\ CancelPending(t, d)
      \/ o = Op("wantsSent", d) /\ WantsSent(t, d)
  BY <1>1, <1>3, <1>4, Zenon DEF HandleOp
<1>6. incoming'[t] = Tail(queue) /\ (s # t => incoming'[s] = incoming[s])
  BY <1>2 DEF Types
<1>7. Awaited(s, c)' => Awaited(s, c)
  BY <1>2, Zenon DEF Awaited
<1>8. c \in tracked'[s] => c \in tracked[s]
  BY <1>2
<1>9. CASE HandleReceive(t, d) \/ WantsSent(t, d)
  <2>1. changes' = changes /\ (c \in toFetch'[s] => c \in toFetch[s])
    <3>1. changes' = changes /\ toFetch' = [toFetch EXCEPT ![t] = @ \ {d}]
      BY <1>9 DEF HandleReceive, WantsSent
    <3> QED BY <3>1 DEF Types
  <2>2. wants[c][s] # "none" => wants'[c][s] # "none"
    <3>1. wants' = wants \/ RemoveSessionWants(t, d)
      BY <1>9 DEF HandleReceive, WantsSent
    <3>2. CASE RemoveSessionWants(t, d)
      BY <3>2, RemoveSessionWantsEffect
    <3> QED BY <3>1, <3>2, Zenon
  <2>3. /\ Kept(incoming[s], incoming'[s], Op("want", c), Op("cancel", c))
        /\ Kept(changes[s], changes'[s], Op("add", c), Op("cancel", c))
    BY <1>1, <1>2, <1>6, <2>1, QueuesKept, Zenon
  <2> QED BY <1>0, <1>7, <1>8, <2>1, <2>2, <2>3, OrderlyKept, Zenon
<1>10. ASSUME NEW k \in {"add", "cancel"}, AddChange(t, Op(k, d)), ~(s = t /\ c = d),
              c \in toFetch'[s] => c \in toFetch[s], wants[c][s] # "none" => wants'[c][s] # "none"
       PROVE  Orderly(s, c)'
  <2>1. Op(k, d) \in Ops /\ (s = t => Op(k, d) # Op("add", c) /\ Op(k, d) # Op("cancel", c))
    <3>1. Op("add", d) \in Ops /\ Op("cancel", d) \in Ops
      BY OpFacts, Zenon
    <3>2. c # d => Op(k, d) # Op("add", c) /\ Op(k, d) # Op("cancel", c)
      BY KeysDiffer, Zenon
    <3> QED BY <1>10, <3>1, <3>2, Zenon
  <2>2. changes'[s] = changes[s] \/ (s = t /\ changes'[s] = Append(changes[s], Op(k, d)))
    BY <1>10, AddChangeEffect, Zenon
  <2>3. /\ Kept(incoming[s], incoming'[s], Op("want", c), Op("cancel", c))
        /\ Kept(changes[s], changes'[s], Op("add", c), Op("cancel", c))
    BY <1>1, <1>2, <1>6, <2>1, <2>2, QueuesKept, Zenon
  <2> QED BY <1>0, <1>7, <1>8, <1>10, <2>3, OrderlyKept, Zenon
<1>11. CASE o = Op("want", d) /\ WantBlocks(t, d)
  <2>1. AddChange(t, Op("add", d)) /\ toFetch' = [toFetch EXCEPT ![t] = @ \cup {d}] /\ wants' = [wants EXCEPT ![d][t] = "wanted"]
    BY <1>11 DEF WantBlocks, RecordSessionInterest
  <2>2. wants'[d][t] = "wanted" /\ (~(s = t /\ c = d) => wants'[c][s] = wants[c][s])
    BY <2>1 DEF Types
  <2>3. CASE s = t /\ c = d
    <3>1. PICK want \in Ops, add \in Ops, cancel \in Ops :
            want = Op("want", c) /\ add = Op("add", c) /\ cancel = Op("cancel", c) /\ add # cancel /\ want # cancel
      BY OpFacts
    <3>2. Has(queue, want)
      BY <1>2, <1>3, <1>11, <2>3, <3>1, QueueTail, Zenon
    <3>3. /\ Precedes(want, cancel, queue) /\ Precedes(add, cancel, todo) /\ ~Has(todo, cancel)
          /\ Awaited(s, c) => ~Has(queue, cancel)
      BY <1>0, <1>1, <2>3, <3>1, <3>2, Zenon DEF Orderly
    <3>4. /\ Precedes(want, cancel, Tail(queue))
          /\ Has(Tail(queue), cancel) => Has(queue, cancel)
      BY <1>2, <3>3, QueueTail, Zenon
    <3>5. Precedes(add, cancel, Append(todo, add)) /\ ~Has(Append(todo, add), cancel)
      BY <3>1, <3>3, QueueAppend
    <3>6. changes'[s] = todo \/ changes'[s] = Append(todo, add)
      BY <1>1, <2>1, <2>3, <3>1, AddChangeEffect
    <3>7. Precedes(add, cancel, changes'[s]) /\ ~Has(changes'[s], cancel)
      BY <3>3, <3>5, <3>6, Zenon
    <3> QED BY <1>6, <1>7, <2>2, <2>3, <3>1, <3>3, <3>4, <3>7, Zenon DEF Orderly
  <2>4. CASE ~(s = t /\ c = d)
    <3>1. c \in toFetch'[s] => c \in toFetch[s]
      BY <2>1, <2>4 DEF Types
    <3> QED BY <1>10, <2>1, <2>2, <2>4, <3>1
  <2> QED BY <2>3, <2>4
<1>12. CASE o = Op("cancel", d) /\ CancelPending(t, d)
  <2>1. AddChange(t, Op("cancel", d)) /\ toFetch' = [toFetch EXCEPT ![t] = @ \ {d}] /\ wants' = wants
    BY <1>12 DEF CancelPending
  <2>2. (s = t /\ c = d => c \notin toFetch'[s]) /\ (c \in toFetch'[s] => c \in toFetch[s])
    BY <2>1 DEF Types
  <2>3. CASE s = t /\ c = d
    <3>1. PICK want \in Ops, add \in Ops, cancel \in Ops :
            want = Op("want", c) /\ add = Op("add", c) /\ cancel = Op("cancel", c) /\ add # cancel /\ want # cancel
      BY OpFacts
    <3>2. Head(queue) = cancel /\ Has(queue, cancel)
      BY <1>2, <1>3, <1>12, <2>3, <3>1, QueueTail, Zenon
    <3>3. /\ Precedes(want, cancel, queue) /\ Precedes(add, cancel, todo) /\ ~Awaited(s, c)
          /\ Has(todo, add) => wants[c][s] # "none"
      BY <1>0, <1>1, <2>3, <3>1, <3>2, Zenon DEF Orderly
    <3>4. Precedes(want, cancel, Tail(queue)) /\ ~Has(Tail(queue), want)
      BY <1>2, <3>2, <3>3, QueueTail, Zenon
    <3>5. Precedes(add, cancel, Append(todo, cancel)) /\ (Has(Append(todo, cancel), add) => Has(todo, add))
      <4>1. Has(Append(todo, cancel), add) => Has(todo, add)
        BY <3>1, OpsAppend, Zenon
      <4> QED BY <3>1, <3>3, <4>1, QueueAppend, Zenon
    <3>6. changes'[s] = todo \/ changes'[s] = Append(todo, cancel)
      BY <1>1, <2>1, <2>3, <3>1, AddChangeEffect, Zenon
    <3>7. Precedes(add, cancel, changes'[s]) /\ (Has(changes'[s], add) => Has(todo, add))
      BY <3>3, <3>5, <3>6, Zenon
    <3>8. c \in tracked[s] => wants[c][s] # "none"
      BY <1>0, Zenon DEF Orderly
    <3> QED BY <1>6, <1>7, <1>8, <2>1, <2>2, <2>3, <3>1, <3>3, <3>4, <3>7, <3>8, Zenon DEF Orderly
  <2>4. CASE ~(s = t /\ c = d)
    BY <1>10, <2>1, <2>2, <2>4, Zenon
  <2> QED BY <2>3, <2>4
<1> QED BY <1>5, <1>9, <1>11, <1>12

\* The rest of the run loop fetches no more.
LEMMA LoopOrderly ==
  ASSUME Types, OrderlyInv, NEW t \in Sids, LoopAsks(t) \/ IdleTick(t)
  PROVE  OrderlyInv'
<1>1. UNCHANGED <<wants, incoming, changes, tracked, calls>>
  BY Zenon DEF LoopAsks, IdleTick, interests, loops, senders
<1>2. toFetch' = toFetch \/ toFetch' = [toFetch EXCEPT ![t] = {}]
  BY Zenon DEF LoopAsks, IdleTick, loops
<1>3. \A s \in Sids : toFetch'[s] \subseteq toFetch[s]
  BY <1>2, Zenon DEF Types
<1> QED BY <1>1, <1>3, Zenon DEF OrderlyInv, Orderly, Awaited

\* RemoveInterest takes the session's interest in the keys and no other.
LEMMA RemoveInterestEffect ==
  ASSUME Types, NEW t \in Sids, NEW ks \in SUBSET Cids, RemoveInterest(t, ks), NEW c \in Cids, NEW s \in Sids
  PROVE  wants'[c][s] = IF c \in ks /\ s = t THEN "none" ELSE wants[c][s]
<1>1. DOMAIN wants[c] = Sids
  BY Zenon DEF Types
<1>2. wants'[c] = IF c \in ks THEN [wants[c] EXCEPT ![t] = "none"] ELSE wants[c]
  BY Zenon DEF RemoveInterest
<1> QED BY <1>1, <1>2

\* The interest in other keys, and that of other sessions, is kept.
LEMMA OtherInterestKept ==
  ASSUME Types, NEW t \in Sids, NEW ks \in SUBSET Cids, RemoveInterest(t, ks), NEW c \in Cids, NEW s \in Sids,
         c \notin ks \/ s # t
  PROVE  wants'[c][s] = wants[c][s]
BY RemoveInterestEffect

\* The want sender: it tracks what is on record, and a cancel leaves nothing of
\* the key behind.
LEMMA SenderOrderly ==
  ASSUME Types, OrderlyInv, NEW t \in Sids, SenderTakes(t) \/ SenderCancels(t) \/ CancelWants(t)
  PROVE  OrderlyInv'
<1> SUFFICES ASSUME NEW s \in Sids, NEW c \in Cids PROVE Orderly(s, c)'
  BY DEF OrderlyInv
<1>0. Orderly(s, c)
  BY DEF OrderlyInv
<1>1. UNCHANGED <<toFetch, calls>>
  BY Zenon DEF SenderTakes, SenderCancels, CancelWants, loops
<1>2. Awaited(s, c)' => Awaited(s, c)
  BY <1>1 DEF Awaited
<1>3. PICK todo \in Seq(Ops) : todo = changes[t]
  BY DEF Types
<1>4. CASE CancelWants(t)
  <2>1. UNCHANGED <<wants, incoming, changes, tracked>>
    BY <1>4 DEF CancelWants, loops
  <2> QED BY <1>0, <1>1, <1>2, <2>1, Zenon DEF Orderly
<1>5. CASE SenderTakes(t)
  <2>1. todo # <<>> /\ changes' = [changes EXCEPT ![t] = Tail(todo)] /\ wants' = wants /\ SendNextWants(t)
    BY <1>3, <1>5, Zenon DEF SenderTakes, interests
  <2>2. PICK ch \in Ops : ch = Head(todo) /\ ch.key \in Cids /\ ch = Op(ch.op, ch.key) /\ Has(todo, ch)
    BY <2>1, QueueTail, OpFacts, Zenon
  <2>3. tracked' = [tracked EXCEPT ![t] = IF ch.op = "add" THEN @ \cup {ch.key} ELSE @ \ {ch.key}]
    BY <1>3, <1>5, <2>2, Zenon DEF SenderTakes
  <2>4. c \in tracked'[s] => c \in tracked[s] \/ (s = t /\ ch = Op("add", c))
    BY <2>2, <2>3, Zenon DEF Types
  <2>5. c \in tracked'[s] => c \in tracked[s] \/ wants'[c][s] # "none"
    BY <1>0, <1>3, <2>1, <2>2, <2>4, Zenon DEF Orderly
  <2>6. incoming'[s] = incoming[s] \/ \E d \in Cids : incoming'[s] = Append(incoming[s], Op("wantsSent", d))
    <3>1. tracked'[t] \subseteq Cids
      BY SenderTypes, Zenon DEF Types
    <3>2. incoming' = incoming \/ \E d \in Cids : Enqueue(t, Op("wantsSent", d))
      BY <2>1, <3>1, Zenon DEF SendNextWants
    <3> QED BY <3>2, EnqueueEffect
  <2>7. changes'[s] = changes[s] \/ (s = t /\ changes'[s] = Tail(todo))
    BY <2>1 DEF Types
  <2>8. \A d \in Cids : Op("wantsSent", d) \in Ops /\ Op("wantsSent", d) # Op("want", c) /\ Op("wantsSent", d) # Op("cancel", c)
    BY OpFacts
  <2>9. /\ Kept(incoming[s], incoming'[s], Op("want", c), Op("cancel", c))
        /\ Kept(changes[s], changes'[s], Op("add", c), Op("cancel", c))
    BY <1>3, <2>1, <2>6, <2>7, <2>8, QueuesKept, Zenon
  <2> QED BY <1>0, <1>1, <1>2, <2>1, <2>5, <2>9, OrderlyKept, Zenon
<1>6. CASE SenderCancels(t)
  <2>1. todo # <<>> /\ changes' = [changes EXCEPT ![t] = Tail(todo)] /\ incoming' = incoming
    BY <1>3, <1>6, Zenon DEF SenderCancels, loops
  <2>2. PICK d \in Cids : /\ Head(todo) = Op("cancel", d) /\ tracked' = [tracked EXCEPT ![t] = @ \ {d}]
                          /\ RemoveInterest(t, {d})
    <3>1. Head(todo) \in Ops
      BY <2>1, QueueTail
    <3>2. Head(todo).key \in Cids /\ Head(todo) = Op(Head(todo).op, Head(todo).key)
      BY <3>1, OpFacts, Zenon
    <3> QED BY <1>3, <1>6, <3>2, Zenon DEF SenderCancels
  <2>3. changes'[s] = changes[s] \/ (s = t /\ changes'[s] = Tail(todo))
    BY <2>1 DEF Types
  <2>4. c # d \/ s # t => wants'[c][s] = wants[c][s]
    <3>1. {d} \in SUBSET Cids /\ (c # d => c \notin {d})
      OBVIOUS
    <3> QED BY <2>2, <3>1, OtherInterestKept, Zenon
  <2>5. c \in tracked'[s] => c \in tracked[s] /\ ~(c = d /\ s = t)
    BY <2>2 DEF Types
  <2>6. CASE ~(s = t /\ c = d)
    <3>1. /\ Kept(incoming[s], incoming'[s], Op("want", c), Op("cancel", c))
          /\ Kept(changes[s], changes'[s], Op("add", c), Op("cancel", c))
      BY <1>3, <2>1, <2>3, QueuesKept, Zenon
    <3> QED BY <1>0, <1>1, <1>2, <2>4, <2>5, <2>6, <3>1, OrderlyKept, Zenon
  <2>7. CASE s = t /\ c = d
    <3>1. PICK add \in Ops, cancel \in Ops : add = Op("add", c) /\ cancel = Op("cancel", c)
      BY OpFacts
    <3>2. Precedes(add, cancel, todo) /\ Has(todo, cancel) /\ Head(todo) = cancel
      <4>1. Precedes(Op("add", c), Op("cancel", c), changes[s])
        BY <1>0, Zenon DEF Orderly
      <4>2. Has(todo, Head(todo))
        BY <2>1, QueueTail, Zenon
      <4> QED BY <1>3, <2>2, <2>7, <3>1, <4>1, <4>2, Zenon
    <3>3. /\ Precedes(add, cancel, Tail(todo)) /\ ~Has(Tail(todo), add)
          /\ Has(Tail(todo), cancel) => Has(todo, cancel)
      BY <2>1, <3>2, QueueTail, Zenon
    <3>4. changes'[s] = Tail(todo)
      BY <2>1, <2>7 DEF Types
    <3>5. c \notin tracked'[s]
      BY <2>5, <2>7
    <3> QED BY <1>0, <1>1, <1>2, <1>3, <2>1, <2>7, <3>1, <3>2, <3>3, <3>4, <3>5, Zenon DEF Orderly
  <2> QED BY <2>6, <2>7
<1> QED BY <1>4, <1>5, <1>6

\* A block that is being handled has a key.
LEMMA HandledKey ==
  ASSUME Types, NEW h \in Arrivals, arrival[h].at \in {"sessions", "tell"}
  PROVE  arrival[h] \in Handled /\ arrival[h].key \in Cids /\ arrival[h].publish \in BOOLEAN
<1>1. arrival[h] \in Handled
  BY DEF Types, NotArrived, Finished
<1> QED BY <1>1 DEF Handled

\* Telling a session of a block adds a receipt and a change that are no wants.
LEMMA TellOrderly ==
  ASSUME Types, OrderlyInv, NEW h \in Arrivals, NEW t \in Sids, TellSession(h, t)
  PROVE  OrderlyInv'
<1> SUFFICES ASSUME NEW s \in Sids, NEW c \in Cids PROVE Orderly(s, c)'
  BY DEF OrderlyInv
<1>0. Orderly(s, c)
  BY DEF OrderlyInv
<1>1. PICK d \in Cids : d = arrival[h].key
  BY HandledKey DEF TellSession
<1>2. UNCHANGED <<wants, toFetch, tracked, calls>>
  BY DEF TellSession, interests
<1>3. changes' = changes \/ AddChange(t, Op("block", d))
  BY <1>1 DEF TellSession
<1>4. incoming' = incoming \/ Enqueue(t, Op("receive", d))
  BY <1>1 DEF TellSession
<1>5. changes'[s] = changes[s] \/ changes'[s] = Append(changes[s], Op("block", d))
  BY <1>3, AddChangeEffect
<1>6. incoming'[s] = incoming[s] \/ incoming'[s] = Append(incoming[s], Op("receive", d))
  BY <1>4, EnqueueEffect
<1>7. /\ Op("block", d) \in Ops /\ Op("block", d) # Op("add", c) /\ Op("block", d) # Op("cancel", c)
      /\ Op("receive", d) \in Ops /\ Op("receive", d) # Op("want", c) /\ Op("receive", d) # Op("cancel", c)
  BY OpFacts
<1>8. /\ Kept(incoming[s], incoming'[s], Op("want", c), Op("cancel", c))
      /\ Kept(changes[s], changes'[s], Op("add", c), Op("cancel", c))
  BY <1>5, <1>6, <1>7, QueuesKept, Zenon
<1> QED BY <1>0, <1>2, <1>8, OrderlyKept, Zenon DEF Awaited

\* A session that is removed has nothing under way.
LEMMA RemoveOrderly ==
  ASSUME Types, OrderlyInv, NEW t \in Sids, RemoveSession(t)
  PROVE  OrderlyInv'
<1> SUFFICES ASSUME NEW s \in Sids, NEW c \in Cids PROVE Orderly(s, c)'
  BY DEF OrderlyInv
<1>0. Orderly(s, c) /\ calls' = calls
  BY Zenon DEF OrderlyInv, RemoveSession
<1>1. CASE s = t
  <2>1. incoming'[s] = <<>> /\ changes'[s] = <<>> /\ toFetch'[s] = {} /\ tracked'[s] = {}
    BY <1>1, Zenon DEF RemoveSession, Types
  <2> QED BY <2>1, QueueEmpty, Zenon DEF Orderly
<1>2. CASE s # t
  <2>1. UNCHANGED <<incoming[s], changes[s], toFetch[s], tracked[s]>>
    BY <1>2, Zenon DEF RemoveSession, Types
  <2>2. wants'[c][s] = wants[c][s]
    <3>1. RemoveInterest(t, Cids) /\ Cids \in SUBSET Cids
      BY Zenon DEF RemoveSession
    <3> QED BY <1>2, <3>1, OtherInterestKept, Zenon
  <2> QED BY <1>0, <2>1, <2>2, Zenon DEF Orderly, Awaited
<1> QED BY <1>1, <1>2

\* The remaining steps leave the queues and the interests alone.
LEMMA QuietOrderly ==
  ASSUME OrderlyInv, UNCHANGED <<wants, incoming, changes, toFetch, tracked>>,
         \A r \in Calls : calls'[r] \in {"new", "open"} => calls[r] \in {"new", "open"}
  PROVE  OrderlyInv'
<1>1. \A s, c : Awaited(s, c)' => Awaited(s, c)
  BY Zenon DEF Awaited
<1> QED BY <1>1, Zenon DEF OrderlyInv, Orderly

\* Every step keeps wants before cancels.
LEMMA NextOrderly ==
  ASSUME Types, OrderlyInv, CancelsFinal', [Next]_vars
  PROVE  OrderlyInv'
<1>1. CASE UNCHANGED vars
  BY <1>1, QuietOrderly DEF vars, interests, loops, senders
<1>2. ASSUME NEW r \in Calls, GetBlocks(r) \/ CancelCall(r) \/ CallEnds(r) PROVE OrderlyInv'
  BY <1>2, CallOrderly DEF CancelCall, CallEnds
<1>3. ASSUME NEW h \in Arrivals, NEW c, NEW from, Arrive(h, c, from) PROVE OrderlyInv'
  BY <1>3, QuietOrderly, Zenon DEF Arrive, interests, loops, senders
<1>4. CASE Close \/ Shutdown \/ NotifShutdown \/ \E s \in Sids : EndSession(s)
  BY <1>4, QuietOrderly, Zenon DEF Close, Shutdown, NotifShutdown, EndSession, interests, loops, senders
<1>5. ASSUME NEW s \in Sids, HandleOp(s) \/ LoopAsks(s) \/ IdleTick(s) PROVE OrderlyInv'
  BY <1>5, HandleOpOrderly, LoopOrderly
<1>6. ASSUME NEW s \in Sids, SenderTakes(s) \/ SenderCancels(s) \/ CancelWants(s) PROVE OrderlyInv'
  BY <1>6, SenderOrderly
<1>7. ASSUME NEW h \in Arrivals, InterestedSessions(h) PROVE OrderlyInv'
  BY <1>7, QuietOrderly DEF InterestedSessions, interests, loops, senders
<1>8. ASSUME NEW h \in Arrivals, Publish(h) PROVE OrderlyInv'
  <2>1. \A r \in Calls : calls'[r] \in {"new", "open"} => calls[r] \in {"new", "open"}
    BY <1>8, Zenon DEF Publish
  <2> QED BY <1>8, <2>1, QuietOrderly, Zenon DEF Publish, interests, loops, senders
<1>9. ASSUME NEW h \in Arrivals, NEW s \in Sids, TellSession(h, s) PROVE OrderlyInv'
  BY <1>9, TellOrderly
<1>10. ASSUME NEW s \in Sids, RemoveSession(s) PROVE OrderlyInv'
  BY <1>10, RemoveOrderly
<1>11. ASSUME NEW s \in Sids, SessionRemoved(s) PROVE OrderlyInv'
  BY <1>11, QuietOrderly DEF SessionRemoved, loops, senders
<1> QED BY <1>1, <1>2, <1>3, <1>4, <1>5, <1>6, <1>7, <1>8, <1>9, <1>10, <1>11, Zenon DEF Next, Inputs, Work

-----------------------------------------------------------------------------
(* What peers are asked for is of interest, or about to be cancelled *)

\* A step after which the keys asked for are still covered.
LEMMA CoveredKept ==
  ASSUME Types, AskedInv, asked' \subseteq Cids,
         \A c \in Cids : c \in asked' =>
           \/ \E s \in Sids : wants'[c][s] # "none" \/ c \in cancelKs'[s]
           \/ c \in revived'
           \/ /\ c \in asked /\ (c \in revived => c \in revived')
              /\ \A s \in Sids : /\ wants[c][s] # "none" => wants'[c][s] # "none"
                                 /\ c \in cancelKs[s] => c \in cancelKs'[s],
         \A s \in Sids : cancelKs'[s] # {} => (cancelling'[s] /\ life'[s] = "running") \/ life'[s] = "removing"
  PROVE  AskedInv'
<1> SUFFICES ASSUME NEW c \in asked' PROVE Covered(c)'
  BY Zenon DEF AskedInv
<1>1. c \in Cids
  OBVIOUS
<1>2. CASE (\E s \in Sids : wants'[c][s] # "none" \/ c \in cancelKs'[s]) \/ c \in revived'
  BY <1>2, Zenon DEF Covered, Interested
<1>3. CASE /\ c \in asked /\ (c \in revived => c \in revived')
           /\ \A s \in Sids : /\ wants[c][s] # "none" => wants'[c][s] # "none"
                              /\ c \in cancelKs[s] => c \in cancelKs'[s]
  <2>1. Covered(c)
    BY <1>3, Zenon DEF AskedInv
  <2> QED BY <1>3, <2>1, Zenon DEF Covered, Interested
<1> QED BY <1>1, <1>2, <1>3, Zenon

\* Steps that ask for nothing, cancel nothing and remove no interest.
LEMMA QuietAsked ==
  ASSUME Types, AskedInv, UNCHANGED <<cancelKs, cancelling, revived>>, asked' \subseteq asked,
         \A s \in Sids, c \in Cids : wants[c][s] # "none" => wants'[c][s] # "none",
         \A s \in Sids : life[s] \in {"running", "removing"} => life'[s] = life[s]
  PROVE  AskedInv'
<1>1. asked' \subseteq Cids /\ \A s \in Sids : cancelKs'[s] # {} => (cancelling'[s] /\ life'[s] = "running") \/ life'[s] = "removing"
  BY DEF AskedInv
<1> QED BY <1>1, CoveredKept, Zenon

\* HandleOp removes no interest.
LEMMA HandleOpInterest ==
  ASSUME Types, NEW t \in Sids, HandleOp(t), NEW s \in Sids, NEW c \in Cids, wants[c][s] # "none"
  PROVE  wants'[c][s] # "none"
<1>1. PICK o \in Ops : o = Head(incoming[t]) /\ o.key \in Cids
  <2>1. incoming[t] \in Seq(Ops) /\ incoming[t] # <<>>
    BY Zenon DEF HandleOp, Types
  <2>2. Head(incoming[t]) \in Ops
    BY <2>1, QueueTail, Zenon
  <2> QED BY <2>2, OpFacts
<1>2. PICK d \in Cids : d = o.key
  BY <1>1
<1>3. RecordSessionInterest(t, d) \/ RemoveSessionWants(t, d) \/ wants' = wants
  BY <1>1, <1>2, Zenon DEF HandleOp, WantBlocks, HandleReceive, CancelPending, WantsSent
<1>4. CASE RecordSessionInterest(t, d)
  BY <1>4 DEF RecordSessionInterest, Types
<1>5. CASE RemoveSessionWants(t, d)
  BY <1>5, RemoveSessionWantsEffect, Zenon
<1> QED BY <1>3, <1>4, <1>5, Zenon

\* The run loop asks for what its session is interested in, and the idle timer
\* also for live wants that were cancelled.
LEMMA LoopAsked ==
  ASSUME Types, OrderlyInv, AskedInv, NEW t \in Sids, HandleOp(t) \/ LoopAsks(t) \/ IdleTick(t)
  PROVE  AskedInv'
<1>1. CASE HandleOp(t)
  <2>1. UNCHANGED <<cancelKs, cancelling, revived, asked, life>>
    BY <1>1, Zenon DEF HandleOp, manager, peers, history
  <2>2. \A s \in Sids, c \in Cids : wants[c][s] # "none" => wants'[c][s] # "none"
    BY <1>1, HandleOpInterest, Zenon
  <2> QED BY <2>1, <2>2, QuietAsked, Zenon
<1>2. CASE LoopAsks(t)
  <2>1. UNCHANGED <<wants, cancelKs, cancelling, revived, life>>
    BY <1>2, Zenon DEF LoopAsks, interests, manager, senders, history
  <2>2. asked' = asked \/ asked' = asked \cup toFetch[t]
    BY <1>2 DEF LoopAsks, Ask, peers
  <2>3. asked' \subseteq Cids /\ \A s \in Sids : cancelKs'[s] # {} => (cancelling'[s] /\ life'[s] = "running") \/ life'[s] = "removing"
    BY <2>1, <2>2 DEF AskedInv, Types
  <2>4. \A c \in Cids : c \in asked' => c \in asked \/ wants'[c][t] # "none"
    BY <2>1, <2>2, Zenon DEF OrderlyInv, Orderly
  <2> QED BY <2>1, <2>3, <2>4, CoveredKept, Zenon
<1>3. CASE IdleTick(t)
  <2>1. UNCHANGED <<wants, cancelKs, cancelling, life>>
    BY <1>3, Zenon DEF IdleTick, interests, manager, senders
  <2>2. asked' = asked \cup live[t] /\ revived' = revived \cup {c \in live[t] : wants[c][t] = "none"}
    BY <1>3, Zenon DEF IdleTick, Ask
  <2>3. asked' \subseteq Cids /\ \A s \in Sids : cancelKs'[s] # {} => (cancelling'[s] /\ life'[s] = "running") \/ life'[s] = "removing"
    BY <2>1, <2>2, Zenon DEF AskedInv, Types
  <2>4. \A c \in Cids : /\ c \in asked' => c \in asked \/ wants'[c][t] # "none" \/ c \in revived'
                        /\ c \in revived => c \in revived'
    BY <2>1, <2>2, Zenon
  <2> QED BY <2>1, <2>3, <2>4, CoveredKept, Zenon
<1> QED BY <1>1, <1>2, <1>3

\* What RemoveInterest returns is what nobody is interested in afterwards.
LEMMA RemoveInterestAsked ==
  ASSUME Types, AskedInv, NEW t \in Sids, NEW ks \in SUBSET Cids, RemoveInterest(t, ks),
         life[t] = "running", ~cancelling[t], UNCHANGED <<asked, revived>>,
         (cancelling'[t] /\ life'[t] = "running") \/ life'[t] = "removing",
         \A s \in Sids : s # t => cancelling'[s] = cancelling[s] /\ life'[s] = life[s]
  PROVE  AskedInv'
<1>1. cancelKs' = [cancelKs EXCEPT ![t] = {c \in ks : Interested(c) = {t}}] /\ cancelKs[t] = {}
  BY Zenon DEF RemoveInterest, AskedInv
<1>2. cancelKs'[t] = {c \in ks : Interested(c) = {t}} /\ \A s \in Sids : s # t => cancelKs'[s] = cancelKs[s]
  BY <1>1, Zenon DEF Types
<1>3. \A c \in Cids, s \in Sids : wants'[c][s] = IF c \in ks /\ s = t THEN "none" ELSE wants[c][s]
  BY RemoveInterestEffect, Zenon
<1>4. \A s \in Sids : cancelKs'[s] # {} => (cancelling'[s] /\ life'[s] = "running") \/ life'[s] = "removing"
  BY <1>2, Zenon DEF AskedInv
<1>5. asked' \subseteq Cids
  BY Zenon DEF AskedInv
<1>6. ASSUME NEW c \in Cids, c \in asked'
      PROVE  \/ \E s \in Sids : wants'[c][s] # "none" \/ c \in cancelKs'[s]
             \/ /\ c \in asked /\ (c \in revived => c \in revived')
                /\ \A s \in Sids : /\ wants[c][s] # "none" => wants'[c][s] # "none"
                                   /\ c \in cancelKs[s] => c \in cancelKs'[s]
  <2>1. CASE c \in ks /\ Interested(c) = {t}
    BY <1>2, <2>1, Zenon
  <2>2. CASE \E s \in Sids : s # t /\ wants[c][s] # "none"
    BY <1>3, <2>2, Zenon
  <2>3. CASE \A s \in Sids : wants[c][s] = "none"
    BY <1>1, <1>2, <1>3, <1>6, <2>3, Zenon
  <2>4. CASE c \notin ks
    BY <1>1, <1>2, <1>3, <1>6, <2>4, Zenon
  <2>5. Interested(c) = {t} \/ (\E s \in Sids : s # t /\ wants[c][s] # "none") \/ \A s \in Sids : wants[c][s] = "none"
    BY Zenon DEF Interested
  <2> QED BY <2>1, <2>2, <2>3, <2>4, <2>5, Zenon
<1> QED BY <1>4, <1>5, <1>6, CoveredKept, Zenon

\* The keys that were returned are cancelled.
LEMMA CancelsAsked ==
  ASSUME Types, AskedInv, NEW t \in Sids, asked' = asked \ cancelKs[t], cancelKs' = [cancelKs EXCEPT ![t] = {}],
         UNCHANGED <<wants, revived>>,
         \A s \in Sids : s # t => cancelling'[s] = cancelling[s] /\ life'[s] = life[s]
  PROVE  AskedInv'
<1>1. cancelKs'[t] = {} /\ \A s \in Sids : s # t => cancelKs'[s] = cancelKs[s]
  BY Zenon DEF Types
<1>2. asked' \subseteq Cids /\ \A s \in Sids : cancelKs'[s] # {} => (cancelling'[s] /\ life'[s] = "running") \/ life'[s] = "removing"
  BY <1>1, Zenon DEF AskedInv
<1>3. \A c \in Cids : c \in asked' => c \in asked /\ \A s \in Sids : c \in cancelKs[s] => c \in cancelKs'[s]
  BY <1>1, Zenon
<1> QED BY <1>2, <1>3, CoveredKept, Zenon

\* The want sender asks for what it tracks.
LEMMA SenderAsked ==
  ASSUME Types, OrderlyInv, AskedInv, NEW t \in Sids, SenderTakes(t) \/ SenderCancels(t) \/ CancelWants(t)
  PROVE  AskedInv'
<1>1. CASE SenderTakes(t)
  <2>1. UNCHANGED <<wants, cancelKs, cancelling, revived, life>> /\ SendNextWants(t)
    BY <1>1, Zenon DEF SenderTakes, interests, manager, history
  <2>2. PICK next \in SUBSET tracked'[t] : asked' = asked \cup next
    BY <2>1, Zenon DEF SendNextWants, Ask
  <2>3. tracked'[t] \subseteq Cids
    BY SenderTypes, Zenon DEF Types
  <2>4. \A c \in Cids : c \in tracked'[t] => wants'[c][t] # "none"
    BY SenderOrderly, Zenon DEF OrderlyInv, Orderly
  <2>5. asked' \subseteq Cids /\ \A s \in Sids : cancelKs'[s] # {} => (cancelling'[s] /\ life'[s] = "running") \/ life'[s] = "removing"
    BY <2>1, <2>2, <2>3, Zenon DEF AskedInv
  <2>6. \A c \in Cids : c \in asked' => c \in asked \/ wants'[c][t] # "none"
    BY <2>2, <2>4, Zenon
  <2> QED BY <2>1, <2>5, <2>6, CoveredKept, Zenon
<1>2. CASE SenderCancels(t)
  <2>1. changes[t] \in Seq(Ops) /\ changes[t] # <<>>
    BY <1>2, Zenon DEF SenderCancels, Types
  <2>2. Head(changes[t]).key \in Cids
    BY <2>1, QueueTail, OpFacts, Zenon
  <2>3. PICK ks \in SUBSET Cids : RemoveInterest(t, ks)
    BY <1>2, <2>2, Zenon DEF SenderCancels
  <2>4. life[t] = "running" /\ ~cancelling[t] /\ UNCHANGED <<asked, revived, life>>
    BY <1>2, Zenon DEF SenderCancels, manager, peers, history
  <2>5. cancelling' = [cancelling EXCEPT ![t] = TRUE]
    BY <1>2, Zenon DEF SenderCancels
  <2>6. cancelling'[t] /\ \A s \in Sids : s # t => cancelling'[s] = cancelling[s] /\ life'[s] = life[s]
    BY <2>4, <2>5 DEF Types
  <2> QED BY <2>3, <2>4, <2>6, RemoveInterestAsked, Zenon
<1>3. CASE CancelWants(t)
  <2>1. /\ asked' = asked \ cancelKs[t] /\ cancelKs' = [cancelKs EXCEPT ![t] = {}]
        /\ cancelling' = [cancelling EXCEPT ![t] = FALSE] /\ UNCHANGED <<wants, revived, life>>
    BY <1>3, Zenon DEF CancelWants, SendCancels, manager, history
  <2>2. \A s \in Sids : s # t => cancelling'[s] = cancelling[s] /\ life'[s] = life[s]
    BY <2>1, Zenon DEF Types
  <2> QED BY <2>1, <2>2, CancelsAsked, Zenon
<1> QED BY <1>1, <1>2, <1>3

\* A session that is removed cancels what nobody else is interested in.
LEMMA RemoveAsked ==
  ASSUME Types, AskedInv, NEW t \in Sids, RemoveSession(t) \/ SessionRemoved(t)
  PROVE  AskedInv'
<1>1. CASE RemoveSession(t)
  <2>1. /\ RemoveInterest(t, Cids) /\ life[t] = "running" /\ ~cancelling[t] /\ UNCHANGED <<asked, revived, cancelling>>
        /\ life' = [life EXCEPT ![t] = "removing"]
    BY <1>1, Zenon DEF RemoveSession, peers, history
  <2>2. life'[t] = "removing" /\ \A s \in Sids : s # t => life'[s] = life[s]
    BY <2>1, Zenon DEF Types
  <2> QED BY <2>1, <2>2, RemoveInterestAsked
<1>2. CASE SessionRemoved(t)
  <2>1. /\ asked' = asked \ cancelKs[t] /\ cancelKs' = [cancelKs EXCEPT ![t] = {}]
        /\ life' = [life EXCEPT ![t] = "removed"] /\ UNCHANGED <<wants, revived, cancelling>>
    BY <1>2, Zenon DEF SessionRemoved, SendCancels, senders, history
  <2>2. \A s \in Sids : s # t => cancelling'[s] = cancelling[s] /\ life'[s] = life[s]
    BY <2>1 DEF Types
  <2> QED BY <2>1, <2>2, CancelsAsked, Zenon
<1> QED BY <1>1, <1>2

\* Every step keeps what is asked for covered.
LEMMA NextAsked ==
  ASSUME Types, OrderlyInv, AskedInv, [Next]_vars
  PROVE  AskedInv'
<1>1. CASE UNCHANGED vars
  BY <1>1, QuietAsked, Zenon DEF vars, interests, manager, senders, peers, history
<1>2. ASSUME NEW r \in Calls, GetBlocks(r) PROVE AskedInv'
  <2>1. UNCHANGED <<wants, cancelKs, cancelling, revived, asked>>
    BY <1>2, Zenon DEF GetBlocks, interests, senders, peers, history
  <2>2. life' = life \/ (life[SessionOf[r]] = "none" /\ life' = [life EXCEPT ![SessionOf[r]] = "running"])
    BY <1>2, Zenon DEF GetBlocks, NewSession, manager
  <2>3. \A s \in Sids : life[s] \in {"running", "removing"} => life'[s] = life[s]
    BY <2>2 DEF Types
  <2> QED BY <2>1, <2>3, QuietAsked, Zenon
<1>3. ASSUME NEW r \in Calls, CancelCall(r) \/ CallEnds(r) PROVE AskedInv'
  BY <1>3, QuietAsked, Zenon DEF CancelCall, CallEnds, EndCall, interests, manager, senders, peers, history
<1>4. ASSUME NEW h \in Arrivals, NEW c, NEW from, Arrive(h, c, from) PROVE AskedInv'
  BY <1>4, QuietAsked, Zenon DEF Arrive, interests, manager, senders, peers, history
<1>5. CASE Close \/ Shutdown \/ NotifShutdown \/ \E s \in Sids : EndSession(s)
  BY <1>5, QuietAsked, Zenon DEF Close, Shutdown, NotifShutdown, EndSession, interests, manager, senders, peers, history
<1>6. ASSUME NEW s \in Sids, HandleOp(s) \/ LoopAsks(s) \/ IdleTick(s) PROVE AskedInv'
  BY <1>6, LoopAsked
<1>7. ASSUME NEW s \in Sids, SenderTakes(s) \/ SenderCancels(s) \/ CancelWants(s) PROVE AskedInv'
  BY <1>7, SenderAsked
<1>8. ASSUME NEW h \in Arrivals, InterestedSessions(h) PROVE AskedInv'
  BY <1>8, QuietAsked DEF InterestedSessions, interests, manager, senders, peers, history
<1>9. ASSUME NEW h \in Arrivals, Publish(h) PROVE AskedInv'
  <2>1. UNCHANGED <<wants, cancelKs, cancelling, revived, life>> /\ asked' \subseteq asked
    BY <1>9, Zenon DEF Publish, SendCancels, interests, manager, senders, peers, history
  <2> QED BY <2>1, QuietAsked
<1>10. ASSUME NEW h \in Arrivals, NEW s \in Sids, TellSession(h, s) PROVE AskedInv'
  BY <1>10, QuietAsked DEF TellSession, interests, manager, peers
<1>11. ASSUME NEW s \in Sids, RemoveSession(s) \/ SessionRemoved(s) PROVE AskedInv'
  BY <1>11, RemoveAsked
<1> QED BY <1>1, <1>2, <1>3, <1>4, <1>5, <1>6, <1>7, <1>8, <1>9, <1>10, <1>11, Zenon DEF Next, Inputs, Work

-----------------------------------------------------------------------------
\* Nothing is asked for, wanted or under way at first.
LEMMA InitInv == Init => Types /\ OrderlyInv /\ AskedInv
<1> SUFFICES ASSUME Init PROVE Types /\ OrderlyInv /\ AskedInv
  OBVIOUS
<1>1. <<>> \in Seq(Ops)
  OBVIOUS
<1>2. Types
  BY <1>1, Zenon DEF Init, Types, Interest
<1>3. OrderlyInv
  BY QueueEmpty, Zenon DEF Init, OrderlyInv, Orderly
<1>4. AskedInv
  BY Zenon DEF Init, AskedInv
<1> QED BY <1>2, <1>3, <1>4

\* sessionmanager.go:192: as long as no call is cancelled before another of its
\* session and key, the peers are asked for nothing that no session is
\* interested in once everything is handled, apart from wants the idle timer
\* revived: for any sessions, keys, calls and blocks.
THEOREM NeverAskedInVain == Spec /\ []CancelsFinal => []NotAskedInVain
<1>1. Init => Types /\ OrderlyInv /\ AskedInv
  BY InitInv
<1>2. Types /\ OrderlyInv /\ AskedInv /\ CancelsFinal' /\ [Next]_vars => (Types /\ OrderlyInv /\ AskedInv)'
  BY NextTypes, NextOrderly, NextAsked
<1>3. Types /\ AskedInv => NotAskedInVain
  <2> SUFFICES ASSUME Types, AskedInv, Quiet, NEW c \in asked PROVE Interested(c) # {} \/ c \in revived
    BY DEF NotAskedInVain
  <2>1. \A s \in Sids : cancelKs[s] = {}
    BY Zenon DEF AskedInv, Quiet
  <2> QED BY <2>1 DEF AskedInv, Covered
<1> QED BY <1>1, <1>2, <1>3, PTL DEF Spec

-----------------------------------------------------------------------------
(* The want of an open call stays on record until its block is published *)

\* A step after which the want of the call is pursued if it was before.
LEMMA OpenKept ==
  ASSUME NEW r \in Calls, OpenCall(r),
         calls'[r] = "open" => calls[r] = "open",
         life'[SessionOf[r]] = "running" => life[SessionOf[r]] = "running",
         ended \subseteq ended', missed \subseteq missed',
         calls'[r] = "open" /\ SessionOf[r] \notin ended' /\ Publishing(KeyOf[r]) => Publishing(KeyOf[r])',
         \/ Pursued(SessionOf[r], KeyOf[r]) => Pursued(SessionOf[r], KeyOf[r])'
         \/ Publishing(KeyOf[r])' \/ <<SessionOf[r], KeyOf[r]>> \in missed'
  PROVE  OpenCall(r)'
BY Zenon DEF OpenCall

\* Operations other than the receipt of the block leave the want pursued.
LEMMA PursuedAppend ==
  ASSUME Types, NEW s \in Sids, NEW c \in Cids, NEW x \in Ops, x # Op("receive", c), wants'[c][s] = wants[c][s],
         incoming'[s] = incoming[s] \/ incoming'[s] = Append(incoming[s], x), Pursued(s, c)
  PROVE  Pursued(s, c)'
<1>1. PICK queue \in Seq(Ops), o \in Ops, p \in Ops : queue = incoming[s] /\ o = Op("receive", c) /\ p = Op("want", c)
  BY OpFacts, Zenon DEF Types
<1>2. (Has(queue, p) \/ wants[c][s] = "wanted") /\ Followed(o, p, queue)
  BY <1>1, Zenon DEF Pursued
<1>3. (Has(queue, p) => Has(Append(queue, x), p)) /\ Followed(o, p, Append(queue, x))
  <2>1. Has(queue, p) => Has(Append(queue, x), p)
    BY <1>1, OpsAppend, Zenon
  <2>2. x # o
    BY <1>1, Zenon
  <2>3. Followed(o, p, Append(queue, x))
    BY <1>1, <1>2, <2>2, OpsAppend, Zenon
  <2> QED BY <2>1, <2>3, Zenon
<1> QED BY <1>1, <1>2, <1>3, Zenon DEF Pursued

\* GetBlocks: the want of the new call comes after every receipt under way.
LEMMA GetBlocksOpen ==
  ASSUME Types, OpenInv, NEW q \in Calls, GetBlocks(q), NEW r \in Calls
  PROVE  OpenCall(r)'
<1>0. OpenCall(r) /\ SessionOf[r] \in Sids /\ KeyOf[r] \in Cids /\ SessionOf[q] \in Sids /\ KeyOf[q] \in Cids
  BY CallsAssumption DEF OpenInv
<1>1. /\ Enqueue(SessionOf[q], Op("want", KeyOf[q])) /\ calls[q] = "new" /\ calls' = [calls EXCEPT ![q] = "open"]
      /\ UNCHANGED <<wants, ended, smDown, arrival, missed>>
  BY Zenon DEF GetBlocks, NewSession, manager, interests, history
<1>2. life' = life \/ (life[SessionOf[q]] = "none" /\ life' = [life EXCEPT ![SessionOf[q]] = "running"])
  BY Zenon DEF GetBlocks, NewSession, manager
<1>3. PICK s \in Sids, c \in Cids : s = SessionOf[r] /\ c = KeyOf[r]
  BY <1>0
<1>4. CASE r = q
  <2>1. PICK queue \in Seq(Ops), o \in Ops, p \in Ops : queue = incoming[s] /\ o = Op("receive", c) /\ p = Op("want", c) /\ o # p
    <3>1. incoming[s] \in Seq(Ops)
      BY DEF Types
    <3>2. Op("receive", c) \in Ops /\ Op("want", c) \in Ops
      BY OpFacts, Zenon
    <3> QED BY <3>1, <3>2, KindsDiffer, Zenon
  <2>2. Has(Append(queue, p), p) /\ Followed(o, p, Append(queue, p))
    BY <2>1, QueueAppend, Zenon
  <2>3. s \notin ended => incoming'[s] = Append(queue, p)
    BY <1>1, <1>3, <1>4, <2>1, EnqueueEffect, Zenon
  <2>4. s \notin ended => Pursued(s, c)'
    BY <2>1, <2>2, <2>3, Zenon DEF Pursued
  <2> QED BY <1>1, <1>3, <2>4, Zenon DEF OpenCall
<1>5. CASE r # q
  <2>1. calls'[r] = calls[r]
    BY <1>1, <1>5, Zenon DEF Types
  <2>2. calls[r] = "open" => (life'[s] = "running" => life[s] = "running")
    <3>1. calls[r] = "open" => life[s] # "none"
      BY <1>3, Zenon DEF OpenInv
    <3>2. life \in [Sids -> {"none", "running", "removing", "removed"}]
      BY Zenon DEF Types
    <3> QED BY <1>0, <1>2, <3>1, <3>2, Zenon
  <2>3. Publishing(c)' = Publishing(c)
    BY <1>1, Zenon DEF Publishing
  <2>4. Op("want", KeyOf[q]) \in Ops /\ Op("want", KeyOf[q]) # Op("receive", c)
    BY <1>0, OpFacts, KindsDiffer, Zenon
  <2>5. incoming'[s] = incoming[s] \/ incoming'[s] = Append(incoming[s], Op("want", KeyOf[q]))
    BY <1>0, <1>1, EnqueueEffect, Zenon
  <2>6. Pursued(s, c) => Pursued(s, c)'
    BY <1>1, <2>4, <2>5, PursuedAppend, Zenon
  <2> QED BY <1>0, <1>1, <1>3, <2>1, <2>2, <2>3, <2>6, Zenon DEF OpenCall
<1> QED BY <1>4, <1>5

\* A call that ends leaves the others as they are.
LEMMA EndCallOpen ==
  ASSUME Types, OpenInv, NEW q \in Calls, EndCall(q), NEW r \in Calls
  PROVE  OpenCall(r)'
<1>0. OpenCall(r) /\ SessionOf[r] \in Sids /\ KeyOf[r] \in Cids /\ SessionOf[q] \in Sids /\ KeyOf[q] \in Cids
  BY CallsAssumption DEF OpenInv
<1>1. /\ Enqueue(SessionOf[q], Op("cancel", KeyOf[q])) /\ calls' = [calls EXCEPT ![q] = "ended"]
      /\ UNCHANGED <<wants, life, ended, smDown, arrival, missed>>
  BY Zenon DEF EndCall, manager, interests, history
<1>2. PICK s \in Sids, c \in Cids : s = SessionOf[r] /\ c = KeyOf[r]
  BY <1>0
<1>3. calls'[r] = "open" => calls[r] = "open"
  BY <1>1, Zenon DEF Types
<1>4. Publishing(c)' = Publishing(c)
  BY <1>1, Zenon DEF Publishing
<1>5. Op("cancel", KeyOf[q]) \in Ops /\ Op("cancel", KeyOf[q]) # Op("receive", c)
  BY <1>0, OpFacts, KindsDiffer, Zenon
<1>6. incoming'[s] = incoming[s] \/ incoming'[s] = Append(incoming[s], Op("cancel", KeyOf[q]))
  BY <1>0, <1>1, EnqueueEffect, Zenon
<1>7. Pursued(s, c) => Pursued(s, c)'
  BY <1>1, <1>5, <1>6, PursuedAppend, Zenon
<1> QED BY <1>0, <1>1, <1>2, <1>3, <1>4, <1>7, OpenKept, Zenon

\* The run loop: a want that is taken is put on record, and a receipt that is
\* taken has another want of the key behind it.
LEMMA HandleOpOpen ==
  ASSUME Types, OpenInv, NEW t \in Sids, HandleOp(t), NEW r \in Calls
  PROVE  OpenCall(r)'
<1>0. OpenCall(r)
  BY Zenon DEF OpenInv
<1>1. PICK s \in Sids, c \in Cids : s = SessionOf[r] /\ c = KeyOf[r]
  BY CallsAssumption
<1>2. UNCHANGED <<life, ended, smDown, missed, calls, arrival>> /\ incoming[t] # <<>>
  BY Zenon DEF HandleOp, manager, history
<1>3. PICK queue \in Seq(Ops) : queue = incoming[s]
  BY DEF Types
<1>4. PICK first \in Ops, d \in Cids : first = Head(incoming[t]) /\ d = first.key /\ first = Op(first.op, d)
  <2>1. Head(incoming[t]) \in Ops
    BY <1>2, QueueTail, Zenon DEF Types
  <2> QED BY <2>1, OpFacts, Zenon
<1>5. \/ first = Op("want", d) /\ wants' = [wants EXCEPT ![d][t] = "wanted"]
      \/ first = Op("receive", d) /\ (wants' = wants \/ RemoveSessionWants(t, d))
      \/ first \in {Op("cancel", d), Op("wantsSent", d)} /\ wants' = wants
  BY <1>4, Zenon DEF HandleOp, WantBlocks, HandleReceive, CancelPending, WantsSent, RecordSessionInterest
<1>6. \/ wants'[c][s] = wants[c][s] /\ (s = t => first # Op("want", c))
      \/ s = t /\ first = Op("want", c) /\ wants'[c][s] = "wanted"
      \/ s = t /\ first = Op("receive", c)
  <2>1. CASE first = Op("want", d) /\ wants' = [wants EXCEPT ![d][t] = "wanted"]
    <3>1. wants'[c][s] = IF c = d /\ s = t THEN "wanted" ELSE wants[c][s]
      BY <2>1, Zenon DEF Types
    <3> QED BY <2>1, <3>1, KindsDiffer, Zenon
  <2>2. CASE first = Op("receive", d) /\ (wants' = wants \/ RemoveSessionWants(t, d))
    <3>1. ~(s = t /\ c = d) => wants'[c][s] = wants[c][s]
      BY <2>2, RemoveSessionWantsEffect, Zenon
    <3>2. Op("receive", d) # Op("want", c)
      BY OpFacts
    <3> QED BY <2>2, <3>1, <3>2, Zenon
  <2>3. CASE first \in {Op("cancel", d), Op("wantsSent", d)} /\ wants' = wants
    <3>1. Op("cancel", d) # Op("want", c) /\ Op("wantsSent", d) # Op("want", c)
      BY OpFacts
    <3> QED BY <2>3, <3>1, Zenon
  <2> QED BY <1>5, <2>1, <2>2, <2>3, Zenon
<1>7. IF s = t THEN incoming'[s] = Tail(queue) /\ queue # <<>> /\ first = Head(queue) ELSE incoming'[s] = queue
  BY <1>2, <1>3, <1>4, Zenon DEF HandleOp, Types
<1>8. Pursued(s, c) => Pursued(s, c)'
  <2> SUFFICES ASSUME Pursued(s, c) PROVE Pursued(s, c)'
    OBVIOUS
  <2>1. PICK o, p : o = Op("receive", c) /\ p = Op("want", c)
    OBVIOUS
  <2>2. (Has(queue, p) \/ wants[c][s] = "wanted") /\ Followed(o, p, queue)
    BY <1>3, <2>1, Zenon DEF Pursued
  <2>3. CASE s # t
    BY <1>6, <1>7, <2>1, <2>2, <2>3, Zenon DEF Pursued
  <2>4. CASE s = t
    <3>1. Followed(o, p, Tail(queue)) /\ (Has(queue, p) /\ first # p => Has(Tail(queue), p)) /\ (first = o => Has(Tail(queue), p))
      BY <1>7, <2>2, <2>4, QueueTail, Zenon
    <3> QED BY <1>6, <1>7, <2>1, <2>2, <2>4, <3>1, Zenon DEF Pursued
  <2> QED BY <2>3, <2>4
<1>9. Publishing(c)' = Publishing(c)
  BY <1>2, Zenon DEF Publishing
<1> QED BY <1>0, <1>1, <1>2, <1>8, <1>9, OpenKept, Zenon

\* The want sender: no cancel of the key is under way while the call is open.
LEMMA SenderOpen ==
  ASSUME Types, OrderlyInv, OpenInv, NEW t \in Sids, SenderTakes(t) \/ SenderCancels(t), NEW r \in Calls
  PROVE  OpenCall(r)'
<1>0. OpenCall(r)
  BY Zenon DEF OpenInv
<1>1. PICK s \in Sids, c \in Cids : s = SessionOf[r] /\ c = KeyOf[r]
  BY CallsAssumption
<1>2. UNCHANGED <<life, ended, smDown, missed, calls, arrival>> /\ changes[t] # <<>>
  BY Zenon DEF SenderTakes, SenderCancels, manager, history
<1>3. Publishing(c)' = Publishing(c)
  BY <1>2, Zenon DEF Publishing
<1>4. CASE SenderTakes(t)
  <2>1. wants' = wants /\ SendNextWants(t)
    BY <1>4, Zenon DEF SenderTakes, interests
  <2>2. tracked'[t] \subseteq Cids
    BY <1>4, SenderTypes, Zenon DEF Types
  <2>3. incoming' = incoming \/ \E d \in Cids : Enqueue(t, Op("wantsSent", d))
    BY <2>1, <2>2, Zenon DEF SendNextWants
  <2>4. PICK x \in Ops : x # Op("receive", c) /\ (incoming'[s] = incoming[s] \/ incoming'[s] = Append(incoming[s], x))
    <3>1. \A d \in Cids : Op("wantsSent", d) \in Ops /\ Op("wantsSent", d) # Op("receive", c)
      BY OpFacts
    <3>2. incoming'[s] = incoming[s] \/ \E d \in Cids : incoming'[s] = Append(incoming[s], Op("wantsSent", d))
      BY <2>3, EnqueueEffect
    <3> QED BY <3>1, <3>2, Zenon
  <2>5. Pursued(s, c) => Pursued(s, c)'
    BY <2>1, <2>4, PursuedAppend, Zenon
  <2> QED BY <1>0, <1>1, <1>2, <1>3, <2>5, OpenKept, Zenon
<1>5. CASE SenderCancels(t) /\ calls[r] = "open"
  <2>1. PICK d \in Cids : Head(changes[t]) = Op("cancel", d) /\ RemoveInterest(t, {d})
    <3>1. Head(changes[t]) \in Ops
      BY <1>2, QueueTail, Zenon DEF Types
    <3>2. Head(changes[t]).key \in Cids /\ Head(changes[t]) = Op(Head(changes[t]).op, Head(changes[t]).key)
      BY <3>1, OpFacts, Zenon
    <3> QED BY <1>5, <3>2, Zenon DEF SenderCancels
  <2>2. Has(changes[t], Op("cancel", d))
    BY <1>2, <2>1, QueueTail, Zenon DEF Types
  <2>3. Awaited(s, c) /\ Orderly(s, c)
    BY <1>1, <1>5, Zenon DEF Awaited, OrderlyInv
  <2>4. ~(s = t /\ c = d)
    BY <2>2, <2>3, Zenon DEF Orderly
  <2>5. wants'[c][s] = wants[c][s]
    <3>1. {d} \in SUBSET Cids
      OBVIOUS
    <3>2. c \notin {d} \/ s # t
      BY <2>4, Zenon
    <3> QED BY <2>1, <3>1, <3>2, OtherInterestKept, Zenon
  <2>6. incoming' = incoming
    BY <1>5, Zenon DEF SenderCancels, loops
  <2>7. Pursued(s, c) => Pursued(s, c)'
    BY <2>5, <2>6, Zenon DEF Pursued
  <2> QED BY <1>0, <1>1, <1>2, <1>3, <2>7, OpenKept, Zenon
<1>6. CASE calls[r] # "open"
  BY <1>2, <1>6, Zenon DEF OpenCall
<1> QED BY <1>4, <1>5, <1>6

\* A block that is being handled keeps its key, and whether it is published.
LEMMA PublishingKept ==
  ASSUME Types, NEW h \in Arrivals, NEW c, smDown' = smDown, NEW new, arrival' = [arrival EXCEPT ![h] = new],
         arrival[h] \in Handled => new \in Handled /\ new.key = arrival[h].key /\ new.publish = arrival[h].publish
  PROVE  Publishing(c) => Publishing(c)'
<1>1. \A g \in Arrivals : arrival'[g] = IF g = h THEN new ELSE arrival[g]
  BY DEF Types
<1>2. \A g \in Arrivals : arrival[g] \in Handled =>
        arrival'[g] \in Handled /\ arrival'[g].key = arrival[g].key /\ arrival'[g].publish = arrival[g].publish
  BY <1>1
<1> QED BY <1>2 DEF Publishing

\* Blocks that arrive: a session is told that a block has arrived when the block
\* is about to be published, unless the block was taken for unwanted.
LEMMA ArrivalOpen ==
  ASSUME Types, OpenInv, NEW h \in Arrivals,
         \/ \E c \in Cids, from \in {"peer", "local"} : Arrive(h, c, from)
         \/ InterestedSessions(h) \/ \E t \in Sids : TellSession(h, t),
         NEW r \in Calls
  PROVE  OpenCall(r)'
<1>0. OpenCall(r)
  BY Zenon DEF OpenInv
<1>1. PICK s \in Sids, c \in Cids : s = SessionOf[r] /\ c = KeyOf[r]
  BY CallsAssumption
<1>2. UNCHANGED <<wants, life, ended, smDown, calls>> /\ missed \subseteq missed'
  BY DEF Arrive, InterestedSessions, TellSession, interests, manager, history
<1>3. CASE \E d \in Cids, from \in {"peer", "local"} : Arrive(h, d, from)
  <2>1. PICK new : arrival' = [arrival EXCEPT ![h] = new]
    BY <1>3, Zenon DEF Arrive
  <2>2. arrival[h] \notin Handled
    BY <1>3, Zenon DEF Arrive, NotArrived, Handled
  <2>3. Publishing(c) => Publishing(c)'
    BY <1>2, <2>1, <2>2, PublishingKept, Zenon
  <2>4. incoming' = incoming
    BY <1>3, Zenon DEF Arrive, loops
  <2> QED BY <1>0, <1>1, <1>2, <2>3, <2>4, OpenKept, Zenon DEF Pursued
<1>4. CASE InterestedSessions(h)
  <2>1. arrival[h] \in Handled
    BY <1>4, HandledKey DEF InterestedSessions
  <2>2. PICK b : b = arrival[h]
    OBVIOUS
  <2>3. PICK new : new = [b EXCEPT !.at = "tell", !.tell = Interested(b.key)]
    OBVIOUS
  <2>4. arrival' = [arrival EXCEPT ![h] = new]
    BY <1>4, <2>2, <2>3, Zenon DEF InterestedSessions, Types
  <2>5. new \in Handled /\ new.key = b.key /\ new.publish = b.publish
    BY <2>1, <2>2, <2>3, Zenon DEF Handled, Interested
  <2>6. Publishing(c) => Publishing(c)'
    BY <1>2, <2>2, <2>4, <2>5, PublishingKept, Zenon
  <2>7. incoming' = incoming
    BY <1>4 DEF InterestedSessions, loops
  <2> QED BY <1>0, <1>1, <1>2, <2>6, <2>7, OpenKept, Zenon DEF Pursued
<1>5. ASSUME NEW t \in Sids, TellSession(h, t) PROVE OpenCall(r)'
  <2>1. PICK b \in Handled : b = arrival[h] /\ b.key \in Cids
    BY <1>5, HandledKey DEF TellSession
  <2>2. PICK new : new = [b EXCEPT !.tell = @ \ {t}]
    BY Zenon
  <2>3. arrival' = [arrival EXCEPT ![h] = new] /\ ~smDown
    BY <1>5, <2>1, <2>2 DEF TellSession, Types
  <2>4. new \in Handled /\ new.key = b.key /\ new.publish = b.publish
    BY <2>1, <2>2 DEF Handled
  <2>5. Publishing(c) => Publishing(c)'
    BY <1>2, <2>1, <2>3, <2>4, PublishingKept, Zenon
  <2>6. \/ incoming' = incoming
        \/ Enqueue(t, Op("receive", b.key)) /\ (b.publish \/ <<t, b.key>> \in missed')
    BY <1>5, <2>1 DEF TellSession
  <2>7. CASE incoming' = incoming
    BY <1>0, <1>1, <1>2, <2>5, <2>7, OpenKept, Zenon DEF Pursued
  <2>8. CASE Enqueue(t, Op("receive", b.key)) /\ (b.publish \/ <<t, b.key>> \in missed')
    <3>1. CASE b.key = c /\ s = t
      <4>1. arrival'[h] = new
        BY <2>3, Zenon DEF Types
      <4>2. Publishing(c)' \/ <<s, c>> \in missed'
        BY <1>2, <2>3, <2>4, <2>8, <3>1, <4>1, Zenon DEF Publishing
      <4> QED BY <1>0, <1>1, <1>2, <2>5, <4>2, OpenKept, Zenon
    <3>2. CASE ~(b.key = c /\ s = t)
      <4>1. /\ Op("receive", b.key) \in Ops /\ (s = t => Op("receive", b.key) # Op("receive", c))
            /\ Op("want", c) \in Ops /\ Op("want", c) # Op("receive", c)
        <5>1. Op("receive", b.key) \in Ops /\ Op("want", c) \in Ops
          BY <2>1, OpFacts, Zenon
        <5>2. Op("receive", b.key) = Op("receive", c) => b.key = c
          BY KeysDiffer, Zenon
        <5>3. Op("want", c) # Op("receive", c)
          BY KindsDiffer, Zenon
        <5> QED BY <3>2, <5>1, <5>2, <5>3, Zenon
      <4>2. s # t => incoming'[s] = incoming[s]
        BY <2>8, EnqueueEffect, Zenon
      <4>3. s = t => incoming'[s] = incoming[s] \/ incoming'[s] = Append(incoming[s], Op("receive", b.key))
        BY <2>8, EnqueueEffect, Zenon
      <4>4. PICK x \in Ops : x # Op("receive", c) /\ (incoming'[s] = incoming[s] \/ incoming'[s] = Append(incoming[s], x))
        BY <4>1, <4>2, <4>3, Zenon
      <4>5. Pursued(s, c) => Pursued(s, c)'
        BY <1>2, <4>4, PursuedAppend, Zenon
      <4> QED BY <1>0, <1>1, <1>2, <2>5, <4>5, OpenKept, Zenon
    <3> QED BY <3>1, <3>2
  <2> QED BY <2>6, <2>7, <2>8
<1> QED BY <1>3, <1>4, <1>5

\* A block that is published closes the open calls of its key.
LEMMA PublishOpen ==
  ASSUME Types, OpenInv, NEW h \in Arrivals, Publish(h), NEW r \in Calls
  PROVE  OpenCall(r)'
<1>0. OpenCall(r) /\ (~smDown => ~notifDown)
  BY Zenon DEF OpenInv
<1>1. UNCHANGED <<wants, life, ended, smDown, missed, incoming>> /\ arrival' = [arrival EXCEPT ![h] = Finished]
  BY Zenon DEF Publish, interests, manager, loops, history
<1>2. /\ calls'[r] = "open" => calls[r] = "open"
      /\ arrival[h].publish /\ ~notifDown /\ KeyOf[r] = arrival[h].key /\ calls[r] = "open" => calls'[r] = "done"
  BY Zenon DEF Publish
<1>3. ASSUME calls'[r] = "open", Publishing(KeyOf[r]) PROVE Publishing(KeyOf[r])'
  <2>1. PICK g \in Arrivals : arrival[g] \in Handled /\ arrival[g].key = KeyOf[r] /\ arrival[g].publish
    BY <1>3, Zenon DEF Publishing
  <2>2. ~smDown
    BY <1>3 DEF Publishing
  <2>3. g # h
    BY <1>0, <1>2, <1>3, <2>1, <2>2, Zenon
  <2>4. arrival'[g] = arrival[g]
    BY <1>1, <2>3, Zenon DEF Types
  <2> QED BY <1>1, <2>1, <2>2, <2>4, Zenon DEF Publishing
<1> QED BY <1>0, <1>1, <1>2, <1>3, OpenKept, Zenon DEF Pursued

\* The steps that leave the wants, the operations and the blocks alone, or
\* those of an ended session.
LEMMA QuietOpen ==
  ASSUME Types, OpenInv, NEW r \in Calls, UNCHANGED <<calls, arrival, missed>>, ended \subseteq ended',
         ~smDown' => ~smDown,
         LET s == SessionOf[r]
         IN  \/ UNCHANGED <<wants[KeyOf[r]][s], incoming[s], smDown>> /\ (life'[s] = "running" => life[s] = "running")
             \/ life'[s] # "running" \/ s \in ended'
  PROVE  OpenCall(r)'
<1>0. OpenCall(r)
  BY Zenon DEF OpenInv
<1>1. CASE /\ UNCHANGED <<wants[KeyOf[r]][SessionOf[r]], incoming[SessionOf[r]], smDown>>
           /\ life'[SessionOf[r]] = "running" => life[SessionOf[r]] = "running"
  <2>1. Publishing(KeyOf[r])' = Publishing(KeyOf[r])
    BY <1>1, Zenon DEF Publishing
  <2>2. Pursued(SessionOf[r], KeyOf[r])' = Pursued(SessionOf[r], KeyOf[r])
    BY <1>1, Zenon DEF Pursued
  <2> QED BY <1>0, <1>1, <2>1, <2>2, OpenKept, Zenon
<1>2. CASE life'[SessionOf[r]] # "running" \/ SessionOf[r] \in ended'
  BY <1>2, Zenon DEF OpenCall
<1> QED BY <1>1, <1>2, Zenon

\* The sessions that run are on record until Shutdown, and have been created
\* before their calls are made.
LEMMA RecordKept ==
  ASSUME Types, OpenInv, [Next]_vars
  PROVE  /\ \A r \in Calls : calls'[r] = "new" \/ life'[SessionOf[r]] # "none"
         /\ \A s \in Sids : life'[s] = "running" /\ ~smDown' => s \in sessions'
         /\ notifDown' => smDown'
<1> DEFINE Goal == /\ \A r \in Calls : calls'[r] = "new" \/ life'[SessionOf[r]] # "none"
                   /\ \A s \in Sids : life'[s] = "running" /\ ~smDown' => s \in sessions'
                   /\ notifDown' => smDown'
<1>0. /\ \A r \in Calls : SessionOf[r] \in Sids /\ (calls[r] = "new" \/ life[SessionOf[r]] # "none")
      /\ \A s \in Sids : life[s] = "running" /\ ~smDown => s \in sessions
      /\ notifDown => smDown
  BY CallsAssumption, Zenon DEF OpenInv
<1>1. ASSUME UNCHANGED <<manager, notifDown>>, \A r \in Calls : calls'[r] = "new" \/ calls[r] # "new" PROVE Goal
  BY <1>0, <1>1, Zenon DEF manager
<1>2. CASE UNCHANGED vars
  BY <1>1, <1>2, Zenon DEF vars, client
<1>3. ASSUME NEW q \in Calls, GetBlocks(q) PROVE Goal
  <2>1. /\ calls' = [calls EXCEPT ![q] = "open"] /\ UNCHANGED <<smDown, notifDown>>
        /\ \/ life' = [life EXCEPT ![SessionOf[q]] = "running"] /\ sessions' = IF smDown THEN sessions ELSE sessions \cup {SessionOf[q]}
           \/ life[SessionOf[q]] # "none" /\ UNCHANGED <<life, sessions>>
    BY <1>3, Zenon DEF GetBlocks, NewSession, manager, client
  <2>2. \A r \in Calls : r # q => calls'[r] = calls[r]
    BY <2>1, Zenon DEF Types
  <2>3. CASE life' = [life EXCEPT ![SessionOf[q]] = "running"] /\ sessions' = IF smDown THEN sessions ELSE sessions \cup {SessionOf[q]}
    <3>1. \A s \in Sids : life'[s] = IF s = SessionOf[q] THEN "running" ELSE life[s]
      BY <2>3, Zenon DEF Types
    <3> QED BY <1>0, <2>1, <2>2, <2>3, <3>1
  <2>4. CASE life[SessionOf[q]] # "none" /\ UNCHANGED <<life, sessions>>
    BY <1>0, <2>1, <2>2, <2>4, Zenon
  <2> QED BY <2>1, <2>3, <2>4, Zenon
<1>4. ASSUME NEW q \in Calls, CancelCall(q) \/ CallEnds(q) PROVE Goal
  <2>1. calls[q] = "open" /\ calls' = [calls EXCEPT ![q] = "ended"] /\ UNCHANGED <<manager, notifDown>>
    BY <1>4, Zenon DEF CancelCall, CallEnds, EndCall, client
  <2>2. \A r \in Calls : calls'[r] = "new" \/ calls[r] # "new"
    BY <2>1, Zenon DEF Types
  <2> QED BY <1>1, <2>1, <2>2, Zenon
<1>5. ASSUME NEW h \in Arrivals, Publish(h) PROVE Goal
  <2>1. \A r \in Calls : calls'[r] = "new" \/ calls[r] # "new"
    BY <1>5, Zenon DEF Publish
  <2> QED BY <1>1, <1>5, <2>1, Zenon DEF Publish, client
<1>6. ASSUME NEW h \in Arrivals,
             \/ \E c, from : Arrive(h, c, from) 
             \/ InterestedSessions(h) \/ \E s \in Sids : TellSession(h, s)
      PROVE  Goal
  BY <1>1, <1>6 DEF Arrive, InterestedSessions, TellSession, client
<1>7. ASSUME NEW s \in Sids, \/ HandleOp(s) \/ LoopAsks(s) \/ IdleTick(s)
                             \/ SenderTakes(s) \/ SenderCancels(s) \/ CancelWants(s)
      PROVE  Goal
  BY <1>1, <1>7, Zenon DEF HandleOp, LoopAsks, IdleTick, SenderTakes, SenderCancels, CancelWants, client
<1>8. CASE Close
  BY <1>1, <1>8, Zenon DEF Close
<1>9. CASE Shutdown \/ NotifShutdown \/ \E s \in Sids : EndSession(s)
  <2>1. CASE Shutdown \/ NotifShutdown
    <3>1. UNCHANGED <<life, calls>> /\ smDown'
      BY <2>1 DEF Shutdown, NotifShutdown, manager
    <3> QED BY <1>0, <3>1, Zenon
  <2>2. CASE \E s \in Sids : EndSession(s)
    <3>1. UNCHANGED <<life, calls, sessions, smDown, notifDown>>
      BY <2>2, Zenon DEF EndSession
    <3> QED BY <1>0, <3>1, Zenon
  <2> QED BY <1>9, <2>1, <2>2, Zenon
<1>10. ASSUME NEW s \in Sids, RemoveSession(s) \/ SessionRemoved(s) PROVE Goal
  <2>1. UNCHANGED <<calls, smDown, notifDown>> /\ sessions \ {s} \subseteq sessions'
    BY <1>10, Zenon DEF RemoveSession, SessionRemoved, client
  <2>2. \E new \in {"removing", "removed"} : life' = [life EXCEPT ![s] = new]
    BY <1>10, Zenon DEF RemoveSession, SessionRemoved
  <2>3. \A t \in Sids : IF t = s THEN life'[t] \in {"removing", "removed"} ELSE life'[t] = life[t]
    BY <2>2 DEF Types
  <2> QED BY <1>0, <2>1, <2>3, Zenon
<1> QED BY <1>2, <1>3, <1>4, <1>5, <1>6, <1>7, <1>8, <1>9, <1>10, Zenon DEF Next, Inputs, Work

\* Every step keeps the want of an open call pursued.
LEMMA NextOpen ==
  ASSUME Types, OrderlyInv, OpenInv, [Next]_vars
  PROVE  OpenInv'
<1> SUFFICES ASSUME NEW r \in Calls PROVE OpenCall(r)'
  BY RecordKept, Zenon DEF OpenInv
<1>1. CASE UNCHANGED vars
  BY <1>1, QuietOpen, Zenon DEF vars, interests, manager, loops, history
<1>2. ASSUME NEW q \in Calls, GetBlocks(q) \/ CancelCall(q) \/ CallEnds(q) PROVE OpenCall(r)'
  BY <1>2, GetBlocksOpen, EndCallOpen DEF CancelCall, CallEnds
<1>3. ASSUME NEW h \in Arrivals, NEW c \in Cids, NEW from \in {"peer", "local"}, Arrive(h, c, from) PROVE OpenCall(r)'
  BY <1>3, ArrivalOpen
<1>4. CASE Close \/ NotifShutdown \/ \E s \in Sids : EndSession(s)
  <2>1. UNCHANGED <<calls, arrival, missed, smDown, life, wants, incoming>> /\ ended \subseteq ended'
    BY <1>4, Zenon DEF Close, NotifShutdown, EndSession, interests, manager, loops, history
  <2> QED BY <2>1, QuietOpen, Zenon
<1>5. CASE Shutdown
  <2>1. UNCHANGED <<calls, arrival, missed, life>> /\ ~smDown /\ smDown' /\ ended' = ended \cup sessions
    BY <1>5 DEF Shutdown, history
  <2>2. life[SessionOf[r]] = "running" => SessionOf[r] \in ended'
    BY <2>1, CallsAssumption DEF OpenInv
  <2> QED BY <2>1, <2>2, QuietOpen, Zenon
<1>6. ASSUME NEW s \in Sids, HandleOp(s) PROVE OpenCall(r)'
  BY <1>6, HandleOpOpen
<1>7. ASSUME NEW s \in Sids, LoopAsks(s) \/ IdleTick(s) \/ CancelWants(s) PROVE OpenCall(r)'
  <2>1. UNCHANGED <<calls, arrival, missed, smDown, life, ended, wants, incoming>>
    BY <1>7, Zenon DEF LoopAsks, IdleTick, CancelWants, interests, manager, loops, history
  <2> QED BY <2>1, QuietOpen, Zenon
<1>8. ASSUME NEW s \in Sids, SenderTakes(s) \/ SenderCancels(s) PROVE OpenCall(r)'
  BY <1>8, SenderOpen
<1>9. ASSUME NEW h \in Arrivals, InterestedSessions(h) \/ \E s \in Sids : TellSession(h, s) PROVE OpenCall(r)'
  BY <1>9, ArrivalOpen
<1>10. ASSUME NEW h \in Arrivals, Publish(h) PROVE OpenCall(r)'
  BY <1>10, PublishOpen
<1>11. ASSUME NEW t \in Sids, RemoveSession(t) PROVE OpenCall(r)'
  <2>1. UNCHANGED <<calls, arrival, missed, smDown, ended>>
    BY <1>11, Zenon DEF RemoveSession, history
  <2>2. SessionOf[r] \in Sids /\ KeyOf[r] \in Cids
    BY CallsAssumption
  <2>3. CASE SessionOf[r] = t
    <3>1. life'[t] = "removing"
      BY <1>11, Zenon DEF RemoveSession, Types
    <3> QED BY <2>1, <2>3, <3>1, QuietOpen, Zenon
  <2>4. CASE SessionOf[r] # t
    <3>1. UNCHANGED <<life[SessionOf[r]], incoming[SessionOf[r]]>>
      BY <1>11, <2>2, <2>4, Zenon DEF RemoveSession, Types
    <3>2. UNCHANGED wants[KeyOf[r]][SessionOf[r]]
      <4>1. RemoveInterest(t, Cids) /\ Cids \in SUBSET Cids
        BY <1>11, Zenon DEF RemoveSession
      <4> QED BY <2>2, <2>4, <4>1, OtherInterestKept, Zenon
    <3> QED BY <2>1, <3>1, <3>2, QuietOpen, Zenon
  <2> QED BY <2>3, <2>4
<1>12. ASSUME NEW t \in Sids, SessionRemoved(t) PROVE OpenCall(r)'
  <2>1. UNCHANGED <<calls, arrival, missed, smDown, ended, wants, incoming>> /\ life' = [life EXCEPT ![t] = "removed"]
    BY <1>12, Zenon DEF SessionRemoved, loops, history
  <2>2. life'[SessionOf[r]] = "running" => life[SessionOf[r]] = "running"
    BY <2>1, CallsAssumption, Zenon DEF Types
  <2> QED BY <2>1, <2>2, QuietOpen, Zenon
<1> QED BY <1>1, <1>2, <1>3, <1>4, <1>5, <1>6, <1>7, <1>8, <1>9, <1>10, <1>11, <1>12, Zenon DEF Next, Inputs, Work

\* client.go:324: as long as no call is cancelled before another of its session
\* and key, an open call of a running session is one whose want is on record
\* once everything is handled, whatever other sessions received, cancelled and
\* ended meanwhile: for any sessions, keys, calls and blocks.
THEOREM OpenCallsStayWanted == Spec /\ []CancelsFinal => []OpenCallsWanted
<1>1. Init => Types /\ OrderlyInv /\ OpenInv
  <2>1. Init => OpenInv
    BY CallsAssumption, Zenon DEF Init, OpenInv, OpenCall
  <2> QED BY <2>1, InitInv
<1>2. Types /\ OrderlyInv /\ OpenInv /\ CancelsFinal' /\ [Next]_vars => (Types /\ OrderlyInv /\ OpenInv)'
  BY NextTypes, NextOrderly, NextOpen
<1>3. Types /\ OpenInv => OpenCallsWanted
  <2> SUFFICES ASSUME Types, OpenInv, Quiet, NEW r \in Calls, calls[r] = "open", life[SessionOf[r]] = "running",
                      <<SessionOf[r], KeyOf[r]>> \notin missed
               PROVE  wants[KeyOf[r]][SessionOf[r]] = "wanted"
    BY Zenon DEF OpenCallsWanted
  <2>1. SessionOf[r] \notin ended /\ incoming[SessionOf[r]] = <<>>
    BY CallsAssumption, Zenon DEF Quiet
  <2>2. \A h \in Arrivals : arrival[h] \notin Handled
    BY Zenon DEF Quiet, Handled
  <2>3. Pursued(SessionOf[r], KeyOf[r])
    BY <2>1, <2>2, Zenon DEF OpenInv, OpenCall, Publishing
  <2> QED BY <2>1, <2>3, QueueEmpty, Zenon DEF Pursued
<1> QED BY <1>1, <1>2, <1>3, PTL DEF Spec

\* Calls of different sessions or keys never stand in each other's way: both
\* results hold without restriction then.
COROLLARY OneCallPerKeySuffices ==
  ASSUME OneCallPerKey
  PROVE  Spec => [](NotAskedInVain /\ OpenCallsWanted)
<1>1. CancelsFinal
  BY DEF OneCallPerKey, CancelsFinal
<1>2. []CancelsFinal
  BY <1>1, PTL
<1> QED BY <1>2, NeverAskedInVain, OpenCallsStayWanted, PTL
=============================================================================
