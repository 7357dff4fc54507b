---------------------------- MODULE ServerProofs ----------------------------
(***************************************************************************)
(* What the parts of the server keep true beside each other, for any calls *)
(* of any size, any capacities and limits, any number of workers and any   *)
(* moment of closing.  Each part has an inductive invariant of its own: a  *)
(* step of another part changes at most the process, which only ever goes  *)
(* from running to closed.                                                 *)
(***************************************************************************)
EXTENDS Server, FiniteSetTheorems, TLAPS

-----------------------------------------------------------------------------
(* The announcements *)

Keys == UNION {Range(Batch[n]) : n \in Notifiers}

PipeTypes ==
  /\ notify \in [Notifiers -> {"none", "sending", "closing", "returned"}]
  /\ unsent \in [Notifiers -> Seq(Keys)]
  /\ newBlocks \in Seq(Keys) /\ toProvide \in Seq(Keys) /\ provideKeys \in Seq(Keys)
  /\ accepted \in Seq(Keys) /\ started \in Seq(Keys)
  /\ nextKey = <<>> \/ \E k \in Keys : nextKey = <<k>>
  /\ held = <<>> \/ \E k \in Keys : held = <<k>>
  /\ spawner \in {"receive", "limit", "done"} /\ collector \in BOOLEAN /\ provideEnabled \in BOOLEAN

\* Nothing is lost or overtaken: what was accepted is what was started, then
\* what is on its way, in order.
Chain == accepted = started \o (held \o (provideKeys \o (nextKey \o (toProvide \o newBlocks))))

\* The chain is whole until the provide worker gives up, which it does only when
\* the server stops; the collector has something in its list only behind a next
\* key; a server that does not provide accepts nothing.
PipeInv ==
  /\ PipeTypes
  /\ spawner # "done" => Chain
  /\ \E rest \in Seq(Keys) : accepted = started \o rest
  /\ nextKey = <<>> => toProvide = <<>>
  /\ spawner = "limit" <=> held # <<>>
  /\ provideEnabled /\ Running => collector /\ spawner # "done"
  /\ ~provideEnabled => /\ accepted = <<>> /\ newBlocks = <<>> /\ nextKey = <<>> /\ provideKeys = <<>>
                        /\ ~collector /\ spawner = "done"
                        /\ \A n \in Notifiers : notify[n] # "sending"

-----------------------------------------------------------------------------
(* The lookups *)

Busy == {"taken", "running"}
Jobs == {Job(r, c) : r \in Lookups, c \in Cids}

WorkerStates == [at : {"select", "ran", "exited"}, job : {NoJob}] \cup [at : Busy, job : Jobs]

LookupTypes ==
  /\ worker \in [Workers -> WorkerStates]
  /\ call \in [Lookups -> {"none", "adding", "counting", "returned"}]
  /\ todo \in [Lookups -> SUBSET Cids] /\ inFlight \in [Lookups -> SUBSET Cids]
  /\ res \in [Lookups -> SUBSET Cids] /\ err \in [Lookups -> BOOLEAN]
  /\ pendingGauge \in Int /\ activeGauge \in Int

Counting == {r \in Lookups : call[r] = "counting"}
WorkersAt(places) == {w \in Workers : worker[w].at \in places}

HasJob(w, r, c) == worker[w].at \in Busy /\ worker[w].job = Job(r, c)

\* A worker's job is one the caller waits for, and no two workers have the same.
JobsAwaited ==
  /\ \A w \in Workers, r \in Lookups, c \in Cids : HasJob(w, r, c) => c \in inFlight[r]
  /\ \A v, w \in Workers, r \in Lookups, c \in Cids : HasJob(v, r, c) /\ HasJob(w, r, c) => v = w

\* What a lookup has found, has handed over and has left is what it was asked
\* for, unless it failed.
Progress(asked, left, handed, found, failed, at) ==
  /\ left \cap handed = {}
  /\ left \cup handed \subseteq asked
  /\ found \subseteq asked \cap Stored
  /\ at = "none" => found = {} /\ handed = {} /\ failed = FALSE
  /\ at # "none" /\ failed = FALSE => asked \cap Stored \subseteq left \cup handed \cup found
  /\ at = "returned" => left = {} /\ handed = {}

LookupProgress(r) == Progress(AskedFor[r], todo[r], inFlight[r], res[r], err[r], call[r])

\* A job is counted as pending by the caller after the hand-over and discounted
\* by the worker when it starts, in either order.
GaugesBalance ==
  /\ IsFiniteSet(Counting)
  /\ pendingGauge + Cardinality(Counting) = Cardinality(WorkersAt({"taken"}))
  /\ activeGauge = Cardinality(WorkersAt({"running", "ran"}))

LookupInv ==
  /\ LookupTypes
  /\ JobsAwaited
  /\ \A r \in Lookups : LookupProgress(r)
  /\ GaugesBalance

-----------------------------------------------------------------------------
(* The score ledger *)

Update(p, s) == [peer |-> p, score |-> s]

LedgerTypes ==
  /\ ledgerMap \subseteq Partners
  /\ score \in [Partners -> Scores] /\ tag \in [Partners -> Scores]
  /\ updates \subseteq [peer : Partners, score : Scores]

\* A score the connection manager does not know yet is among the updates the
\* worker has taken, which hold at most one for each peer.
LedgerInv ==
  /\ LedgerTypes
  /\ sampler # "apply" => updates = {}
  /\ \A u, v \in updates : u.peer = v.peer => u = v
  /\ \A p \in Partners : p \notin ledgerMap => score[p] = 0
  /\ \A p \in Partners : score[p] # 0 =>
       \/ Update(p, score[p]) \in updates
       \/ tag[p] = score[p] /\ \A u \in updates : u.peer # p

\* A new ledger has no records.
LEMMA InitLedger == Init => LedgerInv
  BY ScoreAssumption DEF Init, LedgerInit, LedgerInv, LedgerTypes, Scores

\* A disconnect drops the record and its score; a record that is created starts
\* without one.
LEMMA RecordsLedger ==
  ASSUME LedgerInv, NEW p \in Partners,
         LedgerConnected(p) \/ LedgerDisconnected(p) \/ \E x \in Exchanges : findOrCreate(x, p)
  PROVE  LedgerInv'
<1>1. /\ UNCHANGED <<sampler, updates, tag>>
      /\ ledgerMap' \subseteq Partners
      /\ \/ UNCHANGED score /\ ledgerMap \subseteq ledgerMap'
         \/ score' = [score EXCEPT ![p] = 0] /\ ledgerMap' = ledgerMap \ {p}
  BY DEF LedgerInv, LedgerTypes, LedgerConnected, LedgerDisconnected, findOrCreate
<1>2. 0 \in Scores
  BY ScoreAssumption DEF Scores
<1>3. /\ score' \in [Partners -> Scores]
      /\ \A q \in Partners : score'[q] = 0 \/ (score'[q] = score[q] /\ (q \in ledgerMap => q \in ledgerMap'))
  BY <1>1, <1>2 DEF LedgerInv, LedgerTypes
<1>4. LedgerTypes'
  BY <1>1, <1>3 DEF LedgerInv, LedgerTypes
<1> QED BY <1>1, <1>3, <1>4, Zenon DEF LedgerInv

\* A sample takes an update for every score it changes, when none is left from
\* the sample before.
LEMMA SampleLedger == ASSUME LedgerInv, Sample PROVE LedgerInv'
<1>1. PICK s \in NewScores : /\ updates' = {[peer |-> p, score |-> s[p]] : p \in Changed(s)}
                             /\ score' = s
  BY DEF Sample
<1>2. updates = {} /\ sampler' = "apply" /\ UNCHANGED <<ledgerMap, tag>>
  BY DEF Sample, LedgerInv
<1>3. s \in [Partners -> Scores] /\ \A p \in Partners : p \notin ledgerMap => s[p] = 0
  BY DEF NewScores
<1>4. LedgerTypes'
  BY <1>1, <1>2, <1>3 DEF LedgerInv, LedgerTypes, Changed
<1>5. \A u, v \in updates' : u.peer = v.peer => u = v
  BY <1>1
<1>6. ASSUME NEW p \in Partners, s[p] # 0
      PROVE  \/ Update(p, s[p]) \in updates'
             \/ tag[p] = s[p] /\ \A u \in updates' : u.peer # p
  <2>1. p \in ledgerMap
    BY <1>3, <1>6
  <2>2. CASE s[p] # score[p]
    BY <1>1, <2>1, <2>2 DEF Changed, Update
  <2>3. CASE s[p] = score[p]
    <3>1. tag[p] = score[p]
      BY <1>2, <1>6, <2>3 DEF LedgerInv
    <3>2. \A u \in updates' : u.peer # p
      BY <1>1, <2>3 DEF Changed
    <3> QED BY <2>3, <3>1, <3>2
  <2> QED BY <2>2, <2>3
<1> QED BY <1>1, <1>2, <1>3, <1>4, <1>5, <1>6 DEF LedgerInv

\* An update that is applied is the peer's only one: if the record still has a
\* score, it is the one the update carries.
LEMMA ApplyLedger == ASSUME LedgerInv, NEW u \in updates, ApplyUpdate(u) PROVE LedgerInv'
<1>1. /\ tag' = [tag EXCEPT ![u.peer] = u.score] /\ updates' = updates \ {u}
      /\ UNCHANGED <<ledgerMap, score, sampler>>
  BY DEF ApplyUpdate, records
<1>2. u \in [peer : Partners, score : Scores]
  BY DEF LedgerInv, LedgerTypes
<1>3. PICK q \in Partners, t \in Scores : u.peer = q /\ u.score = t
  BY <1>2
<1>4. tag' \in [Partners -> Scores] /\ tag'[q] = t /\ \A p \in Partners \ {q} : tag'[p] = tag[p]
  BY <1>1, <1>3 DEF LedgerInv, LedgerTypes
<1>5. LedgerTypes'
  BY <1>1, <1>4 DEF LedgerInv, LedgerTypes
<1>6. ASSUME NEW p \in Partners, score[p] # 0
      PROVE  \/ Update(p, score[p]) \in updates'
             \/ tag'[p] = score[p] /\ \A v \in updates' : v.peer # p
  <2>1. \/ Update(p, score[p]) \in updates
        \/ tag[p] = score[p] /\ \A v \in updates : v.peer # p
    BY <1>6 DEF LedgerInv
  <2>2. Update(p, score[p]).peer = p /\ Update(p, score[p]).score = score[p]
    BY DEF Update
  <2>3. \A v, w \in updates : v.peer = w.peer => v = w
    BY DEF LedgerInv
  <2>4. CASE p = q
    <3>1. u = Update(p, score[p])
      BY <1>3, <2>1, <2>2, <2>3, <2>4
    <3>2. tag'[p] = score[p]
      BY <1>3, <1>4, <2>2, <2>4, <3>1
    <3>3. \A v \in updates' : v.peer # p
      BY <1>1, <1>3, <2>3, <2>4
    <3> QED BY <3>2, <3>3
  <2>5. CASE p # q
    <3>1. Update(p, score[p]) # u
      BY <1>3, <2>2, <2>5
    <3> QED BY <1>1, <1>4, <2>1, <2>5, <3>1
  <2> QED BY <2>4, <2>5
<1>7. sampler # "apply" => updates' = {}
  BY <1>1 DEF LedgerInv
<1> QED BY <1>1, <1>5, <1>6, <1>7 DEF LedgerInv

\* Every step of the server keeps the ledger's invariant.
LEMMA NextLedger == ASSUME LedgerInv, [Next]_svars PROVE LedgerInv'
<1>1. CASE UNCHANGED <<ledgerMap, score, tag, updates>> /\ (sampler' = "apply" <=> sampler = "apply")
  BY <1>1 DEF LedgerInv, LedgerTypes
<1>2. CASE SampleEnds
  BY <1>2 DEF SampleEnds, LedgerInv, LedgerTypes, records
<1>3. CASE Inputs
  BY <1>1, <1>3, RecordsLedger DEF Inputs, ledgers, records
<1>4. CASE Score
  BY <1>1, <1>2, <1>4, SampleLedger, ApplyLedger DEF Score, AddBytes, SamplerExits, records
<1>5. CASE Work
  BY <1>1, <1>5 DEF Work, Provide, LookUp, CloseSteps, StopLedger, ledgers, records
<1>6. CASE Owner \/ UNCHANGED svars
  BY <1>1, <1>6 DEF Owner, svars, ledgers, records
<1> QED BY <1>3, <1>4, <1>5, <1>6 DEF Next

\* Between samples the connection manager's tag is the score of the record,
\* whatever connects and disconnects come while updates are applied.
THEOREM LedgerScoresTagged == Spec => []ScoresTagged
<1>1. Init => LedgerInv
  BY InitLedger
<1>2. LedgerInv /\ [Next]_svars => LedgerInv'
  BY NextLedger
<1>3. LedgerInv => ScoresTagged
  BY DEF LedgerInv, LedgerTypes, ScoresTagged
<1> QED BY <1>1, <1>2, <1>3, PTL DEF Spec

-----------------------------------------------------------------------------
(* Sequences *)

\* A sequence is its head and its tail.
LEMMA HeadAndTail ==
  ASSUME NEW S, NEW s \in Seq(S), s # <<>>
  PROVE  Head(s) \in S /\ Tail(s) \in Seq(S) /\ s = <<Head(s)>> \o Tail(s)
<1>1. Head(s) \in S /\ Tail(s) \in Seq(S)
  OBVIOUS
<1> QED BY <1>1

\* Appending is concatenating at the end.
LEMMA AppendConcat ==
  ASSUME NEW S, NEW s \in Seq(S), NEW x \in S
  PROVE  Append(s, x) = s \o <<x>> /\ Append(s, x) \in Seq(S) /\ <<x>> \in Seq(S)
  OBVIOUS

\* A sequence is a prefix of what it is continued to.
LEMMA PrefixOfConcat ==
  ASSUME NEW s \in Seq(Keys), NEW t \in Seq(Keys)
  PROVE  s = SubSeq(s \o t, 1, Len(s))
<1>1. s \o t \in Seq(Keys) /\ Len(s \o t) = Len(s) + Len(t) /\ Len(s) \in Nat /\ Len(t) \in Nat
  OBVIOUS
<1>2. \A i \in 1..Len(s) : (s \o t)[i] = s[i]
  OBVIOUS
<1> QED BY <1>1, <1>2

\* The concatenation of sequences of keys is one.
LEMMA ConcatKeys ==
  /\ \A s, t \in Seq(Keys) : s \o t \in Seq(Keys)
  /\ \A s \in Seq(Keys) : s \o <<>> = s /\ <<>> \o s = s
  /\ <<>> \in Seq(Keys)
<1>1. \A s, t \in Seq(Keys) : s \o t \in Seq(Keys)
  OBVIOUS
<1>2. \A s \in Seq(Keys) : s \o <<>> = s /\ <<>> \o s = s
  OBVIOUS
<1> QED BY <1>1, <1>2

\* In whatever order they are concatenated.
Associate(s, t, u) == (s \o t) \o u = s \o (t \o u)

\* Concatenation of sequences of keys is associative.
LEMMA KeysAssociate == \A s, t, u \in Seq(Keys) : Associate(s, t, u)
<1> SUFFICES ASSUME NEW s \in Seq(Keys), NEW t \in Seq(Keys), NEW u \in Seq(Keys)
             PROVE  (s \o t) \o u = s \o (t \o u)
  BY DEF Associate
<1>1. /\ s \o t \in Seq(Keys) /\ t \o u \in Seq(Keys)
      /\ Len(s) \in Nat /\ Len(t) \in Nat /\ Len(u) \in Nat
      /\ Len(s \o t) = Len(s) + Len(t) /\ Len(t \o u) = Len(t) + Len(u)
  OBVIOUS
<1>2. /\ (s \o t) \o u \in Seq(Keys) /\ Len((s \o t) \o u) = Len(s) + Len(t) + Len(u)
      /\ s \o (t \o u) \in Seq(Keys) /\ Len(s \o (t \o u)) = Len(s) + Len(t) + Len(u)
  BY <1>1
<1>3. ASSUME NEW i \in 1..(Len(s) + Len(t) + Len(u)) PROVE ((s \o t) \o u)[i] = (s \o (t \o u))[i]
  BY <1>1
<1> QED BY <1>1, <1>2, <1>3, SMTT(30)

\* The end of a chain of sequences can be extended in place.
LEMMA AppendToChain ==
  /\ \A t \in Seq(Keys), k \in Keys : Append(t, k) \in Seq(Keys)
  /\ \A s, t \in Seq(Keys), k \in Keys : Append(s \o t, k) = s \o Append(t, k)
<1> SUFFICES ASSUME NEW s \in Seq(Keys), NEW t \in Seq(Keys), NEW k \in Keys
             PROVE  Append(t, k) \in Seq(Keys) /\ Append(s \o t, k) = s \o Append(t, k)
  BY Zenon
<1>1. s \o t \in Seq(Keys)
  BY ConcatKeys, Zenon
<1>2. /\ Append(s \o t, k) = (s \o t) \o <<k>> /\ Append(t, k) = t \o <<k>>
      /\ <<k>> \in Seq(Keys) /\ Append(t, k) \in Seq(Keys)
  BY <1>1, AppendConcat
<1>3. Associate(s, t, <<k>>)
  BY <1>2, KeysAssociate, Zenon
<1> QED BY <1>2, <1>3 DEF Associate

-----------------------------------------------------------------------------
(* The announcements *)

\* What is behind the provide worker, and what is behind the collector.
behind == provideKeys \o (nextKey \o (toProvide \o newBlocks))
collected == nextKey \o (toProvide \o newBlocks)

\* The parts of the chain are sequences of keys.
LEMMA ChainTypes ==
  ASSUME PipeTypes
  PROVE  /\ nextKey \in Seq(Keys) /\ held \in Seq(Keys)
         /\ toProvide \o newBlocks \in Seq(Keys) /\ collected \in Seq(Keys) /\ behind \in Seq(Keys)
         /\ held \o behind \in Seq(Keys) /\ (Chain <=> accepted = started \o (held \o behind))
<1>1. nextKey \in Seq(Keys) /\ held \in Seq(Keys)
  <2>1. \A k \in Keys : <<k>> \in Seq(Keys)
    OBVIOUS
  <2> QED BY <2>1, ConcatKeys, Zenon DEF PipeTypes
<1>2. toProvide \in Seq(Keys) /\ newBlocks \in Seq(Keys) /\ provideKeys \in Seq(Keys)
  BY DEF PipeTypes
<1>3. toProvide \o newBlocks \in Seq(Keys)
  BY <1>2, ConcatKeys, Zenon
<1>4. collected \in Seq(Keys)
  BY <1>1, <1>3, ConcatKeys, Zenon DEF collected
<1>5. behind \in Seq(Keys)
  BY <1>2, <1>4, ConcatKeys, Zenon DEF behind, collected
<1>6. held \o behind \in Seq(Keys)
  BY <1>1, <1>5, ConcatKeys, Zenon
<1> QED BY <1>1, <1>3, <1>4, <1>5, <1>6 DEF Chain, behind

\* A new pipeline is empty.
LEMMA InitPipe == Init => PipeInv
<1> SUFFICES ASSUME Init PROVE PipeInv
  OBVIOUS
<1>1. <<>> \in Seq(Keys) /\ <<>> \o <<>> = <<>>
  OBVIOUS
<1>2. PipeTypes
  BY <1>1 DEF Init, ProvideInit, PipeTypes
<1>3. Chain
  BY <1>1 DEF Init, ProvideInit, Chain
<1>4. \E rest \in Seq(Keys) : accepted = started \o rest
  BY <1>1, Zenon DEF Init, ProvideInit
<1> QED BY <1>2, <1>3, <1>4 DEF Init, ProvideInit, ProcessInit, PipeInv, Running

\* NotifyNewBlocks, up to and after its sending.
LEMMA NotifyPipe ==
  ASSUME PipeInv, NEW n \in Notifiers, NotifyNewBlocks(n) \/ NotifyCloses(n) \/ NotifyReturns(n)
  PROVE  PipeInv'
<1>1. UNCHANGED <<process, provideEnabled, pipe>>
  BY DEF NotifyNewBlocks, NotifyCloses, NotifyReturns
<1>2. /\ notify' \in [Notifiers -> {"none", "sending", "closing", "returned"}]
      /\ unsent' \in [Notifiers -> Seq(Keys)]
      /\ ~provideEnabled => \A m \in Notifiers : notify'[m] = "sending" => notify[m] = "sending"
  <2>1. Batch[n] \in Seq(Keys)
    BY BatchAssumption DEF Keys
  <2> QED BY <2>1, Zenon DEF NotifyNewBlocks, NotifyCloses, NotifyReturns, PipeInv, PipeTypes
<1>3. PipeTypes'
  BY <1>1, <1>2 DEF PipeInv, PipeTypes, pipe
<1> QED BY <1>1, <1>2, <1>3, Zenon DEF PipeInv, pipe, process, Running, Chain

\* A block that is accepted is the last of the chain.
LEMMA SendPipe == ASSUME PipeInv, NEW n \in Notifiers, SendNewBlock(n) PROVE PipeInv'
<1>1. PICK k \in Keys : k = Head(unsent[n]) /\ Tail(unsent[n]) \in Seq(Keys)
  <2>1. unsent[n] \in Seq(Keys) /\ unsent[n] # <<>>
    BY DEF PipeInv, PipeTypes, SendNewBlock
  <2> QED BY <2>1, HeadAndTail
<1>2. /\ newBlocks' = Append(newBlocks, k) /\ accepted' = Append(accepted, k)
      /\ unsent' = [unsent EXCEPT ![n] = Tail(@)] /\ notify[n] = "sending"
      /\ UNCHANGED <<process, provideEnabled, notify, collector, nextKey, toProvide, provideKeys, spawner, held,
                     started>>
  BY <1>1, Zenon DEF SendNewBlock
<1>3. PipeTypes'
  <2>1. newBlocks' \in Seq(Keys) /\ accepted' \in Seq(Keys)
    BY <1>2, AppendToChain, Zenon DEF PipeInv, PipeTypes
  <2>2. unsent' \in [Notifiers -> Seq(Keys)]
    BY <1>1, <1>2 DEF PipeInv, PipeTypes
  <2> QED BY <1>2, <2>1, <2>2 DEF PipeInv, PipeTypes
<1>4. Chain => Chain'
  <2>1. \A s, t \in Seq(Keys) : Append(s \o t, k) = s \o Append(t, k)
    BY AppendToChain, Zenon
  <2>2. Append(toProvide \o newBlocks, k) = toProvide \o newBlocks'
    <3>1. toProvide \in Seq(Keys) /\ newBlocks \in Seq(Keys)
      BY DEF PipeInv, PipeTypes
    <3> QED BY <1>2, <2>1, <3>1, Zenon
  <2>3. Append(collected, k) = nextKey \o Append(toProvide \o newBlocks, k)
    <3>1. nextKey \in Seq(Keys) /\ toProvide \o newBlocks \in Seq(Keys)
      BY ChainTypes, Zenon DEF PipeInv
    <3> QED BY <2>1, <3>1, Zenon DEF collected
  <2>4. Append(behind, k) = provideKeys \o Append(collected, k)
    <3>1. provideKeys \in Seq(Keys) /\ collected \in Seq(Keys)
      BY ChainTypes DEF PipeInv, PipeTypes
    <3>2. behind = provideKeys \o collected
      BY Zenon DEF collected, behind
    <3> QED BY <2>1, <3>1, <3>2, Zenon
  <2>5. Append(held \o behind, k) = held \o Append(behind, k)
    <3>1. held \in Seq(Keys) /\ behind \in Seq(Keys)
      BY ChainTypes, Zenon DEF PipeInv
    <3> QED BY <2>1, <3>1, Zenon
  <2>6. Append(started \o (held \o behind), k) = started \o Append(held \o behind, k)
    <3>1. started \in Seq(Keys) /\ held \o behind \in Seq(Keys)
      BY ChainTypes DEF PipeInv, PipeTypes
    <3> QED BY <2>1, <3>1, Zenon
  <2>7. Append(started \o (held \o behind), k)
          = started \o (held \o (provideKeys \o (nextKey \o (toProvide \o newBlocks'))))
    BY <2>2, <2>3, <2>4, <2>5, <2>6, Zenon
  <2>8. Chain' <=> accepted' = started \o (held \o (provideKeys \o (nextKey \o (toProvide \o newBlocks'))))
    BY <1>2 DEF Chain
  <2> QED BY <1>2, <2>7, <2>8, Zenon DEF Chain, behind
<1>5. \E rest \in Seq(Keys) : accepted' = started' \o rest
  <2>1. PICK rest \in Seq(Keys) : accepted = started \o rest
    BY Zenon DEF PipeInv
  <2>2. started \in Seq(Keys)
    BY DEF PipeInv, PipeTypes
  <2>3. Append(started \o rest, k) = started \o Append(rest, k) /\ Append(rest, k) \in Seq(Keys)
    BY <2>2, AppendToChain, Zenon
  <2> QED BY <1>2, <2>1, <2>3, Zenon
<1>6. provideEnabled
  BY <1>2 DEF PipeInv
<1>7. Running' = Running
  BY <1>2 DEF Running, process
<1> QED BY <1>2, <1>3, <1>4, <1>5, <1>6, <1>7, Zenon DEF PipeInv

\* The collector takes a key behind the ones it has.
LEMMA CollectorTakesPipe == ASSUME PipeInv, CollectorTakes PROVE PipeInv'
<1>1. PICK k \in Keys : /\ newBlocks # <<>> /\ k = Head(newBlocks) /\ Tail(newBlocks) \in Seq(Keys)
                        /\ newBlocks = <<k>> \o Tail(newBlocks)
  <2>1. newBlocks \in Seq(Keys) /\ newBlocks # <<>>
    BY DEF PipeInv, PipeTypes, CollectorTakes
  <2> QED BY <2>1, HeadAndTail
<1>2. /\ newBlocks' = Tail(newBlocks) /\ collector
      /\ IF nextKey = <<>> THEN nextKey' = <<k>> /\ UNCHANGED toProvide
         ELSE toProvide' = Append(toProvide, k) /\ UNCHANGED nextKey
      /\ UNCHANGED <<process, provideEnabled, notify, unsent>>
      /\ UNCHANGED <<collector, provideKeys, spawner, held, accepted, started>>
  BY <1>1 DEF CollectorTakes, outside
<1>3. toProvide \in Seq(Keys) /\ nextKey \in Seq(Keys) /\ newBlocks \in Seq(Keys)
  BY ChainTypes DEF PipeInv, PipeTypes
<1>4. PipeTypes'
  <2>1. toProvide' \in Seq(Keys) /\ newBlocks' \in Seq(Keys)
    BY <1>1, <1>2, <1>3, AppendToChain, Zenon
  <2>2. nextKey' = <<>> \/ \E key \in Keys : nextKey' = <<key>>
    BY <1>2, Zenon DEF PipeInv, PipeTypes
  <2> QED BY <1>2, <2>1, <2>2 DEF PipeInv, PipeTypes
<1>5. nextKey' \o (toProvide' \o newBlocks') = collected
  <2>1. CASE nextKey = <<>>
    <3>1. toProvide = <<>> /\ toProvide' = <<>> /\ nextKey' = <<k>>
      BY <1>2, <2>1 DEF PipeInv
    <3>2. <<>> \o newBlocks = newBlocks /\ <<>> \o newBlocks' = newBlocks'
      BY <1>1, <1>2, <1>3, ConcatKeys, Zenon
    <3> QED BY <1>1, <1>2, <2>1, <3>1, <3>2, Zenon DEF collected
  <2>2. CASE nextKey # <<>>
    <3>1. toProvide' = Append(toProvide, k) /\ nextKey' = nextKey
      BY <1>2, <2>2
    <3>2. Append(toProvide, k) = toProvide \o <<k>> /\ <<k>> \in Seq(Keys)
      BY <1>3, AppendConcat
    <3>3. Associate(toProvide, <<k>>, newBlocks')
      BY <1>1, <1>2, <1>3, <3>2, KeysAssociate, Zenon
    <3> QED BY <1>1, <1>2, <3>1, <3>2, <3>3, Zenon DEF collected, Associate
  <2> QED BY <2>1, <2>2
<1>6. Chain' = Chain
  BY <1>2, <1>5, Zenon DEF Chain, collected
<1>7. Running' = Running
  BY <1>2 DEF Running, process
<1>8. nextKey' # <<>> /\ provideEnabled
  <2>1. provideEnabled
    BY <1>2 DEF PipeInv
  <2>2. <<k>> # <<>>
    OBVIOUS
  <2> QED BY <1>2, <2>1, <2>2
<1> QED BY <1>2, <1>4, <1>6, <1>7, <1>8, Zenon DEF PipeInv

\* It hands its next key over, and has the head of its list for the next.
LEMMA CollectorHandsPipe == ASSUME PipeInv, CollectorHands PROVE PipeInv'
<1>1. /\ provideKeys' = provideKeys \o nextKey /\ collector
      /\ IF toProvide # <<>> THEN nextKey' = <<Head(toProvide)>> /\ toProvide' = Tail(toProvide)
         ELSE nextKey' = <<>> /\ UNCHANGED toProvide
      /\ UNCHANGED <<process, provideEnabled, notify, unsent>>
      /\ UNCHANGED <<newBlocks, collector, spawner, held, accepted, started>>
  BY DEF CollectorHands, outside
<1>2. /\ toProvide \in Seq(Keys) /\ nextKey \in Seq(Keys) /\ newBlocks \in Seq(Keys) /\ provideKeys \in Seq(Keys)
      /\ toProvide \o newBlocks \in Seq(Keys)
  BY ChainTypes DEF PipeInv, PipeTypes
<1>3. toProvide # <<>> => /\ Head(toProvide) \in Keys /\ Tail(toProvide) \in Seq(Keys)
                          /\ toProvide = <<Head(toProvide)>> \o Tail(toProvide)
  BY <1>2, HeadAndTail
<1>4. PipeTypes'
  <2>1. provideKeys' \in Seq(Keys)
    BY <1>1, <1>2, ConcatKeys, Zenon
  <2>2. toProvide' \in Seq(Keys) /\ (nextKey' = <<>> \/ \E key \in Keys : nextKey' = <<key>>)
    BY <1>1, <1>2, <1>3, Zenon
  <2> QED BY <1>1, <2>1, <2>2 DEF PipeInv, PipeTypes
<1>5. nextKey' \in Seq(Keys) /\ toProvide' \in Seq(Keys)
  <2>1. nextKey' \in Seq(Keys)
    <3>1. toProvide # <<>> => <<Head(toProvide)>> \in Seq(Keys)
      BY <1>3
    <3> QED BY <1>1, <3>1, ConcatKeys, Zenon
  <2> QED BY <1>1, <1>2, <1>3, <2>1, Zenon
<1>6. nextKey' \o toProvide' = toProvide
  <2>1. <<>> \o toProvide = toProvide
    BY <1>2, ConcatKeys, Zenon
  <2> QED BY <1>1, <1>3, <2>1, Zenon
<1>7. provideKeys' \o (nextKey' \o (toProvide' \o newBlocks)) = behind
  <2>1. Associate(nextKey', toProvide', newBlocks)
    BY <1>2, <1>5, KeysAssociate
  <2>2. Associate(provideKeys, nextKey, toProvide \o newBlocks)
    BY <1>2, KeysAssociate, Zenon
  <2> QED BY <1>1, <1>6, <2>1, <2>2, Zenon DEF behind, Associate
<1>8. Chain' = Chain
  BY <1>1, <1>7 DEF Chain, behind
<1>9. Running' = Running
  BY <1>1 DEF Running, process
<1>10. (nextKey' = <<>> => toProvide' = <<>>) /\ provideEnabled
  <2>1. provideEnabled
    BY <1>1 DEF PipeInv
  <2>2. <<Head(toProvide)>> # <<>>
    OBVIOUS
  <2> QED BY <1>1, <2>1, <2>2, Zenon
<1> QED BY <1>1, <1>4, <1>8, <1>9, <1>10 DEF PipeInv

\* The provide worker takes the first key of its channel.
LEMMA SpawnerReceivesPipe == ASSUME PipeInv, SpawnerReceives PROVE PipeInv'
<1>1. /\ held' = <<Head(provideKeys)>> /\ provideKeys' = Tail(provideKeys) /\ spawner' = "limit"
      /\ spawner = "receive" /\ provideKeys # <<>>
      /\ UNCHANGED <<process, provideEnabled, notify, unsent>>
      /\ UNCHANGED <<newBlocks, collector, nextKey, toProvide, accepted, started>>
  BY DEF SpawnerReceives, outside
<1>2. provideKeys \in Seq(Keys) /\ held = <<>> /\ collected \in Seq(Keys) /\ behind \in Seq(Keys)
  BY <1>1, ChainTypes DEF PipeInv, PipeTypes
<1>3. PICK k \in Keys : /\ k = Head(provideKeys) /\ Tail(provideKeys) \in Seq(Keys) /\ <<k>> \in Seq(Keys)
                        /\ provideKeys = <<k>> \o Tail(provideKeys)
  BY <1>1, <1>2, HeadAndTail
<1>4. PipeTypes'
  <2>1. held' = <<k>>
    BY <1>1, <1>3
  <2> QED BY <1>1, <1>3, <2>1 DEF PipeInv, PipeTypes
<1>5. <<k>> \o (Tail(provideKeys) \o collected) = held \o behind
  <2>1. Associate(<<k>>, Tail(provideKeys), collected)
    BY <1>2, <1>3, KeysAssociate, Zenon
  <2>2. <<>> \o behind = behind
    BY <1>2, ConcatKeys, Zenon
  <2> QED BY <1>2, <1>3, <2>1, <2>2, Zenon DEF behind, collected, Associate
<1>6. Chain' = Chain
  BY <1>1, <1>3, <1>5, Zenon DEF Chain, behind, collected
<1>7. Running' = Running
  BY <1>1 DEF Running, process
<1>8. held' # <<>> /\ provideEnabled
  BY <1>1 DEF PipeInv
<1> QED BY <1>1, <1>4, <1>6, <1>7, <1>8, Zenon DEF PipeInv

\* A goroutine is started for the key it holds, the first that was not.
LEMMA SpawnerStartsPipe == ASSUME PipeInv, SpawnerStarts PROVE PipeInv'
<1>1. /\ started' = started \o held /\ held' = <<>> /\ spawner' = "receive" /\ spawner = "limit"
      /\ UNCHANGED <<process, provideEnabled, notify, unsent>>
      /\ UNCHANGED <<newBlocks, collector, nextKey, toProvide, provideKeys, accepted>>
  BY DEF SpawnerStarts, outside
<1>2. started \in Seq(Keys) /\ held \in Seq(Keys) /\ behind \in Seq(Keys)
  BY ChainTypes DEF PipeInv, PipeTypes
<1>3. PipeTypes'
  <2>1. started' \in Seq(Keys)
    BY <1>1, <1>2, ConcatKeys, Zenon
  <2> QED BY <1>1, <2>1 DEF PipeInv, PipeTypes
<1>4. accepted = started' \o behind
  <2>1. accepted = started \o (held \o behind)
    BY <1>1, ChainTypes, Zenon DEF PipeInv
  <2>2. Associate(started, held, behind)
    BY <1>2, KeysAssociate
  <2> QED BY <1>1, <2>1, <2>2 DEF Associate
<1>5. Chain'
  <2>1. <<>> \o behind = behind
    BY <1>2, ConcatKeys, Zenon
  <2> QED BY <1>1, <1>4, <2>1 DEF Chain, behind
<1>6. \E rest \in Seq(Keys) : accepted' = started' \o rest
  BY <1>1, <1>2, <1>4, Zenon
<1>7. Running' = Running
  BY <1>1 DEF Running, process
<1>8. provideEnabled
  BY <1>1 DEF PipeInv
<1> QED BY <1>1, <1>3, <1>5, <1>6, <1>7, <1>8, Zenon DEF PipeInv

\* Collector and provide worker give up only when the server stops, and then
\* nothing is started any more.
LEMMA ExitsPipe == ASSUME PipeInv, CollectorExits \/ SpawnerExits PROVE PipeInv'
<1>1. CASE CollectorExits
  <2>1. PipeTypes' /\ ~Running'
    BY <1>1, Zenon DEF CollectorExits, PipeInv, PipeTypes, outside, process, Running
  <2> QED BY <1>1, <2>1, Zenon DEF CollectorExits, PipeInv, outside, Chain
<1>2. CASE SpawnerExits
  <2>1. /\ spawner' = "done" /\ held' = <<>> /\ spawner # "done"
        /\ UNCHANGED <<process, provideEnabled, notify, unsent>>
        /\ UNCHANGED <<newBlocks, collector, nextKey, toProvide, provideKeys, accepted, started>>
    BY <1>2 DEF SpawnerExits, outside
  <2>2. PipeTypes'
    BY <2>1 DEF PipeInv, PipeTypes
  <2>3. provideEnabled => ~Running
    BY <1>2, <2>1 DEF SpawnerExits, PipeInv, Running
  <2>4. Running' = Running
    BY <2>1 DEF Running, process
  <2> QED BY <2>1, <2>2, <2>3, <2>4 DEF PipeInv
<1> QED BY <1>1, <1>2

\* Every step of the server keeps the pipeline's invariant.
LEMMA NextPipe == ASSUME PipeInv, [Next]_svars PROVE PipeInv'
<1>1. CASE /\ UNCHANGED <<provideEnabled, notify, unsent, newBlocks, collector, nextKey, toProvide, provideKeys,
                          spawner, held, accepted, started>>
           /\ Running' => Running
  <2>1. PipeTypes' /\ Chain' = Chain
    BY <1>1, Zenon DEF PipeInv, PipeTypes, Chain
  <2> QED BY <1>1, <2>1, Zenon DEF PipeInv
<1>2. CASE Inputs
  <2>1. CASE \E n \in Notifiers : NotifyNewBlocks(n)
    BY <2>1, NotifyPipe
  <2>2. CASE UNCHANGED <<pipeline, process>>
    BY <1>1, <2>2 DEF pipeline, pipe, process, Running
  <2>3. ASSUME NEW r \in Lookups, Lookup(r) PROVE UNCHANGED process
    BY <2>3 DEF Lookup
  <2>4. ASSUME NEW p \in Partners, \/ LedgerConnected(p) \/ LedgerDisconnected(p)
                                   \/ \E x \in Exchanges : findOrCreate(x, p)
        PROVE  UNCHANGED process
    BY <2>4, Zenon DEF LedgerConnected, LedgerDisconnected, findOrCreate
  <2> QED BY <1>2, <2>1, <2>2, <2>3, <2>4, Zenon DEF Inputs
<1>3. CASE Provide
  <2>1. CASE \E k \in providing : ProvideEnds(k)
    BY <1>1, <2>1 DEF ProvideEnds, outside, process, Running
  <2> QED BY <1>3, <2>1, SendPipe, NotifyPipe, CollectorTakesPipe, CollectorHandsPipe, SpawnerReceivesPipe,
             SpawnerStartsPipe, ExitsPipe DEF Provide, Notifier, Spawner
<1>4. CASE LookUp \/ Score
  <2>1. UNCHANGED process
    BY <1>4, Zenon DEF LookUp, Caller, Worker, CountPending, AddJobFails, Return, AddJob, StartJob, RunJob, EndJob,
                WorkerExit, StopManager, Score, AddBytes, Sample, ApplyUpdate, SampleEnds, SamplerExits
  <2>2. UNCHANGED pipeline
    BY <1>4 DEF LookUp, Score
  <2> QED BY <1>1, <2>1, <2>2 DEF pipeline, pipe, process, Running
<1>5. CASE CloseSteps \/ Owner \/ UNCHANGED svars
  <2>1. UNCHANGED pipeline
    BY <1>5 DEF CloseSteps, Owner, svars
  <2>2. Running' => Running
    BY <1>5 DEF CloseSteps, Owner, StopLedger, CancelCtx, ChildrenClosed, Close, process, svars, Running
  <2> QED BY <1>1, <2>1, <2>2 DEF pipeline, pipe
<1> QED BY <1>2, <1>3, <1>4, <1>5 DEF Next, Work

\* While the server runs, what NotifyNewBlocks put into newBlocks and no
\* goroutine was started for is in the pipeline, in order; whenever the server
\* stops, keys are dropped from the end only.
THEOREM ProvidesInOrder == Spec => []ProvidedInOrder
<1>1. ASSUME PipeInv PROVE ProvidedInOrder
  <2>1. /\ nextKey \in Seq(Keys) /\ held \in Seq(Keys) /\ started \in Seq(Keys) /\ provideKeys \in Seq(Keys)
        /\ collected \in Seq(Keys) /\ toProvide \in Seq(Keys) /\ newBlocks \in Seq(Keys)
    BY <1>1, ChainTypes DEF PipeInv, PipeTypes
  <2> DEFINE passed == (started \o held) \o provideKeys
  <2>2. started \o held \in Seq(Keys) /\ passed \in Seq(Keys)
    BY <2>1, ConcatKeys, Zenon
  <2>3. started \o (held \o (provideKeys \o collected)) = passed \o collected
    <3>1. provideKeys \o collected \in Seq(Keys)
      BY <2>1, ConcatKeys, Zenon
    <3>2. Associate(started, held, provideKeys \o collected) /\ Associate(started \o held, provideKeys, collected)
      BY <2>1, <2>2, <3>1, KeysAssociate, Zenon
    <3> QED BY <3>2 DEF Associate
  <2>4. passed \o collected = ((passed \o nextKey) \o toProvide) \o newBlocks
    <3> HIDE DEF passed
    <3>1. passed \o nextKey \in Seq(Keys) /\ toProvide \o newBlocks \in Seq(Keys)
      BY <2>1, <2>2, ConcatKeys, Zenon
    <3>2. /\ Associate(passed \o nextKey, toProvide, newBlocks)
          /\ Associate(passed, nextKey, toProvide \o newBlocks)
      BY <2>1, <2>2, <3>1, KeysAssociate, Zenon
    <3> QED BY <3>2 DEF collected, Associate
  <2>5. spawner # "done" => accepted = passed \o collected
    BY <1>1, <2>3, Zenon DEF PipeInv, Chain, collected
  <2>6. Running => accepted = passed \o collected
    <3>1. CASE provideEnabled
      BY <1>1, <2>5, <3>1 DEF PipeInv
    <3>2. CASE ~provideEnabled
      <4>1. /\ accepted = <<>> /\ newBlocks = <<>> /\ nextKey = <<>> /\ provideKeys = <<>> /\ held = <<>>
            /\ toProvide = <<>>
        BY <1>1, <3>2 DEF PipeInv
      <4>2. PICK rest \in Seq(Keys) : <<>> = started \o rest
        BY <1>1, <4>1, Zenon DEF PipeInv
      <4>3. started = <<>>
        <5>1. started \in Seq(Keys)
          BY <2>1
        <5>2. Len(started \o rest) = Len(started) + Len(rest) /\ Len(started) \in Nat /\ Len(rest) \in Nat
          BY <5>1
        <5>3. Len(started \o rest) = 0
          <6>1. Len(<<>>) = 0
            OBVIOUS
          <6> QED BY <4>2, <6>1, Zenon
        <5>4. Len(started) = 0
          BY <5>2, <5>3
        <5> QED BY <5>1, <5>4
      <4>4. <<>> \o <<>> = <<>>
        BY ConcatKeys, Zenon
      <4> QED BY <4>1, <4>3, <4>4, Zenon DEF collected
    <3> QED BY <3>1, <3>2
  <2>7. started = SubSeq(accepted, 1, Len(started))
    BY <1>1, <2>1, PrefixOfConcat DEF PipeInv
  <2>8. passed = SubSeq(passed \o collected, 1, Len(passed))
    <3> HIDE DEF passed
    <3> QED BY <2>1, <2>2, PrefixOfConcat
  <2>9. spawner # "done" => passed = SubSeq(accepted, 1, Len(passed))
    BY <2>5, <2>8
  <2> QED BY <2>4, <2>6, <2>7, <2>9 DEF ProvidedInOrder
<1> QED BY <1>1, InitPipe, NextPipe, PTL DEF Spec

-----------------------------------------------------------------------------
(* The lookups *)

\* A worker has a job exactly while it is busy.
LEMMA WorkerFacts ==
  ASSUME NEW v \in WorkerStates
  PROVE  /\ v.at \in Busy => \E r \in Lookups, c \in Cids : v.job = Job(r, c) /\ v.job.by = r
         /\ v.at \notin Busy => v.job = NoJob /\ v.job.by = "none"
         /\ v.at \in Busy => v.job # NoJob
<1>1. CASE v \in [at : Busy, job : Jobs]
  <2>1. v.at \in Busy /\ v.job \in Jobs
    BY <1>1
  <2>2. PICK r \in Lookups, c \in Cids : v.job = Job(r, c)
    BY <2>1, SMTT(30) DEF Jobs
  <2>3. v.job.by = r
    <3>1. Job(r, c).by = r
      BY DEF Job
    <3> QED BY <2>2, <3>1, Zenon
  <2>4. NoJob.by = "none"
    BY DEF NoJob
  <2> QED BY <2>1, <2>2, <2>3, <2>4, LookupsAssumption, Zenon
<1>2. CASE v \in [at : {"select", "ran", "exited"}, job : {NoJob}]
  BY <1>2 DEF Busy, NoJob
<1> QED BY <1>1, <1>2, Zenon DEF WorkerStates

\* The states the steps put a worker in.
LEMMA NewStates ==
  /\ \A place \in {"select", "ran", "exited"} :
       At(place, NoJob) \in WorkerStates /\ At(place, NoJob).at = place /\ place \notin Busy
  /\ \A place \in Busy, r \in Lookups, c \in Cids :
       At(place, Job(r, c)) \in WorkerStates /\ At(place, Job(r, c)).at = place /\ At(place, Job(r, c)).job = Job(r, c)
<1>1. ASSUME NEW place \in {"select", "ran", "exited"}
      PROVE  At(place, NoJob) \in WorkerStates /\ At(place, NoJob).at = place /\ place \notin Busy
  BY Zenon DEF At, WorkerStates, Busy
<1>2. ASSUME NEW place \in Busy, NEW r \in Lookups, NEW c \in Cids
      PROVE  /\ At(place, Job(r, c)) \in WorkerStates /\ At(place, Job(r, c)).at = place
             /\ At(place, Job(r, c)).job = Job(r, c)
  <2>1. Job(r, c) \in Jobs
    BY DEF Jobs
  <2> QED BY <2>1, Zenon DEF At, WorkerStates
<1> QED BY <1>1, <1>2

\* Jobs of different lookups or keys are different.
LEMMA JobsDiffer ==
  ASSUME NEW r, NEW c, NEW q, NEW d, Job(r, c) = Job(q, d)
  PROVE  r = q /\ c = d
<1>1. Job(r, c).by = r /\ Job(r, c).key = c /\ Job(q, d).by = q /\ Job(q, d).key = d
  BY Zenon DEF Job
<1> QED BY <1>1

\* Whether a worker in state v is at one of the places, as a number.
In(v, places) == IF v.at \in places THEN 1 ELSE 0

\* What one worker's step does to the number of workers at some places.
LEMMA WorkerMoves ==
  ASSUME worker \in [Workers -> WorkerStates], NEW w \in Workers, NEW v \in WorkerStates,
         worker' = [worker EXCEPT ![w] = v], NEW places
  PROVE  /\ Cardinality(WorkersAt(places)) \in Nat
         /\ Cardinality(WorkersAt(places)') =
              Cardinality(WorkersAt(places)) + In(v, places) - In(worker[w], places)
         /\ In(v, places) \in Int /\ In(worker[w], places) \in Int
<1>1. IsFiniteSet(WorkersAt(places))
  <2>1. IsFiniteSet(Workers)
    BY WorkersAssumption, FS_Interval DEF Workers
  <2>2. WorkersAt(places) \in SUBSET Workers
    BY DEF WorkersAt
  <2> QED BY <2>1, <2>2, FS_Subset
<1>2. Cardinality(WorkersAt(places)) \in Nat
  BY <1>1, FS_CardinalityType
<1>3. worker'[w] = v /\ \A x \in Workers \ {w} : worker'[x] = worker[x]
  OBVIOUS
<1>4. w \in WorkersAt(places) <=> worker[w].at \in places
  BY DEF WorkersAt
<1>5. CASE v.at \in places
  <2>1. WorkersAt(places)' = WorkersAt(places) \cup {w}
    BY <1>3, <1>5 DEF WorkersAt
  <2>2. Cardinality(WorkersAt(places) \cup {w}) =
          IF w \in WorkersAt(places) THEN Cardinality(WorkersAt(places)) ELSE Cardinality(WorkersAt(places)) + 1
    BY <1>1, FS_AddElement, Zenon
  <2> QED BY <1>2, <1>4, <1>5, <2>1, <2>2 DEF In
<1>6. CASE v.at \notin places
  <2>1. WorkersAt(places)' = WorkersAt(places) \ {w}
    BY <1>3, <1>6 DEF WorkersAt
  <2>2. Cardinality(WorkersAt(places) \ {w}) =
          IF w \in WorkersAt(places) THEN Cardinality(WorkersAt(places)) - 1 ELSE Cardinality(WorkersAt(places))
    BY <1>1, FS_RemoveElement, Zenon
  <2> QED BY <1>2, <1>4, <1>6, <2>1, <2>2 DEF In
<1> QED BY <1>5, <1>6, Zenon

\* How a lookup gets on: it begins, fails, and returns.
LEMMA ProgressOfCall ==
  ASSUME NEW asked, NEW left, NEW handed, NEW found, NEW failed
  PROVE  /\ Progress(asked, left, handed, found, failed, "none")
              => Progress(asked, asked, handed, found, failed, "adding")
         /\ Progress(asked, left, handed, found, failed, "adding")
              => Progress(asked, {}, handed, found, TRUE, "adding")
         /\ Progress(asked, {}, {}, found, failed, "adding")
              => Progress(asked, {}, {}, found, failed, "returned")
<1>1. Progress(asked, left, handed, found, failed, "none") => Progress(asked, asked, handed, found, failed, "adding")
  BY DEF Progress
<1>2. Progress(asked, left, handed, found, failed, "adding") => Progress(asked, {}, handed, found, TRUE, "adding")
  BY DEF Progress
<1>3. Progress(asked, {}, {}, found, failed, "adding") => Progress(asked, {}, {}, found, failed, "returned")
  BY DEF Progress
<1> QED BY <1>1, <1>2, <1>3, Zenon

\* It hands a key over, and counts it.
LEMMA ProgressOfAddJob ==
  ASSUME NEW asked, NEW left, NEW handed, NEW found, NEW failed, NEW c \in left
  PROVE  Progress(asked, left, handed, found, failed, "adding")
           => Progress(asked, left \ {c}, handed \cup {c}, found, failed, "counting")
  BY DEF Progress

\* Counting the job just handed over leaves what is left, in flight and found as it was.
LEMMA ProgressOfCount ==
  ASSUME NEW asked, NEW left, NEW handed, NEW found, NEW failed
  PROVE  Progress(asked, left, handed, found, failed, "counting")
           => Progress(asked, left, handed, found, failed, "adding")
  BY DEF Progress

\* A key is looked up for it.
LEMMA ProgressOfJob ==
  ASSUME NEW asked, NEW left, NEW handed, NEW found, NEW failed, NEW at, NEW c \in handed
  PROVE  Progress(asked, left, handed, found, failed, at)
           => Progress(asked, left, handed \ {c}, found \cup ({c} \cap Stored), failed, at)
  BY DEF Progress

\* A new pool has no jobs.
LEMMA InitLookup == Init => LookupInv
<1> SUFFICES ASSUME Init PROVE LookupInv
  OBVIOUS
<1>1. PICK n \in Workers : worker = [w \in Workers |-> IF w <= n THEN Idle ELSE At("exited", NoJob)]
  BY DEF Init, LookupInit
<1>2. /\ worker \in [Workers -> WorkerStates]
      /\ \A w \in Workers : worker[w].at \in {"select", "exited"}
  BY <1>1, NewStates DEF Idle
<1>3. LookupTypes
  BY <1>2 DEF Init, LookupInit, LookupTypes
<1>4. JobsAwaited
  BY <1>2, Zenon DEF JobsAwaited, HasJob, Busy
<1>5. \A r \in Lookups : LookupProgress(r)
  BY Zenon DEF Init, LookupInit, LookupProgress, Progress
<1>6. Counting = {} /\ WorkersAt({"taken"}) = {} /\ WorkersAt({"running", "ran"}) = {}
  BY <1>2 DEF Init, LookupInit, Counting, WorkersAt
<1>7. GaugesBalance
  <2>1. pendingGauge = 0 /\ activeGauge = 0
    BY DEF Init, LookupInit
  <2> QED BY <1>6, <2>1, FS_EmptySet DEF GaugesBalance
<1> QED BY <1>3, <1>4, <1>5, <1>7 DEF LookupInv

\* A lookup whose variables a step leaves alone is where it was.
LEMMA ProgressKept ==
  ASSUME NEW q, todo'[q] = todo[q], inFlight'[q] = inFlight[q], res'[q] = res[q], err'[q] = err[q], call'[q] = call[q],
         LookupProgress(q)
  PROVE  LookupProgress(q)'
  BY Zenon DEF LookupProgress

\* A call that begins; one that gives up; one that returns, once nothing it
\* handed over is under way.
LEMMA CallsLookup ==
  ASSUME LookupInv, NEW r \in Lookups, Lookup(r) \/ AddJobFails(r) \/ Return(r)
  PROVE  LookupInv'
<1>1. UNCHANGED <<worker, inFlight, res, pendingGauge, activeGauge>>
  BY Zenon DEF Lookup, AddJobFails, Return, gauges
<1>2. /\ LookupTypes /\ JobsAwaited /\ GaugesBalance
      /\ \A q \in Lookups : LookupProgress(q)
  BY DEF LookupInv
<1>3. /\ call \in [Lookups -> {"none", "adding", "counting", "returned"}]
      /\ todo \in [Lookups -> SUBSET Cids] /\ err \in [Lookups -> BOOLEAN]
  BY <1>2 DEF LookupTypes
<1>4. PICK at \in {"adding", "returned"}, left \in SUBSET Cids, failed \in BOOLEAN :
        /\ call' = [call EXCEPT ![r] = at] /\ todo' = [todo EXCEPT ![r] = left] /\ err' = [err EXCEPT ![r] = failed]
        /\ \/ call[r] = "none" /\ at = "adding" /\ left = AskedFor[r] /\ failed = err[r]
           \/ call[r] = "adding" /\ at = "adding" /\ left = {} /\ failed = TRUE
           \/ /\ call[r] = "adding" /\ at = "returned" /\ left = todo[r] /\ failed = err[r]
              /\ todo[r] = {} /\ inFlight[r] = {}
  <2>1. AskedFor[r] \in SUBSET Cids /\ todo[r] \in SUBSET Cids /\ err[r] \in BOOLEAN
    BY <1>3, AskedForAssumption
  <2>2. /\ call = [call EXCEPT ![r] = call[r]] /\ todo = [todo EXCEPT ![r] = todo[r]]
        /\ err = [err EXCEPT ![r] = err[r]]
    BY <1>3
  <2>3. CASE Lookup(r)
    BY <2>1, <2>2, <2>3, Zenon DEF Lookup
  <2>4. CASE AddJobFails(r)
    BY <2>1, <2>2, <2>4, Zenon DEF AddJobFails
  <2>5. CASE Return(r)
    BY <2>1, <2>2, <2>5, Zenon DEF Return
  <2> QED BY <2>3, <2>4, <2>5, Zenon
<1>5. LookupTypes'
  BY <1>1, <1>2, <1>4, Zenon DEF LookupTypes
<1>6. JobsAwaited'
  BY <1>1, <1>2, Zenon DEF JobsAwaited, HasJob
<1>7. ASSUME NEW q \in Lookups PROVE LookupProgress(q)'
  <2>1. CASE q # r
    BY <1>1, <1>2, <1>3, <1>4, <2>1, ProgressKept, Zenon
  <2>2. CASE q = r
    <3>1. call'[r] = at /\ todo'[r] = left /\ err'[r] = failed
      BY <1>3, <1>4, Zenon
    <3>2. Progress(AskedFor[r], todo[r], inFlight[r], res[r], err[r], call[r]) /\ err[r] \in BOOLEAN
      BY <1>2, <1>3, Zenon DEF LookupProgress
    <3>3. Progress(AskedFor[r], left, inFlight[r], res[r], failed, at)
      <4>1. CASE call[r] = "none" /\ at = "adding" /\ left = AskedFor[r] /\ failed = err[r]
        BY <3>2, <4>1, ProgressOfCall, Zenon
      <4>2. CASE call[r] = "adding" /\ at = "adding" /\ left = {} /\ failed = TRUE
        BY <3>2, <4>2, ProgressOfCall, Zenon
      <4>3. CASE /\ call[r] = "adding" /\ at = "returned" /\ left = todo[r] /\ failed = err[r]
                 /\ todo[r] = {} /\ inFlight[r] = {}
        <5>1. Progress(AskedFor[r], {}, {}, res[r], err[r], "adding")
          BY <3>2, <4>3, Zenon
        <5>2. Progress(AskedFor[r], {}, {}, res[r], err[r], "returned")
          BY <5>1, ProgressOfCall, Zenon
        <5> QED BY <4>3, <5>2, Zenon
      <4> QED BY <1>4, <4>1, <4>2, <4>3, Zenon
    <3> QED BY <1>1, <2>2, <3>1, <3>3, Zenon DEF LookupProgress
  <2> QED BY <2>1, <2>2
<1>8. GaugesBalance'
  <2>1. \A q \in Lookups : call'[q] = "counting" <=> call[q] = "counting"
    BY <1>3, <1>4, Zenon
  <2>2. Counting' = Counting
    BY <2>1, Zenon DEF Counting
  <2>3. WorkersAt({"taken"})' = WorkersAt({"taken"}) /\ WorkersAt({"running", "ran"})' = WorkersAt({"running", "ran"})
    BY <1>1, Zenon DEF WorkersAt
  <2> QED BY <1>1, <1>2, <2>2, <2>3 DEF GaugesBalance
<1> QED BY <1>5, <1>6, <1>7, <1>8 DEF LookupInv

\* addJob counts the job it handed over.
LEMMA CountLookup == ASSUME LookupInv, NEW r \in Lookups, CountPending(r) PROVE LookupInv'
<1>1. /\ call[r] = "counting" /\ pendingGauge' = pendingGauge + 1 /\ call' = [call EXCEPT ![r] = "adding"]
      /\ UNCHANGED <<worker, todo, inFlight, res, err, activeGauge>>
  BY DEF CountPending
<1>2. /\ LookupTypes /\ JobsAwaited /\ GaugesBalance
      /\ \A q \in Lookups : LookupProgress(q)
  BY DEF LookupInv
<1>3. call \in [Lookups -> {"none", "adding", "counting", "returned"}] /\ pendingGauge \in Int /\ err[r] \in BOOLEAN
  BY <1>2 DEF LookupTypes
<1>4. \A q \in Lookups : call'[q] = IF q = r THEN "adding" ELSE call[q]
  BY <1>1, <1>3
<1>5. LookupTypes'
  <2>1. call' \in [Lookups -> {"none", "adding", "counting", "returned"}] /\ pendingGauge' \in Int
    BY <1>1, <1>3
  <2> QED BY <1>1, <1>2, <2>1, Zenon DEF LookupTypes
<1>6. JobsAwaited'
  BY <1>1, <1>2, Zenon DEF JobsAwaited, HasJob
<1>7. ASSUME NEW q \in Lookups PROVE LookupProgress(q)'
  <2>1. CASE q # r
    BY <1>1, <1>2, <1>4, <2>1, ProgressKept, Zenon
  <2>2. CASE q = r
    <3>1. Progress(AskedFor[r], todo[r], inFlight[r], res[r], err[r], "counting")
      BY <1>1, <1>2, Zenon DEF LookupProgress
    <3>2. Progress(AskedFor[r], todo[r], inFlight[r], res[r], err[r], "adding")
      BY <3>1, ProgressOfCount, Zenon
    <3>3. call'[r] = "adding"
      BY <1>4
    <3> QED BY <1>1, <2>2, <3>2, <3>3, Zenon DEF LookupProgress
  <2> QED BY <2>1, <2>2
<1>8. GaugesBalance'
  <2>1. Counting' = Counting \ {r} /\ r \in Counting
    BY <1>1, <1>4 DEF Counting
  <2>2. WorkersAt({"taken"})' = WorkersAt({"taken"}) /\ WorkersAt({"running", "ran"})' = WorkersAt({"running", "ran"})
    BY <1>1, Zenon DEF WorkersAt
  <2>3. /\ IsFiniteSet(Counting)
        /\ pendingGauge + Cardinality(Counting) = Cardinality(WorkersAt({"taken"}))
        /\ activeGauge = Cardinality(WorkersAt({"running", "ran"}))
    BY <1>2 DEF GaugesBalance
  <2>4. IsFiniteSet(Counting \ {r}) /\ Cardinality(Counting \ {r}) = Cardinality(Counting) - 1
    BY <2>1, <2>3, FS_RemoveElement
  <2>5. Cardinality(Counting) \in Nat
    BY <2>3, FS_CardinalityType
  <2>6. pendingGauge' + Cardinality(Counting \ {r}) = Cardinality(WorkersAt({"taken"}))
    <3>1. pendingGauge' = pendingGauge + 1 /\ pendingGauge \in Int
      BY <1>1, <1>3
    <3> QED BY <2>3, <2>4, <2>5, <3>1
  <2> QED BY <1>1, <2>1, <2>2, <2>3, <2>4, <2>6, Zenon DEF GaugesBalance
<1> QED BY <1>5, <1>6, <1>7, <1>8 DEF LookupInv

\* addJob hands a key over that nobody has been given for this lookup.
LEMMA AddJobLookup ==
  ASSUME LookupInv, NEW r \in Lookups, NEW c \in Cids, NEW w \in Workers, AddJob(r, c, w)
  PROVE  LookupInv'
<1> DEFINE v == At("taken", Job(r, c))
<1>1. /\ call[r] = "adding" /\ c \in todo[r] /\ worker[w] = Idle
      /\ worker' = [worker EXCEPT ![w] = v]
      /\ todo' = [todo EXCEPT ![r] = @ \ {c}]
      /\ inFlight' = [inFlight EXCEPT ![r] = @ \cup {c}]
      /\ call' = [call EXCEPT ![r] = "counting"]
      /\ UNCHANGED <<res, err, pendingGauge, activeGauge>>
  BY Zenon DEF AddJob, gauges
<1>2. v \in WorkerStates /\ v.at = "taken" /\ v.job = Job(r, c) /\ v.at \in Busy
  BY NewStates DEF Busy
<1>3. /\ LookupTypes /\ JobsAwaited /\ GaugesBalance
      /\ \A q \in Lookups : LookupProgress(q)
  BY DEF LookupInv
<1>4. /\ worker \in [Workers -> WorkerStates] /\ todo \in [Lookups -> SUBSET Cids]
      /\ inFlight \in [Lookups -> SUBSET Cids] /\ err[r] \in BOOLEAN
      /\ call \in [Lookups -> {"none", "adding", "counting", "returned"}]
  BY <1>3 DEF LookupTypes
<1>5. worker[w].at = "select" /\ worker[w].at \notin Busy
  BY <1>1, NewStates, Zenon DEF Idle
<1> HIDE DEF v
<1>6. worker'[w] = v /\ \A x \in Workers \ {w} : worker'[x] = worker[x]
  BY <1>1, <1>4
<1>7. /\ todo'[r] = todo[r] \ {c} /\ inFlight'[r] = inFlight[r] \cup {c} /\ call'[r] = "counting"
      /\ \A q \in Lookups \ {r} : todo'[q] = todo[q] /\ inFlight'[q] = inFlight[q] /\ call'[q] = call[q]
  BY <1>1, <1>4, Zenon
<1>8. LookupTypes'
  <2>1. worker' \in [Workers -> WorkerStates]
    BY <1>1, <1>2, <1>4, Zenon
  <2>2. todo' \in [Lookups -> SUBSET Cids] /\ inFlight' \in [Lookups -> SUBSET Cids]
    BY <1>1, <1>4
  <2>3. call' \in [Lookups -> {"none", "adding", "counting", "returned"}]
    BY <1>1, <1>4
  <2> QED BY <1>1, <1>3, <2>1, <2>2, <2>3, Zenon DEF LookupTypes
<1>9. JobsAwaited'
  <2>1. \A x \in Workers, q \in Lookups, d \in Cids :
          HasJob(x, q, d)' => (HasJob(x, q, d) /\ x # w) \/ (x = w /\ q = r /\ d = c)
    <3> SUFFICES ASSUME NEW x \in Workers, NEW q \in Lookups, NEW d \in Cids, HasJob(x, q, d)'
                 PROVE  (HasJob(x, q, d) /\ x # w) \/ (x = w /\ q = r /\ d = c)
      BY Zenon
    <3>1. CASE x # w
      BY <1>6, <3>1, Zenon DEF HasJob
    <3>2. CASE x = w
      <4>1. Job(r, c) = Job(q, d)
        BY <1>2, <1>6, <3>2, Zenon DEF HasJob
      <4> QED BY <3>2, <4>1, JobsDiffer, Zenon
    <3> QED BY <3>1, <3>2
  <2>2. \A q \in Lookups, d \in Cids : d \in inFlight[q] => d \in inFlight'[q]
    BY <1>7, Zenon
  <2>3. c \in inFlight'[r] /\ c \notin inFlight[r]
    BY <1>1, <1>3, <1>7, Zenon DEF LookupProgress, Progress
  <2>4. \A x \in Workers : ~HasJob(x, r, c)
    BY <1>3, <2>3, Zenon DEF JobsAwaited
  <2>5. \A x \in Workers, q \in Lookups, d \in Cids : HasJob(x, q, d)' => d \in inFlight'[q]
    BY <1>3, <2>1, <2>2, <2>3, Zenon DEF JobsAwaited
  <2>6. ASSUME NEW x \in Workers, NEW y \in Workers, NEW q \in Lookups, NEW d \in Cids,
               HasJob(x, q, d)', HasJob(y, q, d)'
        PROVE  x = y
    <3>1. (HasJob(x, q, d) /\ x # w) \/ (x = w /\ q = r /\ d = c)
      BY <2>1, <2>6, Zenon
    <3>2. (HasJob(y, q, d) /\ y # w) \/ (y = w /\ q = r /\ d = c)
      BY <2>1, <2>6, Zenon
    <3>3. HasJob(x, q, d) /\ HasJob(y, q, d) => x = y
      BY <1>3, Zenon DEF JobsAwaited
    <3>4. q = r /\ d = c => ~HasJob(x, q, d) /\ ~HasJob(y, q, d)
      BY <2>4, Zenon
    <3> QED BY <3>1, <3>2, <3>3, <3>4, Zenon
  <2> QED BY <2>5, <2>6, Zenon DEF JobsAwaited
<1>10. ASSUME NEW q \in Lookups PROVE LookupProgress(q)'
  <2>1. CASE q # r
    BY <1>1, <1>3, <1>7, <2>1, ProgressKept, Zenon
  <2>2. CASE q = r
    <3>1. Progress(AskedFor[r], todo[r], inFlight[r], res[r], err[r], "adding")
      BY <1>1, <1>3, Zenon DEF LookupProgress
    <3>2. Progress(AskedFor[r], todo[r] \ {c}, inFlight[r] \cup {c}, res[r], err[r], "counting")
      BY <1>1, <3>1, ProgressOfAddJob, Zenon
    <3> QED BY <1>1, <1>7, <2>2, <3>2, Zenon DEF LookupProgress
  <2> QED BY <2>1, <2>2
<1>11. GaugesBalance'
  <2>1. /\ Cardinality(WorkersAt({"taken"})) \in Nat
        /\ Cardinality(WorkersAt({"taken"})') =
             Cardinality(WorkersAt({"taken"})) + In(v, {"taken"}) - In(worker[w], {"taken"})
        /\ In(v, {"taken"}) \in Int /\ In(worker[w], {"taken"}) \in Int
    BY <1>1, <1>2, <1>4, WorkerMoves, Zenon
  <2>2. Cardinality(WorkersAt({"taken"})') = Cardinality(WorkersAt({"taken"})) + 1
    <3>1. In(v, {"taken"}) = 1
      BY <1>2 DEF In
    <3>2. In(worker[w], {"taken"}) = 0
      BY <1>5 DEF In
    <3> QED BY <2>1, <3>1, <3>2
  <2>3. WorkersAt({"running", "ran"})' = WorkersAt({"running", "ran"})
    BY <1>2, <1>5, <1>6, Zenon DEF WorkersAt
  <2>4. Counting' = Counting \cup {r} /\ r \notin Counting
    BY <1>1, <1>7, Zenon DEF Counting
  <2>5. /\ IsFiniteSet(Counting) /\ pendingGauge \in Int
        /\ pendingGauge + Cardinality(Counting) = Cardinality(WorkersAt({"taken"}))
        /\ activeGauge = Cardinality(WorkersAt({"running", "ran"}))
    BY <1>3 DEF LookupTypes, GaugesBalance
  <2>6. IsFiniteSet(Counting \cup {r}) /\ Cardinality(Counting \cup {r}) = Cardinality(Counting) + 1
    BY <2>4, <2>5, FS_AddElement
  <2>7. Cardinality(Counting) \in Nat
    BY <2>5, FS_CardinalityType
  <2>8. pendingGauge + Cardinality(Counting \cup {r}) = Cardinality(WorkersAt({"taken"})')
    BY <2>2, <2>5, <2>6, <2>7
  <2> QED BY <1>1, <2>3, <2>4, <2>5, <2>6, <2>8, Zenon DEF GaugesBalance
<1> QED BY <1>8, <1>9, <1>10, <1>11 DEF LookupInv

\* A worker starts its job, or is done with it, or leaves: the gauges follow.
LEMMA WorkerLookup ==
  ASSUME LookupInv, NEW w \in Workers, StartJob(w) \/ EndJob(w) \/ WorkerExit(w)
  PROVE  LookupInv'
<1>1. /\ LookupTypes /\ JobsAwaited /\ GaugesBalance
      /\ \A q \in Lookups : LookupProgress(q)
  BY DEF LookupInv
<1>2. worker \in [Workers -> WorkerStates] /\ pendingGauge \in Int /\ activeGauge \in Int
  BY <1>1 DEF LookupTypes
<1>3. PICK v \in WorkerStates :
        /\ worker' = [worker EXCEPT ![w] = v]
        /\ \/ /\ worker[w].at = "taken" /\ v.at = "running" /\ v.job = worker[w].job
              /\ pendingGauge' = pendingGauge - 1 /\ activeGauge' = activeGauge + 1
           \/ /\ worker[w].at = "ran" /\ v.at = "select"
              /\ pendingGauge' = pendingGauge /\ activeGauge' = activeGauge - 1
           \/ /\ worker[w].at = "select" /\ v.at = "exited"
              /\ pendingGauge' = pendingGauge /\ activeGauge' = activeGauge
  <2>1. worker[w] \in WorkerStates
    BY <1>2
  <2>2. CASE StartJob(w)
    <3>1. /\ worker[w].at = "taken" /\ worker' = [worker EXCEPT ![w].at = "running"]
          /\ pendingGauge' = pendingGauge - 1 /\ activeGauge' = activeGauge + 1
      BY <2>2 DEF StartJob
    <3>2. PICK r \in Lookups, c \in Cids : worker[w].job = Job(r, c)
      BY <2>1, <3>1, WorkerFacts DEF Busy
    <3>3. [worker[w] EXCEPT !.at = "running"] = At("running", Job(r, c))
      BY <2>1, <3>2 DEF WorkerStates, At
    <3>4. worker' = [worker EXCEPT ![w] = At("running", Job(r, c))]
      BY <1>2, <3>1, <3>3, Zenon
    <3>5. /\ At("running", Job(r, c)) \in WorkerStates /\ At("running", Job(r, c)).at = "running"
          /\ At("running", Job(r, c)).job = Job(r, c)
      BY NewStates, Zenon DEF Busy
    <3> QED BY <3>1, <3>2, <3>4, <3>5, Zenon
  <2>3. CASE EndJob(w)
    <3>1. Idle \in WorkerStates /\ Idle.at = "select"
      BY NewStates DEF Idle
    <3>2. /\ worker[w].at = "ran" /\ worker' = [worker EXCEPT ![w] = Idle]
          /\ pendingGauge' = pendingGauge /\ activeGauge' = activeGauge - 1
      BY <2>3 DEF EndJob
    <3> QED BY <3>1, <3>2, Zenon
  <2>4. CASE WorkerExit(w)
    <3>1. At("exited", NoJob) \in WorkerStates /\ At("exited", NoJob).at = "exited" /\ Idle.at = "select"
      BY NewStates DEF Idle
    <3>2. /\ worker[w] = Idle /\ worker' = [worker EXCEPT ![w] = At("exited", NoJob)]
          /\ pendingGauge' = pendingGauge /\ activeGauge' = activeGauge
      BY <2>4 DEF WorkerExit, gauges
    <3> QED BY <3>1, <3>2, Zenon
  <2> QED BY <2>2, <2>3, <2>4, Zenon
<1>4. UNCHANGED <<call, todo, inFlight, res, err>>
  BY DEF StartJob, EndJob, WorkerExit
<1>5. worker'[w] = v /\ \A x \in Workers \ {w} : worker'[x] = worker[x]
  BY <1>2, <1>3
<1>6. LookupTypes'
  <2>1. worker' \in [Workers -> WorkerStates]
    BY <1>2, <1>3
  <2>2. pendingGauge' \in Int /\ activeGauge' \in Int
    BY <1>2, <1>3
  <2> QED BY <1>1, <1>4, <2>1, <2>2 DEF LookupTypes
<1>7. JobsAwaited'
  <2>1. v.at \in Busy => v.job = worker[w].job /\ worker[w].at \in Busy
    BY <1>3 DEF Busy
  <2>2. \A x \in Workers, q \in Lookups, d \in Cids : HasJob(x, q, d)' => HasJob(x, q, d)
    BY <1>5, <2>1, Zenon DEF HasJob
  <2> QED BY <1>1, <1>4, <2>2, Zenon DEF JobsAwaited
<1>8. \A q \in Lookups : LookupProgress(q)'
  BY <1>1, <1>4, ProgressKept, Zenon
<1>9. GaugesBalance'
  <2>1. /\ Cardinality(WorkersAt({"taken"})) \in Nat
        /\ Cardinality(WorkersAt({"taken"})') =
             Cardinality(WorkersAt({"taken"})) + In(v, {"taken"}) - In(worker[w], {"taken"})
        /\ In(v, {"taken"}) \in Int /\ In(worker[w], {"taken"}) \in Int
    BY <1>2, <1>3, WorkerMoves, Zenon
  <2>2. /\ Cardinality(WorkersAt({"running", "ran"})) \in Nat
        /\ Cardinality(WorkersAt({"running", "ran"})') =
             Cardinality(WorkersAt({"running", "ran"})) + In(v, {"running", "ran"}) - In(worker[w], {"running", "ran"})
        /\ In(v, {"running", "ran"}) \in Int /\ In(worker[w], {"running", "ran"}) \in Int
    BY <1>2, <1>3, WorkerMoves, Zenon
  <2>3. Counting' = Counting
    BY <1>4 DEF Counting
  <2>4. /\ IsFiniteSet(Counting)
        /\ pendingGauge + Cardinality(Counting) = Cardinality(WorkersAt({"taken"}))
        /\ activeGauge = Cardinality(WorkersAt({"running", "ran"}))
    BY <1>1 DEF GaugesBalance
  <2>5. Cardinality(Counting) \in Nat
    BY <2>4, FS_CardinalityType
  <2>6. pendingGauge' + Cardinality(Counting) = Cardinality(WorkersAt({"taken"})')
    <3>1. pendingGauge' = pendingGauge + In(v, {"taken"}) - In(worker[w], {"taken"})
      BY <1>2, <1>3 DEF In
    <3>2. PICK a \in Int, b \in Int : a = In(v, {"taken"}) /\ b = In(worker[w], {"taken"})
      BY <2>1, Zenon
    <3>3. PICK k \in Int, n \in Int : k = Cardinality(Counting) /\ n = Cardinality(WorkersAt({"taken"}))
      BY <2>1, <2>5
    <3>4. pendingGauge + k = n
      BY <2>4, <3>3, Zenon
    <3>5. (pendingGauge + a - b) + k = n + a - b
      BY <1>2, <3>4
    <3> QED BY <2>1, <3>1, <3>2, <3>3, <3>5, Zenon
  <2>7. activeGauge' = Cardinality(WorkersAt({"running", "ran"})')
    <3>1. activeGauge' = activeGauge + In(v, {"running", "ran"}) - In(worker[w], {"running", "ran"})
      BY <1>2, <1>3 DEF In
    <3> QED BY <1>2, <2>2, <2>4, <3>1, Zenon
  <2> QED BY <2>3, <2>4, <2>6, <2>7 DEF GaugesBalance
<1> QED BY <1>6, <1>7, <1>8, <1>9 DEF LookupInv

\* A job that runs moves its key from what is under way to what is found; no
\* other worker has the same job.
LEMMA RunLookup == ASSUME LookupInv, NEW w \in Workers, RunJob(w) PROVE LookupInv'
<1> DEFINE v == At("ran", NoJob)
<1>1. /\ LookupTypes /\ JobsAwaited /\ GaugesBalance
      /\ \A q \in Lookups : LookupProgress(q)
  BY DEF LookupInv
<1>2. /\ worker \in [Workers -> WorkerStates] /\ worker[w] \in WorkerStates
      /\ inFlight \in [Lookups -> SUBSET Cids] /\ res \in [Lookups -> SUBSET Cids]
  BY <1>1 DEF LookupTypes
<1>3. worker[w].at = "running" /\ worker[w].at \in Busy
  BY Zenon DEF RunJob, Busy
<1>4. PICK r \in Lookups, c \in Cids : worker[w].job = Job(r, c)
  <2>1. worker[w] \in WorkerStates
    BY <1>2
  <2> QED BY <1>3, <2>1, WorkerFacts, Zenon
<1>5. /\ res' = [res EXCEPT ![r] = @ \cup ({c} \cap Stored)]
      /\ inFlight' = [inFlight EXCEPT ![r] = @ \ {c}]
      /\ worker' = [worker EXCEPT ![w] = v]
      /\ UNCHANGED <<call, todo, err, pendingGauge, activeGauge>>
  <2>1. Job(r, c).by = r /\ Job(r, c).key = c
    BY DEF Job
  <2>2. worker[w].job.by = r /\ worker[w].job.key = c
    BY <1>4, <2>1, Zenon
  <2> QED BY <2>2, Zenon DEF RunJob, gauges
<1>6. v \in WorkerStates /\ v.at = "ran" /\ v.at \notin Busy
  BY NewStates
<1> HIDE DEF v
<1>7. worker'[w] = v /\ \A x \in Workers \ {w} : worker'[x] = worker[x]
  BY <1>2, <1>5
<1>8. /\ inFlight'[r] = inFlight[r] \ {c} /\ res'[r] = res[r] \cup ({c} \cap Stored)
      /\ \A q \in Lookups \ {r} : inFlight'[q] = inFlight[q] /\ res'[q] = res[q]
  BY <1>2, <1>5, Zenon
<1>9. HasJob(w, r, c)
  BY <1>3, <1>4, Zenon DEF HasJob
<1>10. LookupTypes'
  <2>1. worker' \in [Workers -> WorkerStates]
    BY <1>2, <1>5, <1>6
  <2>2. inFlight' \in [Lookups -> SUBSET Cids] /\ res' \in [Lookups -> SUBSET Cids]
    BY <1>2, <1>5
  <2> QED BY <1>1, <1>5, <2>1, <2>2, Zenon DEF LookupTypes
<1>11. JobsAwaited'
  <2>1. \A x \in Workers, q \in Lookups, d \in Cids : HasJob(x, q, d)' => HasJob(x, q, d) /\ x # w
    BY <1>6, <1>7, Zenon DEF HasJob
  <2>2. ASSUME NEW x \in Workers, NEW q \in Lookups, NEW d \in Cids, HasJob(x, q, d)' PROVE d \in inFlight'[q]
    <3>1. HasJob(x, q, d) /\ x # w
      BY <2>1, <2>2
    <3>2. d \in inFlight[q] /\ ~(q = r /\ d = c)
      BY <1>1, <1>9, <3>1, Zenon DEF JobsAwaited
    <3> QED BY <1>8, <3>2, Zenon
  <2>3. \A x, y \in Workers, q \in Lookups, d \in Cids : HasJob(x, q, d)' /\ HasJob(y, q, d)' => x = y
    BY <1>1, <2>1, Zenon DEF JobsAwaited
  <2> QED BY <2>2, <2>3, Zenon DEF JobsAwaited
<1>12. ASSUME NEW q \in Lookups PROVE LookupProgress(q)'
  <2>1. CASE q # r
    BY <1>1, <1>5, <1>8, <2>1, ProgressKept, Zenon
  <2>2. CASE q = r
    <3>1. Progress(AskedFor[r], todo[r], inFlight[r], res[r], err[r], call[r]) /\ c \in inFlight[r]
      BY <1>1, <1>9, Zenon DEF LookupProgress, JobsAwaited
    <3>2. Progress(AskedFor[r], todo[r], inFlight[r] \ {c}, res[r] \cup ({c} \cap Stored), err[r], call[r])
      BY <3>1, ProgressOfJob, Zenon
    <3> QED BY <1>5, <1>8, <2>2, <3>2, Zenon DEF LookupProgress
  <2> QED BY <2>1, <2>2
<1>13. GaugesBalance'
  <2>1. WorkersAt({"taken"})' = WorkersAt({"taken"}) /\ WorkersAt({"running", "ran"})' = WorkersAt({"running", "ran"})
    BY <1>3, <1>6, <1>7, Zenon DEF WorkersAt
  <2>2. Counting' = Counting
    BY <1>5, Zenon DEF Counting
  <2> QED BY <1>1, <1>5, <2>1, <2>2, Zenon DEF GaugesBalance
<1> QED BY <1>10, <1>11, <1>12, <1>13 DEF LookupInv

\* Every step of the server keeps the lookups' invariant.
LEMMA NextLookup == ASSUME LookupInv, [Next]_svars PROVE LookupInv'
<1>1. CASE UNCHANGED <<worker, call, todo, inFlight, res, err, pendingGauge, activeGauge>>
  <2>1. /\ LookupTypes /\ JobsAwaited /\ GaugesBalance
        /\ \A q \in Lookups : LookupProgress(q)
    BY DEF LookupInv
  <2>2. LookupTypes' /\ JobsAwaited'
    <3>1. LookupTypes'
      BY <1>1, <2>1, Zenon DEF LookupTypes
    <3>2. \A x \in Workers, q \in Lookups, d \in Cids : HasJob(x, q, d)' <=> HasJob(x, q, d)
      BY <1>1, Zenon DEF HasJob
    <3>3. JobsAwaited'
      BY <1>1, <2>1, <3>2, Zenon DEF JobsAwaited
    <3> QED BY <3>1, <3>3
  <2>3. \A q \in Lookups : LookupProgress(q)'
    BY <1>1, <2>1, ProgressKept, Zenon
  <2>4. GaugesBalance'
    BY <1>1, <2>1, Zenon DEF GaugesBalance, Counting, WorkersAt
  <2> QED BY <2>2, <2>3, <2>4 DEF LookupInv
<1>2. CASE UNCHANGED lookups
  BY <1>1, <1>2 DEF lookups, gauges
<1>3. CASE LookUp
  <2>1. CASE StopManager
    BY <1>1, <2>1 DEF StopManager, gauges
  <2> QED BY <1>3, <2>1, CallsLookup, CountLookup, AddJobLookup, WorkerLookup, RunLookup DEF LookUp, Caller, Worker
<1>4. CASE Inputs
  BY <1>2, <1>4, CallsLookup DEF Inputs
<1>5. CASE Provide \/ CloseSteps \/ Score \/ Owner \/ UNCHANGED svars
  <2>1. UNCHANGED lookups
    BY <1>5 DEF Provide, CloseSteps, Score, Owner, svars
  <2> QED BY <1>2, <2>1
<1> QED BY <1>3, <1>4, <1>5 DEF Next, Work

\* A lookup that returned has what it was asked for, unless addJob failed, and
\* in either case no worker writes to its result any more; the two gauges are
\* back where they were, although a job may end before it was counted.
THEOREM LookupsSettle == Spec => []LookupsSettled
<1>1. ASSUME LookupInv PROVE LookupsSettled
  <2>1. /\ LookupTypes /\ JobsAwaited /\ GaugesBalance
        /\ \A q \in Lookups : LookupProgress(q)
    BY <1>1 DEF LookupInv
  <2>2. \A w \in Workers : worker[w] \in WorkerStates
    BY <2>1 DEF LookupTypes
  <2>3. ASSUME NEW r \in Lookups, call[r] = "returned"
        PROVE  (~err[r] => res[r] = AskedFor[r] \cap Stored) /\ \A w \in Workers : worker[w].job.by # r
    <3>1. todo[r] = {} /\ inFlight[r] = {} /\ res[r] \subseteq AskedFor[r] \cap Stored
      BY <2>1, <2>3, Zenon DEF LookupProgress, Progress
    <3>2. err[r] = FALSE => AskedFor[r] \cap Stored \subseteq todo[r] \cup inFlight[r] \cup res[r]
      BY <2>1, <2>3, Zenon DEF LookupProgress, Progress
    <3>3. ~err[r] => err[r] = FALSE
      BY <2>1 DEF LookupTypes
    <3>4. ASSUME NEW w \in Workers PROVE worker[w].job.by # r
      <4>1. CASE worker[w].at \in Busy
        <5>1. PICK q \in Lookups, c \in Cids : worker[w].job = Job(q, c) /\ worker[w].job.by = q
          BY <2>2, <4>1, WorkerFacts, Zenon
        <5>2. c \in inFlight[q]
          BY <2>1, <4>1, <5>1, Zenon DEF JobsAwaited, HasJob
        <5> QED BY <3>1, <5>1, <5>2, Zenon
      <4>2. CASE worker[w].at \notin Busy
        BY <2>2, <4>2, WorkerFacts, LookupsAssumption, Zenon
      <4> QED BY <4>1, <4>2
    <3> QED BY <3>1, <3>2, <3>3, <3>4, Zenon
  <2>4. ASSUME ~LookingUp, \A w \in Workers : worker[w].job = NoJob
        PROVE  pendingGauge = 0 /\ activeGauge = Cardinality({w \in Workers : worker[w].at = "ran"})
    <3>1. \A w \in Workers : worker[w].at \notin Busy
      BY <2>2, <2>4, WorkerFacts, Zenon
    <3>2. Counting = {} /\ WorkersAt({"taken"}) = {}
      BY <2>4, <3>1 DEF LookingUp, Counting, WorkersAt, Busy
    <3>3. WorkersAt({"running", "ran"}) = {w \in Workers : worker[w].at = "ran"}
      BY <3>1 DEF WorkersAt, Busy
    <3>4. pendingGauge + 0 = 0 /\ pendingGauge \in Int
      BY <2>1, <3>2, FS_EmptySet DEF LookupTypes, GaugesBalance
    <3>5. activeGauge = Cardinality(WorkersAt({"running", "ran"}))
      BY <2>1 DEF GaugesBalance
    <3>6. pendingGauge = 0
      BY <3>4
    <3> QED BY <3>3, <3>5, <3>6, Zenon
  <2> QED BY <2>3, <2>4, Zenon DEF LookupsSettled
<1> QED BY <1>1, InitLookup, NextLookup, PTL DEF Spec
=============================================================================
