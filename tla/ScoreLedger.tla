---------------------------- MODULE ScoreLedger ----------------------------
(***************************************************************************)
(* server/internal/decision/scoreledger.go: one record per peer of what    *)
(* was exchanged with it, and a worker that samples the records and tags   *)
(* the peers in the connection manager.  Records are removed by a          *)
(* disconnect while an exchange still holds them and while the worker has  *)
(* updates it took from them.                                              *)
(*                                                                         *)
(* The two moving averages and the debt ratio, floating-point numbers, are *)
(* left open: a record that saw an exchange may get any score.             *)
(***************************************************************************)
EXTENDS Process, Naturals

CONSTANTS Partners,   \* peer IDs
          Exchanges,  \* calls of AddToSentBytes and AddToReceivedBytes
          MaxScore

ASSUME ScoreAssumption == MaxScore \in Nat

VARIABLES
  connected,   \* PeerConnected was the engine's last event for the peer (environment)
  ledgerMap,   \* peers with a record
  exchanged,   \* exchanged[p]: the record of p counted an exchange
  score,       \* score[p]: the record's score; 0 without a record
  exchange,    \* where each exchange is, and the peer whose record it found
  sampler,     \* where scoreWorker is
  updates,     \* the scores it has yet to report
  tag,         \* the connection manager's tag for the peer; 0 for none
  ledgerStop   \* dsl.closing is closed

records == <<ledgerMap, exchanged, score>>
ledgers == <<connected, records, exchange, sampler, updates, tag, ledgerStop>>

Scores == 0..MaxScore
\* The exchange holds a record that is in the map, or one that was removed.
Holding(p) == [at |-> "found", peer |-> p]
Orphan(p) == [at |-> "orphan", peer |-> p]
NotStarted == [at |-> "none"]
Ended == [at |-> "done"]

LedgerInit ==
  /\ connected = {}
  /\ ledgerMap = {}
  /\ exchanged = [p \in Partners |-> FALSE]
  /\ score = [p \in Partners |-> 0]
  /\ exchange = [x \in Exchanges |-> NotStarted]
  /\ sampler = "tick"
  /\ updates = {}
  /\ tag = [p \in Partners |-> 0]
  /\ ledgerStop = FALSE

----------------------------------------------------------------------------

\* A peer that has a record keeps it.
LedgerConnected(p) ==
  /\ p \notin connected
  /\ connected' = connected \cup {p}
  /\ ledgerMap' = ledgerMap \cup {p}
  /\ UNCHANGED <<process, exchanged, score, exchange, sampler, updates, tag, ledgerStop>>

LedgerDisconnected(p) ==
  /\ p \in connected
  /\ connected' = connected \ {p}
  /\ ledgerMap' = ledgerMap \ {p}
  /\ exchanged' = [exchanged EXCEPT ![p] = FALSE]
  /\ score' = [score EXCEPT ![p] = 0]
  /\ exchange' = [x \in Exchanges |-> IF exchange[x] = Holding(p) THEN Orphan(p) ELSE exchange[x]]
  /\ UNCHANGED <<process, sampler, updates, tag, ledgerStop>>

\* AddToSentBytes and AddToReceivedBytes first find the record, or create it,
\* also for a peer that has disconnected.
findOrCreate(x, p) ==
  /\ exchange[x] = NotStarted
  /\ ledgerMap' = ledgerMap \cup {p}
  /\ exchange' = [exchange EXCEPT ![x] = Holding(p)]
  /\ UNCHANGED <<process, connected, exchanged, score, sampler, updates, tag, ledgerStop>>

\* Then they count in the record, which nobody may look at any more.
AddBytes(x) ==
  /\ exchange[x].at \in {"found", "orphan"}
  /\ LET p == exchange[x].peer IN
       exchanged' = IF exchange[x] = Holding(p) THEN [exchanged EXCEPT ![p] = TRUE] ELSE exchanged
  /\ exchange' = [exchange EXCEPT ![x] = Ended]
  /\ UNCHANGED <<process, connected, ledgerMap, score, sampler, updates, tag, ledgerStop>>

----------------------------------------------------------------------------
(* scoreWorker *)

\* The scores the averages may give: a record without exchanges has none.
NewScores ==
  {s \in [Partners -> Scores] : \A p \in Partners : p \notin ledgerMap \/ ~exchanged[p] => s[p] = 0}

Changed_Raised(s) == {p \in ledgerMap : s[p] > score[p]}

\* Only changes are reported to the connection manager.
Changed(s) == {p \in ledgerMap : s[p] # score[p]}

Sample ==
  /\ sampler = "tick"
  /\ \E s \in NewScores :
       /\ updates' = {[peer |-> p, score |-> s[p]] : p \in Changed(s)}
       /\ score' = s
  /\ sampler' = "apply"
  /\ UNCHANGED <<process, connected, ledgerMap, exchanged, exchange, tag, ledgerStop>>

\* scorePeer, called without the lock: TagPeer, or UntagPeer for a score of 0.
ApplyUpdate(u) ==
  /\ sampler = "apply" /\ u \in updates
  /\ tag' = [tag EXCEPT ![u.peer] = u.score]
  /\ updates' = updates \ {u}
  /\ UNCHANGED <<process, connected, records, exchange, sampler, ledgerStop>>

SampleEnds ==
  /\ sampler = "apply" /\ updates = {}
  /\ sampler' = "tick"
  /\ UNCHANGED <<process, connected, records, exchange, updates, tag, ledgerStop>>

SamplerExits ==
  /\ sampler = "tick" /\ ledgerStop
  /\ sampler' = "done"
  /\ UNCHANGED <<process, connected, records, exchange, updates, tag, ledgerStop>>

\* The child of the process that stops the worker; it does not wait for it.
StopLedger ==
  /\ closing /\ ~ledgerStop
  /\ ledgerStop' = TRUE
  /\ UNCHANGED <<process, connected, records, exchange, sampler, updates, tag>>

----------------------------------------------------------------------------
(* Properties *)

\* "Score keeps track of the score used in the peer tagger": between samples a
\* peer with a score is tagged with it, whatever connects and disconnects
\* happened while earlier updates were applied without the lock.  (For a score
\* of 0 it need not hold: a peer that reconnects keeps the tag of its old
\* record, because the new record starts at 0 and 0 is no change.)
ScoresTagged ==
  sampler # "apply" => \A p \in ledgerMap : score[p] # 0 => tag[p] = score[p]
=============================================================================
