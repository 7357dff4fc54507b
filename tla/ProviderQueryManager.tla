------------------------ MODULE ProviderQueryManager ------------------------
(***************************************************************************)
(* client/internal/providerquerymanager: shares one search for the         *)
(* providers of a key among the sessions that ask for it.  A run loop      *)
(* handles messages from a bounded channel; workers run the searches and   *)
(* report to it; every caller has a goroutine that collects its providers. *)
(*                                                                         *)
(* A client is one call of FindProvidersAsync, and a query is named after  *)
(* the client whose message started it.                                    *)
(***************************************************************************)
EXTENDS Naturals, Sequences, FiniteSets

CONSTANTS
  Cids, Clients, Providers, Workers,
  Key,       \* the key each client asks for
  None,
  MaxQueue   \* capacity of providerQueryMessages

ASSUME KeyAssumption == Key \in [Clients -> Cids]
ASSUME NoneAssumption == None \notin Clients
ASSUME QueueAssumption == MaxQueue \in Nat \ {0}

VARIABLES
  query,           \* per key: the query of its inProgressRequestStatus, or None
  listeners,       \* per key: clients whose channel is in the status
  providersSoFar,  \* per key
  messages,        \* providerQueryMessages
  buffer,          \* providerRequestBufferWorker's queries
  worker,          \* per worker: the query it runs, or None
  found,           \* per worker: providers the search has returned
  connecting,      \* per worker: those being connected to or reported
  client,          \* per client: where its call is
  got,             \* per client: providers received
  running,         \* the run loop has not returned
  stopped          \* pqm.ctx is done

statuses == <<query, listeners, providersSoFar>>
searches == <<worker, found, connecting>>
clients == <<client, got>>
vars == <<statuses, messages, buffer, searches, clients, running, stopped>>

Message == [kind : {"new", "cancel", "finished"}, from : Clients]
             \cup [kind : {"provider"}, from : Clients, peer : Providers]

Init ==
  /\ query = [k \in Cids |-> None]
  /\ listeners = [k \in Cids |-> {}]
  /\ providersSoFar = [k \in Cids |-> {}]
  /\ messages = <<>> /\ buffer = <<>>
  /\ worker = [w \in Workers |-> None]
  /\ found = [w \in Workers |-> {}]
  /\ connecting = [w \in Workers |-> {}]
  /\ client = [c \in Clients |-> "idle"]
  /\ got = [c \in Clients |-> {}]
  /\ running = TRUE /\ stopped = FALSE

Send(m) == Len(messages) < MaxQueue /\ messages' = Append(messages, m)

----------------------------------------------------------------------------
(* FindProvidersAsync and its goroutine *)

FindProvidersAsync(c) ==
  /\ client[c] = "idle"
  /\ Send([kind |-> "new", from |-> c])
  /\ client' = [client EXCEPT ![c] = "queued"]
  /\ UNCHANGED <<statuses, buffer, searches, got, running, stopped>>

\* The session ends before the message is queued.
FindProvidersCancelled(c) ==
  /\ client[c] = "idle"
  /\ client' = [client EXCEPT ![c] = "closed"]
  /\ UNCHANGED <<statuses, messages, buffer, searches, got, running, stopped>>

SessionDone(c) ==
  /\ client[c] = "receiving"
  /\ client' = [client EXCEPT ![c] = "cancelling"]
  /\ UNCHANGED <<statuses, messages, buffer, searches, got, running, stopped>>

\* cancelProviderRequest: from here on providers are read and thrown away
\* until the channel is closed.
cancelProviderRequest(c) ==
  /\ client[c] = "cancelling"
  /\ Send([kind |-> "cancel", from |-> c])
  /\ client' = [client EXCEPT ![c] = "draining"]
  /\ UNCHANGED <<statuses, buffer, searches, got, running, stopped>>

ClientStops_Receiving(c) ==
  /\ stopped /\ client[c] = "receiving"
  /\ client' = [client EXCEPT ![c] = "closed"]
  /\ UNCHANGED <<statuses, messages, buffer, searches, got, running, stopped>>

ClientStops(c) ==
  /\ stopped /\ client[c] # "closed"
  /\ client' = [client EXCEPT ![c] = "closed"]
  /\ UNCHANGED <<statuses, messages, buffer, searches, got, running, stopped>>

----------------------------------------------------------------------------
(* The run loop *)

Closed(cs) == [c \in Clients |-> IF c \in cs THEN "closed" ELSE client[c]]

JoinEmpty(c, providers) == [got EXCEPT ![c] = {}]

\* The providers found before the client joined.
Join(c, providers) == [got EXCEPT ![c] = providers]

newProvideQuery(c) ==
  LET k == Key[c]
  IN  /\ IF query[k] = None
           THEN /\ query' = [query EXCEPT ![k] = c]
                /\ providersSoFar' = [providersSoFar EXCEPT ![k] = {}]
                /\ listeners' = [listeners EXCEPT ![k] = {c}]
                /\ buffer' = Append(buffer, c)
           ELSE /\ listeners' = [listeners EXCEPT ![k] = @ \cup {c}]
                /\ UNCHANGED <<query, providersSoFar, buffer>>
      /\ client' = [client EXCEPT ![c] = "receiving"]
      /\ got' = Join(c, providersSoFar'[k])

\* Every listener reads: those that are cancelling throw the provider away.
receivedProvider(q, p) ==
  LET k == Key[q]
  IN  /\ IF query[k] = None
           THEN UNCHANGED <<providersSoFar, got>>
           ELSE /\ providersSoFar' = [providersSoFar EXCEPT ![k] = @ \cup {p}]
                /\ got' = [c \in Clients |->
                     IF c \in listeners[k] /\ client[c] = "receiving" THEN got[c] \cup {p} ELSE got[c]]
      /\ UNCHANGED <<query, listeners, buffer, client>>

\* The status may belong to a later query for the same key.
finishedProviderQuery(q) ==
  LET k == Key[q]
  IN  /\ client' = Closed(listeners[k])
      /\ query' = [query EXCEPT ![k] = None]
      /\ listeners' = [listeners EXCEPT ![k] = {}]
      /\ providersSoFar' = [providersSoFar EXCEPT ![k] = {}]
      /\ UNCHANGED <<buffer, got>>

\* Nobody listens any more.
Abandoned(left) == left = {}

Remaining_Keep(c) == listeners[Key[c]]
Remaining(c) == listeners[Key[c]] \ {c}

cancelRequest(c) ==
  LET k == Key[c]
  IN  /\ IF c \notin listeners[k]
           THEN UNCHANGED <<query, listeners, providersSoFar, client>>
           ELSE /\ client' = Closed({c})
                /\ IF Abandoned(Remaining(c))
                     THEN /\ query' = [query EXCEPT ![k] = None]
                          /\ listeners' = [listeners EXCEPT ![k] = {}]
                          /\ providersSoFar' = [providersSoFar EXCEPT ![k] = {}]
                     ELSE /\ listeners' = [listeners EXCEPT ![k] = Remaining(c)]
                          /\ UNCHANGED <<query, providersSoFar>>
      /\ UNCHANGED <<buffer, got>>

Handle ==
  /\ running /\ messages # <<>>
  /\ messages' = Tail(messages)
  /\ LET m == Head(messages)
     IN  \/ m.kind = "new" /\ newProvideQuery(m.from)
         \/ m.kind = "provider" /\ receivedProvider(m.from, m.peer)
         \/ m.kind = "finished" /\ finishedProviderQuery(m.from)
         \/ m.kind = "cancel" /\ cancelRequest(m.from)
  /\ UNCHANGED <<searches, running, stopped>>

\* run returns: cleanupInProcessRequests.
RunExit ==
  /\ running /\ stopped
  /\ running' = FALSE
  /\ client' = Closed(UNION {listeners[k] : k \in Cids})
  /\ UNCHANGED <<statuses, messages, buffer, searches, got, stopped>>

Stop ==
  /\ ~stopped
  /\ stopped' = TRUE
  /\ UNCHANGED <<statuses, messages, buffer, searches, clients, running>>

----------------------------------------------------------------------------
(* Workers *)

TakeQuery(w) ==
  /\ worker[w] = None /\ buffer # <<>>
  /\ worker' = [worker EXCEPT ![w] = Head(buffer)]
  /\ buffer' = Tail(buffer)
  /\ UNCHANGED <<statuses, messages, found, connecting, clients, running, stopped>>

\* The search returns a provider, which is connected to.
Found(w, p) ==
  /\ worker[w] # None /\ p \notin found[w]
  /\ found' = [found EXCEPT ![w] = @ \cup {p}]
  /\ connecting' = [connecting EXCEPT ![w] = @ \cup {p}]
  /\ UNCHANGED <<statuses, messages, buffer, worker, clients, running, stopped>>

Connects(w, p) ==
  /\ p \in connecting[w]
  /\ Send([kind |-> "provider", from |-> worker[w], peer |-> p])
  /\ connecting' = [connecting EXCEPT ![w] = @ \ {p}]
  /\ UNCHANGED <<statuses, buffer, worker, found, clients, running, stopped>>

ConnectFails(w, p) ==
  /\ p \in connecting[w]
  /\ connecting' = [connecting EXCEPT ![w] = @ \ {p}]
  /\ UNCHANGED <<statuses, messages, buffer, worker, found, clients, running, stopped>>

\* The search ends or times out, and all connection attempts have ended.
Finish(w) ==
  /\ worker[w] # None /\ connecting[w] = {}
  /\ Send([kind |-> "finished", from |-> worker[w]])
  /\ worker' = [worker EXCEPT ![w] = None]
  /\ found' = [found EXCEPT ![w] = {}]
  /\ UNCHANGED <<statuses, buffer, connecting, clients, running, stopped>>

----------------------------------------------------------------------------
Client(c) == cancelProviderRequest(c) \/ ClientStops(c)

Worker(w) ==
  \/ TakeQuery(w) \/ Finish(w)
  \/ \E p \in Providers : Connects(w, p) \/ ConnectFails(w, p)

Next ==
  \/ \E c \in Clients : FindProvidersAsync(c) \/ FindProvidersCancelled(c) \/ SessionDone(c) \/ Client(c)
  \/ \E w \in Workers : Worker(w) \/ \E p \in Providers : Found(w, p)
  \/ Handle \/ RunExit \/ Stop

\* Goroutines run; searches end because they have a timeout.
Fairness ==
  /\ WF_vars(Handle \/ RunExit)
  /\ \A c \in Clients : WF_vars(Client(c))
  /\ \A w \in Workers : WF_vars(Worker(w))

Spec == Init /\ [][Next]_vars /\ Fairness

----------------------------------------------------------------------------
(* Properties *)

Listening == {"receiving", "cancelling", "draining"}

\* A caller that came late has every provider found before, and misses none
\* found since.
ListenersCatchUp ==
  \A k \in Cids : \A c \in listeners[k] :
    client[c] = "receiving" => got[c] = providersSoFar[k]

\* Queries whose search, or whose last message, is still to come.
Outstanding ==
  {buffer[i] : i \in DOMAIN buffer} \cup {worker[w] : w \in Workers}
    \cup {messages[i].from : i \in {j \in DOMAIN messages : messages[j].kind = "finished"}}

\* No caller waits for nobody.  One that waits for its channel to be closed is
\* a listener of its key's status, and a status has a search under way that will
\* end it; a key without a status has neither listeners nor providers.  And no
\* closed channel is still listed, so that none is closed twice, which would
\* panic.
ListenersHaveQuery ==
  /\ ~stopped => \A c \in Clients, k \in Cids :
       c \in listeners[k] <=> Key[c] = k /\ client[c] \in Listening
  /\ \A k \in Cids : IF query[k] = None THEN listeners[k] = {} /\ providersSoFar[k] = {}
                                       ELSE query[k] \in Outstanding

\* Every call ends, whatever other callers of the key do.
CallsEnd == \A c \in Clients : client[c] = "queued" ~> client[c] = "closed"
=============================================================================
