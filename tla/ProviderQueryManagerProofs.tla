--------------------- MODULE ProviderQueryManagerProofs ---------------------
(***************************************************************************)
(* The safety properties of ProviderQueryManager for any number of keys,   *)
(* callers and workers and any capacity of the message channel.            *)
(***************************************************************************)
EXTENDS ProviderQueryManager, TLAPS

States == {"idle", "queued", "receiving", "cancelling", "draining", "closed"}

Types ==
  /\ query \in [Cids -> Clients \cup {None}]
  /\ listeners \in [Cids -> SUBSET Clients]
  /\ providersSoFar \in [Cids -> SUBSET Providers]
  /\ messages \in Seq(Message) /\ buffer \in Seq(Clients)
  /\ worker \in [Workers -> Clients \cup {None}]
  /\ connecting \in [Workers -> SUBSET Providers]
  /\ \A w \in Workers : worker[w] = None => connecting[w] = {}
  /\ client \in [Clients -> States] /\ got \in [Clients -> SUBSET Providers]

\* A query, and a listener, is filed under its own key, also after the end:
\* ListenersHaveQuery says so of listeners only while the manager runs.
FiledByKey ==
  \A k \in Cids : /\ query[k] # None => Key[query[k]] = k
                  /\ \A c \in listeners[k] : Key[c] = k

IInv == Types /\ FiledByKey /\ ListenersHaveQuery /\ ListenersCatchUp

-----------------------------------------------------------------------------
\* What is in a sequence.
In(x, s) == \E i \in DOMAIN s : s[i] = x

\* A sequence that gets one more element.
LEMMA InAppend ==
  ASSUME NEW S, NEW s \in Seq(S), NEW e \in S
  PROVE  Append(s, e) \in Seq(S) /\ \A x : In(x, Append(s, e)) <=> In(x, s) \/ x = e
<1>1. /\ Append(s, e) \in Seq(S) /\ Len(s) \in Nat
      /\ DOMAIN s = 1..Len(s) /\ DOMAIN Append(s, e) = 1..(Len(s) + 1)
      /\ Append(s, e)[Len(s) + 1] = e /\ \A i \in 1..Len(s) : Append(s, e)[i] = s[i]
  OBVIOUS
<1>2. ASSUME NEW x, In(x, Append(s, e)) PROVE In(x, s) \/ x = e
  <2>1. PICK i \in 1..(Len(s) + 1) : Append(s, e)[i] = x
    BY <1>1, <1>2 DEF In
  <2>2. i \in 1..Len(s) \/ i = Len(s) + 1
    BY <1>1
  <2> QED BY <1>1, <2>1, <2>2 DEF In
<1>3. ASSUME NEW x, In(x, s) \/ x = e PROVE In(x, Append(s, e))
  <2>1. CASE In(x, s)
    <3>1. PICK i \in 1..Len(s) : s[i] = x
      BY <1>1, <2>1 DEF In
    <3>2. i \in 1..(Len(s) + 1)
      BY <1>1
    <3> QED BY <1>1, <3>1, <3>2 DEF In
  <2>2. CASE x = e
    <3>1. Len(s) + 1 \in 1..(Len(s) + 1)
      BY <1>1
    <3> QED BY <1>1, <2>2, <3>1 DEF In
  <2> QED BY <1>3, <2>1, <2>2
<1> QED BY <1>1, <1>2, <1>3

\* A sequence that loses its head.
LEMMA InTail ==
  ASSUME NEW S, NEW s \in Seq(S), s # <<>>
  PROVE  Head(s) \in S /\ Tail(s) \in Seq(S) /\ \A x : In(x, s) => In(x, Tail(s)) \/ x = Head(s)
<1>1. /\ Head(s) \in S /\ Tail(s) \in Seq(S) /\ Len(s) \in Nat /\ Len(s) # 0
      /\ DOMAIN s = 1..Len(s) /\ DOMAIN Tail(s) = 1..(Len(s) - 1)
      /\ Head(s) = s[1] /\ \A i \in 1..(Len(s) - 1) : Tail(s)[i] = s[i + 1]
  OBVIOUS
<1>2. ASSUME NEW x, In(x, s) PROVE In(x, Tail(s)) \/ x = Head(s)
  <2>1. PICK i \in 1..Len(s) : s[i] = x
    BY <1>1, <1>2 DEF In
  <2>2. i = 1 \/ (i - 1 \in 1..(Len(s) - 1) /\ (i - 1) + 1 = i)
    BY <1>1
  <2> QED BY <1>1, <2>1, <2>2, Zenon DEF In
<1> QED BY <1>1, <1>2

\* A query waits for a worker, is with one, or has its last message queued.
AmongOutstanding(q, b, run, ms) ==
  \/ In(q, b)
  \/ \E w \in Workers : run[w] = q
  \/ \E m \in Message : m.kind = "finished" /\ m.from = q /\ In(m, ms)

\* That is what it is to be outstanding.
LEMMA AmongUnion ==
  ASSUME NEW b, NEW run, NEW ms, NEW q, \A i \in DOMAIN ms : ms[i] \in Message
  PROVE  q \in {b[i] : i \in DOMAIN b} \cup {run[w] : w \in Workers}
                 \cup {ms[i].from : i \in {j \in DOMAIN ms : ms[j].kind = "finished"}}
           <=> AmongOutstanding(q, b, run, ms)
<1>1. q \in {b[i] : i \in DOMAIN b} <=> In(q, b)
  BY Zenon DEF In
<1>2. q \in {run[w] : w \in Workers} <=> \E w \in Workers : run[w] = q
  BY Zenon
<1>3. q \in {ms[i].from : i \in {j \in DOMAIN ms : ms[j].kind = "finished"}}
        <=> \E m \in Message : m.kind = "finished" /\ m.from = q /\ In(m, ms)
  BY Zenon DEF In
<1> QED BY <1>1, <1>2, <1>3, Zenon DEF AmongOutstanding

\* Now and after a step.
LEMMA OutstandingIn ==
  ASSUME NEW q
  PROVE  /\ messages \in Seq(Message) => (q \in Outstanding <=> AmongOutstanding(q, buffer, worker, messages))
         /\ messages' \in Seq(Message) => (q \in Outstanding' <=> AmongOutstanding(q, buffer', worker', messages'))
<1>1. messages \in Seq(Message) => \A i \in DOMAIN messages : messages[i] \in Message
  OBVIOUS
<1>2. messages' \in Seq(Message) => \A i \in DOMAIN messages' : messages'[i] \in Message
  OBVIOUS
<1>3. messages \in Seq(Message) => (q \in Outstanding <=> AmongOutstanding(q, buffer, worker, messages))
  BY <1>1, AmongUnion, Zenon DEF Outstanding
<1>4. messages' \in Seq(Message) => (q \in Outstanding' <=> AmongOutstanding(q, buffer', worker', messages'))
  BY <1>2, AmongUnion, Zenon DEF Outstanding
<1> QED BY <1>3, <1>4

\* The new manager has no statuses, callers or messages.
LEMMA InitIInv == Init => IInv
<1> SUFFICES ASSUME Init PROVE IInv
  OBVIOUS
<1>1. Types
  BY DEF Init, Types, States
<1>2. FiledByKey
  BY DEF Init, FiledByKey
<1>3. ListenersHaveQuery
  BY DEF Init, ListenersHaveQuery, Listening
<1>4. ListenersCatchUp
  BY DEF Init, ListenersCatchUp
<1> QED BY <1>1, <1>2, <1>3, <1>4 DEF IInv

\* Statuses and listeners stay, no caller starts or stops to listen, none
\* begins to receive, and no outstanding query is lost.
LEMMA StatusesKept ==
  ASSUME IInv, Types', UNCHANGED <<statuses, got, stopped>>,
         ~stopped => \A c \in Clients : (client'[c] \in Listening) <=> (client[c] \in Listening),
         \A c \in Clients : client'[c] = "receiving" => client[c] = "receiving",
         \A q \in Clients : q \in Outstanding => q \in Outstanding'
  PROVE  IInv'
<1>1. FiledByKey'
  BY DEF IInv, FiledByKey, statuses
<1>2. ListenersHaveQuery'
  <2>1. ~stopped' => \A c \in Clients, k \in Cids :
          c \in listeners'[k] <=> Key[c] = k /\ client'[c] \in Listening
    BY DEF IInv, ListenersHaveQuery, statuses
  <2>2. ASSUME NEW k \in Cids
        PROVE  IF query'[k] = None THEN listeners'[k] = {} /\ providersSoFar'[k] = {}
                                   ELSE query'[k] \in Outstanding'
    BY DEF IInv, Types, ListenersHaveQuery, statuses
  <2> QED BY <2>1, <2>2 DEF ListenersHaveQuery, Listening
<1>3. ListenersCatchUp'
  BY DEF IInv, Types, ListenersCatchUp, statuses
<1> QED BY <1>1, <1>2, <1>3 DEF IInv

\* A message joins the channel.
LEMMA SendTypes ==
  ASSUME Types, NEW m \in Message, Send(m)
  PROVE  messages' \in Seq(Message) /\ \A x : In(x, messages') <=> In(x, messages) \/ x = m
BY InAppend DEF Types, Send

\* With no fewer messages, queries and busy workers nothing outstanding is lost.
LEMMA OutstandingGrows ==
  ASSUME Types, Types',
         \A x : In(x, messages) => In(x, messages'),
         \A x : In(x, buffer) => In(x, buffer'),
         \A w \in Workers : worker'[w] = worker[w]
  PROVE  \A q \in Clients : q \in Outstanding => q \in Outstanding'
<1> SUFFICES ASSUME NEW q \in Clients, q \in Outstanding PROVE q \in Outstanding'
  OBVIOUS
<1>1. AmongOutstanding(q, buffer, worker, messages)
  BY OutstandingIn DEF Types
<1>2. AmongOutstanding(q, buffer', worker', messages')
  BY <1>1 DEF AmongOutstanding
<1> QED BY <1>2, OutstandingIn DEF Types

-----------------------------------------------------------------------------
\* The steps of a caller's goroutine, of a worker, and of the end.
LEMMA OthersIInv ==
  ASSUME IInv,
         \/ \E c \in Clients : FindProvidersAsync(c) \/ FindProvidersCancelled(c) \/ SessionDone(c) \/ Client(c)
         \/ \E w \in Workers : Worker(w) \/ \E p \in Providers : Found(w, p)
         \/ RunExit \/ Stop \/ UNCHANGED vars
  PROVE  IInv'
<1>0. Types
  BY DEF IInv
<1>1. ASSUME NEW c \in Clients, FindProvidersAsync(c) PROVE IInv'
  <2>1. [kind |-> "new", from |-> c] \in Message
    BY DEF Message
  <2>2. messages' \in Seq(Message) /\ \A x : In(x, messages) => In(x, messages')
    BY <1>0, <1>1, <2>1, SendTypes DEF FindProvidersAsync
  <2>3. Types'
    BY <1>0, <1>1, <2>2 DEF FindProvidersAsync, Types, States, statuses, searches
  <2>4. \A q \in Clients : q \in Outstanding => q \in Outstanding'
    BY <1>0, <1>1, <2>2, <2>3, OutstandingGrows DEF FindProvidersAsync, searches
  <2> QED BY <1>0, <1>1, <2>3, <2>4, StatusesKept DEF FindProvidersAsync, Types, Listening
<1>2. ASSUME NEW c \in Clients, FindProvidersCancelled(c) \/ SessionDone(c) \/ ClientStops(c) PROVE IInv'
  <2>1. Types'
    BY <1>0, <1>2, Zenon DEF FindProvidersCancelled, SessionDone, ClientStops, Types, States, statuses, searches
  <2>2. \A q \in Clients : q \in Outstanding => q \in Outstanding'
    BY <1>2 DEF FindProvidersCancelled, SessionDone, ClientStops, searches, Outstanding
  <2> QED BY <1>0, <1>2, <2>1, <2>2, StatusesKept
             DEF FindProvidersCancelled, SessionDone, ClientStops, Types, Listening
<1>3. ASSUME NEW c \in Clients, cancelProviderRequest(c) PROVE IInv'
  <2>1. [kind |-> "cancel", from |-> c] \in Message
    BY DEF Message
  <2>2. messages' \in Seq(Message) /\ \A x : In(x, messages) => In(x, messages')
    BY <1>0, <1>3, <2>1, SendTypes DEF cancelProviderRequest
  <2>3. Types'
    BY <1>0, <1>3, <2>2 DEF cancelProviderRequest, Types, States, statuses, searches
  <2>4. \A q \in Clients : q \in Outstanding => q \in Outstanding'
    BY <1>0, <1>3, <2>2, <2>3, OutstandingGrows DEF cancelProviderRequest, searches
  <2> QED BY <1>0, <1>3, <2>3, <2>4, StatusesKept DEF cancelProviderRequest, Types, Listening
<1>4. ASSUME NEW w \in Workers, TakeQuery(w) PROVE IInv'
  <2>1. /\ Head(buffer) \in Clients /\ Tail(buffer) \in Seq(Clients)
        /\ \A x : In(x, buffer) => In(x, Tail(buffer)) \/ x = Head(buffer)
    BY <1>0, <1>4, InTail DEF TakeQuery, Types
  <2>2. Types'
    BY <1>0, <1>4, <2>1, NoneAssumption DEF TakeQuery, Types, statuses, clients
  <2>3. ASSUME NEW q \in Clients, q \in Outstanding PROVE q \in Outstanding'
    <3>0. AmongOutstanding(q, buffer, worker, messages)
      BY <1>0, <2>3, OutstandingIn DEF Types
    <3>1. AmongOutstanding(q, buffer', worker', messages')
      BY <1>0, <1>4, <2>1, <2>3, <3>0, NoneAssumption DEF TakeQuery, Types, AmongOutstanding
    <3> QED BY <2>2, <3>1, OutstandingIn DEF Types
  <2> QED BY <1>4, <2>2, <2>3, StatusesKept DEF TakeQuery, clients
<1>5. ASSUME NEW w \in Workers, Finish(w) PROVE IInv'
  <2> DEFINE last == [kind |-> "finished", from |-> worker[w]]
  <2>1. last \in Message /\ last.kind = "finished" /\ last.from = worker[w]
    BY <1>0, <1>5 DEF Finish, Types, Message
  <2>2. messages' \in Seq(Message) /\ \A x : In(x, messages') <=> In(x, messages) \/ x = last
    BY <1>0, <1>5, <2>1, SendTypes DEF Finish
  <2>3. Types'
    BY <1>0, <1>5, <2>2 DEF Finish, Types, statuses, clients
  <2>4. ASSUME NEW q \in Clients, q \in Outstanding PROVE q \in Outstanding'
    <3> HIDE DEF last
    <3>0. AmongOutstanding(q, buffer, worker, messages)
      BY <1>0, <2>4, OutstandingIn DEF Types
    <3>1. AmongOutstanding(q, buffer', worker', messages')
      BY <1>0, <1>5, <2>1, <2>2, <2>4, <3>0 DEF Finish, Types, AmongOutstanding
    <3> QED BY <2>3, <3>1, OutstandingIn DEF Types
  <2> QED BY <1>5, <2>3, <2>4, StatusesKept DEF Finish, clients
<1>6. ASSUME NEW w \in Workers, NEW p \in Providers, Connects(w, p) PROVE IInv'
  <2>1. [kind |-> "provider", from |-> worker[w], peer |-> p] \in Message
    BY <1>0, <1>6 DEF Connects, Types, Message
  <2>2. messages' \in Seq(Message) /\ \A x : In(x, messages) => In(x, messages')
    BY <1>0, <1>6, <2>1, SendTypes DEF Connects
  <2>3. Types'
    BY <1>0, <1>6, <2>2 DEF Connects, Types, statuses, clients
  <2>4. \A q \in Clients : q \in Outstanding => q \in Outstanding'
    BY <1>0, <1>6, <2>2, <2>3, OutstandingGrows DEF Connects
  <2> QED BY <1>6, <2>3, <2>4, StatusesKept DEF Connects, clients
<1>7. ASSUME NEW w \in Workers, NEW p \in Providers, ConnectFails(w, p) \/ Found(w, p) PROVE IInv'
  <2>0. connecting' \in [Workers -> SUBSET Providers] /\ \A v \in Workers : worker[v] = None => connecting'[v] = {}
    <3>1. CASE ConnectFails(w, p)
      BY <1>0, <3>1 DEF ConnectFails, Types
    <3>2. CASE Found(w, p)
      BY <1>0, <3>2 DEF Found, Types
    <3> QED BY <1>7, <3>1, <3>2
  <2>1. Types'
    BY <1>0, <1>7, <2>0 DEF ConnectFails, Found, Types, statuses, clients
  <2>2. \A q \in Clients : q \in Outstanding => q \in Outstanding'
    BY <1>7 DEF ConnectFails, Found, Outstanding
  <2> QED BY <1>7, <2>1, <2>2, StatusesKept DEF ConnectFails, Found, clients
<1>8. CASE RunExit
  <2>1. Types'
    BY <1>0, <1>8 DEF RunExit, Closed, Types, States, statuses, searches
  <2>2. \A q \in Clients : q \in Outstanding => q \in Outstanding'
    BY <1>8 DEF RunExit, searches, Outstanding
  <2> QED BY <1>8, <2>1, <2>2, StatusesKept DEF RunExit, Closed
<1>9. CASE Stop
  <2>1. Types'
    BY <1>0, <1>9 DEF Stop, Types, statuses, searches, clients
  <2>2. UNCHANGED <<query, listeners, providersSoFar, Outstanding, client, got>>
    BY <1>9 DEF Stop, searches, statuses, clients, Outstanding
  <2> QED BY <1>9, <2>1, <2>2 DEF IInv, Stop, FiledByKey, ListenersHaveQuery, ListenersCatchUp
<1>10. CASE UNCHANGED vars
  <2>1. Types'
    BY <1>0, <1>10 DEF vars, statuses, searches, clients, Types
  <2>2. \A q \in Clients : q \in Outstanding => q \in Outstanding'
    BY <1>10 DEF vars, searches, Outstanding
  <2> QED BY <1>10, <2>1, <2>2, StatusesKept DEF vars, clients
<1> QED BY <1>1, <1>2, <1>3, <1>4, <1>5, <1>6, <1>7, <1>8, <1>9, <1>10 DEF Client, Worker

-----------------------------------------------------------------------------
\* A message leaves the channel: of the outstanding queries only the one that
\* it ends can be lost, and a query that starts is outstanding.
LEMMA HandleOutstanding ==
  ASSUME Types, Handle
  PROVE  /\ Head(messages) \in Message
         /\ messages' \in Seq(Message)
         /\ \A q \in Clients :
              (q \in Outstanding /\ (Head(messages).kind = "finished" => Head(messages).from # q)) \/ In(q, buffer')
                => q \in Outstanding'
<1>1. /\ Head(messages) \in Message /\ messages' \in Seq(Message)
      /\ \A x : In(x, messages) => In(x, messages') \/ x = Head(messages)
  BY InTail DEF Handle, Types
<1>2. \A x : In(x, buffer) => In(x, buffer')
  <2>1. CASE buffer' = buffer
    BY <2>1
  <2>2. ASSUME NEW c \in Clients, buffer' = Append(buffer, c) PROVE \A x : In(x, buffer) => In(x, buffer')
    BY <2>2, InAppend DEF Types
  <2>3. Head(messages).from \in Clients
    BY <1>1, Zenon DEF Message
  <2> QED BY <2>1, <2>2, <2>3, Zenon DEF Handle, newProvideQuery, receivedProvider, finishedProviderQuery, cancelRequest
<1>3. worker' = worker
  BY DEF Handle, searches
<1>4. ASSUME NEW q \in Clients,
             (q \in Outstanding /\ (Head(messages).kind = "finished" => Head(messages).from # q)) \/ In(q, buffer')
      PROVE  q \in Outstanding'
  <2>0. q \in Outstanding => AmongOutstanding(q, buffer, worker, messages)
    BY OutstandingIn DEF Types
  <2>1. AmongOutstanding(q, buffer', worker', messages')
    BY <1>1, <1>2, <1>3, <1>4, <2>0 DEF AmongOutstanding
  <2> QED BY <1>1, <2>1, OutstandingIn
<1> QED BY <1>1, <1>4

\* What handling a message leaves alone.
Aside == messages' \in Seq(Message) /\ UNCHANGED <<worker, connecting, stopped>>

\* The second half of ListenersHaveQuery.
HasQuery(j) ==
  IF query[j] = None THEN listeners[j] = {} /\ providersSoFar[j] = {} ELSE query[j] \in Outstanding

\* A caller asks for a key: the first one starts a search.
LEMMA NewIInv ==
  ASSUME IInv, Aside, NEW c \in Clients, newProvideQuery(c),
         \A q \in Clients : q \in Outstanding \/ In(q, buffer') => q \in Outstanding'
  PROVE  IInv'
<1> DEFINE k == Key[c]
<1>0. Types /\ FiledByKey /\ ListenersHaveQuery /\ ListenersCatchUp /\ k \in Cids
  BY KeyAssumption DEF IInv
<1>1. /\ query[k] = None =>
           /\ query' = [query EXCEPT ![k] = c] /\ listeners' = [listeners EXCEPT ![k] = {c}]
           /\ providersSoFar' = [providersSoFar EXCEPT ![k] = {}] /\ buffer' = Append(buffer, c)
      /\ query[k] # None =>
           /\ listeners' = [listeners EXCEPT ![k] = @ \cup {c}]
           /\ UNCHANGED <<query, providersSoFar, buffer>>
      /\ client' = [client EXCEPT ![c] = "receiving"] /\ got' = [got EXCEPT ![c] = providersSoFar'[k]]
  BY DEF newProvideQuery, Join
<1>2. Key[c] = k
  OBVIOUS
<1> HIDE DEF k
<1>3. /\ query' \in [Cids -> Clients \cup {None}] /\ listeners' \in [Cids -> SUBSET Clients]
      /\ providersSoFar' \in [Cids -> SUBSET Providers]
      /\ query'[k] \in Clients /\ listeners'[k] = listeners[k] \cup {c} /\ providersSoFar'[k] = providersSoFar[k]
      /\ \A j \in Cids \ {k} : /\ query'[j] = query[j] /\ listeners'[j] = listeners[j]
                               /\ providersSoFar'[j] = providersSoFar[j]
      /\ IF query[k] = None THEN query'[k] = c ELSE query'[k] = query[k]
  <2>1. CASE query[k] = None
    <3>1. listeners[k] = {} /\ providersSoFar[k] = {}
      BY <1>0, <2>1, Zenon DEF ListenersHaveQuery
    <3>2. /\ query' = [query EXCEPT ![k] = c] /\ listeners' = [listeners EXCEPT ![k] = {c}]
          /\ providersSoFar' = [providersSoFar EXCEPT ![k] = {}]
      BY <1>1, <2>1
    <3>3. /\ query \in [Cids -> Clients \cup {None}] /\ listeners \in [Cids -> SUBSET Clients]
          /\ providersSoFar \in [Cids -> SUBSET Providers]
      BY <1>0 DEF Types
    <3>4. query' \in [Cids -> Clients \cup {None}] /\ query'[k] = c /\ \A j \in Cids \ {k} : query'[j] = query[j]
      BY <1>0, <3>2, <3>3
    <3>5. /\ listeners' \in [Cids -> SUBSET Clients] /\ listeners'[k] = {c}
          /\ \A j \in Cids \ {k} : listeners'[j] = listeners[j]
      BY <1>0, <3>2, <3>3
    <3>6. /\ providersSoFar' \in [Cids -> SUBSET Providers] /\ providersSoFar'[k] = {}
          /\ \A j \in Cids \ {k} : providersSoFar'[j] = providersSoFar[j]
      BY <1>0, <3>2, <3>3
    <3> QED BY <2>1, <3>1, <3>4, <3>5, <3>6, Zenon
  <2>2. CASE query[k] # None
    BY <1>0, <1>1, <2>2 DEF Types
  <2> QED BY <2>1, <2>2, Zenon
<1>4. buffer' \in Seq(Clients) /\ (query[k] = None => In(c, buffer'))
  <2>1. buffer \in Seq(Clients)
    BY <1>0 DEF Types
  <2>2. Append(buffer, c) \in Seq(Clients) /\ In(c, Append(buffer, c))
    BY <2>1, InAppend
  <2> QED BY <1>1, <2>1, <2>2, Zenon
<1>5. client' \in [Clients -> States] /\ got' \in [Clients -> SUBSET Providers]
  BY <1>0, <1>1, <1>3 DEF Types, States
<1>6. Types'
  BY <1>0, <1>3, <1>4, <1>5 DEF Aside, Types
<1>7. FiledByKey'
  <2> SUFFICES ASSUME NEW j \in Cids
               PROVE  (query'[j] # None => Key[query'[j]] = j) /\ \A d \in listeners'[j] : Key[d] = j
    BY DEF FiledByKey
  <2>0. (query[j] # None => Key[query[j]] = j) /\ \A d \in listeners[j] : Key[d] = j
    BY <1>0 DEF FiledByKey
  <2>1. CASE j = k
    BY <1>2, <1>3, <2>0, <2>1
  <2>2. CASE j # k
    BY <1>3, <2>0, <2>2
  <2> QED BY <2>1, <2>2
<1>8. ~stopped' => \A d \in Clients, j \in Cids :
        d \in listeners'[j] <=> Key[d] = j /\ client'[d] \in Listening
  <2> SUFFICES ASSUME ~stopped', NEW d \in Clients, NEW j \in Cids
               PROVE  d \in listeners'[j] <=> Key[d] = j /\ client'[d] \in Listening
    OBVIOUS
  <2>0. d \in listeners[j] <=> Key[d] = j /\ client[d] \in Listening
    BY <1>0, Zenon DEF Aside, ListenersHaveQuery
  <2>1. client'[c] \in Listening /\ (d # c => client'[d] = client[d])
    BY <1>0, <1>1 DEF Types, Listening
  <2>2. listeners'[j] = IF j = k THEN listeners[j] \cup {c} ELSE listeners[j]
    BY <1>3, Zenon
  <2>3. CASE d = c
    BY <1>2, <2>0, <2>1, <2>2, <2>3, Zenon
  <2>4. CASE d # c
    BY <2>0, <2>1, <2>2, <2>4
  <2> QED BY <2>3, <2>4
<1>9. ASSUME NEW j \in Cids PROVE HasQuery(j)'
  <2>1. CASE j = k
    <3>1. query'[k] \in Outstanding'
      <4>1. CASE query[k] = None
        BY <1>3, <1>4, <4>1
      <4>2. CASE query[k] # None
        BY <1>0, <1>3, <4>2 DEF ListenersHaveQuery
      <4> QED BY <4>1, <4>2
    <3> QED BY <1>3, <2>1, <3>1, NoneAssumption, Zenon DEF HasQuery
  <2>2. CASE j # k
    BY <1>0, <1>3, <2>2 DEF HasQuery, ListenersHaveQuery, Types
  <2> QED BY <2>1, <2>2
<1>10. ListenersHaveQuery'
  BY <1>8, <1>9 DEF ListenersHaveQuery, HasQuery, Listening
<1>11. ListenersCatchUp'
  <2> SUFFICES ASSUME NEW j \in Cids, NEW d \in listeners'[j], client'[d] = "receiving"
               PROVE  got'[d] = providersSoFar'[j]
    BY DEF ListenersCatchUp
  <2>1. d \in Clients /\ Key[d] = j /\ got \in [Clients -> SUBSET Providers] /\ client \in [Clients -> States]
    BY <1>0, <1>6, <1>7 DEF FiledByKey, Types
  <2>2. CASE d = c
    BY <1>1, <1>2, <2>1, <2>2
  <2>3. CASE d # c
    <3>1. d \in listeners[j] /\ client[d] = "receiving" /\ got'[d] = got[d]
      BY <1>1, <1>3, <2>1, <2>3, Zenon
    <3> QED BY <1>0, <1>3, <3>1, Zenon DEF ListenersCatchUp
  <2> QED BY <2>2, <2>3
<1> QED BY <1>6, <1>7, <1>10, <1>11 DEF IInv

\* A provider was connected to: every caller that still receives gets it.
LEMMA ProviderIInv ==
  ASSUME IInv, Aside, NEW q \in Clients, NEW p \in Providers, receivedProvider(q, p),
         \A r \in Clients : r \in Outstanding => r \in Outstanding'
  PROVE  IInv'
<1> DEFINE k == Key[q]
<1>0. Types /\ FiledByKey /\ ListenersHaveQuery /\ ListenersCatchUp /\ k \in Cids
  BY KeyAssumption DEF IInv
<1>1. /\ query[k] = None => UNCHANGED <<providersSoFar, got>>
      /\ query[k] # None =>
           /\ providersSoFar' = [providersSoFar EXCEPT ![k] = @ \cup {p}]
           /\ got' = [c \in Clients |->
                IF c \in listeners[k] /\ client[c] = "receiving" THEN got[c] \cup {p} ELSE got[c]]
      /\ UNCHANGED <<query, listeners, buffer, client>>
  BY Zenon DEF receivedProvider
<1> HIDE DEF k
<1>2. Types' /\ \A j \in Cids \ {k} : providersSoFar'[j] = providersSoFar[j]
  <2>1. CASE query[k] = None
    BY <1>0, <1>1, <2>1 DEF Aside, Types
  <2>2. CASE query[k] # None
    <3>1. /\ listeners \in [Cids -> SUBSET Clients] /\ providersSoFar \in [Cids -> SUBSET Providers]
          /\ got \in [Clients -> SUBSET Providers]
      BY <1>0, Zenon DEF Types
    <3>2. /\ providersSoFar' = [providersSoFar EXCEPT ![k] = @ \cup {p}]
          /\ \A c \in Clients : got'[c] \in {got[c], got[c] \cup {p}}
          /\ got' = [c \in Clients |-> got'[c]]
      BY <1>1, <2>2
    <3>3. providersSoFar' \in [Cids -> SUBSET Providers] /\ \A j \in Cids \ {k} : providersSoFar'[j] = providersSoFar[j]
      BY <1>0, <3>1, <3>2
    <3>4. got' \in [Clients -> SUBSET Providers]
      BY <3>1, <3>2
    <3> QED BY <1>0, <1>1, <3>3, <3>4, Zenon DEF Aside, Types
  <2> QED BY <2>1, <2>2
<1>3. FiledByKey'
  BY <1>0, <1>1, Zenon DEF FiledByKey
<1>4. ~stopped' => \A d \in Clients, j \in Cids :
        d \in listeners'[j] <=> Key[d] = j /\ client'[d] \in Listening
  BY <1>0, <1>1, Zenon DEF Aside, ListenersHaveQuery
<1>5. ASSUME NEW j \in Cids PROVE HasQuery(j)'
  <2>1. query[j] = None => providersSoFar'[j] = providersSoFar[j]
    BY <1>1, <1>2, Zenon
  <2> QED BY <1>0, <1>1, <2>1 DEF HasQuery, ListenersHaveQuery, Types
<1>6. ListenersHaveQuery'
  BY <1>4, <1>5, Zenon DEF ListenersHaveQuery, HasQuery, Listening
<1>7. ListenersCatchUp'
  <2>1. CASE query[k] = None
    <3>1. providersSoFar' = providersSoFar /\ got' = got /\ listeners' = listeners /\ client' = client
      BY <1>1, <2>1, Zenon
    <3> QED BY <1>0, <3>1, Zenon DEF ListenersCatchUp
  <2>2. CASE query[k] # None
    <3> SUFFICES ASSUME NEW j \in Cids, NEW c \in listeners[j], client[c] = "receiving"
                 PROVE  got'[c] = providersSoFar'[j]
      BY <1>1 DEF ListenersCatchUp
    <3>1. c \in Clients /\ Key[c] = j /\ got[c] = providersSoFar[j]
      BY <1>0 DEF ListenersCatchUp, FiledByKey, Types
    <3>2. CASE j = k
      <4>1. providersSoFar \in [Cids -> SUBSET Providers]
        BY <1>0 DEF Types
      <4>2. providersSoFar'[k] = providersSoFar[k] \cup {p}
        BY <1>0, <1>1, <2>2, <4>1
      <4>3. got'[c] = got[c] \cup {p}
        BY <1>1, <2>2, <3>1, <3>2
      <4> QED BY <3>1, <3>2, <4>2, <4>3, Zenon
    <3>3. CASE j # k
      <4>1. c \notin listeners[k]
        BY <1>0, <3>1, <3>3 DEF FiledByKey
      <4> QED BY <1>1, <1>2, <2>2, <3>1, <3>3, <4>1
    <3> QED BY <3>2, <3>3
  <2> QED BY <2>1, <2>2
<1> QED BY <1>2, <1>3, <1>6, <1>7 DEF IInv

\* A status goes, and the channels that it lists are closed.
LEMMA EndIInv ==
  ASSUME IInv, Aside, NEW k \in Cids, UNCHANGED <<buffer, got>>, client' = Closed(listeners[k]),
         query' = [query EXCEPT ![k] = None],
         listeners' = [listeners EXCEPT ![k] = {}],
         providersSoFar' = [providersSoFar EXCEPT ![k] = {}],
         \A r \in Clients : r \in Outstanding /\ Key[r] # k => r \in Outstanding'
  PROVE  IInv'
<1>0. Types /\ FiledByKey /\ ListenersHaveQuery /\ ListenersCatchUp
  BY DEF IInv
<1>1. Types'
  BY <1>0 DEF Aside, Closed, Types, States
<1>2. FiledByKey'
  BY <1>0 DEF FiledByKey, Types
<1>3. ~stopped' => \A d \in Clients, j \in Cids :
        d \in listeners'[j] <=> Key[d] = j /\ client'[d] \in Listening
  BY <1>0 DEF Aside, Closed, ListenersHaveQuery, Listening, Types
<1>4. ASSUME NEW j \in Cids PROVE HasQuery(j)'
  <2>1. CASE j = k
    BY <1>0, <2>1 DEF HasQuery, Types
  <2>2. CASE j # k
    BY <1>0, <2>2 DEF HasQuery, ListenersHaveQuery, FiledByKey, Types
  <2> QED BY <2>1, <2>2
<1>5. ListenersHaveQuery'
  BY <1>3, <1>4, Zenon DEF ListenersHaveQuery, HasQuery, Listening
<1>6. ListenersCatchUp'
  BY <1>0 DEF Closed, ListenersCatchUp, Types
<1> QED BY <1>1, <1>2, <1>5, <1>6 DEF IInv

\* A caller leaves a status that others still listen to.
LEMMA LeaveIInv ==
  ASSUME IInv, Aside, NEW c \in Clients, c \in listeners[Key[c]], listeners[Key[c]] # {c},
         UNCHANGED <<buffer, got, query, providersSoFar>>, client' = Closed({c}),
         listeners' = [listeners EXCEPT ![Key[c]] = @ \ {c}],
         \A r \in Clients : r \in Outstanding => r \in Outstanding'
  PROVE  IInv'
<1> DEFINE k == Key[c]
<1>0. Types /\ FiledByKey /\ ListenersHaveQuery /\ ListenersCatchUp /\ k \in Cids
  BY KeyAssumption DEF IInv
<1>1. Key[c] = k /\ listeners' = [listeners EXCEPT ![k] = @ \ {c}] /\ c \in listeners[k]
  OBVIOUS
<1> HIDE DEF k
<1>2. Types'
  BY <1>0, <1>1 DEF Aside, Closed, Types, States
<1>3. FiledByKey'
  BY <1>0, <1>1 DEF FiledByKey, Types
<1>4. ~stopped' => \A d \in Clients, j \in Cids :
        d \in listeners'[j] <=> Key[d] = j /\ client'[d] \in Listening
  BY <1>0, <1>1 DEF Aside, Closed, ListenersHaveQuery, Listening, Types
<1>5. ASSUME NEW j \in Cids PROVE HasQuery(j)'
  <2>1. CASE j = k
    <3>1. query[k] # None /\ query[k] \in Outstanding
      BY <1>0, <1>1, Zenon DEF ListenersHaveQuery
    <3>2. query[k] \in Clients
      BY <1>0, <3>1 DEF Types
    <3> QED BY <2>1, <3>1, <3>2, Zenon DEF HasQuery
  <2>2. CASE j # k
    BY <1>0, <1>1, <2>2 DEF HasQuery, ListenersHaveQuery, Types
  <2> QED BY <2>1, <2>2
<1>6. ListenersHaveQuery'
  BY <1>4, <1>5, Zenon DEF ListenersHaveQuery, HasQuery, Listening
<1>7. ListenersCatchUp'
  BY <1>0, <1>1 DEF Closed, ListenersCatchUp, Types
<1> QED BY <1>2, <1>3, <1>6, <1>7 DEF IInv

\* The run loop handles a message.
LEMMA HandleIInv == ASSUME IInv, Handle PROVE IInv'
<1>0. Types
  BY DEF IInv
<1> DEFINE m == Head(messages)
<1>1. /\ m \in Message /\ messages' \in Seq(Message)
      /\ \A q \in Clients :
           (q \in Outstanding /\ (m.kind = "finished" => m.from # q)) \/ In(q, buffer') => q \in Outstanding'
  BY <1>0, HandleOutstanding
<1>2. Aside
  BY <1>1 DEF Aside, Handle, searches
<1>3. m.from \in Clients /\ Key[m.from] \in Cids /\ (m.kind = "provider" => m.peer \in Providers)
  BY <1>1, KeyAssumption, Zenon DEF Message
<1>4. \/ m.kind = "new" /\ newProvideQuery(m.from)
      \/ m.kind = "provider" /\ receivedProvider(m.from, m.peer)
      \/ m.kind = "finished" /\ finishedProviderQuery(m.from)
      \/ m.kind = "cancel" /\ cancelRequest(m.from)
  BY DEF Handle
<1> HIDE DEF m
<1>5. CASE m.kind = "new" /\ newProvideQuery(m.from)
  BY <1>1, <1>2, <1>3, <1>5, NewIInv
<1>6. CASE m.kind = "provider" /\ receivedProvider(m.from, m.peer)
  BY <1>1, <1>2, <1>3, <1>6, ProviderIInv
<1>7. CASE m.kind = "finished" /\ finishedProviderQuery(m.from)
  BY <1>1, <1>2, <1>3, <1>7, EndIInv, Zenon DEF finishedProviderQuery
<1>8. CASE m.kind = "cancel" /\ cancelRequest(m.from)
  <2>0. PICK c \in Clients : c = m.from
    BY <1>3
  <2>1. CASE c \notin listeners[Key[c]]
    <3>1. UNCHANGED <<query, listeners, providersSoFar, client, buffer, got>>
      BY <1>8, <2>0, <2>1, Zenon DEF cancelRequest
    <3>2. Types'
      BY <1>0, <1>2, <3>1 DEF Aside, Types
    <3> QED BY <1>1, <1>2, <1>8, <3>1, <3>2, StatusesKept DEF Aside, statuses
  <2>2. CASE c \in listeners[Key[c]] /\ listeners[Key[c]] = {c}
    <3>1. Abandoned(Remaining(c)) /\ Key[c] \in Cids
      BY <2>2, KeyAssumption DEF Abandoned, Remaining
    <3>2. /\ UNCHANGED <<buffer, got>> /\ client' = Closed(listeners[Key[c]])
          /\ query' = [query EXCEPT ![Key[c]] = None]
          /\ listeners' = [listeners EXCEPT ![Key[c]] = {}]
          /\ providersSoFar' = [providersSoFar EXCEPT ![Key[c]] = {}]
      BY <1>8, <2>0, <2>2, <3>1, Zenon DEF cancelRequest
    <3> QED BY <1>1, <1>2, <1>8, <3>1, <3>2, EndIInv, Zenon
  <2>3. CASE c \in listeners[Key[c]] /\ listeners[Key[c]] # {c}
    <3>1. ~Abandoned(Remaining(c))
      BY <2>3 DEF Abandoned, Remaining
    <3>2. /\ UNCHANGED <<buffer, got, query, providersSoFar>> /\ client' = Closed({c})
          /\ listeners' = [listeners EXCEPT ![Key[c]] = @ \ {c}]
      BY <1>8, <2>0, <2>3, <3>1, Zenon DEF cancelRequest, Remaining
    <3> QED BY <1>1, <1>2, <1>8, <2>3, <3>2, LeaveIInv, Zenon
  <2> QED BY <2>1, <2>2, <2>3
<1> QED BY <1>4, <1>5, <1>6, <1>7, <1>8

\* The invariant holds throughout.
LEMMA AlwaysIInv == Spec => []IInv
<1>1. IInv /\ [Next]_vars => IInv'
  BY HandleIInv, OthersIInv DEF Next
<1> QED BY <1>1, InitIInv, PTL DEF Spec

-----------------------------------------------------------------------------
\* No caller waits for nobody and no listed channel is closed, whatever the
\* order in which callers, searches and the run loop act.
THEOREM ListenersAlwaysHaveQuery == Spec => []ListenersHaveQuery
<1>1. IInv => ListenersHaveQuery
  BY DEF IInv
<1> QED BY <1>1, AlwaysIInv, PTL

\* A caller that joined late has exactly the providers that were found.
THEOREM ListenersAlwaysCatchUp == Spec => []ListenersCatchUp
<1>1. IInv => ListenersCatchUp
  BY DEF IInv
<1> QED BY <1>1, AlwaysIInv, PTL
=============================================================================
