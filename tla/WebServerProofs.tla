--------------------------- MODULE WebServerProofs ---------------------------
(***************************************************************************)
(* Theorems about the HTTP server, for any number of clients, any limit of *)
(* connections and any requests: the count of sockets is exact, a URL      *)
(* belongs to the socket in req, and answers go to who asked.              *)
(***************************************************************************)
EXTENDS WebServer, FiniteSetTheorems, SequenceTheorems, TLAPS

----------------------------------------------------------------------------
(* Lists without duplicates *)

Distinct(list) == \A i, j \in 1 .. Len(list) : list[i] = list[j] => i = j

LEMMA DistinctAppend ==
    ASSUME NEW S, NEW list \in Seq(S), NEW e \in S, Distinct(list),
           ~ Contains(list, e)
    PROVE  Append(list, e) \in Seq(S) /\ Distinct(Append(list, e))
<1>1. /\ Append(list, e) \in Seq(S) /\ Len(list) \in Nat
      /\ Len(Append(list, e)) = Len(list) + 1
      /\ \A i \in 1 .. Len(list) : Append(list, e)[i] = list[i]
      /\ Append(list, e)[Len(list) + 1] = e
  BY AppendProperties, LenProperties
<1>2. \A i \in 1 .. Len(list) + 1 : i \in 1 .. Len(list) \/ i = Len(list) + 1
  BY <1>1
<1>3. \A i \in 1 .. Len(list) : list[i] # e
  BY DEF Contains
<1> QED
  BY <1>1, <1>2, <1>3 DEF Distinct

LEMMA DistinctTail ==
    ASSUME NEW S, NEW list \in Seq(S), list # <<>>, Distinct(list)
    PROVE  /\ Tail(list) \in Seq(S) /\ Head(list) \in S /\ Head(list) = list[1]
           /\ Distinct(Tail(list)) /\ Len(list) \in Nat \ {0}
           /\ Len(Tail(list)) = Len(list) - 1
           /\ \A i \in 1 .. Len(Tail(list)) :
                /\ Tail(list)[i] = list[i + 1] /\ i + 1 \in 1 .. Len(list)
                /\ Tail(list)[i] # Head(list)
<1>1. /\ Head(list) \in S /\ Tail(list) \in Seq(S) /\ Len(Tail(list)) = Len(list) - 1
      /\ \A i \in 1 .. Len(Tail(list)) : Tail(list)[i] = list[i + 1]
      /\ Len(list) \in Nat \ {0}
  BY HeadTailProperties, EmptySeq
<1>2. Head(list) = list[1]
  OBVIOUS
<1>3. /\ \A i \in 1 .. Len(Tail(list)) : i + 1 \in 1 .. Len(list) /\ i + 1 # 1
      /\ 1 \in 1 .. Len(list)
  BY <1>1
<1>4. \A i \in 1 .. Len(Tail(list)) : Tail(list)[i] # Head(list)
  BY <1>1, <1>2, <1>3 DEF Distinct
<1>5. Distinct(Tail(list))
  <2> SUFFICES ASSUME NEW i \in 1 .. Len(Tail(list)), NEW j \in 1 .. Len(Tail(list)),
                      Tail(list)[i] = Tail(list)[j]
               PROVE  i = j
    BY DEF Distinct
  <2>1. i + 1 = j + 1
    BY <1>1, <1>3 DEF Distinct
  <2> QED
    BY <2>1
<1> QED
  BY <1>1, <1>2, <1>3, <1>4, <1>5

LEMMA WithoutIsThinner ==
    ASSUME NEW S, NEW list \in Seq(S), NEW e
    PROVE  /\ Without(list, e) \in Seq(S)
           /\ Distinct(list) => /\ Distinct(Without(list, e))
                                /\ ~ Contains(Without(list, e), e)
<1>0. Len(list) \in Nat
  BY LenProperties
<1>1. CASE ~ Contains(list, e)
  BY <1>1 DEF Without
<1>2. CASE Contains(list, e)
  <2> DEFINE k == CHOOSE i \in 1 .. Len(list) : list[i] = e
             a == SubSeq(list, 1, k - 1)
             b == SubSeq(list, k + 1, Len(list))
  <2>1. k \in 1 .. Len(list) /\ list[k] = e
    BY <1>2 DEF Contains
  <2>2. Without(list, e) = a \o b
    BY <1>2 DEF Without, RemoveAt
  <2> HIDE DEF k
  <2>3. /\ k \in Int /\ k - 1 \in Int /\ k + 1 \in Int /\ 1 \in Int /\ Len(list) \in Int
        /\ \A i \in 1 .. k - 1 : list[i] \in S
        /\ \A i \in k + 1 .. Len(list) : list[i] \in S
    BY <1>0, <2>1, ElementOfSeq
  <2>4. /\ a \in Seq(S) /\ Len(a) = k - 1
        /\ \A i \in 1 .. k - 1 : a[i] = list[i]
    BY <1>0, <2>1, <2>3, SubSeqProperties
  <2>5. /\ b \in Seq(S) /\ Len(b) = Len(list) - k
        /\ \A i \in 1 .. Len(list) - k : b[i] = list[i + k]
    <3>1. /\ b \in Seq(S)
          /\ Len(b) = IF k + 1 <= Len(list) THEN Len(list) - (k + 1) + 1 ELSE 0
          /\ \A i \in 1 .. Len(list) - (k + 1) + 1 : b[i] = list[(k + 1) + i - 1]
      BY <2>3, SubSeqProperties
    <3>2. Len(list) - (k + 1) + 1 = Len(list) - k
          /\ \A i \in 1 .. Len(list) - k : (k + 1) + i - 1 = i + k
      BY <1>0, <2>1
    <3>3. Len(b) = Len(list) - k
      BY <1>0, <2>1, <3>1
    <3> QED
      BY <3>1, <3>2, <3>3
  <2> HIDE DEF a, b
  <2>6. /\ a \o b \in Seq(S) /\ Len(a \o b) = Len(list) - 1
        /\ \A i \in 1 .. Len(list) - 1 :
             (a \o b)[i] = IF i < k THEN list[i] ELSE list[i + 1]
    <3>1. /\ a \o b \in Seq(S) /\ Len(a \o b) = Len(a) + Len(b)
          /\ \A i \in 1 .. Len(a) + Len(b) :
               (a \o b)[i] = IF i <= Len(a) THEN a[i] ELSE b[i - Len(a)]
      BY <2>4, <2>5, ConcatProperties
    <3>2. Len(a) + Len(b) = Len(list) - 1
      BY <1>0, <2>1, <2>4, <2>5
    <3>3. ASSUME NEW i \in 1 .. Len(list) - 1
          PROVE  (a \o b)[i] = IF i < k THEN list[i] ELSE list[i + 1]
      <4>1. CASE i < k
        <5>1. i \in 1 .. k - 1 /\ i <= Len(a)
          BY <1>0, <2>1, <2>4, <4>1
        <5> QED
          BY <2>4, <3>1, <3>2, <4>1, <5>1
      <4>2. CASE ~ (i < k)
        <5>1. /\ i - Len(a) \in 1 .. Len(list) - k /\ ~ (i <= Len(a))
              /\ (i - Len(a)) + k = i + 1
          BY <1>0, <2>1, <2>4, <4>2
        <5> QED
          BY <2>5, <3>1, <3>2, <4>2, <5>1
      <4> QED
        BY <4>1, <4>2
    <3> QED
      BY <3>1, <3>2, <3>3
  <2>7. ASSUME Distinct(list)
        PROVE  Distinct(a \o b)
    <3> SUFFICES ASSUME NEW i \in 1 .. Len(a \o b), NEW j \in 1 .. Len(a \o b),
                        (a \o b)[i] = (a \o b)[j]
                 PROVE  i = j
      BY DEF Distinct
    <3> DEFINE up(n) == IF n < k THEN n ELSE n + 1
    <3>1. up(i) \in 1 .. Len(list) /\ up(j) \in 1 .. Len(list)
      BY <1>0, <2>1, <2>6
    <3>2. (a \o b)[i] = list[up(i)] /\ (a \o b)[j] = list[up(j)]
      BY <2>6
    <3>3. up(i) = up(j)
      <4> HIDE DEF up
      <4> QED
        BY <2>7, <3>1, <3>2 DEF Distinct
    <3> QED
      BY <1>0, <2>1, <2>6, <3>3
  <2>8. ASSUME Distinct(list), Contains(a \o b, e)
        PROVE  FALSE
    <3>1. PICK i \in 1 .. Len(a \o b) : (a \o b)[i] = e
      BY <2>8 DEF Contains
    <3> DEFINE n == IF i < k THEN i ELSE i + 1
    <3>2. n \in 1 .. Len(list) /\ n # k
      BY <1>0, <2>1, <2>6
    <3>3. list[n] = e
      BY <2>6, <3>1
    <3> HIDE DEF n
    <3> QED
      BY <2>1, <2>8, <3>2, <3>3 DEF Distinct
  <2> QED
    BY <2>2, <2>6, <2>7, <2>8
<1> QED
  BY <1>1, <1>2

----------------------------------------------------------------------------
(* Types *)

Sources == Clients \cup {Server}
Event == [source : Sources, in : BOOLEAN]
Segment == {"file", "root", "head", "tail"}

LEMMA WakeType ==
    ASSUME ready \in Seq(Sources), NEW s \in Sources
    PROVE  /\ Wake(s) \in Seq(Sources)
           /\ Distinct(ready) => Distinct(Wake(s))
<1>1. CASE Contains(ready, s)
  BY <1>1 DEF Wake
<1>2. CASE ~ Contains(ready, s)
  <2>1. Append(ready, s) \in Seq(Sources)
    BY AppendProperties
  <2> QED
    BY <1>2, <2>1, DistinctAppend DEF Wake
<1> QED
  BY <1>1, <1>2

\* The event at the head of the batch.
LEMMA BatchType ==
    ASSUME batch \in Seq(Event), batch # <<>>
    PROVE  /\ Tail(batch) \in Seq(Event) /\ Head(batch) \in Event
           /\ Head(batch) = batch[1] /\ Len(batch) \in Nat \ {0}
           /\ Len(Tail(batch)) = Len(batch) - 1
           /\ \A i \in 1 .. Len(Tail(batch)) : Tail(batch)[i] = batch[i + 1]
  BY HeadTailProperties, EmptySeq

\* In the order of the queue: an event of the listening socket finds a
\* connection that waits, and every source has one event at most.
Queues ==
    /\ Distinct(ready) /\ Distinct(backlog)
    /\ \A i, j \in 1 .. Len(batch) : batch[i].source = batch[j].source => i = j
    /\ \A i \in 1 .. Len(backlog) : conn[backlog[i]] = "queued"
    /\ \A i \in 1 .. Len(batch) : batch[i].source = Server => backlog # <<>>

LEMMA AcceptingFacts ==
    ASSUME TypeOK, Queues, Accepting
    PROVE  /\ batch' \in Seq(Event) /\ backlog # <<>>
           /\ Head(backlog) \in Clients /\ Tail(backlog) \in Seq(Clients)
           /\ conn[Head(backlog)] = "queued"
           /\ Distinct(Tail(backlog))
           /\ \A i \in 1 .. Len(Tail(backlog)) :
                /\ conn[Tail(backlog)[i]] = "queued"
                /\ Tail(backlog)[i] # Head(backlog)
           /\ \A i, j \in 1 .. Len(batch') : batch'[i].source = batch'[j].source => i = j
           /\ \A i \in 1 .. Len(batch') : batch'[i].source # Server
<1>1. /\ batch' = Tail(batch) /\ batch' \in Seq(Event) /\ batch[1].source = Server
      /\ Len(batch) \in Nat \ {0} /\ Len(batch') = Len(batch) - 1
      /\ \A i \in 1 .. Len(batch') : batch'[i] = batch[i + 1]
  BY BatchType DEF Accepting, TypeOK, Event, Sources
<1>2. 1 \in 1 .. Len(batch) /\ \A i \in 1 .. Len(batch') : i + 1 \in 1 .. Len(batch)
  BY <1>1
<1>3. backlog # <<>>
  BY <1>1, <1>2 DEF Queues
<1>4. \A i, j \in 1 .. Len(batch') : batch'[i].source = batch'[j].source => i = j
  <2> SUFFICES ASSUME NEW i \in 1 .. Len(batch'), NEW j \in 1 .. Len(batch'),
                      batch'[i].source = batch'[j].source
               PROVE  i = j
    OBVIOUS
  <2>1. i + 1 = j + 1
    BY <1>1, <1>2 DEF Queues
  <2> QED
    BY <2>1
<1>5. \A i \in 1 .. Len(batch') : batch'[i].source # Server
  BY <1>1, <1>2 DEF Queues
<1>6. /\ Head(backlog) \in Clients /\ Tail(backlog) \in Seq(Clients)
      /\ Head(backlog) = backlog[1] /\ Len(backlog) \in Nat \ {0}
      /\ Distinct(Tail(backlog)) /\ 1 \in 1 .. Len(backlog)
      /\ \A i \in 1 .. Len(Tail(backlog)) :
           /\ Tail(backlog)[i] = backlog[i + 1] /\ i + 1 \in 1 .. Len(backlog)
           /\ Tail(backlog)[i] # Head(backlog)
  BY <1>3, DistinctTail DEF TypeOK, Queues
<1> QED
  BY <1>1, <1>3, <1>4, <1>5, <1>6 DEF Queues

LEMMA Init1 == Init => TypeOK
<1>1. <<>> \in Seq(Segment) /\ <<>> \in Seq(Clients) /\ <<>> \in Seq(Sources)
      /\ <<>> \in Seq(Event)
  OBVIOUS
<1> QED
  BY <1>1 DEF Init, TypeOK, Segment, Sources, Event

LEMMA TypeClient ==
    ASSUME TypeOK, NEW c \in Clients, ClientStep(c)
    PROVE  TypeOK'
<1>1. Wake(c) \in Seq(Sources) /\ Wake(Server) \in Seq(Sources)
  BY WakeType DEF TypeOK, Sources
<1>2. CASE Connect(c)
  <2>1. backlog' \in Seq(Clients)
    BY <1>2, AppendProperties DEF Connect, TypeOK
  <2> QED
    BY <1>1, <1>2, <2>1 DEF Connect, TypeOK, clientVars, req, Sources
<1>3. CASE Send(c)
  <2>1. script[c] \in Seq(Segment) /\ sent[c] + 1 \in 1 .. Len(script[c])
    BY <1>3, ScriptAssumption, LenProperties DEF Send, TypeOK, Segment
  <2>2. script[c][sent[c] + 1] \in Segment
    BY <2>1, ElementOfSeq
  <2>3. Append(inbox[c], script[c][sent[c] + 1]) \in Seq(Segment)
    BY <2>2, AppendProperties DEF TypeOK, Segment
  <2>4. inbox' \in [Clients -> Seq(Segment)] /\ sent' \in [Clients -> Nat]
    BY <1>3, <2>3 DEF Send, TypeOK, Segment
  <2>5. ready' \in Seq(Sources)
    BY <1>1, <1>3 DEF Send, Arrival, TypeOK, Sources
  <2> QED
    BY <1>3, <2>4, <2>5 DEF Send, TypeOK, req, Segment, Sources
<1>4. CASE Hangup(c)
  <2>1. ready' \in Seq(Sources)
    BY <1>1, <1>4 DEF Hangup, Arrival, TypeOK, Sources
  <2> QED
    BY <1>4, <2>1 DEF Hangup, TypeOK, req, Sources
<1> QED
  BY <1>2, <1>3, <1>4 DEF ClientStep

\* What epoll_wait reports.
Reported == IF backlog # <<>> THEN ready ELSE Without(ready, Server)

LEMMA ReportedFacts ==
    ASSUME TypeOK, EpollWait
    PROVE  /\ Reported \in Seq(Sources) /\ batch' \in Seq(Event)
           /\ Len(batch') = Len(Reported)
           /\ \A i \in 1 .. Len(batch') : batch'[i].source = Reported[i]
<1>1. Reported \in Seq(Sources) /\ Len(Reported) \in Nat
  <2>1. ready \in Seq(Sources)
    BY DEF TypeOK, Sources
  <2>2. Reported \in Seq(Sources)
    BY <2>1, WithoutIsThinner DEF Reported
  <2> QED
    BY <2>2, LenProperties
<1>2. batch' = [i \in 1 .. Len(Reported) |->
           [source |-> Reported[i],
            in |-> Reported[i] # Server /\
                     (inbox[Reported[i]] # <<>> \/ gone[Reported[i]])]]
  BY DEF EpollWait, Reported
<1>3. \A i \in 1 .. Len(Reported) : Reported[i] \in Sources
  BY <1>1, ElementOfSeq
<1>4. \A i \in 1 .. Len(Reported) : batch'[i] \in Event /\ batch'[i].source = Reported[i]
  <2> TAKE i \in 1 .. Len(Reported)
  <2>1. (Reported[i] # Server /\ (inbox[Reported[i]] # <<>> \/ gone[Reported[i]]))
           \in BOOLEAN
    OBVIOUS
  <2> QED
    BY <1>2, <1>3, <2>1 DEF Event
<1>5. batch' \in Seq(Event) /\ Len(batch') = Len(Reported)
  BY <1>1, <1>2, <1>4
<1> QED
  BY <1>1, <1>4, <1>5

LEMMA TypeServer ==
    ASSUME TypeOK, Queues, UrlOfSock, CountExact, ServerStep
    PROVE  TypeOK'
<1>1. CASE EpollWait
  <2>1. batch' \in Seq(Event)
    BY <1>1, ReportedFacts
  <2> QED
    BY <1>1, <2>1 DEF EpollWait, TypeOK, clientVars, req, Event, Sources
<1>2. CASE EndOfBatch
  BY <1>2 DEF EndOfBatch, TypeOK, clientVars, req
<1>3. CASE AcceptFails
  <2>1. batch' \in Seq(Event)
    BY <1>3, AcceptingFacts DEF AcceptFails
  <2> QED
    BY <1>3, <2>1 DEF AcceptFails, TypeOK, clientVars, req, Event, Sources
<1>4. CASE AcceptRefuses
  <2>1. /\ batch' \in Seq(Event) /\ Head(backlog) \in Clients
        /\ Tail(backlog) \in Seq(Clients)
    BY <1>4, AcceptingFacts DEF AcceptRefuses
  <2> QED
    BY <1>4, <2>1 DEF AcceptRefuses, TypeOK, clientVars, Event, Sources
<1>5. CASE Accept
  <2>1. /\ batch' \in Seq(Event) /\ Head(backlog) \in Clients
        /\ Tail(backlog) \in Seq(Clients)
    BY <1>5, AcceptingFacts DEF Accept
  <2>2. Wake(Head(backlog)) \in Seq(Sources)
    BY <2>1, WakeType DEF TypeOK, Sources
  <2>3. conn' \in [Clients -> {"none", "queued", "open", "closed"}]
    BY <1>5 DEF Accept, TypeOK
  <2>5. ev_count' \in Nat
    BY <1>5 DEF Accept, TypeOK
  <2>4. sock' \in Clients \cup {NoSock} /\ ready' \in Seq(Sources)
    BY <1>5, <2>1, <2>2 DEF Accept
  <2> QED
    BY <1>5, <2>1, <2>3, <2>4, <2>5 DEF Accept, TypeOK, clientVars, Event, Sources
<1>6. CASE ConnEvent
  <2>1. Tail(batch) \in Seq(Event)
    BY <1>6, BatchType DEF ConnEvent, TypeOK, Event, Sources
  <2> QED
    BY <1>6, <2>1 DEF ConnEvent, TypeOK, clientVars, req, Event, Sources
<1>7. CASE RecvFails
  BY <1>7 DEF RecvFails, TypeOK, clientVars, req
<1>8. CASE RecvNothing
  BY <1>8 DEF RecvNothing, TypeOK, clientVars, Receivable
<1>9. CASE Recv
  <2>1. <<>> \in Seq(Segment)
    OBVIOUS
  <2>2. inbox' \in [Clients -> Seq(Segment)]
    BY <1>9, <2>1 DEF Recv, TypeOK, Segment
  <2>3. /\ url' \in {"none", "file", "garbled"} /\ leftover' \in {"none", "masked", "plain"}
        /\ from' \in Clients \cup {NoSock} /\ at' \in {"wait", "next", "reading", "writing"}
    BY <1>9 DEF Recv, TypeOK, Parsed, Parses, PartParses, Receivable
  <2> QED
    BY <1>9, <2>2, <2>3 DEF Recv, TypeOK, clientVars, Segment
<1>10. CASE Respond
  <2>1. ready' \in Seq(Sources)
    BY <1>10, WithoutIsThinner DEF Respond, TypeOK, Sources
  <2>2. sock \in Clients /\ from = sock
    BY <1>10 DEF Respond, UrlOfSock, Open
  <2>3. Append(answer[sock], from) \in Seq(Clients)
    BY <2>2, AppendProperties DEF TypeOK
  <2>4. answer' \in [Clients -> Seq(Clients)] /\ conn' \in [Clients -> {"none", "queued", "open", "closed"}]
    BY <1>10, <2>2, <2>3 DEF Respond, TypeOK
  <2>5. ev_count' \in Nat
    <3>1. Cardinality(Open) \in Nat /\ Cardinality(Open) > 0
      <4>1. IsFiniteSet(Open) /\ Open # {}
        BY <1>10, ClientsAssumption, FS_Subset DEF Respond, UrlOfSock, Open
      <4> QED
        BY <4>1, FS_CardinalityType, FS_EmptySet
    <3> QED
      BY <1>10, <3>1 DEF Respond, CountExact, TypeOK
  <2> QED
    BY <1>10, <2>1, <2>4, <2>5 DEF Respond, TypeOK, ClearReq, clientVars, Sources
<1>11. CASE RespondNothing
  BY <1>11 DEF RespondNothing, TypeOK, clientVars, req
<1> QED
  BY <1>1, <1>2, <1>3, <1>4, <1>5, <1>6, <1>7, <1>8, <1>9, <1>10, <1>11 DEF ServerStep

----------------------------------------------------------------------------
(* The lists of kernel and server *)

LEMMA Init2 == Init => Queues
<1> SUFFICES ASSUME Init PROVE Queues
  OBVIOUS
<1>1. backlog = <<>> /\ ready = <<>> /\ batch = <<>> /\ Len(<<>>) = 0
  BY DEF Init
<1> QED
  BY <1>1 DEF Queues, Distinct

LEMMA QueuesConnect ==
    ASSUME TypeOK, Queues, NEW c \in Clients, Connect(c)
    PROVE  Queues'
<1>1. Distinct(ready')
  BY WakeType DEF Connect, TypeOK, Queues, Sources
<1>2. ~ Contains(backlog, c)
  BY DEF Connect, Queues, Contains
<1>3. Distinct(backlog')
  BY <1>2, DistinctAppend DEF Connect, TypeOK, Queues
<1>4. /\ Len(backlog) \in Nat /\ Len(backlog') = Len(backlog) + 1
      /\ \A i \in 1 .. Len(backlog) : backlog'[i] = backlog[i]
      /\ backlog'[Len(backlog) + 1] = c /\ backlog' # <<>>
  <2>1. backlog \in Seq(Clients) /\ backlog' = Append(backlog, c)
    BY DEF Connect, TypeOK
  <2> QED
    BY <2>1, AppendProperties, LenProperties
<1>5. \A i \in 1 .. Len(backlog') : i \in 1 .. Len(backlog) \/ i = Len(backlog) + 1
  BY <1>4
<1>6. \A i \in 1 .. Len(backlog) : backlog[i] \in Clients
  BY ElementOfSeq DEF TypeOK
<1>7. \A d \in Clients : conn'[d] = IF d = c THEN "queued" ELSE conn[d]
  BY DEF Connect, TypeOK
<1>8. \A i \in 1 .. Len(backlog') : conn'[backlog'[i]] = "queued"
  BY <1>4, <1>5, <1>6, <1>7 DEF Queues
<1>9. batch' = batch
  BY DEF Connect
<1> QED
  BY <1>1, <1>3, <1>4, <1>8, <1>9 DEF Queues, Distinct

LEMMA QueuesClient ==
    ASSUME TypeOK, Queues, NEW c \in Clients, Send(c) \/ Hangup(c)
    PROVE  Queues'
<1>1. Distinct(ready')
  BY WakeType DEF Send, Hangup, Arrival, TypeOK, Queues, Sources
<1>2. batch' = batch /\ backlog' = backlog /\ conn' = conn
  BY DEF Send, Hangup
<1> QED
  BY <1>1, <1>2 DEF Queues, Distinct

\* Steps that accept or refuse a connection, or fail to.
LEMMA QueuesAccepting ==
    ASSUME TypeOK, Queues, AcceptFails \/ AcceptRefuses \/ Accept
    PROVE  Queues'
<1>1. Accepting
  BY DEF AcceptFails, AcceptRefuses, Accept
<1>2. /\ Head(backlog) \in Clients /\ Tail(backlog) \in Seq(Clients)
      /\ Distinct(Tail(backlog))
      /\ \A i \in 1 .. Len(Tail(backlog)) :
           /\ conn[Tail(backlog)[i]] = "queued" /\ Tail(backlog)[i] # Head(backlog)
      /\ \A i, j \in 1 .. Len(batch') : batch'[i].source = batch'[j].source => i = j
      /\ \A i \in 1 .. Len(batch') : batch'[i].source # Server
  BY <1>1, AcceptingFacts
<1>3. CASE AcceptFails
  <2>1. ready' = ready /\ backlog' = backlog /\ conn' = conn
    BY <1>3 DEF AcceptFails
  <2> QED
    BY <1>2, <2>1 DEF Queues, Distinct
<1>4. CASE AcceptRefuses \/ Accept
  <2>1. Distinct(ready')
    BY <1>2, <1>4, WakeType DEF AcceptRefuses, Accept, TypeOK, Queues, Sources
  <2>2. backlog' = Tail(backlog)
    BY <1>4 DEF AcceptRefuses, Accept
  <2>3. \A i \in 1 .. Len(Tail(backlog)) : Tail(backlog)[i] \in Clients
    BY <1>2, ElementOfSeq
  <2>4. \A d \in Clients : d # Head(backlog) => conn'[d] = conn[d]
    BY <1>4 DEF AcceptRefuses, Accept, TypeOK
  <2>5. \A i \in 1 .. Len(backlog') : conn'[backlog'[i]] = "queued"
    BY <1>2, <2>2, <2>3, <2>4
  <2> QED
    BY <1>2, <2>1, <2>2, <2>5 DEF Queues, Distinct
<1> QED
  BY <1>3, <1>4

LEMMA QueuesEpollWait ==
    ASSUME TypeOK, Queues, EpollWait
    PROVE  Queues'
<1>1. Len(batch') = Len(Reported) /\ \A i \in 1 .. Len(batch') : batch'[i].source = Reported[i]
  BY ReportedFacts
<1>2. Distinct(Reported) /\ (backlog = <<>> => ~ Contains(Reported, Server))
  BY WithoutIsThinner DEF Reported, Queues, TypeOK
<1>3. backlog' = backlog /\ conn' = conn /\ ready' = <<>>
  BY DEF EpollWait
<1>4. Distinct(ready')
  BY <1>3 DEF Distinct
<1>5. \A i, j \in 1 .. Len(batch') : batch'[i].source = batch'[j].source => i = j
  BY <1>1, <1>2 DEF Distinct
<1>6. \A i \in 1 .. Len(batch') : batch'[i].source = Server => backlog' # <<>>
  BY <1>1, <1>2, <1>3 DEF Contains
<1> QED
  BY <1>3, <1>4, <1>5, <1>6 DEF Queues, Distinct

LEMMA QueuesConnEvent ==
    ASSUME TypeOK, Queues, ConnEvent
    PROVE  Queues'
<1>1. /\ batch' = Tail(batch) /\ Len(batch) \in Nat \ {0} /\ Len(batch') = Len(batch) - 1
      /\ \A i \in 1 .. Len(batch') : batch'[i] = batch[i + 1]
  BY BatchType DEF ConnEvent, TypeOK, Event, Sources
<1>2. \A i \in 1 .. Len(batch') : i + 1 \in 1 .. Len(batch)
  BY <1>1
<1>3. ready' = ready /\ backlog' = backlog /\ conn' = conn
  BY DEF ConnEvent
<1>4. \A i, j \in 1 .. Len(batch') : batch'[i].source = batch'[j].source => i = j
  <2> SUFFICES ASSUME NEW i \in 1 .. Len(batch'), NEW j \in 1 .. Len(batch'),
                      batch'[i].source = batch'[j].source
               PROVE  i = j
    OBVIOUS
  <2>1. i + 1 = j + 1
    BY <1>1, <1>2 DEF Queues
  <2> QED
    BY <2>1
<1>5. \A i \in 1 .. Len(batch') : batch'[i].source = Server => backlog # <<>>
  BY <1>1, <1>2 DEF Queues
<1> QED
  BY <1>3, <1>4, <1>5 DEF Queues, Distinct

LEMMA QueuesRespond ==
    ASSUME TypeOK, Queues, UrlOfSock, Respond
    PROVE  Queues'
<1>1. Distinct(ready')
  BY WithoutIsThinner DEF Respond, TypeOK, Queues
<1>2. batch' = batch /\ backlog' = backlog
  BY DEF Respond
<1>3. sock \in Clients /\ conn[sock] = "open"
  BY DEF Respond, UrlOfSock, Open
<1>4. \A d \in Clients : conn[d] = "queued" => conn'[d] = "queued"
  BY <1>3 DEF Respond, TypeOK
<1>5. \A i \in 1 .. Len(backlog) : backlog[i] \in Clients
  BY ElementOfSeq DEF TypeOK
<1> QED
  BY <1>1, <1>2, <1>4, <1>5 DEF Queues, Distinct

LEMMA Step2 ==
    ASSUME TypeOK, Queues, UrlOfSock, [Next]_vars
    PROVE  Queues'
<1>1. CASE EndOfBatch \/ RecvFails \/ RecvNothing \/ Recv \/ RespondNothing \/ UNCHANGED vars
  <2>1. ready' = ready /\ backlog' = backlog /\ conn' = conn /\ batch' = batch
    BY <1>1 DEF EndOfBatch, RecvFails, RecvNothing, Recv, RespondNothing, vars
  <2> QED
    BY <2>1 DEF Queues, Distinct
<1> QED
  BY <1>1, QueuesConnect, QueuesClient, QueuesAccepting, QueuesEpollWait, QueuesConnEvent,
     QueuesRespond
  DEF Next, ServerStep, ClientStep

----------------------------------------------------------------------------
(* The URL in req, and the count of sockets *)

LEMMA Init3 == Init => UrlOfSock /\ CountExact
<1> SUFFICES ASSUME Init PROVE UrlOfSock /\ CountExact
  OBVIOUS
<1>1. Open = {}
  BY DEF Init, Open
<1>2. ev_count = 1 + Cardinality(Open) /\ ev_count <= Limit
  BY <1>1, FS_EmptySet, LimitAssumption DEF Init
<1> QED
  BY <1>2 DEF Init, UrlOfSock, CountExact

\* What the steps do to the open connections.
LEMMA OpenSets ==
    ASSUME TypeOK, Queues, UrlOfSock, [Next]_vars
    PROVE  /\ Accept => /\ Open' = Open \cup {Head(backlog)}
                        /\ Head(backlog) \in Clients \ Open
           /\ Respond => Open' = Open \ {sock} /\ sock \in Open
           /\ ~Accept /\ ~Respond => Open' = Open
<1>1. CASE Accept
  <2>1. Head(backlog) \in Clients /\ conn[Head(backlog)] = "queued"
    BY <1>1, AcceptingFacts DEF Accept
  <2>2. Accepting /\ ~ Respond
    BY <1>1 DEF Accept, Accepting, Respond
  <2> QED
    BY <1>1, <2>1, <2>2 DEF Accept, Open, TypeOK
<1>2. CASE Respond
  <2>1. sock \in Clients /\ conn[sock] = "open" /\ ~ Accept
    BY <1>2 DEF Respond, UrlOfSock, Open, Accept, Accepting
  <2> QED
    BY <1>2, <2>1 DEF Respond, Open, TypeOK, Receivable
<1>3. CASE ~Accept /\ ~Respond
  <2>1. CASE AcceptRefuses
    <3>1. Head(backlog) \in Clients /\ conn[Head(backlog)] = "queued"
      BY <2>1, AcceptingFacts DEF AcceptRefuses
    <3> QED
      BY <1>3, <2>1, <3>1 DEF AcceptRefuses, Open, TypeOK
  <2>2. CASE \E c \in Clients : Connect(c)
    BY <1>3, <2>2 DEF Connect, Open, TypeOK
  <2>3. CASE conn' = conn
    BY <1>3, <2>3 DEF Open
  <2> QED
    BY <1>3, <2>1, <2>2, <2>3
    DEF Next, ServerStep, ClientStep, Send, Hangup, EpollWait, EndOfBatch, AcceptFails,
        ConnEvent, RecvFails, RecvNothing, Recv, RespondNothing, vars
<1> QED
  BY <1>1, <1>2, <1>3

LEMMA UrlStep ==
    ASSUME TypeOK, Queues, UrlOfSock, [Next]_vars
    PROVE  UrlOfSock'
<1>1. CASE Accept \/ AcceptRefuses \/ AcceptFails \/ EpollWait \/ EndOfBatch \/ ConnEvent
  <2>1. at # "writing"
    BY <1>1 DEF Accept, AcceptRefuses, AcceptFails, Accepting, EpollWait, EndOfBatch,
                ConnEvent
  <2>2. CASE Accept \/ AcceptRefuses \/ AcceptFails
    <3>1. url' = url
      BY <2>2 DEF Accept, AcceptRefuses, AcceptFails, req
    <3> QED
      BY <2>1, <3>1 DEF UrlOfSock
  <2>3. CASE EpollWait
    <3>1. url' = url
      BY <2>3 DEF EpollWait, req
    <3> QED
      BY <2>1, <3>1 DEF UrlOfSock
  <2>4. CASE EndOfBatch \/ ConnEvent
    <3>1. url' = url
      BY <2>4 DEF EndOfBatch, ConnEvent, req
    <3> QED
      BY <2>1, <3>1 DEF UrlOfSock
  <2> QED
    BY <1>1, <2>2, <2>3, <2>4
<1>2. CASE RecvFails \/ RecvNothing
  <2>1. url' = "none"
    BY <1>2 DEF RecvFails, RecvNothing, req, UrlOfSock
  <2> QED
    BY <2>1 DEF UrlOfSock
<1>3. CASE Recv
  <2>1. sock \in Open /\ Open' = Open /\ sock' = sock
    BY <1>3 DEF Recv, Receivable, Open
  <2>2. \/ at' = "writing" /\ from' = sock
        \/ url' = url /\ url = "none"
    BY <1>3 DEF Recv, Parsed, UrlOfSock
  <2> QED
    BY <2>1, <2>2 DEF UrlOfSock
<1>4. CASE Respond
  BY <1>4 DEF Respond, ClearReq, UrlOfSock
<1>5. CASE RespondNothing
  BY <1>5 DEF RespondNothing, req, UrlOfSock
<1>6. CASE (\E c \in Clients : ClientStep(c)) \/ UNCHANGED vars
  <2>1. url' = url /\ at' = at /\ from' = from /\ sock' = sock
    BY <1>6 DEF ClientStep, Connect, Send, Hangup, req, vars
  <2>2. Open \subseteq Open'
    BY <1>6 DEF ClientStep, Connect, Send, Hangup, vars, Open, TypeOK
  <2> QED
    BY <2>1, <2>2 DEF UrlOfSock
<1> QED
  BY <1>1, <1>2, <1>3, <1>4, <1>5, <1>6 DEF Next, ServerStep

LEMMA CountStep ==
    ASSUME TypeOK, Queues, UrlOfSock, CountExact, [Next]_vars
    PROVE  CountExact'
<1>0. IsFiniteSet(Open) /\ Cardinality(Open) \in Nat
  <2>1. IsFiniteSet(Open)
    BY ClientsAssumption, FS_Subset DEF Open
  <2> QED
    BY <2>1, FS_CardinalityType
<1>1. CASE Accept
  <2>1. Cardinality(Open') = Cardinality(Open) + 1
    BY <1>0, <1>1, OpenSets, FS_AddElement
  <2>2. ev_count' = ev_count + 1 /\ ev_count # Limit
    BY <1>1 DEF Accept
  <2> QED
    BY <1>0, <2>1, <2>2, LimitAssumption DEF CountExact
<1>2. CASE Respond
  <2>1. Cardinality(Open') = Cardinality(Open) - 1
    BY <1>0, <1>2, OpenSets, FS_RemoveElement
  <2>2. ev_count' = ev_count - 1
    BY <1>2 DEF Respond
  <2> QED
    BY <1>0, <2>1, <2>2, LimitAssumption DEF CountExact
<1>3. CASE ~Accept /\ ~Respond
  <2>1. Open' = Open
    BY <1>3, OpenSets
  <2>2. ev_count' = ev_count
    BY <1>3 DEF Next, ServerStep, ClientStep, Connect, Send, Hangup, EpollWait, EndOfBatch,
        AcceptFails, AcceptRefuses, ConnEvent, RecvFails, RecvNothing, Recv, RespondNothing, vars
  <2> QED
    BY <2>1, <2>2 DEF CountExact
<1> QED
  BY <1>1, <1>2, <1>3

----------------------------------------------------------------------------
(* The answers *)

\* Who was answered has sent something and is closed; what is received, and the
\* URL in req, come from somebody who has sent something.
Answers ==
    /\ \A c \in Clients :
         /\ inbox[c] # <<>> => sent[c] > 0
         /\ answer[c] \in {<<>>, <<c>>}
         /\ answer[c] # <<>> => conn[c] = "closed" /\ sent[c] > 0
    /\ url # "none" => sent[from] > 0

LEMMA Init4 == Init => Answers
  BY DEF Init, Answers

LEMMA AnswersStep ==
    ASSUME TypeOK, Queues, UrlOfSock, Answers, [Next]_vars
    PROVE  Answers'
<1>1. CASE Respond
  <2>1. sock \in Clients /\ from = sock /\ conn[sock] = "open" /\ url # "none"
    BY <1>1 DEF Respond, UrlOfSock, Open
  <2>2. answer[sock] = <<>> /\ sent[sock] > 0 /\ Append(<<>>, sock) = <<sock>>
    BY <2>1 DEF Answers
  <2>3. sent' = sent /\ inbox' = inbox /\ url' = "none"
    BY <1>1 DEF Respond, clientVars, ClearReq
  <2>4. conn'[sock] = "closed" /\ \A c \in Clients : c # sock => conn'[c] = conn[c]
    BY <1>1, <2>1 DEF Respond, Receivable, TypeOK
  <2>5. /\ answer'[sock] \in {<<>>, <<sock>>}
        /\ \A c \in Clients : c # sock => answer'[c] = answer[c]
    BY <1>1, <2>1, <2>2 DEF Respond, TypeOK
  <2> QED
    BY <2>2, <2>3, <2>4, <2>5 DEF Answers
<1>2. CASE Recv
  <2>1. sock \in Clients /\ sent[sock] > 0
    BY <1>2 DEF Recv, Receivable, Answers
  <2>2. sent' = sent /\ answer' = answer /\ conn' = conn
    BY <1>2 DEF Recv, clientVars
  <2>3. \A c \in Clients : inbox'[c] = inbox[c] \/ inbox'[c] = <<>>
    BY <1>2, <2>1 DEF Recv, TypeOK
  <2>4. url' # "none" => sent[from'] > 0
    BY <1>2, <2>1 DEF Recv, Parsed, Answers
  <2> QED
    BY <2>2, <2>3, <2>4 DEF Answers
<1>3. CASE AcceptRefuses \/ Accept
  <2>1. Head(backlog) \in Clients /\ conn[Head(backlog)] = "queued"
    BY <1>3, AcceptingFacts DEF AcceptRefuses, Accept
  <2>2. /\ sent' = sent /\ answer' = answer /\ inbox' = inbox /\ url' = url /\ from' = from
        /\ \A c \in Clients : c # Head(backlog) => conn'[c] = conn[c]
    BY <1>3 DEF AcceptRefuses, Accept, clientVars, TypeOK
  <2> QED
    BY <2>1, <2>2 DEF Answers
<1>4. CASE RecvNothing
  <2>1. /\ sent' = sent /\ answer' = answer /\ conn' = conn /\ inbox' = inbox
        /\ url' = "none"
    BY <1>4 DEF RecvNothing, clientVars, UrlOfSock
  <2> QED
    BY <2>1 DEF Answers
<1>5. ASSUME NEW c \in Clients, Send(c)
      PROVE  Answers'
  <2>1. /\ answer' = answer /\ conn' = conn /\ url' = url /\ from' = from
        /\ sent'[c] = sent[c] + 1 /\ sent[c] \in Nat
        /\ \A d \in Clients : d # c => sent'[d] = sent[d] /\ inbox'[d] = inbox[d]
    BY <1>5 DEF Send, req, TypeOK
  <2>2. url # "none" => from \in Clients
    BY DEF UrlOfSock, Open
  <2>3. \A d \in Clients : sent[d] > 0 => sent'[d] > 0
    BY <2>1
  <2> QED
    BY <2>1, <2>2, <2>3 DEF Answers
<1>6. ASSUME NEW c \in Clients, Connect(c)
      PROVE  Answers'
  <2>1. /\ answer' = answer /\ inbox' = inbox /\ sent' = sent /\ url' = url /\ from' = from
        /\ conn[c] = "none" /\ \A d \in Clients : d # c => conn'[d] = conn[d]
    BY <1>6 DEF Connect, clientVars, req, TypeOK
  <2> QED
    BY <2>1 DEF Answers
<1>7. CASE \/ EpollWait \/ EndOfBatch \/ AcceptFails \/ ConnEvent \/ RecvFails
           \/ RespondNothing \/ UNCHANGED vars \/ \E c \in Clients : Hangup(c)
  <2>1. /\ answer' = answer /\ conn' = conn /\ inbox' = inbox /\ sent' = sent
        /\ url' = url /\ from' = from
    BY <1>7 DEF EpollWait, EndOfBatch, AcceptFails, ConnEvent, RecvFails, RespondNothing,
                Hangup, vars, clientVars, req
  <2> QED
    BY <2>1 DEF Answers
<1> QED
  BY <1>1, <1>2, <1>3, <1>4, <1>5, <1>6, <1>7 DEF Next, ServerStep, ClientStep

----------------------------------------------------------------------------
(* The theorems *)

IInv == TypeOK /\ Queues /\ UrlOfSock /\ CountExact /\ Answers

LEMMA Inductive == Spec => []IInv
<1>1. Init => IInv
  BY Init1, Init2, Init3, Init4 DEF IInv
<1>2. IInv /\ [Next]_vars => IInv'
  <2> SUFFICES ASSUME IInv, [Next]_vars PROVE IInv'
    OBVIOUS
  <2>1. TypeOK /\ Queues /\ UrlOfSock /\ CountExact /\ Answers
    BY DEF IInv
  <2>2. TypeOK'
    <3>1. CASE UNCHANGED vars
      BY <2>1, <3>1 DEF vars, clientVars, req, TypeOK
    <3> QED
      BY <2>1, <3>1, TypeClient, TypeServer DEF Next
  <2> QED
    BY <2>1, <2>2, Step2, UrlStep, CountStep, AnswersStep DEF IInv
<1> QED
  BY <1>1, <1>2, PTL DEF Spec

\* hw12-webserver/main.c: main's local state, req and what the kernel keeps.
THEOREM TypeCorrect == Spec => []TypeOK
<1>1. IInv => TypeOK
  BY DEF IInv
<1> QED
  BY <1>1, Inductive, PTL

\* ev_count is the number of registered sockets and stays within the limit, stale
\* events, refusals and failures of accept included.
THEOREM CountAlwaysExact == Spec => []CountExact
<1>1. IInv => CountExact
  BY DEF IInv
<1> QED
  BY <1>1, Inductive, PTL

\* A URL that waits in req was received from the socket in req, which is open.
THEOREM UrlBelongsToSock == Spec => []UrlOfSock
<1>1. IInv => UrlOfSock
  BY DEF IInv
<1> QED
  BY <1>1, Inductive, PTL

\* One request record for all connections, and still nobody gets the answer to
\* another one's request, or two answers.
THEOREM AnswersAreOwn == Spec => []AnswersOwnRequest
<1>1. IInv => AnswersOwnRequest
  <2> SUFFICES ASSUME IInv, NEW c \in Clients
               PROVE  /\ Len(answer[c]) <= 1
                      /\ \A i \in DOMAIN answer[c] : answer[c][i] = c /\ sent[c] > 0
    BY DEF AnswersOwnRequest
  <2>1. /\ answer[c] = <<>> \/ answer[c] = <<c>>
        /\ answer[c] # <<>> => sent[c] > 0
    BY DEF IInv, Answers
  <2>2. CASE answer[c] = <<>>
    BY <2>2
  <2>3. CASE answer[c] = <<c>>
    <3>1. Len(answer[c]) = 1 /\ DOMAIN answer[c] = {1} /\ answer[c][1] = c /\ answer[c] # <<>>
      BY <2>3
    <3> QED
      BY <2>1, <3>1
  <2> QED
    BY <2>1, <2>2, <2>3
<1> QED
  BY <1>1, Inductive, PTL
=============================================================================
