------------------------------ MODULE WebServer ------------------------------
(***************************************************************************)
(* The HTTP server (src/hw12-webserver/main.c): one thread around an       *)
(* edge-triggered epoll.  There is a single request record req for all     *)
(* connections: accept stores the new socket in it, and the event of any   *)
(* connection works on the socket it finds there.                          *)
(*                                                                         *)
(* Clients connect, send their request in one or two segments and may      *)
(* close at any time.  A segment is the whole request for a file, the      *)
(* request "GET / ..." (parse_url skips the slash: its URL is empty), or   *)
(* the first or the second part of a request (the first has no blank line  *)
(* yet).  The kernel is external: the accept queue, the receive queues and *)
(* the ready list of epoll.  One recv is one step, so that segments arrive *)
(* between the calls of the loop in read_req.                              *)
(***************************************************************************)
EXTENDS Naturals, SequencesExt

CONSTANTS
    Clients,
    Scripts,        \* what a client can send: a sequence of segments each
    Limit,          \* EPOLL_MAX - 1
    Server,         \* the listening socket in the ready list
    NoSock          \* req.sock == 0: no connection (recv fails on stdin)

ASSUME ScriptAssumption == Scripts \subseteq Seq({"file", "root", "head", "tail"})
ASSUME LimitAssumption == Limit \in Nat \ {0}
ASSUME ClientsAssumption == IsFiniteSet(Clients)
ASSUME SockAssumption == Server \notin Clients /\ NoSock \notin Clients

VARIABLES
    script, sent,           \* what each client will send, and how much it has
    conn,                   \* the connection of a client
    inbox,                  \* segments that arrived and were not received
    gone,                   \* the client has closed its end
    answer,                 \* whose requests were answered to a client
    backlog,                \* connections that wait for accept
    ready,                  \* the ready list of epoll
    batch,                  \* events[i..clients-1]
    at,                     \* where the loop of main is
    sock, url, from,        \* req: the socket, the URL, and whose URL it is
    leftover,               \* a blank line of an earlier request in req_buf
    ev_count

clientVars == <<script, sent, gone>>
req == <<sock, url, from, leftover>>
vars == <<clientVars, conn, inbox, answer, backlog, ready, batch, at, req, ev_count>>

Init ==
    /\ script \in [Clients -> Scripts]
    /\ sent = [c \in Clients |-> 0]
    /\ conn = [c \in Clients |-> "none"]
    /\ inbox = [c \in Clients |-> <<>>]
    /\ gone = [c \in Clients |-> FALSE]
    /\ answer = [c \in Clients |-> <<>>]
    /\ backlog = <<>>
    /\ ready = <<>>
    /\ batch = <<>>
    /\ at = "wait"
    /\ sock = NoSock
    /\ url = "none"
    /\ from = NoSock
    /\ leftover = "none"
    /\ ev_count = 1

----------------------------------------------------------------------------
(* Clients and kernel *)

\* An edge puts a source on the ready list once.
Wake(source) == IF Contains(ready, source) THEN ready ELSE Append(ready, source)

\* A source is taken off the list.
Without(list, source) ==
    IF Contains(list, source)
    THEN RemoveAt(list, CHOOSE i \in 1 .. Len(list) : list[i] = source)
    ELSE list

Connect(c) ==
    /\ conn[c] = "none"
    /\ conn' = [conn EXCEPT ![c] = "queued"]
    /\ backlog' = Append(backlog, c)
    /\ ready' = Wake(Server)
    /\ UNCHANGED <<clientVars, inbox, answer, batch, at, req, ev_count>>

\* A connection that waits for accept is not on the ready list.
Arrival(c) == ready' = IF conn[c] = "open" THEN Wake(c) ELSE ready

Send(c) ==
    /\ conn[c] \in {"queued", "open"}
    /\ ~gone[c]
    /\ sent[c] < Len(script[c])
    /\ inbox' = [inbox EXCEPT ![c] = Append(@, script[c][sent[c] + 1])]
    /\ sent' = [sent EXCEPT ![c] = @ + 1]
    /\ Arrival(c)
    /\ UNCHANGED <<script, gone, conn, answer, backlog, batch, at, req, ev_count>>

Hangup(c) ==
    /\ conn[c] \in {"queued", "open"}
    /\ ~gone[c]
    /\ gone' = [gone EXCEPT ![c] = TRUE]
    /\ Arrival(c)
    /\ UNCHANGED <<script, sent, conn, inbox, answer, backlog, batch, at, req, ev_count>>

----------------------------------------------------------------------------
(* The loop of main *)

\* epoll_wait reports what is ready and forgets it (EPOLLET); EPOLLOUT is
\* always set on a connection, EPOLLIN when there is something to receive.
EpollWait ==
    /\ at = "wait"
    /\ LET reported == IF backlog # <<>> THEN ready ELSE Without(ready, Server)
       IN  /\ reported # <<>>
           /\ batch' = [i \in 1 .. Len(reported) |->
                 [source |-> reported[i],
                  in |-> reported[i] # Server /\ 
                            (inbox[reported[i]] # <<>> \/ gone[reported[i]])]]
    /\ ready' = <<>>
    /\ at' = "next"
    /\ UNCHANGED <<clientVars, conn, inbox, answer, backlog, req, ev_count>>

EndOfBatch ==
    /\ at = "next"
    /\ batch = <<>>
    /\ at' = "wait"
    /\ UNCHANGED <<clientVars, conn, inbox, answer, backlog, ready, batch, req, ev_count>>

\* The event of the listening socket: one connection is accepted, even
\* when more of them wait.
Accepting ==
    /\ at = "next"
    /\ batch # <<>>
    /\ Head(batch).source = Server
    /\ batch' = Tail(batch)

\* accept fails for want of descriptors.
AcceptFails ==
    /\ Accepting
    /\ UNCHANGED <<clientVars, conn, inbox, answer, backlog, ready, at, req, ev_count>>

\* Too many connections, or EPOLL_CTL_ADD fails: the connection is closed;
\* in the second case req.sock keeps the closed socket.
AcceptRefuses ==
    /\ Accepting
    /\ conn' = [conn EXCEPT ![Head(backlog)] = "closed"]
    /\ backlog' = Tail(backlog)
    /\ \/ ev_count = Limit /\ UNCHANGED sock
       \/ ev_count # Limit /\ sock' = Head(backlog)
    /\ UNCHANGED <<clientVars, inbox, answer, ready, at, url, from, leftover, ev_count>>

\* Mutant: the limit is not looked at.
AcceptUnlimited ==
    /\ Accepting
    /\ conn' = [conn EXCEPT ![Head(backlog)] = "open"]
    /\ backlog' = Tail(backlog)
    /\ sock' = Head(backlog)
    /\ ready' = Wake(Head(backlog))
    /\ ev_count' = ev_count + 1
    /\ UNCHANGED <<clientVars, inbox, answer, at, url, from, leftover>>

\* A new connection is always writable: it goes on the ready list at once.
Accept ==
    /\ Accepting
    /\ ev_count # Limit
    /\ conn' = [conn EXCEPT ![Head(backlog)] = "open"]
    /\ backlog' = Tail(backlog)
    /\ sock' = Head(backlog)
    /\ ready' = Wake(Head(backlog))
    /\ ev_count' = ev_count + 1
    /\ UNCHANGED <<clientVars, inbox, answer, at, url, from, leftover>>

\* Mutant: EPOLLIN is looked at only when EPOLLOUT is not set.
ConnEventWrites ==
    /\ at = "next"
    /\ batch # <<>>
    /\ Head(batch).source # Server
    /\ at' = "writing"
    /\ batch' = Tail(batch)
    /\ UNCHANGED <<clientVars, conn, inbox, answer, backlog, ready, req, ev_count>>

\* The event of a connection; which one does not matter any more.
ConnEvent ==
    /\ at = "next"
    /\ batch # <<>>
    /\ Head(batch).source # Server
    /\ at' = IF Head(batch).in THEN "reading" ELSE "writing"
    /\ batch' = Tail(batch)
    /\ UNCHANGED <<clientVars, conn, inbox, answer, backlog, ready, req, ev_count>>

Receivable == sock \in Clients /\ conn[sock] = "open"

\* recv fails: no connection, a closed one, or nothing to receive.
RecvFails ==
    /\ at = "reading"
    /\ Receivable => inbox[sock] = <<>> /\ ~gone[sock]
    /\ at' = "writing"
    /\ UNCHANGED <<clientVars, conn, inbox, answer, backlog, ready, batch, req, ev_count>>

\* recv returns 0.  Only a blank line at the start of req_buf, left there
\* by an earlier call, ends the loop of read_req (the text is then empty);
\* without one it never ends.
RecvNothing ==
    /\ at = "reading"
    /\ Receivable
    /\ inbox[sock] = <<>> /\ gone[sock]
    /\ IF leftover = "plain"
       THEN /\ leftover' = "masked"
            /\ url' = "none"
            /\ from' = sock
            /\ at' = "writing"
       ELSE UNCHANGED <<leftover, url, from, at>>
    /\ UNCHANGED <<clientVars, conn, inbox, answer, backlog, ready, batch, sock, ev_count>>

\* What parse_url may find in a text that has a blank line, and what it
\* leaves in req_buf for the next recv: strtok puts a NUL behind the first
\* word, if there is a second one, and so masks the blank line.
Parses(text) ==
    CASE text[1] = "root" -> {"none"} \X {"masked"}
      [] text[1] = "tail" -> {"none", "garbled"} \X {"masked", "plain"}
      [] OTHER -> {<<"file", "masked">>}

HasHeader(text) == \E i \in DOMAIN text : text[i] # "head"

\* What a first part alone can become when it is received over a text with
\* a blank line: the blank line ends it too early, or is overwritten, or is
\* still masked.
PartParses == {"none", "file", "garbled"} \X {"masked"}

Parsed(parses) ==
    /\ \E p \in parses : url' = p[1] /\ leftover' = p[2]
    /\ from' = sock
    /\ at' = "writing"

\* recv takes all that has arrived to the start of req_buf, over what an
\* earlier call left there; without a blank line in it there is another.
Recv ==
    /\ at = "reading"
    /\ Receivable
    /\ inbox[sock] # <<>>
    /\ inbox' = [inbox EXCEPT ![sock] = <<>>]
    /\ \/ HasHeader(inbox[sock]) /\ Parsed(Parses(inbox[sock]))
       \/ ~HasHeader(inbox[sock]) /\ leftover # "none" /\ Parsed(PartParses)
       \/ /\ ~HasHeader(inbox[sock])
          /\ leftover' \in IF leftover = "masked" THEN {"masked", "none"} ELSE {"none"}
          /\ UNCHANGED <<url, from, at>>
    /\ UNCHANGED <<clientVars, conn, answer, backlog, ready, batch, sock, ev_count>>

\* Mutant: req is not cleared after an answer.
ClearReqForgotten == UNCHANGED req

\* memset of req.
ClearReq ==
    /\ sock' = NoSock
    /\ url' = "none"
    /\ from' = NoSock
    /\ leftover' = "none"

\* write_res with a URL: 403, 404 or 200 with as much of the file as
\* sendfile takes.  Each of them sets res_size, so that the connection in
\* req.sock is then removed from epoll and closed, and req is cleared.
Respond ==
    /\ at = "writing"
    /\ url # "none"
    /\ answer' = IF Receivable /\ ~gone[sock]
                 THEN [answer EXCEPT ![sock] = Append(@, from)]
                 ELSE answer
    /\ conn' = IF Receivable THEN [conn EXCEPT ![sock] = "closed"] ELSE conn
    /\ ready' = Without(ready, sock)
    /\ ev_count' = ev_count - 1
    /\ at' = "next"
    /\ ClearReq
    /\ UNCHANGED <<clientVars, inbox, backlog, batch>>

\* Mutant: ev_count goes down without a look at res_size.
RespondNothingCounts ==
    /\ at = "writing"
    /\ url = "none"
    /\ at' = "next"
    /\ ev_count' = ev_count - 1
    /\ UNCHANGED <<clientVars, conn, inbox, answer, backlog, ready, batch, req>>

\* write_res without a URL sends nothing and nothing is closed.
RespondNothing ==
    /\ at = "writing"
    /\ url = "none"
    /\ at' = "next"
    /\ UNCHANGED <<clientVars, conn, inbox, answer, backlog, ready, batch, req, ev_count>>

----------------------------------------------------------------------------
ServerStep ==
    \/ EpollWait \/ EndOfBatch
    \/ AcceptFails \/ AcceptRefuses \/ Accept
    \/ ConnEvent
    \/ RecvFails \/ RecvNothing \/ Recv
    \/ Respond \/ RespondNothing

ClientStep(c) == Connect(c) \/ Send(c) \/ Hangup(c)

Next == ServerStep \/ \E c \in Clients : ClientStep(c)

Spec == Init /\ [][Next]_vars

\* The process is scheduled; clients owe nothing.
FairSpec == Spec /\ WF_vars(ServerStep)

----------------------------------------------------------------------------
(* Properties *)

\* The ranges of the variables: main's local state, req and what the kernel
\* keeps for the server.
TypeOK ==
    /\ script \in [Clients -> Scripts] /\ sent \in [Clients -> Nat]
    /\ gone \in [Clients -> BOOLEAN] /\ answer \in [Clients -> Seq(Clients)]
    /\ conn \in [Clients -> {"none", "queued", "open", "closed"}]
    /\ inbox \in [Clients -> Seq({"file", "root", "head", "tail"})]
    /\ backlog \in Seq(Clients)
    /\ ready \in Seq(Clients \cup {Server})
    /\ batch \in Seq([source : Clients \cup {Server}, in : BOOLEAN])
    /\ at \in {"wait", "next", "reading", "writing"}
    /\ sock \in Clients \cup {NoSock}
    /\ url \in {"none", "file", "garbled"}
    /\ from \in Clients \cup {NoSock}
    /\ leftover \in {"none", "masked", "plain"}
    /\ ev_count \in Nat

Open == {c \in Clients : conn[c] = "open"}

\* Although all connections share one request record and events are served
\* on whatever socket it names, nobody is sent the answer to another one's
\* request, and nobody is answered twice or without having asked.
AnswersOwnRequest ==
    \A c \in Clients :
        /\ Len(answer[c]) <= 1
        /\ \A i \in DOMAIN answer[c] : answer[c][i] = c /\ sent[c] > 0

\* ev_count is the number of registered sockets, stale events and refused
\* connections included, and stays within the limit.
CountExact == ev_count = 1 + Cardinality(Open) /\ ev_count <= Limit

\* A URL that waits in req was received from the socket in req.
UrlOfSock == url # "none" => at = "writing" /\ from = sock /\ sock \in Open

\* The whole request of c has arrived.
Asked(c) == sent[c] = Len(script[c]) /\ ~gone[c] /\ conn[c] = "open"

\* The connection that was accepted last is answered, if its client asks
\* for a file, waits, and no other connection is accepted meanwhile: its
\* edges are not lost and stale events of others do it no harm.
LastIsServed ==
    \A c \in Clients :
        (sock = c /\ Asked(c) /\ script[c] = <<"file">> /\ []~gone[c] /\ [](sock \in {c, NoSock}))
            ~> answer[c] # <<>>
=============================================================================
