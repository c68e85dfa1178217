------------------------------- MODULE Daemon -------------------------------
(***************************************************************************)
(* The file size daemon (src/hw08-daemon/main.c): instances that users     *)
(* start, with or without "Daemonize = yes", and clients that connect to   *)
(* the Unix socket they serve.  The instances share a lock file and the    *)
(* path of the socket.                                                     *)
(*                                                                         *)
(* An instance is one process here although it is three in turn: the lock  *)
(* is taken by the process the user started, which exits after the first   *)
(* fork; record locks are not inherited, so the lock goes with it, sooner  *)
(* or later.  SIGQUIT may arrive at any time and SIGKILL too.  The handler *)
(* closes the global sock, which nobody ever assigns: it closes descriptor *)
(* 0 whatever that is, and unlinks the path whoever is bound to it.        *)
(*                                                                         *)
(* The kernel is external: record locks, the socket file, the queue of     *)
(* connections that wait for accept.                                       *)
(***************************************************************************)
EXTENDS Naturals, SequencesExt

CONSTANTS
    Instances,
    Clients,
    Nobody,         \* no process, no file at the path, no client
    Backlog         \* the length of the queue of connections

ASSUME NobodyAssumption == Nobody \notin Instances /\ Nobody \notin Clients
ASSUME BacklogAssumption == Backlog \in Nat

VARIABLES
    pc,                 \* where an instance is
    handler,            \* SIGQUIT calls sigquit_handler
    fd0,                \* what descriptor 0 of a daemon is
    locker,             \* the instance that holds the lock on LOCKFILE
    path,               \* the instance whose socket the path names
    queue,              \* clients that wait for accept
    msgsock,            \* the client that is served and has no answer yet
    quits,              \* history: a SIGQUIT has run the handler
    left                \* history: the instance the path names was killed

procVars == <<pc, handler, fd0>>
connVars == <<queue, msgsock>>
notes == <<quits, left>>
vars == <<procVars, locker, path, connVars, notes>>

Init ==
    /\ pc = [i \in Instances |-> "exited"]
    /\ handler = [i \in Instances |-> FALSE]
    /\ fd0 = [i \in Instances |-> "open"]
    /\ locker = Nobody
    /\ path = Nobody
    /\ queue = [i \in Instances |-> <<>>]
    /\ msgsock = [i \in Instances |-> Nobody]
    /\ quits = FALSE /\ left = FALSE

Goto(i, from, to) == pc[i] = from /\ pc' = [pc EXCEPT ![i] = to]

----------------------------------------------------------------------------
(* Start-up                                                                *)

\* load_from_config_file: the configuration, which may have changed since
\* the last start, says whether to daemonize.  Without one main just ends.
Load(i) ==
    /\ \E should_daemonize \in BOOLEAN :
            Goto(i, "exited", IF should_daemonize THEN "lock" ELSE "socket")
    /\ UNCHANGED <<handler, fd0, locker, path, connVars, notes>>

\* already_running: an instance that does not get the lock serves all the
\* same, in the foreground and without a handler.
AlreadyRunning(i) ==
    /\ IF locker = Nobody
       THEN Goto(i, "lock", "daemonize") /\ locker' = i
       ELSE Goto(i, "lock", "socket") /\ UNCHANGED locker
    /\ UNCHANGED <<handler, fd0, path, connVars, notes>>

\* daemonize: the first fork, setsid and the handler of SIGQUIT ...
Daemonize(i) ==
    /\ Goto(i, "daemonize", "detach")
    /\ handler' = [handler EXCEPT ![i] = TRUE]
    /\ UNCHANGED <<fd0, locker, path, connVars, notes>>

\* ... the second fork, and all descriptors are closed but /dev/null.  If
\* the forks failed this is still the process that has the lock, and closing
\* the lock file drops it.
Detach(i) ==
    /\ Goto(i, "detach", "socket")
    /\ fd0' = [fd0 EXCEPT ![i] = "open"]
    /\ \/ locker = i /\ locker' = Nobody
       \/ UNCHANGED locker
    /\ UNCHANGED <<handler, path, connVars, notes>>

\* The process the user started exits at last.
FirstProcessExits(i) ==
    /\ locker = i
    /\ pc[i] # "daemonize"
    /\ locker' = Nobody
    /\ UNCHANGED <<procVars, path, connVars, notes>>

\* run_unix_socket: the socket takes the lowest free descriptor, ...
Socket(i) ==
    /\ Goto(i, "socket", "bind")
    /\ fd0' = [fd0 EXCEPT ![i] = IF @ = "free" THEN "sock" ELSE @]
    /\ UNCHANGED <<handler, locker, path, connVars, notes>>

\* ... bind refuses a path that exists and a socket that the handler has
\* closed, ...
Bind(i) ==
    /\ path = Nobody /\ fd0[i] # "lost"
    /\ Goto(i, "bind", "listen")
    /\ path' = i
    /\ UNCHANGED <<handler, fd0, locker, connVars, notes>>

\* ... and whether listen fails is not looked at.
Listen(i) ==
    /\ Goto(i, "listen", "accept")
    /\ UNCHANGED <<handler, fd0, locker, path, connVars, notes>>

----------------------------------------------------------------------------
(* The end of an instance                                                  *)

Dropped(i) ==
    /\ queue' = [queue EXCEPT ![i] = <<>>]
    /\ msgsock' = [msgsock EXCEPT ![i] = Nobody]

\* The process is gone; what it has left at the path stays there.
Gone(i) ==
    /\ pc' = [pc EXCEPT ![i] = "exited"]
    /\ handler' = [handler EXCEPT ![i] = FALSE]
    /\ fd0' = [fd0 EXCEPT ![i] = "open"]
    /\ Dropped(i)

\* Mutant: the clean-up of a start that failed removes the path.
BindFailsCleaned(i) ==
    /\ pc[i] \in {"socket", "bind"}
    /\ Gone(i)
    /\ path' = Nobody /\ left' = FALSE
    /\ UNCHANGED <<locker, quits>>

\* socket or bind fails: exit(1), and the path is not touched.  They always
\* may; bind does when the path exists, be it in use or left there by an
\* instance that was killed.
BindFails(i) ==
    /\ pc[i] \in {"socket", "bind"}
    /\ Gone(i)
    /\ UNCHANGED <<locker, path, notes>>

\* SIGKILL, or SIGQUIT without a handler.
Killed(i) ==
    /\ pc[i] # "exited"
    /\ Gone(i)
    /\ locker' = IF locker = i /\ pc[i] = "daemonize" THEN Nobody ELSE locker
    /\ left' = (left \/ path = i)
    /\ UNCHANGED <<path, quits>>

\* accept fails and run_unix_socket leaves its loop: close(sock) ...
CloseSock(i) ==
    /\ Goto(i, "close", "unlink")
    /\ Dropped(i)
    /\ UNCHANGED <<handler, fd0, locker, path, notes>>

\* Mutant: run_unix_socket returns without unlink.
UnlinkForgotten(i) ==
    /\ pc[i] = "unlink"
    /\ Gone(i)
    /\ UNCHANGED <<locker, path, notes>>

\* ... unlink(socket_file), whoever is bound to it, and main returns.
Unlink(i) ==
    /\ pc[i] = "unlink"
    /\ Gone(i)
    /\ path' = Nobody /\ left' = FALSE
    /\ UNCHANGED <<locker, quits>>

----------------------------------------------------------------------------
(* Clients                                                                 *)

\* The clients that wait for an answer of i.
Waiting(i) == (ToSet(queue[i]) \cup {msgsock[i]}) \ {Nobody}

Listening(i) == pc[i] \in {"accept", "send", "close_msgsock", "close"} /\ fd0[i] # "lost"

\* A client connects: it is refused when nobody listens, and at the end of
\* a full queue it waits.
Connect(c) ==
    /\ \A i \in Instances : c \notin Waiting(i)
    /\ path # Nobody
    /\ Listening(path)
    /\ Len(queue[path]) <= Backlog
    /\ queue' = [queue EXCEPT ![path] = Append(@, c)]
    /\ UNCHANGED <<procVars, locker, path, msgsock, notes>>

\* accept takes the lowest free descriptor for the connection.
Accept(i) ==
    /\ fd0[i] # "lost"
    /\ queue[i] # <<>>
    /\ Goto(i, "accept", "send")
    /\ msgsock' = [msgsock EXCEPT ![i] = Head(queue[i])]
    /\ queue' = [queue EXCEPT ![i] = Tail(@)]
    /\ fd0' = [fd0 EXCEPT ![i] = IF @ = "free" THEN "msgsock" ELSE @]
    /\ UNCHANGED <<handler, locker, path, notes>>

\* accept fails: on a descriptor the handler has closed it always does.
AcceptFails(i) ==
    /\ Goto(i, "accept", "close")
    /\ UNCHANGED <<handler, fd0, locker, path, connVars, notes>>

\* Mutant: when stat fails nothing is sent and the connection stays open.
SendNothing(i) ==
    /\ Goto(i, "send", "accept")
    /\ UNCHANGED <<handler, fd0, locker, path, connVars, notes>>

\* stat and send: the size, or the text of an error.
Send(i) ==
    /\ Goto(i, "send", "close_msgsock")
    /\ msgsock' = [msgsock EXCEPT ![i] = Nobody]
    /\ UNCHANGED <<handler, fd0, locker, path, queue, notes>>

\* Mutant: the connection is not closed.
CloseMsgsockForgotten(i) ==
    /\ Goto(i, "close_msgsock", "accept")
    /\ UNCHANGED <<handler, fd0, locker, path, connVars, notes>>

CloseMsgsock(i) ==
    /\ Goto(i, "close_msgsock", "accept")
    /\ fd0' = [fd0 EXCEPT ![i] = IF @ = "msgsock" THEN "free" ELSE @]
    /\ UNCHANGED <<handler, locker, path, connVars, notes>>

----------------------------------------------------------------------------
\* SIGQUIT in a daemon: sigquit_handler.  A blocked accept fails (no
\* SA_RESTART); anywhere else, before accept blocks too, the instance goes
\* on.  When descriptor 0 has
\* become the connection or the listening socket, that one is closed.
Sigquit(i) ==
    /\ handler[i]
    /\ pc[i] # "exited"
    /\ path' = Nobody
    /\ quits' = TRUE /\ left' = FALSE
    /\ \/ pc' = [pc EXCEPT ![i] = IF @ = "accept" THEN "close" ELSE @]
       \/ UNCHANGED pc
    /\ fd0' = [fd0 EXCEPT ![i] = IF @ \in {"sock", "lost"} THEN "lost" ELSE "free"]
    /\ msgsock' = [msgsock EXCEPT ![i] = IF fd0[i] = "msgsock" THEN Nobody ELSE @]
    /\ queue' = [queue EXCEPT ![i] = IF fd0[i] = "sock" THEN <<>> ELSE @]
    /\ UNCHANGED <<handler, locker>>

\* What an instance does of itself.
Work(i) ==
    \/ AlreadyRunning(i) \/ Daemonize(i) \/ Detach(i)
    \/ Socket(i) \/ Bind(i) \/ Listen(i) \/ BindFails(i)
    \/ Accept(i) \/ Send(i) \/ CloseMsgsock(i)
    \/ fd0[i] = "lost" /\ AcceptFails(i)
    \/ CloseSock(i) \/ Unlink(i)

Next ==
    \/ \E i \in Instances :
        \/ Load(i) \/ FirstProcessExits(i) \/ Work(i)
        \/ AcceptFails(i) \/ Killed(i) \/ Sigquit(i)
    \/ \E c \in Clients : Connect(c)

Spec == Init /\ [][Next]_vars

\* Instances are scheduled.  Nothing is owed by users, who start, signal and
\* kill them, nor by clients.
FairSpec == Spec /\ \A i \in Instances : WF_vars(Work(i))

----------------------------------------------------------------------------
(* Properties                                                              *)

\* The ranges of the variables, and what fits together of them: a connection
\* is open, descriptor 0 or not, only while it is served, and the handler is
\* there in no process but a daemon.
TypeOK ==
    /\ pc \in [Instances -> {"exited", "lock", "daemonize", "detach", "socket", "bind",
                             "listen", "accept", "send", "close_msgsock", "close",
                             "unlink"}]
    /\ handler \in [Instances -> BOOLEAN]
    /\ fd0 \in [Instances -> {"open", "free", "sock", "msgsock", "lost"}]
    /\ locker \in Instances \cup {Nobody}
    /\ path \in Instances \cup {Nobody}
    /\ queue \in [Instances -> Seq(Clients)]
    /\ msgsock \in [Instances -> Clients \cup {Nobody}]
    /\ quits \in BOOLEAN /\ left \in BOOLEAN
    /\ \A i \in Instances :
        /\ msgsock[i] # Nobody => pc[i] = "send"
        /\ fd0[i] = "msgsock" => pc[i] \in {"send", "close_msgsock"}
        /\ handler[i] => pc[i] \notin {"exited", "lock", "daemonize"}

\* An instance whose bind has succeeded, until its unlink.
Bound(i) == pc[i] \in {"listen", "accept", "send", "close_msgsock", "close", "unlink"}

\* The lock of already_running keeps nobody from serving: it goes with the
\* first process, and an instance without it serves in the foreground.  What
\* does is that the path is taken away only by who has bound it, at its end:
\* an instance that fails to start leaves it alone.  So, whatever is started
\* at the same time, ends or is killed, there is one server at most and the
\* path leads to it, until a SIGQUIT makes a handler unlink the path of
\* whoever is bound to it.
SingleServer == ~quits => \A i \in Instances : Bound(i) => path = i

\* Only an instance that is killed leaves a path to nowhere (which blocks all
\* later ones): whatever else ends an instance, a signal at any moment of its
\* start and of its service included, takes the path along, and a path that
\* exists leads to a living instance whose socket no handler has closed.
StaleByKillOnly ==
    path # Nobody /\ ~left => Bound(path) /\ fd0[path] # "lost"

\* A client that is connected is settled: answered, or dropped by the end of
\* the instance, even when a signal cut the instance off from its path or
\* closed one of its sockets under it.
ClientSettled ==
    \A c \in Clients : \A i \in Instances : c \in Waiting(i) ~> c \notin Waiting(i)
=============================================================================
