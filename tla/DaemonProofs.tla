---------------------------- MODULE DaemonProofs ----------------------------
(***************************************************************************)
(* Theorems about the file size daemon, for any number of instances and    *)
(* clients and any length of the queue.                                    *)
(***************************************************************************)
EXTENDS Daemon, SequenceTheorems, TLAPS

----------------------------------------------------------------------------
(* Lemmas *)

\* The steps of an instance that are not about connections.
StartUp(i) ==
    \/ Load(i) \/ AlreadyRunning(i) \/ Daemonize(i) \/ Detach(i)
    \/ FirstProcessExits(i) \/ Socket(i) \/ Bind(i) \/ Listen(i)

Ending(i) == BindFails(i) \/ Killed(i) \/ CloseSock(i) \/ Unlink(i)

Serving(i) == Accept(i) \/ AcceptFails(i) \/ Send(i) \/ CloseMsgsock(i) \/ Sigquit(i)

LEMMA StepCases ==
    ASSUME Next
    PROVE  \/ \E i \in Instances : StartUp(i) \/ Ending(i) \/ Serving(i)
           \/ \E c \in Clients : Connect(c)
  BY DEF Next, Work, StartUp, Ending, Serving

LEMMA TypeInit == Init => TypeOK
<1> SUFFICES ASSUME Init PROVE TypeOK
  OBVIOUS
<1>1. quits \in BOOLEAN /\ left \in BOOLEAN
  BY DEF Init
<1> QED
  BY <1>1, NobodyAssumption DEF Init, TypeOK

LEMMA TypeStartUp ==
    ASSUME TypeOK, NEW i \in Instances, StartUp(i)
    PROVE  TypeOK'
<1>1. CASE Load(i)
  BY <1>1 DEF TypeOK, Load, Goto, connVars, notes
<1>2. CASE AlreadyRunning(i)
  BY <1>2 DEF TypeOK, AlreadyRunning, Goto, connVars, notes
<1>3. CASE Daemonize(i)
  BY <1>3 DEF TypeOK, Daemonize, Goto, connVars, notes
<1>4. CASE Detach(i)
  BY <1>4 DEF TypeOK, Detach, Goto, connVars, notes
<1>5. CASE FirstProcessExits(i)
  BY <1>5 DEF TypeOK, FirstProcessExits, procVars, connVars, notes
<1>6. CASE Bind(i)
  BY <1>6 DEF TypeOK, Bind, Goto, connVars, notes
<1>7. CASE Socket(i)
  BY <1>7 DEF TypeOK, Socket, Goto, connVars, notes
<1>8. CASE Listen(i)
  BY <1>8 DEF TypeOK, Listen, Goto, connVars, notes
<1> QED
  BY <1>1, <1>2, <1>3, <1>4, <1>5, <1>6, <1>7, <1>8 DEF StartUp

LEMMA TypeEnding ==
    ASSUME TypeOK, NEW i \in Instances, Ending(i)
    PROVE  TypeOK'
<1>1. CASE BindFails(i)
  BY <1>1 DEF TypeOK, BindFails, Gone, Dropped, notes
<1>2. CASE Killed(i)
  BY <1>2 DEF TypeOK, Killed, Gone, Dropped
<1>3. CASE CloseSock(i)
  BY <1>3 DEF TypeOK, CloseSock, Goto, Dropped, notes
<1>4. CASE Unlink(i)
  <2>1. quits' \in BOOLEAN /\ left' \in BOOLEAN
    BY <1>4 DEF TypeOK, Unlink
  <2> QED
    BY <1>4, <2>1 DEF TypeOK, Unlink, Gone, Dropped
<1> QED
  BY <1>1, <1>2, <1>3, <1>4 DEF Ending

LEMMA TypeServing ==
    ASSUME TypeOK, NEW i \in Instances, Serving(i)
    PROVE  TypeOK'
<1>1. CASE Accept(i)
  <2>1. Head(queue[i]) \in Clients /\ Tail(queue[i]) \in Seq(Clients)
    BY <1>1, HeadTailProperties DEF TypeOK, Accept
  <2> QED
    BY <1>1, <2>1 DEF TypeOK, Accept, Goto, notes
<1>2. CASE AcceptFails(i)
  BY <1>2 DEF TypeOK, AcceptFails, Goto, connVars, notes
<1>3. CASE Send(i)
  BY <1>3 DEF TypeOK, Send, Goto, notes
<1>4. CASE CloseMsgsock(i)
  BY <1>4 DEF TypeOK, CloseMsgsock, Goto, connVars, notes
<1>5. CASE Sigquit(i)
  <2>1. quits' \in BOOLEAN /\ left' \in BOOLEAN
    BY <1>5 DEF Sigquit
  <2> QED
    BY <1>5, <2>1 DEF TypeOK, Sigquit
<1> QED
  BY <1>1, <1>2, <1>3, <1>4, <1>5 DEF Serving

LEMMA TypeConnect ==
    ASSUME TypeOK, NEW c \in Clients, Connect(c)
    PROVE  TypeOK'
<1>1. path \in Instances /\ Append(queue[path], c) \in Seq(Clients)
  BY DEF TypeOK, Connect
<1> QED
  BY <1>1 DEF TypeOK, Connect, procVars, notes

LEMMA TypeStep == TypeOK /\ [Next]_vars => TypeOK'
<1> SUFFICES ASSUME TypeOK, [Next]_vars PROVE TypeOK'
  OBVIOUS
<1>1. CASE Next
  BY <1>1, StepCases, TypeStartUp, TypeEnding, TypeServing, TypeConnect
<1>2. CASE UNCHANGED vars
  BY <1>2 DEF TypeOK, vars, procVars, connVars, notes
<1> QED
  BY <1>1, <1>2

----------------------------------------------------------------------------
(* Theorems *)

\* Types are kept, and with them that nothing is served by an instance that
\* is not serving and that descriptor 0 is a connection only while one is.
THEOREM TypeInvariant == Spec => []TypeOK
  BY TypeInit, TypeStep, PTL DEF Spec

\* Without a signal who has bound the path keeps it until its own unlink, and
\* nobody else has bound it meanwhile.
LEMMA SingleStep == TypeOK /\ SingleServer /\ [Next]_vars => SingleServer'
<1> SUFFICES ASSUME TypeOK, SingleServer, [Next]_vars, ~quits',
                    NEW j \in Instances, Bound(j)'
             PROVE  path' = j
  BY DEF SingleServer
<1>1. ASSUME NEW i \in Instances, Bind(i) PROVE path' = j
  <2>1. ~quits /\ path = Nobody /\ path' = i
    BY <1>1 DEF Bind, notes
  <2>2. ~Bound(j)
    BY <2>1, NobodyAssumption DEF SingleServer
  <2>3. j = i
    BY <1>1, <2>2 DEF TypeOK, Bound, Bind, Goto
  <2> QED
    BY <2>1, <2>3
<1>2. ASSUME NEW i \in Instances, StartUp(i), ~Bind(i) PROVE path' = j
  <2>1. path' = path /\ ~quits /\ Bound(j)
    BY <1>2 DEF TypeOK, Bound, StartUp, Load, AlreadyRunning, Daemonize, Detach,
          FirstProcessExits, Socket, Listen, Goto, procVars, notes
  <2> QED
    BY <2>1 DEF SingleServer
<1>3. ASSUME NEW i \in Instances, Unlink(i) PROVE path' = j
  <2>1. ~quits /\ Bound(i)
    BY <1>3 DEF Unlink, Bound
  <2>2. j # i /\ Bound(j)
    BY <1>3 DEF TypeOK, Bound, Unlink, Gone
  <2> QED
    BY <2>1, <2>2 DEF SingleServer
<1>4. ASSUME NEW i \in Instances, BindFails(i) \/ Killed(i) \/ CloseSock(i) PROVE path' = j
  <2>1. path' = path /\ ~quits /\ Bound(j)
    BY <1>4 DEF TypeOK, Bound, BindFails, Killed, CloseSock, Gone, Goto, notes
  <2> QED
    BY <2>1 DEF SingleServer
<1>5. ASSUME NEW i \in Instances, Serving(i) PROVE path' = j
  <2>1. path' = path /\ ~quits /\ Bound(j)
    BY <1>5 DEF TypeOK, Bound, Serving, Accept, AcceptFails, Send, CloseMsgsock,
          Sigquit, Goto, notes
  <2> QED
    BY <2>1 DEF SingleServer
<1>6. CASE (\E c \in Clients : Connect(c)) \/ UNCHANGED vars
  <2>1. path' = path /\ ~quits /\ Bound(j)
    BY <1>6 DEF Bound, Connect, vars, procVars, notes
  <2> QED
    BY <2>1 DEF SingleServer
<1> QED
  BY <1>1, <1>2, <1>3, <1>4, <1>5, <1>6, StepCases DEF Ending

\* main.c: until a handler has unlinked the path, the instance that has bound
\* it is the only one, and the path leads to it.
THEOREM OnlyOneServes == Spec => []SingleServer
<1>1. Init => SingleServer
  BY DEF Init, SingleServer, Bound
<1> QED
  BY <1>1, TypeInvariant, SingleStep, PTL DEF Spec

\* The path changes hands by bind and unlink only; an end that leaves it is a kill.
LEMMA StaleStep == TypeOK /\ StaleByKillOnly /\ [Next]_vars => StaleByKillOnly'
<1> SUFFICES ASSUME TypeOK, StaleByKillOnly, [Next]_vars, path' # Nobody, ~left'
             PROVE  Bound(path)' /\ fd0'[path'] # "lost"
  BY DEF StaleByKillOnly
<1>1. ASSUME NEW i \in Instances, Bind(i) PROVE Bound(path)' /\ fd0'[path'] # "lost"
  BY <1>1 DEF TypeOK, Bound, Bind, Goto
<1>2. ASSUME path' = path, ~left, path \in Instances => pc'[path] = pc[path] \/ Bound(path)',
             path \in Instances /\ fd0[path] # "lost" => fd0'[path] # "lost"
      PROVE  Bound(path)' /\ fd0'[path'] # "lost"
  BY <1>2 DEF TypeOK, StaleByKillOnly, Bound
<1>3. ASSUME NEW i \in Instances, StartUp(i), ~Bind(i)
      PROVE  Bound(path)' /\ fd0'[path'] # "lost"
  <2>1. path' = path /\ left' = left
    BY <1>3 DEF StartUp, Load, AlreadyRunning, Daemonize, Detach, FirstProcessExits,
          Socket, Listen, notes
  <2>2. path \in Instances /\ Bound(path) /\ fd0[path] # "lost"
    BY <2>1 DEF TypeOK, StaleByKillOnly
  <2>3. pc'[path] = pc[path] \/ Bound(path)'
    BY <1>3, <2>1, <2>2 DEF TypeOK, Bound, StartUp, Load, AlreadyRunning, Daemonize, Detach,
          FirstProcessExits, Socket, Listen, Goto, procVars
  <2>4. fd0'[path] # "lost"
    BY <1>3, <2>2 DEF TypeOK, StartUp, Load, AlreadyRunning, Daemonize, Detach,
          FirstProcessExits, Socket, Listen, procVars
  <2> QED
    BY <1>2, <2>1, <2>3, <2>4
<1>4. ASSUME NEW i \in Instances, Ending(i)
      PROVE  Bound(path)' /\ fd0'[path'] # "lost"
  <2>1. path' = path /\ ~left /\ (Killed(i) => path # i)
    <3>1. Killed(i) => path' = path /\ ~left /\ path # i
      BY Zenon DEF Killed
    <3>2. ~Killed(i) => path' = path /\ left' = left
      BY <1>4 DEF Ending, BindFails, CloseSock, Unlink, notes
    <3> QED
      BY <3>1, <3>2
  <2>2. path \in Instances /\ Bound(path) /\ fd0[path] # "lost"
    BY <2>1 DEF TypeOK, StaleByKillOnly
  <2>3. pc'[path] = pc[path] \/ Bound(path)'
    BY <1>4, <2>1, <2>2, NobodyAssumption DEF TypeOK, Bound, Ending, BindFails, Killed,
          CloseSock, Unlink, Gone, Goto
  <2>4. fd0'[path] # "lost"
    BY <1>4, <2>2 DEF TypeOK, Ending, BindFails, Killed, CloseSock, Unlink, Gone
  <2> QED
    BY <1>2, <2>1, <2>3, <2>4
<1>5. ASSUME NEW i \in Instances, Serving(i)
      PROVE  Bound(path)' /\ fd0'[path'] # "lost"
  <2>1. path' = path /\ left' = left /\ ~Sigquit(i)
    BY <1>5 DEF Serving, Accept, AcceptFails, Send, CloseMsgsock, Sigquit, notes
  <2>2. path \in Instances /\ Bound(path) /\ fd0[path] # "lost"
    BY <2>1 DEF TypeOK, StaleByKillOnly
  <2>3. pc'[path] = pc[path] \/ Bound(path)'
    BY <1>5, <2>1, <2>2 DEF TypeOK, Bound, Serving, Accept, AcceptFails, Send,
          CloseMsgsock, Goto
  <2>4. fd0'[path] # "lost"
    BY <1>5, <2>1, <2>2 DEF TypeOK, Serving, Accept, AcceptFails, Send, CloseMsgsock
  <2> QED
    BY <1>2, <2>1, <2>3, <2>4
<1>6. CASE (\E c \in Clients : Connect(c)) \/ UNCHANGED vars
  BY <1>2, <1>6 DEF Connect, vars, procVars, notes
<1> QED
  BY <1>1, <1>3, <1>4, <1>5, <1>6, StepCases

\* main.c: every end but a kill, on whatever way a signal leads to it, takes
\* the path along, and no handler closes a socket and leaves its path.
THEOREM PathIsServed == Spec => []StaleByKillOnly
<1>1. Init => StaleByKillOnly
  BY DEF Init, StaleByKillOnly
<1> QED
  BY <1>1, TypeInvariant, StaleStep, PTL DEF Spec
=============================================================================
