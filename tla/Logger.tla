------------------------------- MODULE Logger -------------------------------
(***************************************************************************)
(* The logger library of hw07-logger (logger.c), which dpdk-analyzer links,*)
(* too.  Threads of one process log through one Logger; the text goes to   *)
(* the buffer of stdio, from there to the file, in which every run of the  *)
(* program appends.  A run ends with logger_free or is killed.             *)
(*                                                                         *)
(* stdio writes the text in blocks, which may end inside a line.  So a line*)
(* is two pieces: <<run, call, 2 * k>> is its beginning, and with the next *)
(* number the rest of it, with the newline.  Line 0 of a call is the line  *)
(* of its message, line k the k-th of its trace.                           *)
(***************************************************************************)
EXTENDS Integers, Sequences

CONSTANTS
    Threads,
    NoThread,
    Frames,     \* lines of a trace
    MaxCalls,   \* bound: calls of logger_log in a run
    MaxRuns     \* bound: runs of the program

ASSUME NoThreadAssumption == NoThread \notin Threads
ASSUME BoundAssumption == Frames \in Nat /\ MaxCalls \in Nat /\ MaxRuns \in Nat

VARIABLES
    state,      \* the Logger: "none", "live" or "freed"
    open,       \* fp is not NULL
    owner,      \* holder of the mutex
    pc,         \* "idle", "call", "lock", "trace", "unlock"
    call,       \* call[t] = <<number of the call, log_type>>
    frame,      \* lines of its trace that are written
    buffer,     \* the pieces in stdio's buffer
    file,       \* the pieces in the file
    run, calls, \* runs so far, and calls in this run
    cut         \* history: the runs that were killed

callVars == <<pc, call, frame>>
vars == <<state, open, owner, callVars, buffer, file, run, calls, cut>>

LogTypes == {"INFO", "ERROR"}   \* DEBUG and WARNING differ from INFO in the text

Init ==
    /\ state = "none" /\ open = FALSE /\ owner = NoThread
    /\ pc = [t \in Threads |-> "idle"]
    /\ call = [t \in Threads |-> <<0, "INFO">>]
    /\ frame = [t \in Threads |-> 0]
    /\ buffer = <<>> /\ file = <<>>
    /\ run = 0 /\ calls = 0 /\ cut = {}

\* logger_init; the mutex and the Logger are made even if fopen fails.
LoggerInit ==
    /\ state # "live" /\ run < MaxRuns
    /\ state' = "live" /\ run' = run + 1 /\ calls' = 0
    /\ open' \in BOOLEAN
    /\ UNCHANGED <<owner, callVars, buffer, file, cut>>

Goto(t, l) == pc' = [pc EXCEPT ![t] = l]

\* Mutant: whether the file could be opened is not looked at.
LogBlindly(t, type) ==
    /\ state = "live" /\ pc[t] = "idle" /\ calls < MaxCalls
    /\ calls' = calls + 1
    /\ call' = [call EXCEPT ![t] = <<calls + 1, type>>]
    /\ frame' = [frame EXCEPT ![t] = 0]
    /\ Goto(t, "call")
    /\ UNCHANGED <<state, open, owner, buffer, file, run, cut>>

\* logger_log up to the lock: fp is read before the mutex is taken.
Log(t, type) ==
    /\ state = "live" /\ pc[t] = "idle" /\ calls < MaxCalls
    /\ calls' = calls + 1
    /\ call' = [call EXCEPT ![t] = <<calls + 1, type>>]
    /\ frame' = [frame EXCEPT ![t] = 0]
    /\ IF open THEN Goto(t, "call") ELSE UNCHANGED pc
    /\ UNCHANGED <<state, open, owner, buffer, file, run, cut>>

\* Mutant: the mutex is not waited for.
LockAnyway(t) ==
    /\ pc[t] = "call"
    /\ owner' = t
    /\ Goto(t, "lock")
    /\ UNCHANGED <<state, open, call, frame, buffer, file, run, calls, cut>>

Lock(t) ==
    /\ pc[t] = "call" /\ owner = NoThread
    /\ owner' = t
    /\ Goto(t, "lock")
    /\ UNCHANGED <<state, open, call, frame, buffer, file, run, calls, cut>>

\* fprintf of line k of a call: if the buffer is full, stdio writes it to the
\* file, without the new line, with its beginning, or with all of it.
Printf(t, k) ==
    LET text == buffer \o <<<<run, call[t][1], 2 * k>>, <<run, call[t][1], 2 * k + 1>>>>
    IN  \E n \in {0} \cup Len(buffer) .. Len(text) :
            /\ file' = file \o SubSeq(text, 1, n)
            /\ buffer' = SubSeq(text, n + 1, Len(text))

PrintLine(t) ==
    /\ pc[t] = "lock"
    /\ Printf(t, 0)
    /\ Goto(t, IF call[t][2] = "ERROR" THEN "trace" ELSE "unlock")
    /\ UNCHANGED <<state, open, owner, call, frame, run, calls, cut>>

\* logger_log_trace: one line for each frame, or none without memory.
PrintFrame(t) ==
    /\ pc[t] = "trace" /\ frame[t] < Frames
    /\ Printf(t, frame[t] + 1)
    /\ frame' = [frame EXCEPT ![t] = @ + 1]
    /\ UNCHANGED <<state, open, owner, pc, call, run, calls, cut>>

EndTrace(t) ==
    /\ pc[t] = "trace" /\ frame[t] \in {0, Frames}
    /\ Goto(t, "unlock")
    /\ UNCHANGED <<state, open, owner, call, frame, buffer, file, run, calls, cut>>

\* Mutant: the mutex stays locked after a trace.
UnlockPlain(t) ==
    /\ pc[t] = "unlock"
    /\ owner' = IF call[t][2] = "ERROR" THEN owner ELSE NoThread
    /\ Goto(t, "idle")
    /\ UNCHANGED <<state, open, call, frame, buffer, file, run, calls, cut>>

Unlock(t) ==
    /\ pc[t] = "unlock"
    /\ owner' = NoThread
    /\ Goto(t, "idle")
    /\ UNCHANGED <<state, open, call, frame, buffer, file, run, calls, cut>>

LogStep(t) ==
    Lock(t) \/ PrintLine(t) \/ PrintFrame(t) \/ EndTrace(t) \/ Unlock(t)

\* Mutant: the Logger is freed, and the file is not closed.
FreeOnly ==
    /\ state = "live" /\ \A t \in Threads : pc[t] = "idle"
    /\ state' = "freed" /\ buffer' = <<>>
    /\ UNCHANGED <<open, owner, callVars, file, run, calls, cut>>

\* logger_free: fclose writes what is left.  The programs call it after all
\* other calls have returned.
LoggerFree ==
    /\ state = "live" /\ \A t \in Threads : pc[t] = "idle"
    /\ state' = "freed"
    /\ file' = file \o buffer /\ buffer' = <<>>
    /\ UNCHANGED <<open, owner, callVars, run, calls, cut>>

\* The process is killed: the buffer is lost, and the file may end in half a line.
Kill ==
    /\ state = "live"
    /\ state' = "none" /\ open' = FALSE /\ owner' = NoThread
    /\ pc' = [t \in Threads |-> "idle"]
    /\ buffer' = <<>> /\ cut' = cut \cup {run}
    /\ UNCHANGED <<call, frame, file, run, calls>>

Thread(t) == (\E type \in LogTypes : Log(t, type)) \/ LogStep(t)

Next == LoggerInit \/ (\E t \in Threads : Thread(t)) \/ LoggerFree \/ Kill

Spec == Init /\ [][Next]_vars

\* A thread in logger_log goes on; nothing obliges it to make another call.
FairSpec == Spec /\ \A t \in Threads : WF_vars(LogStep(t))

(****************************** Properties *****************************)

Piece == Nat \X Nat \X Nat

\* Nothing waits in stdio's buffer unless the Logger lives and its file is open.
TypeOK ==
    /\ state \in {"none", "live", "freed"} /\ open \in BOOLEAN
    /\ owner \in Threads \cup {NoThread}
    /\ pc \in [Threads -> {"idle", "call", "lock", "trace", "unlock"}]
    /\ call \in [Threads -> Nat \X LogTypes]
    /\ frame \in [Threads -> 0 .. Frames]
    /\ buffer \in Seq(Piece) /\ file \in Seq(Piece)
    /\ run \in 0 .. MaxRuns /\ calls \in 0 .. MaxCalls
    /\ cut \subseteq 1 .. run
    /\ state # "live" \/ ~open => buffer = <<>>

\* All text, in the order in which it will stand in the file.
Text == file \o buffer

\* A piece with which a call may end: the rest of its message, or of the last line
\* of its trace.
EndsCall(p) == p[3] \in {1, 2 * Frames + 1}

\* What may stand behind piece p: the next piece of the same call or, if p ends its
\* call or is the last that a killed run has brought to the file, a call's beginning.
Follows(p, q) ==
    \/ q[1] = p[1] /\ q[2] = p[2] /\ q[3] = p[3] + 1
    \/ q[3] = 0 /\ p[1] <= q[1] /\ EndsCall(p)
    \/ q[3] = 0 /\ p[1] < q[1] /\ p[1] \in cut

\* Every line and every trace stands in one piece, directly behind the line it
\* belongs to, and the runs follow each other.  Only at the end of a killed run is
\* something torn: its last line or trace may stop anywhere, and the first line of
\* the next run is then appended to half a line.
Untorn == \A i \in 1 .. Len(Text) - 1 : Follows(Text[i], Text[i + 1])

\* Where the line of call c of this run begins in a text.
LinesOf(c, text) == {i \in 1 .. Len(text) : text[i] = <<run, c, 0>>}

\* Once the Logger is freed, the file has one line, and a whole one, of every call of
\* the run; without a file, of none.
AllThere ==
    state = "freed" =>
        \A c \in 1 .. calls :
            IF open
            THEN \E i \in 1 .. Len(file) - 1 :
                    LinesOf(c, file) = {i} /\ file[i + 1] = <<run, c, 1>>
            ELSE LinesOf(c, file) = {}

\* A call of logger_log returns: no path through it leaves the mutex locked.
LogReturns == \A t \in Threads : pc[t] = "call" ~> pc[t] = "idle"
=============================================================================
