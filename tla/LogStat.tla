------------------------------- MODULE LogStat -------------------------------
(***************************************************************************)
(* The log statistics program (src/hw10-threads).  main deals the log      *)
(* files out to threads; every thread reads its files line by line, counts *)
(* bytes per URL and hits per referer in two containers of its own and     *)
(* merges them into two global ones when a file has been read.  The total  *)
(* of bytes is global too and every line adds to it.                       *)
(*                                                                         *)
(* What a thread does to its own containers is part of the step that reads *)
(* the line; what it does to shared ones takes several steps: lock, one    *)
(* step per item that is merged, unlock.  The load and the store of        *)
(* total += size are two steps as well.                                    *)
(***************************************************************************)
EXTENDS TopN

CONSTANTS
    FileCount,          \* number of log files found
    ThreadCount,        \* number of threads asked for
    Capacity,           \* TOP * 100
    Top,                \* TOP
    Logs,               \* what the files can hold
    NoUrl,              \* a request that is matched but has no URL
    Nobody              \* no owner of a mutex

\* With no file main exits; with no thread the division of main.c:109 traps.
ASSUME CountAssumption == FileCount \in Nat \ {0} /\ ThreadCount \in Nat \ {0}
ASSUME CapacityAssumption == Capacity \in Nat /\ Top \in Nat

\* A file is a sequence of lines, its sizes are numbers that atoi can represent.
ASSUME LogsAssumption ==
    \A l \in Logs : \A f \in 1 .. FileCount :
        /\ Len(l[f].lines) \in Nat
        /\ \A i \in 1 .. Len(l[f].lines) : l[f].lines[i].size \in 0 .. IntMax

\* thread_count after main.c:102-104.
T == IF ThreadCount > FileCount THEN FileCount ELSE ThreadCount
Threads == 1 .. T
ASSUME NobodyAssumption == Nobody \notin Threads

Tables == {"url", "ref"}

VARIABLES
    log,                \* content of the files: [readable, lines] each
    main,               \* where main is
    started,            \* number of threads created
    slice,              \* thread_data[t].file_list, as file numbers
    pc,                 \* where a thread is
    file,               \* position of the file a thread works on in its slice
    line,               \* number of the line it reads next
    own,                \* its two containers
    table,              \* the global container it merges into
    todo,               \* the items it has still to merge
    saved,              \* the capacity it has saved
    loaded,             \* the total it has loaded
    list, capacity, owner,      \* the two global containers and their mutexes
    total, totalOwner,          \* gl_total_size
    printed             \* what main has printed

mainVars == <<main, started, slice, printed>>
threadVars == <<pc, file, line, own>>
mergeVars == <<table, todo, saved, list, capacity, owner>>
totalVars == <<loaded, total, totalOwner>>
vars == <<log, mainVars, threadVars, mergeVars, totalVars>>

Empty == [t \in Tables |-> <<>>]

\* The files of thread i: FilesPerThread each, and the last one gets those
\* that are left over.
FilesPerThread == FileCount \div T

\* Mutant: files counted from 0.
OwnFromZero(i) == [j \in 1 .. FilesPerThread |-> (i - 1) * FilesPerThread + j - 1]

Own(i) == [j \in 1 .. FilesPerThread |-> (i - 1) * FilesPerThread + j]

\* Mutant: the files left over are taken from the last thread's own on.
LeftOverShifted ==
    [j \in 1 .. FileCount - FilesPerThread * T |-> FilesPerThread * (T - 1) + j]

LeftOver == [j \in 1 .. FileCount - FilesPerThread * T |-> FilesPerThread * T + j]

\* Mutant: the files left over are forgotten.
SliceOwn(i) == Own(i)

Slice(i) == Own(i) \o (IF i = T THEN LeftOver ELSE <<>>)

Init ==
    /\ log \in Logs
    /\ main = "create"
    /\ started = 0
    /\ slice = [t \in Threads |-> <<>>]
    /\ pc = [t \in Threads |-> "off"]
    /\ file = [t \in Threads |-> 1]
    /\ line = [t \in Threads |-> 1]
    /\ own = [t \in Threads |-> Empty]
    /\ table = [t \in Threads |-> "url"]
    /\ todo = [t \in Threads |-> <<>>]
    /\ saved = [t \in Threads |-> 0]
    /\ loaded = [t \in Threads |-> 0]
    /\ list = Empty
    /\ capacity = [c \in Tables |-> Capacity]
    /\ owner = [c \in Tables |-> Nobody]
    /\ total = 0
    /\ totalOwner = Nobody
    /\ printed = Empty

----------------------------------------------------------------------------
(* main *)

\* The next thread is created with its slice ...
CreateThread ==
    /\ main = "create"
    /\ started < T
    /\ started' = started + 1
    /\ slice' = [slice EXCEPT ![started + 1] = Slice(started + 1)]
    /\ pc' = [pc EXCEPT ![started + 1] = "next"]
    /\ UNCHANGED <<log, main, printed, file, line, own, mergeVars, totalVars>>

\* ... or pthread_create fails and exit ends the process and its threads.
CreateFails ==
    /\ main = "create"
    /\ started < T
    /\ main' = "exited"
    /\ UNCHANGED <<log, started, slice, printed, threadVars, mergeVars, totalVars>>

\* pthread_join of every thread.
Join ==
    /\ main = "create"
    /\ started = T
    /\ \A t \in Threads : pc[t] = "ended"
    /\ main' = "joined"
    /\ UNCHANGED <<log, started, slice, printed, threadVars, mergeVars, totalVars>>

Report ==
    /\ main = "joined"
    /\ printed' = [c \in Tables |-> Printed(list[c], capacity[c], Top)]
    /\ main' = "done"
    /\ UNCHANGED <<log, started, slice, threadVars, mergeVars, totalVars>>

----------------------------------------------------------------------------
(* get_stat *)

Runs(t) == main # "exited" /\ t \in Threads

File(t) == log[slice[t][file[t]]]

\* fopen; a file that cannot be opened is skipped.
OpenFile(t) ==
    /\ Runs(t)
    /\ pc[t] = "next"
    /\ file[t] <= Len(slice[t])
    /\ IF File(t).readable
       THEN /\ pc' = [pc EXCEPT ![t] = "read"]
            /\ own' = [own EXCEPT ![t] = Empty]
            /\ UNCHANGED file
       ELSE /\ file' = [file EXCEPT ![t] = @ + 1]
            /\ UNCHANGED <<pc, own>>
    /\ line' = [line EXCEPT ![t] = 1]
    /\ UNCHANGED <<log, mainVars, mergeVars, totalVars>>

EndThread(t) ==
    /\ Runs(t)
    /\ pc[t] = "next"
    /\ file[t] > Len(slice[t])
    /\ pc' = [pc EXCEPT ![t] = "ended"]
    /\ UNCHANGED <<log, mainVars, file, line, own, mergeVars, totalVars>>

\* parse_combined_logline for a line the pattern does not match.
SkipLine(t) ==
    /\ Runs(t)
    /\ pc[t] = "read"
    /\ line[t] <= Len(File(t).lines)
    /\ ~File(t).lines[line[t]].matched
    /\ line' = [line EXCEPT ![t] = @ + 1]
    /\ UNCHANGED <<log, mainVars, pc, file, own, mergeVars, totalVars>>

\* What a matched line adds to the two containers of the thread.  A request
\* line that is not "method path protocol" has no URL.
Counted(tables, l) ==
    [url |-> IF l.url = NoUrl THEN tables["url"]
             ELSE Add(tables["url"], Capacity, l.url, l.size),
     ref |-> Add(tables["ref"], Capacity, l.referer, 1)]

\* Mutant: ts_add without its mutex.
ParseLineUnlocked(t) ==
    /\ Runs(t)
    /\ pc[t] = "read"
    /\ line[t] <= Len(File(t).lines)
    /\ File(t).lines[line[t]].matched
    /\ own' = [own EXCEPT ![t] = Counted(@, File(t).lines[line[t]])]
    /\ loaded' = [loaded EXCEPT ![t] = total]
    /\ pc' = [pc EXCEPT ![t] = "total"]
    /\ UNCHANGED <<log, mainVars, file, line, mergeVars, total, totalOwner>>

\* parse_combined_logline for a matched line, up to the load of ts_add.
ParseLine(t) ==
    /\ Runs(t)
    /\ pc[t] = "read"
    /\ line[t] <= Len(File(t).lines)
    /\ File(t).lines[line[t]].matched
    /\ totalOwner = Nobody
    /\ own' = [own EXCEPT ![t] = Counted(@, File(t).lines[line[t]])]
    /\ totalOwner' = t
    /\ loaded' = [loaded EXCEPT ![t] = total]
    /\ pc' = [pc EXCEPT ![t] = "total"]
    /\ UNCHANGED <<log, mainVars, file, line, mergeVars, total>>

\* The store of ts_add and the unlock.
AddTotal(t) ==
    /\ Runs(t)
    /\ pc[t] = "total"
    /\ total' = loaded[t] + File(t).lines[line[t]].size
    /\ totalOwner' = Nobody
    /\ loaded' = [loaded EXCEPT ![t] = 0]
    /\ line' = [line EXCEPT ![t] = @ + 1]
    /\ pc' = [pc EXCEPT ![t] = "read"]
    /\ UNCHANGED <<log, mainVars, file, own, mergeVars>>

CloseFile(t) ==
    /\ Runs(t)
    /\ pc[t] = "read"
    /\ line[t] > Len(File(t).lines)
    /\ pc' = [pc EXCEPT ![t] = "merge"]
    /\ table' = [table EXCEPT ![t] = "url"]
    /\ UNCHANGED <<log, mainVars, file, line, own, todo, saved, list, capacity, owner, totalVars>>

\* Mutant: the capacity is saved and raised before the lock is taken.
MergeBeginEarly(t) ==
    LET c == table[t] IN
    /\ Runs(t)
    /\ pc[t] = "merge"
    /\ owner' = [owner EXCEPT ![c] = t]
    /\ todo' = [todo EXCEPT ![t] = own[t][c]]
    /\ saved' = [saved EXCEPT ![t] = capacity[c]]
    /\ capacity' = [capacity EXCEPT ![c] = @ + Capacity]
    /\ pc' = [pc EXCEPT ![t] = "merging"]
    /\ UNCHANGED <<log, mainVars, file, line, own, table, list, totalVars>>

\* topn_cont_merge: lock the destination, save its capacity and raise it ...
MergeBegin(t) ==
    LET c == table[t] IN
    /\ Runs(t)
    /\ pc[t] = "merge"
    /\ owner[c] = Nobody
    /\ owner' = [owner EXCEPT ![c] = t]
    /\ todo' = [todo EXCEPT ![t] = own[t][c]]
    /\ saved' = [saved EXCEPT ![t] = capacity[c]]
    /\ capacity' = [capacity EXCEPT ![c] = @ + Capacity]
    /\ pc' = [pc EXCEPT ![t] = "merging"]
    /\ UNCHANGED <<log, mainVars, file, line, own, table, list, totalVars>>

\* ... add the items of the source one by one ...
MergeItem(t) ==
    LET c == table[t] IN
    /\ Runs(t)
    /\ pc[t] = "merging"
    /\ todo[t] # <<>>
    /\ list' = [list EXCEPT ![c] = AddItem(@, Head(todo[t]).key, Head(todo[t]).value)]
    /\ todo' = [todo EXCEPT ![t] = Tail(@)]
    /\ UNCHANGED <<log, mainVars, threadVars, table, saved, capacity, owner, totalVars>>

\* Mutant: the mutex is not released.
ReleaseForgotten(c) == UNCHANGED owner

Release(c) == owner' = [owner EXCEPT ![c] = Nobody]

\* ... restore the capacity, drop what is past it and unlock.
MergeEnd(t) ==
    LET c == table[t] IN
    /\ Runs(t)
    /\ pc[t] = "merging"
    /\ todo[t] = <<>>
    /\ capacity' = [capacity EXCEPT ![c] = saved[t]]
    /\ list' = [list EXCEPT ![c] = PrepCapacity(@, saved[t])]
    /\ Release(c)
    /\ saved' = [saved EXCEPT ![t] = 0]
    /\ own' = [own EXCEPT ![t][c] = <<>>]
    /\ IF c = "url"
       THEN /\ table' = [table EXCEPT ![t] = "ref"]
            /\ pc' = [pc EXCEPT ![t] = "merge"]
            /\ UNCHANGED <<file, line>>
       ELSE /\ pc' = [pc EXCEPT ![t] = "next"]
            /\ file' = [file EXCEPT ![t] = @ + 1]
            /\ line' = [line EXCEPT ![t] = 1]
            /\ UNCHANGED table
    /\ UNCHANGED <<log, mainVars, todo, totalVars>>

----------------------------------------------------------------------------
Main == CreateThread \/ CreateFails \/ Join \/ Report

Thread(t) ==
    \/ OpenFile(t)
    \/ EndThread(t)
    \/ SkipLine(t)
    \/ ParseLine(t)
    \/ AddTotal(t)
    \/ CloseFile(t)
    \/ MergeBegin(t)
    \/ MergeItem(t)
    \/ MergeEnd(t)

Next == Main \/ \E t \in Threads : Thread(t)

Spec == Init /\ [][Next]_vars

\* The operating system runs every thread that can run.  A thread waits for
\* a mutex only while another one is inside its critical section, and there
\* are finitely many of those, so weak fairness is enough.
Fairness == WF_vars(Main) /\ \A t \in Threads : WF_vars(Thread(t))

FairSpec == Spec /\ Fairness

----------------------------------------------------------------------------
(* Properties                                                              *)

Stages == {"off", "next", "read", "total", "merge", "merging", "ended"}

\* The ranges of the variables: files in the slices are files of the list,
\* the owner of a mutex is a thread that was created.
TypeOK ==
    /\ log \in Logs
    /\ main \in {"create", "joined", "done", "exited"}
    /\ started \in 0 .. T
    /\ slice \in [Threads -> Seq(1 .. FileCount)]
    /\ pc \in [Threads -> Stages]
    /\ file \in [Threads -> Nat \ {0}]
    /\ line \in [Threads -> Nat \ {0}]
    /\ table \in [Threads -> Tables]
    /\ saved \in [Threads -> Nat]
    /\ capacity \in [Tables -> Nat]
    /\ owner \in [Tables -> Threads \cup {Nobody}]
    /\ totalOwner \in Threads \cup {Nobody}
    /\ total \in Nat
    /\ loaded \in [Threads -> Nat]

\* Whoever finds the mutex of a global container free finds the capacity
\* that topn_cont_init gave it and no more items than that, although merges
\* raise the capacity while they run.
CapacityRestored ==
    \A c \in Tables : owner[c] = Nobody =>
        capacity[c] = Capacity /\ Len(list[c]) <= Capacity

\* A global container is sorted and holds a key once, whatever the order in
\* which threads merge; topn_cont_print relies on it to print the largest.
ContainersOrdered ==
    \A c \in Tables : Descending(list[c]) /\ DistinctKeys(list[c])

\* The lines of the readable files that the pattern matches: <<file, number>>.
Matched ==
    UNION {{f} \X {i \in 1 .. Len(log[f].lines) : log[f].lines[i].matched} :
              f \in {f \in 1 .. FileCount : log[f].readable}}

LineAt(e) == log[e[1]].lines[e[2]]

\* What a line counts for in a container, and how much; a line without a URL is
\* no hit in the container of URLs.
KeyAt(c, e) == IF c = "url" THEN LineAt(e).url ELSE LineAt(e).referer
Amount(c, e) == IF c = "url" THEN LineAt(e).size ELSE 1
Hits(c) == {e \in Matched : c = "url" => LineAt(e).url # NoUrl}

\* The distinct keys a container meets.
KeysOf(c) == {KeyAt(c, e) : e \in Hits(c)}

\* A sum as the size of a set: one element for each byte, or each hit, of a line.
Units(c, lines) == UNION {{e} \X (1 .. Amount(c, e)) : e \in lines}

\* The value that belongs to a key, and the total that main should print.
TrueValue(c, key) == Cardinality(Units(c, {e \in Hits(c) : KeyAt(c, e) = key}))
TrueTotal == Cardinality(Units("url", Matched))

\* No value is ever too large: no line and no merged item is counted twice,
\* by whatever thread, a dropped key comes back with less, never more, and a
\* gint that wraps wraps downwards.
NeverOvercounts ==
    \A c \in Tables : \A i \in DOMAIN list[c] :
        list[c][i].value <= TrueValue(c, list[c][i].key)

\* Room for every key in the container, and for every sum in a gint.
HasRoom(c) ==
    /\ Cardinality(KeysOf(c)) <= Capacity
    /\ \A key \in KeysOf(c) : TrueValue(c, key) <= IntMax

\* As long as there is room the result is exact and does not depend on how files
\* were dealt out and merges interleaved.
ExactWhenRoom ==
    main \in {"joined", "done"} =>
        \A c \in Tables : HasRoom(c) =>
            /\ Keys(list[c]) = KeysOf(c)
            /\ \A i \in DOMAIN list[c] :
                    list[c][i].value = TrueValue(c, list[c][i].key)

\* The total main prints is the sum over all lines: no addition is lost.
TotalExact == main \in {"joined", "done"} => total = TrueTotal

\* The slices deal every file out to exactly one thread: none is left out
\* and none is read (and its name freed) twice.
EachFileOnce ==
    started = T =>
        \A f \in 1 .. FileCount :
            \E t \in Threads : \E j \in DOMAIN slice[t] :
                /\ slice[t][j] = f
                /\ \A u \in Threads : \A k \in DOMAIN slice[u] :
                        slice[u][k] = f => u = t /\ k = j

\* The program comes to an end: main prints its report, or gave up when a
\* thread could not be created; no lock is left behind.
Terminates == <>(main \in {"done", "exited"})

\* main.c:141 announces the top 10 and passes TOP to topn_cont_print.
PrintsTop == \A c \in Tables : Len(printed[c]) <= Top
=============================================================================
