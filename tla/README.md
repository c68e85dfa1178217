# A verification of the course programs of otus-c-2025-3-kushko

The repository holds seventeen homework programs of a course on C and a final
project, each in a directory of its own. They share no code but the logger
library. This directory models the ones in which several actors, failures or long
sequences of calls meet, checks them with TLC and proves their central
properties with the TLA+ proof system.

How to run: `tlc -workers 2 -config MouseRing.cfg MCMouseRing.tla` (one such
command per configuration, table below) and `tlapm M.tla` for `M` in
`MouseRingProofs`, `DaemonProofs`, `TetrisProofs`, `ScoreboardProofs`,
`LoggerProofs`, `AnalyzerProofs`, `WebServerProofs`, `LogStatProofs`; each is
proved in a minute or two.

## 1. Inventory

| Component (under `src/`) | State | Operations | What is hard about it | What makes it correct |
| --- | --- | --- | --- | --- |
| `hw14-driver/mouse_driv.c`, kernel module `/dev/mouselog` | ring buffer (data, size, head, tail, mutex), `display_mode`, what is registered | load, unload, open, release, read, write, sysfs stores and shows | processes in the kernel at once; copies in two parts that may fault in between; a ring that is resized or freed under other callers; head and tail at the boundary | what was written is read, once and in order; no uninitialised byte is read; no use after free |
| `hw10-threads`, log statistics: `main.c`, `topn_container.c`, `stat_parser.c`, `file_list.c` | two global top-N lists with capacity and mutex, a global total, two private lists per thread | deal out files, create and join threads, parse a line, add, merge, print | threads that merge into shared containers whose capacity is raised meanwhile; keys that are dropped; division remainders; a thread that cannot be created | every line is counted once; the lists are sorted and bounded; the sum is exact; the program ends |
| `hw12-webserver/main.c`, HTTP server | epoll set, `ev_count`, one request record for all connections | epoll_wait, accept, read, parse, answer, close | edge-triggered events, stale events of a batch, requests in pieces, the shared record, the limit of connections | an answer goes to who asked for it; the count of sockets is exact; a served connection is answered |
| `hw08-daemon/main.c`, file size daemon | lock file, socket file, descriptors, signal handler | load configuration, lock, fork twice, bind, accept, send, SIGQUIT | several instances; a lock that is lost at a fork; a handler that closes the wrong descriptor and unlinks a path; a server that is killed | one server; nobody is left waiting; what a crash leaves behind is known |
| `hw17-tetris/game.c` | arena, falling tetromino, score | turn, move, fall, place, remove lines, next | arithmetic at the walls; an array shifted in place while it is walked | the tetromino fits; cells are conserved; full lines go, others stay; every tetromino lands |
| `hw17-tetris/scoreboard.c`, `main.c`, `run.sh` | ten places with a name that is allocated and a score, a file | load, insert, save, remove | two games on one file, a kill inside the save, names that are freed and moved, names with the separator of the file | every name is owned once; places are ordered; no result is lost or doubled |
| `hw07-logger/logger`, `hw07-logger/app` | file, path, mutex, the buffer of stdio | init, log with trace, free | threads that log at once, a buffer that empties when it likes, a process that is killed | lines and traces are not torn; what was logged is there after free; calls return |
| `dpdk-analyzer/main.c` | packet counters, stop flag, packet buffers | set up, receive bursts, classify, log, free, print | a card that fills buffers while the loop reads others, a signal anywhere, a step of the set-up that fails | counters and log agree with the packets; no buffer is lost; a signal ends it |
| `hw02-weather/main.c` | one growing answer buffer | transfer, parse, print, per city | the buffer is not emptied between cities | the answer belongs to the city |
| `hw11-telnet/main.c` | a socket, answer buffer | connect, skip banner, send, receive | partial transfers, timeouts, unsigned lengths | what is printed was received |
| `hw01-rarjpeg/main.c` | scanner counter | scan for a ZIP header | overlap of the signature with itself, end of file | every header is found |
| `hw15-database/main.c` | a table in SQLite | statistics | an empty column | the dispersion |
| `hw03-asm/main.c` | linked lists | for each, filter | none | order |
| `hw09-crc32`, `hw06-gtk`, `hw13-ftrace`, `hw16-cube`, `hw04-curl`, `hw05-valgrind` | next to none | a checksum, a window, a traced sequence of calls, a drawing, a script, a patch | none | - |

The components do not call each other, with one exception: `dpdk-analyzer` and
`hw07-logger/app` link the logger, and so the module `Analyzer` contains an
instance of `Logger`. Inside a component the actors interact
through shared memory (driver, log statistics), through the kernel's queues
(web server, daemon), or through files (daemon's lock and socket path,
scoreboard). The hazards, each at its line with the properties that guard it,
are listed in `PROJECT.json`.

## 2. Modules

| Module | Models |
| --- | --- |
| `ByteFifo` | abstract: what `/dev/mouselog` promises, a byte queue of bounded capacity with overrun |
| `MouseRing` | `mouse_driv.c`; the refinement of `ByteFifo` is its property `FifoSpec` |
| `MouseRingProofs` | theorems about `MouseRing`, the refinement included |
| `TopN` | the list operations of `topn_container.c` as operators |
| `LogStat`, `LogStatProofs` | `main.c`, `stat_parser.c` and the merge of `topn_container.c`, on top of `TopN`, and their theorems |
| `WebServer`, `WebServerProofs` | `hw12-webserver/main.c` and its theorems |
| `Daemon`, `DaemonProofs` | `hw08-daemon/main.c` and its theorems |
| `Tetris`, `TetrisProofs` | `hw17-tetris/game.c` and its theorems |
| `Scoreboard`, `ScoreboardProofs` | `scoreboard.c`, `main.c` and `run.sh` of `hw17-tetris`, and their theorems |
| `Logger`, `LoggerProofs` | the library `hw07-logger/logger` and its theorems |
| `Analyzer`, `AnalyzerProofs` | `dpdk-analyzer/main.c`, composed with an instance of `Logger`, and its theorems, that it uses the Logger as `Logger` says included |
| `MC...` | instances for TLC |

### MouseRing

`data`, `size`, `head`, `tail` are the fields of `struct ring_buffer`. Every
access to `head`, `tail` and the bytes is between `mutex_lock` and
`mutex_unlock`, so a critical section is one action: `Write`, `Read`,
`OpenInsert`, `BufferSizeStore`, `ClearBufferStore`. What the code does outside
the lock is an action of its own: `OpenFormat` reads `display_mode` and formats
the event, `OpenInsert` inserts it later; `StatusCount` computes under the lock,
`StatusPrint` reads `buffer.size` after it. `WriteFault` and `ReadFault` are the
two error returns of each copy: the bytes copied before the fault stay in the
ring. `RingInit`, `RegisterChrdev`, `CreateKobject`, `CreateGroup` and
`InitFails` are the steps of `mouse_driv_init`, `ExitKobject`, `ExitChrdev`,
`ExitFree` those of `mouse_driv_exit`. The kernel is external: rmmod is refused
while the device is open (the `.owner` of `fops`), and removing the sysfs
object waits for calls in progress. If loading fails after `register_chrdev`
under a process that has opened the device, what follows is undefined and the
model stops in the stage `oops`.

`last` is the one variable the code does not have: the bytes the last call
moved. It is the `outcome` of `ByteFifo`.

### TopN and LogStat

A container's list is a sequence of key and value. `AddItem`, `PrepCapacity`,
`Add` and `Printed` are the functions of the same purpose; the stable sort is
defined by the place each item gets. Values are gints: a sum that leaves the
range wraps (`Wrapped`), upwards or downwards, which is what a build without options for
overflow or optimisation, as `CMakeLists.txt` describes it, makes of
`item->value += value`. What a thread does to its private
containers is part of the step that reads the line. On the shared ones it is
`MergeBegin` (lock, save and raise the capacity), one `MergeItem` per item,
`MergeEnd` (restore, cut, unlock). `total += size` is a load (`ParseLine`) and a
store (`AddTotal`).

### WebServer

`sock`, `url`, `from`, `leftover` are the fields of the one `req` that matter:
the socket, the URL (none, a file, or something garbled by two overlapping
texts), whose it is, and whether an earlier text's blank line is still in
`req_buf`, visible or behind the NUL that strtok writes. `EpollWait` hands over
the ready list as `batch`; the batch is worked off event by event (`Accept...`,
`ConnEvent`, `Recv...`, `Respond...`), and clients step in between. A segment is
one of four kinds: a request for a file, the request whose URL is empty, the
first and the second part of a request.

### Daemon

An instance is followed through its three processes by `pc`; `locker` is who
holds the record lock, which goes with the first process; `path` is whose socket
the path names. `fd0` says what descriptor 0 of a daemon is, because that is
what the handler really closes. `Socket`, `Bind` and `Listen` are steps of their
own, and a signal may come between them. `Sigquit` is the handler at any point,
`Killed` the end by SIGKILL, or by SIGQUIT without a handler. `Bound` is an
instance from its bind to its unlink. Record locks,
the path and the accept queue are the kernel's. Two variables are history:
`quits`, whether a handler has run, and `left`, whether the instance that the
path names was killed.

### Tetris

A tetromino is the set of its indices in the array of 16, the arena the set of
filled cells. Keys and falls are single actions; `check_lines` is modelled per
iteration of its loop (`RemoveLine` stays on the line, `PassLine` goes up).
`landed` and `placed` are remembered for the properties.

### Scoreboard

A game `g` holds `names[g]` and `scores[g]`, the two arrays of
`struct scoreboard`. A name is an address, `heap[g]` says what is allocated, and
an access or `free` of something that is not is what `OwnedOnce` excludes.
`Load`, `Insert` and `LinesOf` are `scoreboard_load`, `scoreboard_insert` and the
lines that `scoreboard_save` prints. A line of the file is the sequence of the
tokens that strtok finds in it, a token its text and what atoi makes of it: a
name with tabs becomes several tokens and shifts the score, a name of nothing
but tabs becomes none, and `Load` reads what then stands in the second and third
place. A second word may be a number below zero, which the loader refuses. What a
later save leaves behind its own lines is modelled as whole lines, where the code
may leave a part of one: `Load` reads no further than the places. The ten lines fit in the buffer of stdio, so the save has two steps:
fopen truncates, fclose writes. In between a game may be killed and another one
may load, save or remove the file; `linked` says whether the file a game has open
is still the one in the directory. `known`, `fknown`, `ended`, `serial` and
`tabbed` are history: the results a table was computed from, those the file's was,
those of all games that ended, whether games ran one by one, and whether a name
with tabs was entered.

### Logger

What one `fprintf` writes is line `k` of a call: its message if `k` is 0, else the
k-th line of its trace. stdio writes text in blocks that end anywhere, so a line
is two pieces, its beginning `<<run, call, 2 * k>>` and its rest with the new line,
`<<run, call, 2 * k + 1>>`. Pieces go to `buffer`. In any `fprintf` stdio may empty
what it has into `file`, without the new line, with its beginning or with all of
it (`Printf`), and `logger_free` writes what is left. `LoggerInit` may
fail to open the file, in which case the Logger exists and its calls write
nothing. `Kill` ends a run at any point: the buffer is lost, the file may end in
half a line, and the next run appends its first line directly to it. `cut`, the
runs that were killed, is history. DEBUG and WARNING differ from INFO in the text only. A program calls
`logger_free` when its calls have returned, as both programs and the analyzer do.

### Analyzer

`at` is where main is: the set-up, step by step with its failures, then the loop
(`rte_eth_rx_burst`, then for each packet analyze, log, free), then the statistics
and `logger_free`. `Log == INSTANCE Logger` with main as its only thread does the
logging, so each call of `logger_log` is the steps of that module. The card
(`Arrive`), the pool and the burst belong to the library and are external: the
card fills a buffer of the pool whenever it has one and the ring has room.
`Signal` is SIGINT or SIGTERM at any moment: before its handler is installed it
kills. `handed`, `message` and `asked` are history.

## 3. Runs

| Run | Instance | Shows |
| --- | --- | --- |
| `mouse_ring` | 2 processes, ring of 3 or 4 bytes, events and texts of 1-3 bytes | the ring implements the queue (`FifoSpec`); `OnlyWrittenBytes`, `NoUseAfterFree` |
| `mouse_open` (violation) | the same | an open that fills the ring exactly leaves nothing to read |
| `log_stat` | 3 threads, 4 files, 12 contents, capacity 2 | containers, total and deal-out are right, the program ends |
| `log_top` (violation) | the same | one line more than TOP is printed |
| `web_server` | 3 clients, limit 3 | `AnswersOwnRequest`, `CountExact`, `UrlOfSock` |
| `web_server_live` | 2 clients | `LastIsServed` |
| `daemon` | 3 instances, 2 clients | `SingleServer`, `StaleByKillOnly` |
| `daemon_live` | 2 instances, 2 clients | `ClientSettled` |
| `tetris` | arena 4 x 5, 4 shapes, 6 placed | `TetrominoFits`, `CellsConserved`, `LinesCollapsed`, `TetrominoLands` |
| `scoreboard` | 2 players, 3 places, up to 4 games, 3 results, names with tabs | `OwnedOnce`, `Ranked`, `BestOfKnown`, `SerialBest` |
| `logger` | 2 threads, 2 calls in each of 2 runs, traces of 2 lines | `Untorn`, `AllThere`, `LogReturns` |
| `analyzer` | 3 packets of 5 kinds, 3 buffers, ring of 3, bursts of 2 | `MbufsConserved`, `StatsExact`, `LogComplete`, `SignalEnds` |

Every property has a mutant in `PROJECT.json`: a changed definition, written
next to the original, under which TLC finds the property violated.

**Bounds.** Four bytes are enough for head and tail to meet in each of their
relations (either order, equal, one of them at `size`), and three for the other
parity; the texts fit, fit exactly, and do not fit; two processes are enough for
one to wait before the lock while another resizes. In `log_stat` the remainder
of 4 by 3 goes to the last thread, a capacity of 2 with up to three keys makes
lists overflow in some contents and not in others, and with an `IntMax` of 4 the
sizes of one URL wrap in some contents and fit in others. In `web_server` the limit 3 counts the listening socket, so a third
connection is refused; batches of two and three events occur. In `daemon` three
instances allow a signal to one to hit a second while a third starts or fails to. In
`tetris` the arena of width 4 lets an I fill a line at once and two O fill two
adjacent ones, while S and J leave gaps; `MaxPlaced` is a bound of the model,
where the code plays until there is no room.
In `scoreboard` the first scores are 200, 100 and 0, and the results 0, 100 and
300 miss the table but for the last place, tie with a first score and beat all;
four games make two overlap and two more run behind them; `MCScoreboard` also
checks that the table after the insertions which `scoreboard_init` makes one by
one is the closed form `Init` starts from (`InitIsInsertions`). In `logger` two
threads make one wait while the other is inside its trace, two calls of one
thread follow each other, a trace of two lines can be cut in the message, in a
line and between lines, and the second run appends to what a kill has cut off. In
`analyzer` three packets make a burst that is full, one that is not and one that
is empty, and the card puts a new packet into a buffer that the loop has freed
inside the same burst. The pool is not exhausted: in the program it has
8191 buffers, far more than the ring of 1024 and a burst of 32.

**Deadlock** is not checked where the system may stop: an unloaded driver after
an oops, a log program that has ended, a server that waits for clients, a game
that is over.

**Fairness.** `LogStat`: weak fairness of main and of each thread, which is what
a scheduler gives; a mutex is held only for finitely many steps, so strong
fairness is not needed. `WebServer`: weak fairness of the server's one thread,
none of clients. `Daemon`: weak fairness of what an instance does by itself;
users and clients owe nothing. `Tetris`: weak fairness of the frame, since
`handle_input` returns when no key is waiting and the clock goes on. `Logger`:
weak fairness of a thread that is inside `logger_log`; nothing obliges it to make
another call. `Analyzer`: weak fairness of main, which polls and never waits;
packets and signals may stay away. `MouseRing` and `Scoreboard` have no liveness
property: every call ends in one critical section, and a player may play for
ever.

**Findings.** Two runs show that the code does otherwise than it says. An
insertion that fills the ring to the last byte makes `head` equal to `tail`, and
the unread bytes are lost (`mouse_driv.c:225`, `323`); `ByteFifo` has the action
`Overrun` for it, so that everything else about the queue can still be stated.
And `topn_cont_print` prints one item too many (`topn_container.c:140`).

## 4. Theorems

What the runs check on small instances holds for all constants that satisfy the
named assumptions of the modules:

- `MouseRingProofs` (assumptions: sizes are naturals, texts are sequences of
  bytes, `Uninit` is no byte, modes are naturals). `TypeInvariant` is inductive
  by itself once the range of `head` and `tail` includes `size`.
  `RingStaysAllocated`: the invariant `LifeInv` adds what `NoUseAfterFree` lacks,
  that in the stages of unloading nobody has the device open and nobody is in a
  call. `RingImplementsFifo`: `TypeOK` and `LifeInv` make every step a
  step or a stutter of `ByteFifo`; the lemmas say what the unread bytes are
  after an insertion (`ContentsAfterInsert`), a read (`ContentsAfterRead`) and a
  fault (`ContentsAfterFault`), and `InsertIsFifo` and `ReadIsFifo` turn that
  into `Put`, `Overrun` and `Take`. `NoUninitializedByte` follows from the
  refinement: bytes enter the queue by `Put` only.
- `DaemonProofs` (assumptions: `Nobody` is no instance and no client, the
  backlog is a natural). `OnlyOneServes`: `SingleServer` with `TypeOK` is
  inductive. An instance that is at its unlink is bound, so that without a handler
  the path it removes is its own, and nobody else is bound then; an instance that
  fails to start does not touch the path. The lock plays no part in
  the proof: it does not protect anything. `PathIsServed`: `StaleByKillOnly` with
  `TypeOK` is inductive, too. Every way out of service but a kill leads through `Unlink`, the
  handler that closes the listening socket removes the path as well, and
  a socket that it has closed before bind is refused by bind.
- `TetrisProofs` (assumptions: there is a column, height is a natural,
  tetrominoes are sets of four indices). `TetrominoAlwaysFits`: with `TypeOK`
  inductive, from what `check_position` accepts (`AcceptedFits`).
  `LinesRemoved`: the invariant `Walk` says what the arena is while
  `check_lines` is at line `y`: up to `y` it is `landed`, moved by the `count`
  lines removed so far; above, each cell has moved by the full lines below it.
  `NoCellLost`: a turned tetromino still has four cells because `rotate` is a
  bijection of the sixteen indices (`RotateBijective`, `FourCells`), and taking
  out a full line and moving the rest is one, too, up to the `Width` cells of
  the line (`LineRemoved`).
- `ScoreboardProofs` (assumptions: there is a place, results are naturals, names
  are sequences of tokens, the default name is one token). `NamesOwned` and
  `AlwaysRanked` follow from one invariant (`Counters`, `Tables`, `File`):
  whatever is loaded, a table is `Sound`, its names distinct and allocated; and
  without tabs the file is empty or a whole table in order, so a table that is
  loaded is in order, and an insertion before the first score that is not greater
  keeps it so. `TablesAreBest` and `OneByOneLosesNothing` build on it.
  `BestOfKnown` speaks of the scores that occur and is not inductive, since the
  table that a file leaves depends on all of them; `Computed` states it for
  every natural (`BestFrom`: as many places reach a score as results and first
  scores do, up to the number of places) and adds that an empty file holds no
  result. An insertion pushes down what is not greater, so both counts grow by one
  or the table is full above the score. `Alone` says what games that run one by
  one have in common: the one that runs knows every result so far, and what it
  saves reaches the file.
- `LoggerProofs` (assumptions: `NoThread` is no thread, the bounds are
  naturals). `PrintText`: wherever stdio cuts the text, file and buffer together are
  the old text and the two pieces of the line. `Threading`: who writes holds the
  mutex, different threads have different calls, and the run that is going on
  is none of the killed ones. `Orderly`: what stands at the end of the text is
  the line or the trace of whoever holds the mutex, else the end of a call or of a
  killed run; what waits in the buffer is of this run (`OfRun`), so a kill takes
  nothing from an earlier one. This gives `NeverTorn`. `Counted`:
  a call that is not pending has exactly one line in the text, a pending one
  has none; with `Untorn` the piece behind its beginning is its rest (`WholeLine`),
  which gives `NothingMissing` when `logger_free` has emptied the buffer.
- `AnalyzerProofs` (assumptions: ring and burst have room for a packet, lengths are
  naturals; nothing about the pool). One invariant carries all theorems.
  `Setting`: which handlers are installed, and what there is before the pool.
  `Buffers`: ring and burst hold no buffer twice, share none, and what is in
  neither is in the pool, which is `BuffersConserved`. `Intact`: the buffers still to
  be worked off hold the packets that were handed out, because the card fills only
  what is in the pool; without it `CountersExact` would not be inductive, since
  the loop reads a packet long after it was handed out. The counters are numbers of
  packets of a kind and are shown to grow with each packet by the size of a
  set with one element more. `Logged` relates the calls of the Logger to the packets, and its
  text to whole lines of the first calls, in their order (`Lines`), unless the log
  could not be opened; it gives `LogIsComplete`. `ImplementsLogger` is the
  refinement: every step of main, of the card and of a signal is a step of
  `Logger` or leaves its variables alone, so everything that `LoggerProofs` says of
  one thread and one run holds inside the analyzer.
- `WebServerProofs` (assumptions: clients are finitely many, the limit is
  positive, the server and no socket are no clients). `Queues`: nobody is
  twice in the ready list, the batch or the backlog, who is in the backlog is not
  accepted yet, and an event of the listening socket in the batch has a
  connection waiting for it. From it,
  `CountAlwaysExact` (each accept and each close changes the number of open
  connections by one), `UrlBelongsToSock` and, with `Answers` (who has an answer
  has asked and is closed), `AnswersAreOwn`.
- `LogStatProofs` (assumptions: at least one file and thread, capacities are
  naturals, sizes fit in an int, so that atoi gives what the line says). The lemmas on `TopN` show that the sort gives
  every place to one item, so that it is a permutation in descending order
  (`PlaceOrder`, `PlacesDiffer`, `PlaceTaken`, by counting the items before),
  and that insertion, addition and cut keep order and keys. `Merges`: who is
  inside a merge holds the mutex and has saved the capacity, which gives
  `CapacityComesBack`; `Lists` carries order and distinct keys over the
  private and the shared containers (`AlwaysOrdered`). `FilesDealtOnce` is the
  arithmetic of `Slice` with the remainder of the division.

  The sums need more. A sum over lines is the number of elements of a set that has
  one for each byte or hit of a line, so that it adds up over disjoint sets of
  lines without induction (`SumAdds`, `WorthAdds`). For each thread and container
  the lines are told apart that it has read and not merged yet (`Private`) and that
  it has handed over (`Merged`); no two threads hand over the same line
  (`LinesApart`), and between `MergeBegin` and `MergeEnd` a line belongs to the
  one or the other by whether the item of its key has been merged. `TotalIs`: who is
  between the load and the store of `ts_add` holds its mutex and what it loaded is
  still the total, which is the sum over the lines stored (`TotalIsSum`). `OwnIs`
  and `ListIs`: a value is `Below` the sum of its lines, that is not above it, and a
  negative one not even when the size of a gint is added; this is what makes
  an overflow harmless for `NeverTooMuch`, where `NeverOvercounts` itself
  says too little of the next addition. With room for all keys and sums the values
  are the sums (`ExactIfRoom`), because no cut drops anything (`PreparedWhole`).
  `AllPast` ends the argument: when all threads have ended, the lines handed over
  are all the lines of all files, by `FilesDealtOnce`.

**Only model-checked**: the liveness properties (`Terminates`, `LastIsServed`,
`ClientSettled`, `TetrominoLands`, `LogReturns`, `SignalEnds`), which need
fairness and ENABLED and are out of the prover's reach. Every other property of a run
that passes is the statement of a theorem.

## 5. Plan

Done: the driver, the log statistics, the web server, the daemon, the game, the
score table, the logger, the analyzer, and theorems that state every property but
the liveness ones. What is left, in the order of importance:

1. An abstract specification of the log statistics (a bag of lines that is counted
   in one step) and of the web server (requests answered one at a time), with
   the refinement as a theorem.
2. `Weather`, `Telnet`, `RarJpeg`: the answer buffer that is not emptied, partial
   transfers, the scanner against a reference definition.
3. Pure operators for the dispersion of `hw15-database` and the filter of
   `hw03-asm`.

## 6. Not modelled

Formatting, drawing and the texts of messages; the regular expression of the log
lines (a line matches or does not); HTTP headers and file contents; memory
exhaustion other than a failed load; a file of scores that was edited by hand.
Of the programs:

- the USB snippet of `hw14-driver` is not built;
- `hw02-weather`, `hw11-telnet` and `hw01-rarjpeg` are sequential; what goes wrong
  in them is at the border to libcurl, to a server or to a file, whose behaviour
  would be most of a model;
- `hw15-database` is one query and a dispersion in floating point, `hw03-asm` a map
  and a filter of a list, `hw09-crc32` a checksum of 256 constants that needs bit
  operations: functions of their input;
- `hw06-gtk`, `hw13-ftrace`, `hw16-cube` have no state of their own that lasts, and
  `hw04-curl` and `hw05-valgrind` are a script and a patch.

`PROJECT.json` gives the reason for each.
