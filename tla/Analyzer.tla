------------------------------ MODULE Analyzer ------------------------------
(***************************************************************************)
(* dpdk-analyzer (main.c): one loop takes bursts of packets from the       *)
(* network card, counts each, logs it through the Logger of hw07-logger    *)
(* and frees its buffer, until SIGINT or SIGTERM comes.  The card, the     *)
(* memory pool and the burst are the DPDK library's (external).            *)
(***************************************************************************)
EXTENDS Integers, Sequences, SequencesExt

CONSTANTS
    Mbufs,          \* NUM_MBUFS buffers
    RX_RING_SIZE, BURST_SIZE,
    Length,         \* pkt_len by kind of packet
    MaxPackets      \* bound: packets that arrive

\* IPv4 with one of three protocols, with another one, and anything else.
Kinds == {"tcp", "udp", "icmp", "ip", "frame"}
Counters == {"total", "bytes", "ip", "tcp", "udp", "icmp", "other"}
Signals == {"SIGINT", "SIGTERM"}

ASSUME SizeAssumption ==
    RX_RING_SIZE \in Nat \ {0} /\ BURST_SIZE \in Nat \ {0} /\ MaxPackets \in Nat
ASSUME LengthAssumption == Length \in [Kinds -> Nat]

VARIABLES
    at,             \* where main is
    handlers,       \* signals with signal_handler
    force_quit,
    mbuf_pool,      \* the free buffers
    ring,           \* buffers the card has filled
    pkt,            \* pkt[m] = kind of the packet in buffer m
    bufs,           \* the burst, from bufs[i] on
    stats,
    state, open, owner, pc, call, frame, buffer, file, run, calls, cut,  \* the Logger
    arrived,        \* packets so far
    handed,         \* history: the packets rte_eth_rx_burst has handed out
    message,        \* history: message[c] = the packet of log_msg in call c
    asked           \* history: a signal with a handler came

loggerVars == <<state, open, owner, pc, call, frame, buffer, file, run, calls, cut>>
cardVars == <<ring, pkt, arrived>>
history == <<handed, message, asked>>
vars == <<at, handlers, force_quit, mbuf_pool, cardVars, bufs, stats, loggerVars, history>>

Main == "main"

Log == INSTANCE Logger
    WITH Threads <- {Main}, NoThread <- "nobody", Frames <- 0,
         MaxCalls <- MaxPackets, MaxRuns <- 1

Init ==
    /\ at = "logger_init" /\ handlers = {} /\ force_quit = FALSE
    /\ mbuf_pool = {} /\ ring = <<>> /\ pkt = [m \in Mbufs |-> "frame"]
    /\ bufs = <<>> /\ stats = [c \in Counters |-> 0]
    /\ Log!Init
    /\ arrived = 0 /\ handed = <<>> /\ message = <<>> /\ asked = FALSE

\* main and port_init up to the loop.
StepAfter == [eal |-> "ports", ports |-> "pool", pool |-> "configure",
              configure |-> "queue", queue |-> "start", start |-> "SIGINT",
              SIGINT |-> "SIGTERM", SIGTERM |-> "loop"]

Logging ==
    /\ at = "logger_init"
    /\ Log!LoggerInit
    /\ at' = "eal"
    /\ UNCHANGED <<handlers, force_quit, mbuf_pool, cardVars, bufs, stats, history>>

Setup ==
    /\ at \in DOMAIN StepAfter
    /\ at' = StepAfter[at]
    /\ mbuf_pool' = IF at = "pool" THEN Mbufs ELSE mbuf_pool
    /\ handlers' = IF at \in Signals THEN handlers \cup {at} ELSE handlers
    /\ UNCHANGED <<force_quit, cardVars, bufs, stats, loggerVars, history>>

\* rte_exit: the process ends without logger_free.
Fail ==
    /\ at \in DOMAIN StepAfter \ Signals
    /\ at' = "failed"
    /\ Log!Kill
    /\ UNCHANGED <<handlers, force_quit, mbuf_pool, cardVars, bufs, stats, history>>

\* rte_eth_rx_burst: the buffers change hands, the oldest first.
Burst ==
    /\ at = "loop" /\ ~force_quit /\ ring # <<>>
    /\ \E n \in 1 .. Len(ring) :
        /\ n <= BURST_SIZE
        /\ bufs' = SubSeq(ring, 1, n)
        /\ ring' = SubSeq(ring, n + 1, Len(ring))
        /\ handed' = handed \o [j \in 1 .. n |-> pkt[ring[j]]]
    /\ at' = "analyze"
    /\ UNCHANGED <<handlers, force_quit, mbuf_pool, pkt, stats, loggerVars, arrived,
                   message, asked>>

\* The counters analyze_packet raises by one.
CountedIn(kind) ==
    {"total"} \cup CASE kind = "frame" -> {"other"}
                     [] kind = "ip"    -> {"ip", "other"}
                     [] OTHER          -> {"ip", kind}

\* Mutant: the index runs from the wrong end of the burst.
AnalyzeLast ==
    LET kind == pkt[Last(bufs)]
    IN  /\ at = "analyze" /\ at' = "log"
        /\ stats' = [c \in Counters |->
             stats[c] + (IF c = "bytes" THEN Length[kind]
                         ELSE IF c \in CountedIn(kind) THEN 1 ELSE 0)]
        /\ UNCHANGED <<handlers, force_quit, mbuf_pool, cardVars, bufs, loggerVars, history>>

\* analyze_packet up to the call of logger_info.
Analyze ==
    LET kind == pkt[Head(bufs)]
    IN  /\ at = "analyze" /\ at' = "log"
        /\ stats' = [c \in Counters |->
             stats[c] + (IF c = "bytes" THEN Length[kind]
                         ELSE IF c \in CountedIn(kind) THEN 1 ELSE 0)]
        /\ UNCHANGED <<handlers, force_quit, mbuf_pool, cardVars, bufs, loggerVars, history>>

LogPacket ==
    /\ at = "log" /\ at' = "logging"
    /\ Log!Log(Main, "INFO")
    /\ message' = Append(message, pkt[Head(bufs)])
    /\ UNCHANGED <<handlers, force_quit, mbuf_pool, cardVars, bufs, stats, handed, asked>>

InLogger ==
    /\ at = "logging"
    /\ Log!LogStep(Main)
    /\ UNCHANGED <<at, handlers, force_quit, mbuf_pool, cardVars, bufs, stats, history>>

\* Mutant: the loop over the burst looks at force_quit, too.
FreePacketHurried ==
    /\ at = "logging" /\ pc[Main] = "idle"
    /\ mbuf_pool' = mbuf_pool \cup {Head(bufs)}
    /\ bufs' = IF force_quit THEN <<>> ELSE Tail(bufs)
    /\ at' = IF bufs' = <<>> THEN "loop" ELSE "analyze"
    /\ UNCHANGED <<handlers, force_quit, cardVars, stats, loggerVars, history>>

\* Mutant: one packet too many, i <= nb_rx.
FreePacketLate ==
    /\ at = "logging" /\ pc[Main] = "idle"
    /\ mbuf_pool' = mbuf_pool \cup {Head(bufs)}
    /\ bufs' = Tail(bufs)
    /\ at' = IF bufs = <<>> THEN "loop" ELSE "analyze"
    /\ UNCHANGED <<handlers, force_quit, cardVars, stats, loggerVars, history>>

\* rte_pktmbuf_free when logger_info has returned, and on to the next packet.
FreePacket ==
    /\ at = "logging" /\ pc[Main] = "idle"
    /\ mbuf_pool' = mbuf_pool \cup {Head(bufs)}
    /\ bufs' = Tail(bufs)
    /\ at' = IF bufs' = <<>> THEN "loop" ELSE "analyze"
    /\ UNCHANGED <<handlers, force_quit, cardVars, stats, loggerVars, history>>

\* rte_eth_dev_stop and rte_eth_dev_close: the card gives its buffers back.
Stop ==
    /\ at = "loop" /\ force_quit
    /\ at' = "print_stats"
    /\ mbuf_pool' = mbuf_pool \cup Range(ring) /\ ring' = <<>>
    /\ UNCHANGED <<handlers, force_quit, pkt, bufs, stats, loggerVars, arrived, history>>

Finish ==
    /\ at = "print_stats" /\ at' = "done"
    /\ Log!LoggerFree
    /\ UNCHANGED <<handlers, force_quit, mbuf_pool, cardVars, bufs, stats, history>>

MainStep ==
    \/ Logging \/ Setup \/ Fail
    \/ Burst \/ Analyze \/ LogPacket \/ InLogger \/ FreePacket
    \/ Stop \/ Finish

Ended == {"done", "failed", "killed"}

\* Mutant: SIGTERM has the handler, but the handler knows SIGINT only.
SignalIntOnly(s) ==
    /\ s \in handlers /\ at \notin Ended
    /\ force_quit' = (force_quit \/ s = "SIGINT") /\ asked' = TRUE
    /\ UNCHANGED <<at, handlers, mbuf_pool, cardVars, bufs, stats, loggerVars, handed, message>>

\* signal_handler.
Signal(s) ==
    /\ s \in handlers /\ at \notin Ended
    /\ force_quit' = TRUE /\ asked' = TRUE
    /\ UNCHANGED <<at, handlers, mbuf_pool, cardVars, bufs, stats, loggerVars, handed, message>>

\* A signal before its handler is installed.
Killed ==
    /\ at \notin Ended \cup {"logger_init"} /\ handlers # Signals
    /\ at' = "killed"
    /\ Log!Kill
    /\ UNCHANGED <<handlers, force_quit, mbuf_pool, cardVars, bufs, stats, history>>

\* The card puts a packet into a free buffer; without one the packet is lost.
Arrive(kind) ==
    /\ at \in {"SIGINT", "SIGTERM", "loop", "analyze", "log", "logging"}
    /\ arrived < MaxPackets /\ Len(ring) < RX_RING_SIZE
    /\ arrived' = arrived + 1
    /\ \E m \in mbuf_pool :
        /\ mbuf_pool' = mbuf_pool \ {m}
        /\ ring' = Append(ring, m)
        /\ pkt' = [pkt EXCEPT ![m] = kind]
    /\ UNCHANGED <<at, handlers, force_quit, bufs, stats, loggerVars, history>>

Next ==
    \/ MainStep \/ Killed
    \/ \E s \in Signals : Signal(s)
    \/ \E kind \in Kinds : Arrive(kind)

Spec == Init /\ [][Next]_vars

\* main is scheduled; packets and signals come or do not come.
FairSpec == Spec /\ WF_vars(MainStep)

(****************************** Properties *****************************)

\* Between two bursts nothing is left of the last one.
TypeOK ==
    /\ at \in Ended \cup DOMAIN StepAfter
              \cup {"logger_init", "loop", "analyze", "log", "logging", "print_stats"}
    /\ handlers \subseteq Signals /\ force_quit \in BOOLEAN /\ asked \in BOOLEAN
    /\ mbuf_pool \subseteq Mbufs /\ ring \in Seq(Mbufs) /\ bufs \in Seq(Mbufs)
    /\ pkt \in [Mbufs -> Kinds] /\ stats \in [Counters -> Nat]
    /\ Len(ring) <= RX_RING_SIZE /\ Len(bufs) <= BURST_SIZE
    /\ arrived \in 0 .. MaxPackets
    /\ handed \in Seq(Kinds) /\ message \in Seq(Kinds)
    /\ bufs # <<>> <=> at \in {"analyze", "log", "logging"}
    /\ Log!TypeOK

\* No buffer is lost, freed twice or used by the card and the loop at a time.
MbufsConserved ==
    at \notin Ended \cup {"logger_init", "eal", "ports", "pool"} =>
        /\ mbuf_pool \cup Range(ring) \cup Range(bufs) = Mbufs
        /\ IsInjective(ring \o bufs) /\ mbuf_pool \cap Range(ring \o bufs) = {}

\* The packets that are counted: those handed out, less what is left of the burst.
Counted ==
    SubSeq(handed, 1, Len(handed) - Len(bufs)
                        + IF at \in {"log", "logging"} THEN 1 ELSE 0)

NumberOf(kind) == Cardinality({i \in 1 .. Len(Counted) : Counted[i] = kind})

\* The counters are right for the packets as they were when the card handed them
\* out, though it fills freed buffers anew meanwhile: nothing is counted twice or
\* skipped, the classes add up to the total, also when a signal ends the loop.
StatsExact ==
    /\ \A kind \in {"tcp", "udp", "icmp"} : stats[kind] = NumberOf(kind)
    /\ stats["ip"] = Len(Counted) - NumberOf("frame")
    /\ stats["total"] = Len(Counted)
    /\ stats["total"] = stats["tcp"] + stats["udp"] + stats["icmp"] + stats["other"]
    /\ stats["bytes"] =
         Length["tcp"] * NumberOf("tcp") + Length["udp"] * NumberOf("udp")
           + Length["icmp"] * NumberOf("icmp") + Length["ip"] * NumberOf("ip")
           + Length["frame"] * NumberOf("frame")

\* When the program is done the log is one whole line for each packet handed out,
\* in their order; without a file, nothing.
LogComplete ==
    at = "done" =>
        IF open
        THEN /\ Len(file) = 2 * Len(handed)
             /\ \A n \in 1 .. Len(handed) :
                  /\ message[file[2 * n - 1][2]] = handed[n] /\ file[2 * n - 1][3] = 0
                  /\ file[2 * n][2] = file[2 * n - 1][2] /\ file[2 * n][3] = 1
        ELSE file = <<>>

\* A signal after its handler is installed ends the program, and with logger_free.
SignalEnds == asked /\ handlers = Signals ~> at = "done"
=============================================================================
