--------------------------- MODULE AnalyzerProofs ---------------------------
(***************************************************************************)
(* Theorems about the analyzer, for any number of buffers, any size of the *)
(* ring and the burst, and any number of packets: no buffer is lost or used*)
(* twice, the counters fit the packets the card has handed out, and the log*)
(* that logger_free leaves has one line for each of them.                  *)
(***************************************************************************)
EXTENDS Analyzer, SequenceTheorems, FiniteSetTheorems, TLAPS

InBurst == {"analyze", "log", "logging"}
BeforePool == {"logger_init", "eal", "ports", "pool"}
BeforeLoop == BeforePool \cup {"configure", "queue", "start", "SIGINT", "SIGTERM"}

\* How far main is: signal_handler stands for both signals from the loop on, before
\* the pool is made no buffer exists, and before the loop no packet is handed out.
Setting ==
    /\ at = "SIGTERM" => "SIGINT" \in handlers
    /\ at \in InBurst \cup {"loop", "print_stats", "done"} => handlers = Signals
    /\ at \in BeforePool => mbuf_pool = {} /\ ring = <<>>
    /\ at = "logger_init" => ~open
    /\ at = "done" => state = "freed"
    /\ at \in BeforeLoop => handed = <<>>

\* A buffer is in the pool, in one place of the ring or in one of the burst.
Buffers ==
    /\ \A i, j \in 1 .. Len(ring) : ring[i] = ring[j] => i = j
    /\ \A i, j \in 1 .. Len(bufs) : bufs[i] = bufs[j] => i = j
    /\ \A i \in 1 .. Len(ring), j \in 1 .. Len(bufs) : ring[i] # bufs[j]
    /\ \A i \in 1 .. Len(ring) : ring[i] \notin mbuf_pool
    /\ \A i \in 1 .. Len(bufs) : bufs[i] \notin mbuf_pool
    /\ at \notin BeforePool \cup Ended =>
         \A m \in Mbufs : \/ m \in mbuf_pool
                          \/ \E i \in 1 .. Len(ring) : ring[i] = m
                          \/ \E i \in 1 .. Len(bufs) : bufs[i] = m

\* The packets of the bursts that main has done with.
Left == Len(handed) - Len(bufs)

\* The rest of the burst still holds the packets that were handed out.
Intact ==
    /\ Left \in Nat
    /\ \A j \in 1 .. Len(bufs) : pkt[bufs[j]] = handed[Left + j]

\* The calls of logger_info whose line is in the text.
Written == calls - (IF pc[Main] \in {"call", "lock"} THEN 1 ELSE 0)

\* The text is n whole lines, those of the first n calls.
Lines(text, n) ==
    /\ Len(text) = 2 * n
    /\ \A i \in 1 .. n : /\ text[2 * i - 1][2] = i /\ text[2 * i - 1][3] = 0
                         /\ text[2 * i][2] = i /\ text[2 * i][3] = 1

\* A call for each packet that main is done with or in, in their order, and a line
\* for each call, unless the log could not be opened.
Logged ==
    /\ calls = Left + (IF at = "logging" THEN 1 ELSE 0)
    /\ Len(message) = calls /\ \A n \in 1 .. calls : message[n] = handed[n]
    /\ pc[Main] # "idle" => at = "logging" /\ open /\ state = "live"
    /\ pc[Main] \in {"call", "lock"} => call[Main] = <<calls, "INFO">>
    /\ pc[Main] # "trace"
    /\ state = "live" => run = 1
    /\ \/ ~open /\ Log!Text = <<>>
       \/ open /\ Lines(Log!Text, Written)

----------------------------------------------------------------------------
(* Types *)

\* The two pieces of line k of the call that main is in.
Begin(k) == <<run, call[Main][1], 2 * k>>
Rest(k) == <<run, call[Main][1], 2 * k + 1>>

LEMMA PieceTypes ==
    ASSUME Log!TypeOK, NEW k \in Nat
    PROVE  Begin(k) \in Log!Piece /\ Rest(k) \in Log!Piece
<1>1. call[Main] \in Nat \X Log!LogTypes /\ run \in 0 .. 1
  BY DEF Log!TypeOK
<1>2. call[Main][1] \in Nat /\ run \in Nat /\ 2 * k \in Nat /\ 2 * k + 1 \in Nat
  BY <1>1
<1> QED
  BY <1>2 DEF Log!Piece, Begin, Rest

LEMMA PrintText ==
    ASSUME Log!TypeOK, NEW k \in Nat, Log!Printf(Main, k)
    PROVE  /\ buffer' \in Seq(Log!Piece) /\ file' \in Seq(Log!Piece)
           /\ Log!Text' = Append(Append(Log!Text, Begin(k)), Rest(k))
<1> DEFINE line == <<Begin(k), Rest(k)>>
           text == buffer \o line
<1>1. PICK n \in {0} \cup Len(buffer) .. Len(text) :
        /\ file' = file \o SubSeq(text, 1, n)
        /\ buffer' = SubSeq(text, n + 1, Len(text))
  BY DEF Log!Printf, Begin, Rest
<1>2. /\ Begin(k) \in Log!Piece /\ Rest(k) \in Log!Piece
      /\ buffer \in Seq(Log!Piece) /\ file \in Seq(Log!Piece)
  BY PieceTypes DEF Log!TypeOK
<1>3. /\ line \in Seq(Log!Piece) /\ Len(line) = 2
      /\ line[1] = Begin(k) /\ line[2] = Rest(k)
  BY <1>2
<1> HIDE DEF line
<1>4. /\ text \in Seq(Log!Piece) /\ Len(text) = Len(buffer) + 2 /\ Len(buffer) \in Nat
      /\ \A i \in 1 .. Len(buffer) + 2 :
           text[i] = IF i <= Len(buffer) THEN buffer[i] ELSE line[i - Len(buffer)]
  <2>1. /\ text \in Seq(Log!Piece) /\ Len(text) = Len(buffer) + Len(line)
        /\ \A i \in 1 .. Len(buffer) + Len(line) :
             text[i] = IF i <= Len(buffer) THEN buffer[i] ELSE line[i - Len(buffer)]
    BY <1>2, <1>3, ConcatProperties
  <2> HIDE DEF text
  <2> QED
    BY <1>2, <1>3, <2>1, LenProperties
<1> HIDE DEF text
<1>5. /\ n \in Nat /\ n \in 0 .. Len(text) /\ n \in 1 - 1 .. Len(text)
      /\ Len(text) \in n .. Len(text) /\ 1 \in 1 .. Len(text) + 1
      /\ 1 \in Int /\ n \in Int /\ n + 1 \in Int /\ Len(text) \in Int
  BY <1>1, <1>4
<1>6. /\ SubSeq(text, 1, n) \in Seq(Log!Piece) /\ SubSeq(text, n + 1, Len(text)) \in Seq(Log!Piece)
      /\ Len(SubSeq(text, n + 1, Len(text)))
           = IF n + 1 <= Len(text) THEN Len(text) - (n + 1) + 1 ELSE 0
      /\ \A i \in 1 .. Len(text) - (n + 1) + 1 :
           SubSeq(text, n + 1, Len(text))[i] = text[(n + 1) + i - 1]
  <2>1. \A i \in 1 .. Len(text) : text[i] \in Log!Piece
    BY <1>4, ElementOfSeq
  <2>2. \A i \in 1 .. n : text[i] \in Log!Piece
    BY <1>5, <2>1
  <2>3. \A i \in n + 1 .. Len(text) : text[i] \in Log!Piece
    BY <1>5, <2>1
  <2> QED
    BY <1>5, <2>2, <2>3, SubSeqProperties
<1>7. SubSeq(text, 1, n) \o SubSeq(text, n + 1, Len(text)) = text
  <2>1. SubSeq(text, 1, n) \o SubSeq(text, n + 1, Len(text)) = SubSeq(text, 1, Len(text))
    BY <1>4, <1>5, ConcatAdjacentSubSeq
  <2> QED
    BY <1>4, <2>1, SubSeqFull
<1>8. Log!Text' = file \o text
  <2>1. Log!Text' = (file \o SubSeq(text, 1, n)) \o SubSeq(text, n + 1, Len(text))
    BY <1>1 DEF Log!Text
  <2>2. \A a, b \in Seq(Log!Piece) : (file \o a) \o b = file \o (a \o b)
    BY <1>2, ConcatAssociative
  <2>3. (file \o SubSeq(text, 1, n)) \o SubSeq(text, n + 1, Len(text))
            = file \o (SubSeq(text, 1, n) \o SubSeq(text, n + 1, Len(text)))
    BY <1>6, <2>2
  <2> QED
    BY <1>7, <2>1, <2>3
<1>9. file \o text = Append(Append(Log!Text, Begin(k)), Rest(k))
  <2> DEFINE more == Append(Append(Log!Text, Begin(k)), Rest(k))
             all == file \o text
  <2>1. /\ Log!Text \in Seq(Log!Piece) /\ Len(Log!Text) = Len(file) + Len(buffer) /\ Len(file) \in Nat
        /\ \A i \in 1 .. Len(file) + Len(buffer) :
             Log!Text[i] = IF i <= Len(file) THEN file[i] ELSE buffer[i - Len(file)]
    BY <1>2, ConcatProperties, LenProperties DEF Log!Text
  <2>2. /\ all \in Seq(Log!Piece) /\ Len(all) = Len(file) + Len(text)
        /\ \A i \in 1 .. Len(file) + Len(text) :
             all[i] = IF i <= Len(file) THEN file[i] ELSE text[i - Len(file)]
    <3>1. text \in Seq(Log!Piece) /\ file \in Seq(Log!Piece)
      BY <1>2, <1>4
    <3> QED
      BY <3>1, ConcatProperties
  <2>3. /\ more \in Seq(Log!Piece) /\ Len(more) = Len(Log!Text) + 2
        /\ \A i \in 1 .. Len(Log!Text) : more[i] = Log!Text[i]
        /\ more[Len(Log!Text) + 1] = Begin(k) /\ more[Len(Log!Text) + 2] = Rest(k)
    <3> DEFINE half == Append(Log!Text, Begin(k))
    <3>1. /\ half \in Seq(Log!Piece) /\ Len(half) = Len(Log!Text) + 1 /\ Len(Log!Text) \in Nat
          /\ \A i \in 1 .. Len(Log!Text) : half[i] = Log!Text[i]
          /\ half[Len(Log!Text) + 1] = Begin(k)
      BY <1>2, <2>1, AppendProperties, LenProperties
    <3> HIDE DEF half
    <3>2. /\ Append(half, Rest(k)) \in Seq(Log!Piece)
          /\ Len(Append(half, Rest(k))) = Len(half) + 1
          /\ \A i \in 1 .. Len(half) : Append(half, Rest(k))[i] = half[i]
          /\ Append(half, Rest(k))[Len(half) + 1] = Rest(k)
      BY <1>2, <3>1, AppendProperties
    <3>3. /\ \A i \in 1 .. Len(Log!Text) : i \in 1 .. Len(half)
          /\ Len(Log!Text) + 1 \in 1 .. Len(half) /\ Len(half) + 1 = Len(Log!Text) + 2
      BY <3>1
    <3> QED
      BY <3>1, <3>2, <3>3 DEF half
  <2> HIDE DEF more, all
  <2>4. ASSUME NEW i \in 1 .. Len(all)
        PROVE  all[i] = more[i]
    <3>1. CASE i <= Len(Log!Text)
      <4>1. i \in 1 .. Len(Log!Text) /\ i \in 1 .. Len(file) + Len(text)
        BY <1>4, <2>1, <2>2, <3>1
      <4>2. CASE i <= Len(file)
        BY <2>1, <2>2, <2>3, <4>1, <4>2
      <4>3. CASE ~(i <= Len(file))
        <5>1. i - Len(file) \in 1 .. Len(buffer) + 2 /\ i - Len(file) <= Len(buffer)
          BY <1>4, <2>1, <4>1, <4>3
        <5>2. text[i - Len(file)] = buffer[i - Len(file)]
          BY <1>4, <5>1
        <5> QED
          BY <2>1, <2>2, <2>3, <4>1, <4>3, <5>2
      <4> QED
        BY <4>2, <4>3
    <3>2. CASE i > Len(Log!Text)
      <4>1. /\ ~(i <= Len(file)) /\ i \in 1 .. Len(file) + Len(text)
            /\ i - Len(file) \in 1 .. Len(buffer) + 2 /\ ~(i - Len(file) <= Len(buffer))
            /\ \/ i = Len(Log!Text) + 1 /\ (i - Len(file)) - Len(buffer) = 1
               \/ i = Len(Log!Text) + 2 /\ (i - Len(file)) - Len(buffer) = 2
        <5>1. i \in Nat /\ i <= Len(file) + Len(buffer) + 2 /\ i > Len(file) + Len(buffer)
          BY <1>4, <2>1, <2>2, <3>2
        <5>2. Len(buffer) \in Nat /\ Len(file) \in Nat /\ Len(text) = Len(buffer) + 2
          BY <1>4, <2>1
        <5> QED
          BY <2>1, <5>1, <5>2
      <4>2. all[i] = line[(i - Len(file)) - Len(buffer)]
        BY <1>4, <2>2, <4>1
      <4> QED
        BY <1>3, <2>3, <4>1, <4>2
    <3> QED
      BY <2>1, <3>1, <3>2
  <2>5. Len(all) = Len(more)
    BY <1>4, <2>1, <2>2, <2>3
  <2>6. all = more
    BY <2>2, <2>3, <2>4, <2>5, SeqEqual
  <2> QED
    BY <2>6 DEF all, more
<1>10. file' \in Seq(Log!Piece)
  BY <1>1, <1>2, <1>6, ConcatProperties
<1> QED
  BY <1>1, <1>6, <1>8, <1>9, <1>10

\* The types of the card's and main's own variables.
OwnTypes ==
    /\ at \in Ended \cup DOMAIN StepAfter
              \cup {"logger_init", "loop", "analyze", "log", "logging", "print_stats"}
    /\ handlers \subseteq Signals /\ force_quit \in BOOLEAN /\ asked \in BOOLEAN
    /\ mbuf_pool \subseteq Mbufs /\ ring \in Seq(Mbufs) /\ bufs \in Seq(Mbufs)
    /\ pkt \in [Mbufs -> Kinds] /\ stats \in [Counters -> Nat]
    /\ Len(ring) <= RX_RING_SIZE /\ Len(bufs) <= BURST_SIZE
    /\ arrived \in 0 .. MaxPackets
    /\ handed \in Seq(Kinds) /\ message \in Seq(Kinds)
    /\ bufs # <<>> <=> at \in {"analyze", "log", "logging"}

LEMMA Init1 == Init => TypeOK /\ Setting /\ Buffers /\ Intact /\ Logged
<1> SUFFICES ASSUME Init PROVE TypeOK /\ Setting /\ Buffers /\ Intact /\ Logged
  OBVIOUS
<1>1. OwnTypes
  <2>1. "frame" \in Kinds /\ Len(<<>>) = 0
    BY DEF Kinds
  <2>2. handed \in Seq(Kinds) /\ message \in Seq(Kinds) /\ bufs \in Seq(Mbufs) /\ ring \in Seq(Mbufs)
    BY DEF Init
  <2>3. pkt \in [Mbufs -> Kinds] /\ stats \in [Counters -> Nat]
    BY <2>1 DEF Init
  <2>4. /\ Len(ring) <= RX_RING_SIZE /\ Len(bufs) <= BURST_SIZE
        /\ arrived \in 0 .. MaxPackets
    BY <2>1, SizeAssumption DEF Init
  <2> QED
    BY <2>2, <2>3, <2>4 DEF Init, OwnTypes, Ended
<1>2. Log!TypeOK
  <2>1. <<>> \in Seq(Log!Piece) /\ <<0, "INFO">> \in Nat \X Log!LogTypes
    BY DEF Log!LogTypes
  <2>2. open = FALSE /\ buffer = <<>> /\ file = <<>>
    BY DEF Init, Log!Init
  <2>3. /\ call \in [{Main} -> Nat \X Log!LogTypes]
        /\ pc \in [{Main} -> {"idle", "call", "lock", "trace", "unlock"}]
        /\ frame \in [{Main} -> 0 .. 0]
    BY <2>1 DEF Init, Log!Init
  <2>4. run \in 0 .. 1 /\ calls \in 0 .. MaxPackets
    BY SizeAssumption DEF Init, Log!Init
  <2> QED
    BY <2>1, <2>2, <2>3, <2>4 DEF Init, Log!Init, Log!TypeOK
<1>3. Setting /\ Buffers /\ Intact
  BY DEF Init, Log!Init, Setting, Buffers, Intact, Left, InBurst, BeforePool, BeforeLoop, Ended
<1>4. Logged
  <2>1. Log!Text = <<>> /\ ~open /\ calls = 0 /\ pc[Main] = "idle"
    BY ConcatEmptySeq DEF Init, Log!Init, Log!Text
  <2> QED
    BY <2>1 DEF Init, Log!Init, Logged, Left
<1> QED
  BY <1>1, <1>2, <1>3, <1>4 DEF TypeOK, OwnTypes

LEMMA HeadOfBurst ==
    ASSUME OwnTypes, at \in InBurst
    PROVE  /\ Len(bufs) \in Nat \ {0} /\ Head(bufs) = bufs[1]
           /\ Head(bufs) \in Mbufs /\ pkt[Head(bufs)] \in Kinds
           /\ Tail(bufs) \in Seq(Mbufs) /\ Len(Tail(bufs)) = Len(bufs) - 1
           /\ \A i \in 1 .. Len(bufs) - 1 : Tail(bufs)[i] = bufs[i + 1]
<1>1. bufs \in Seq(Mbufs) /\ bufs # <<>>
  BY DEF OwnTypes, InBurst
<1>2. Len(bufs) \in Nat \ {0}
  BY <1>1, LenProperties, EmptySeq
<1> QED
  BY <1>1, <1>2, HeadTailProperties DEF OwnTypes

LEMMA BurstTaken ==
    ASSUME OwnTypes, Burst
    PROVE  \E n \in 1 .. Len(ring) :
             /\ n <= BURST_SIZE
             /\ bufs' \in Seq(Mbufs) /\ Len(bufs') = n
             /\ \A i \in 1 .. n : bufs'[i] = ring[i]
             /\ ring' \in Seq(Mbufs) /\ Len(ring') = Len(ring) - n /\ Len(ring) \in Nat
             /\ \A i \in 1 .. Len(ring) - n : ring'[i] = ring[n + i]
             /\ handed' \in Seq(Kinds) /\ Len(handed') = Len(handed) + n
             /\ Len(handed) \in Nat
             /\ \A i \in 1 .. Len(handed) : handed'[i] = handed[i]
             /\ \A j \in 1 .. n : handed'[Len(handed) + j] = pkt[ring[j]]
<1>1. PICK n \in 1 .. Len(ring) :
        /\ n <= BURST_SIZE
        /\ bufs' = SubSeq(ring, 1, n)
        /\ ring' = SubSeq(ring, n + 1, Len(ring))
        /\ handed' = handed \o [j \in 1 .. n |-> pkt[ring[j]]]
  BY DEF Burst
<1>2. ring \in Seq(Mbufs) /\ Len(ring) \in Nat /\ handed \in Seq(Kinds) /\ Len(handed) \in Nat
  BY LenProperties DEF OwnTypes
<1>3. \A i \in 1 .. Len(ring) : ring[i] \in Mbufs
  BY <1>2, ElementOfSeq
<1>4. /\ SubSeq(ring, 1, n) \in Seq(Mbufs) /\ Len(SubSeq(ring, 1, n)) = n
      /\ \A i \in 1 .. n : SubSeq(ring, 1, n)[i] = ring[i]
  <2>1. \A i \in 1 .. n : ring[i] \in Mbufs
    BY <1>2, <1>3
  <2>2. /\ SubSeq(ring, 1, n) \in Seq(Mbufs)
        /\ Len(SubSeq(ring, 1, n)) = IF 1 <= n THEN n - 1 + 1 ELSE 0
        /\ \A i \in 1 .. n - 1 + 1 : SubSeq(ring, 1, n)[i] = ring[1 + i - 1]
    BY <1>2, <2>1, SubSeqProperties
  <2> QED
    BY <1>2, <2>2
<1>5. /\ SubSeq(ring, n + 1, Len(ring)) \in Seq(Mbufs)
      /\ Len(SubSeq(ring, n + 1, Len(ring))) = Len(ring) - n
      /\ \A i \in 1 .. Len(ring) - n : SubSeq(ring, n + 1, Len(ring))[i] = ring[n + i]
  <2>1. \A i \in n + 1 .. Len(ring) : ring[i] \in Mbufs
    BY <1>2, <1>3
  <2>2. n + 1 \in Int /\ Len(ring) \in Int
    BY <1>2
  <2>3. /\ SubSeq(ring, n + 1, Len(ring)) \in Seq(Mbufs)
        /\ Len(SubSeq(ring, n + 1, Len(ring)))
              = IF n + 1 <= Len(ring) THEN Len(ring) - (n + 1) + 1 ELSE 0
        /\ \A i \in 1 .. Len(ring) - (n + 1) + 1 :
              SubSeq(ring, n + 1, Len(ring))[i] = ring[(n + 1) + i - 1]
    BY <2>1, <2>2, SubSeqProperties
  <2> QED
    BY <1>2, <2>3
<1>6. /\ handed' \in Seq(Kinds) /\ Len(handed') = Len(handed) + n
      /\ \A i \in 1 .. Len(handed) : handed'[i] = handed[i]
      /\ \A j \in 1 .. n : handed'[Len(handed) + j] = pkt[ring[j]]
  <2> DEFINE more == [j \in 1 .. n |-> pkt[ring[j]]]
  <2>1. \A j \in 1 .. n : pkt[ring[j]] \in Kinds
    BY <1>2, <1>3 DEF OwnTypes
  <2>2. n \in Nat
    BY <1>2
  <2>3. more \in Seq(Kinds) /\ Len(more) = n /\ \A j \in 1 .. n : more[j] = pkt[ring[j]]
    BY <2>1, <2>2, IsASeq
  <2>4. handed' = handed \o more
    BY <1>1
  <2> HIDE DEF more
  <2>5. /\ handed \o more \in Seq(Kinds) /\ Len(handed \o more) = Len(handed) + Len(more)
        /\ \A i \in 1 .. Len(handed) + Len(more) : (handed \o more)[i] =
                IF i <= Len(handed) THEN handed[i] ELSE more[i - Len(handed)]
    BY <1>2, <2>3, ConcatProperties
  <2>6. \A j \in 1 .. n : /\ Len(handed) + j \in 1 .. Len(handed) + Len(more)
                           /\ ~(Len(handed) + j <= Len(handed))
                           /\ (Len(handed) + j) - Len(handed) = j
    BY <1>2, <2>2, <2>3
  <2>7. \A i \in 1 .. Len(handed) : i \in 1 .. Len(handed) + Len(more) /\ i <= Len(handed)
    BY <1>2, <2>2, <2>3
  <2> QED
    BY <2>3, <2>4, <2>5, <2>6, <2>7
<1> QED
  BY <1>1, <1>2, <1>4, <1>5, <1>6

LEMMA OwnTypesStep ==
    ASSUME OwnTypes, Setting, [Next]_vars
    PROVE  OwnTypes'
<1>1. CASE Logging
  BY <1>1 DEF Logging, OwnTypes, cardVars, history, StepAfter
<1>2. CASE Setup
  <2>1. at' \in DOMAIN StepAfter \cup {"loop"} /\ at \notin InBurst /\ at' \notin InBurst
    BY <1>2 DEF Setup, StepAfter, InBurst
  <2> QED
    BY <1>2, <2>1 DEF Setup, OwnTypes, cardVars, history, InBurst
<1>3. CASE Fail
  BY <1>3 DEF Fail, OwnTypes, cardVars, history, Ended, StepAfter
<1>4. CASE Burst
  <2>1. PICK n \in 1 .. Len(ring) :
          /\ n <= BURST_SIZE
          /\ bufs' \in Seq(Mbufs) /\ Len(bufs') = n
          /\ ring' \in Seq(Mbufs) /\ Len(ring') = Len(ring) - n /\ Len(ring) \in Nat
          /\ handed' \in Seq(Kinds)
    BY <1>4, BurstTaken
  <2>2. Len(bufs') <= BURST_SIZE /\ Len(ring') <= RX_RING_SIZE /\ bufs' # <<>>
    BY <2>1, SizeAssumption DEF OwnTypes
  <2> QED
    BY <1>4, <2>1, <2>2 DEF Burst, OwnTypes, loggerVars
<1>5. CASE Analyze
  <2>1. pkt[Head(bufs)] \in Kinds
    BY <1>5, HeadOfBurst DEF Analyze, InBurst
  <2>2. Length[pkt[Head(bufs)]] \in Nat
    BY <2>1, LengthAssumption
  <2>3. stats' \in [Counters -> Nat]
    BY <1>5, <2>2 DEF Analyze, OwnTypes
  <2> QED
    BY <1>5, <2>3 DEF Analyze, OwnTypes, cardVars, history
<1>6. CASE LogPacket
  <2>1. message' \in Seq(Kinds)
    BY <1>6, HeadOfBurst, AppendProperties DEF LogPacket, OwnTypes, InBurst
  <2> QED
    BY <1>6, <2>1 DEF LogPacket, OwnTypes, cardVars
<1>7. CASE InLogger
  BY <1>7 DEF InLogger, OwnTypes, cardVars, history
<1>8. CASE FreePacket
  <2>1. /\ Head(bufs) \in Mbufs /\ bufs' \in Seq(Mbufs)
        /\ Len(bufs) \in Nat /\ Len(bufs') = Len(bufs) - 1
    BY <1>8, HeadOfBurst DEF FreePacket, InBurst
  <2>2. Len(bufs') <= BURST_SIZE
    BY <2>1, SizeAssumption DEF OwnTypes
  <2> QED
    BY <1>8, <2>1, <2>2 DEF FreePacket, OwnTypes, cardVars, history
<1>9. CASE Stop
  <2>1. Range(ring) \subseteq Mbufs /\ ring' = <<>> /\ ring' \in Seq(Mbufs) /\ Len(ring') = 0
    BY <1>9 DEF Stop, OwnTypes, Range
  <2> QED
    BY <1>9, <2>1, SizeAssumption DEF Stop, OwnTypes, history
<1>10. CASE Finish
  BY <1>10 DEF Finish, OwnTypes, cardVars, history, Ended
<1>11. CASE Killed
  BY <1>11 DEF Killed, OwnTypes, Setting, InBurst, cardVars, history, Ended
<1>12. CASE \E s \in Signals : Signal(s)
  BY <1>12 DEF Signal, OwnTypes, cardVars
<1>13. CASE \E kind \in Kinds : Arrive(kind)
  <2>1. PICK kind \in Kinds : Arrive(kind)
    BY <1>13
  <2>2. PICK m \in mbuf_pool :
          /\ mbuf_pool' = mbuf_pool \ {m}
          /\ ring' = Append(ring, m)
          /\ pkt' = [pkt EXCEPT ![m] = kind]
    BY <2>1 DEF Arrive
  <2>3. /\ ring' \in Seq(Mbufs) /\ Len(ring') = Len(ring) + 1
        /\ Len(ring) \in Nat /\ Len(ring) < RX_RING_SIZE
    BY <2>1, <2>2, AppendProperties, LenProperties DEF OwnTypes, Arrive
  <2>4. arrived' \in 0 .. MaxPackets /\ Len(ring') <= RX_RING_SIZE
    BY <2>1, <2>3, SizeAssumption DEF OwnTypes, Arrive
  <2> QED
    BY <2>1, <2>2, <2>3, <2>4 DEF OwnTypes, Arrive, history
<1>14. CASE UNCHANGED vars
  BY <1>14 DEF vars, OwnTypes, cardVars, history
<1> QED
  BY <1>1, <1>2, <1>3, <1>4, <1>5, <1>6, <1>7, <1>8, <1>9, <1>10, <1>11, <1>12, <1>13, <1>14
  DEF Next, MainStep

----------------------------------------------------------------------------
(* Buffers *)

LEMMA SettingStep ==
    ASSUME OwnTypes, Setting, [Next]_vars
    PROVE  Setting'
<1> USE DEF Setting, InBurst, BeforePool, BeforeLoop, history
<1>1. CASE Logging
  BY <1>1 DEF Logging, cardVars
<1>2. CASE Setup
  <2>1. at' = StepAfter[at] /\ at \in DOMAIN StepAfter
    BY <1>2 DEF Setup
  <2>2. at \in BeforeLoop /\ handed' = <<>>
    BY <1>2, <2>1 DEF Setup, StepAfter
  <2>3. CASE at \in Signals
    <3>1. handlers' = handlers \cup {at}
      BY <1>2, <2>3 DEF Setup
    <3>2. CASE at = "SIGINT"
      <4>1. at' = "SIGTERM"
        BY <2>1, <3>2 DEF StepAfter
      <4> QED
        BY <2>2, <3>1, <3>2, <4>1
    <3>3. CASE at = "SIGTERM"
      <4>1. at' = "loop"
        BY <2>1, <3>3 DEF StepAfter
      <4>2. handlers' = Signals
        BY <3>1, <3>3 DEF OwnTypes, Signals
      <4> QED
        BY <4>1, <4>2
    <3> QED
      BY <2>3, <3>2, <3>3 DEF Signals
  <2>4. CASE at = "pool"
    BY <1>2, <2>1, <2>4 DEF Setup, StepAfter, Signals
  <2>5. CASE at \notin Signals \cup {"pool"}
    <3>1. /\ at' \in {"ports", "pool", "queue", "start", "SIGINT"}
          /\ at' \in BeforePool => at \in BeforePool
      BY <2>1, <2>5 DEF StepAfter, Signals
    <3>2. mbuf_pool' = mbuf_pool /\ ring' = ring
      BY <1>2, <2>5 DEF Setup, cardVars
    <3> QED
      BY <2>2, <3>1, <3>2
  <2> QED
    BY <2>3, <2>4, <2>5
<1>3. CASE Fail \/ Killed
  BY <1>3 DEF Fail, Killed, cardVars
<1>4. CASE Burst \/ Stop
  BY <1>4 DEF Burst, Stop, loggerVars
<1>5. CASE Analyze \/ LogPacket \/ InLogger \/ FreePacket \/ Finish
  <2>1. Finish => state' = "freed"
    BY DEF Finish, Log!LoggerFree
  <2> QED
    BY <1>5, <2>1 DEF Analyze, LogPacket, InLogger, FreePacket, Finish, cardVars
<1>6. CASE \E s \in Signals : Signal(s)
  BY <1>6 DEF Signal, cardVars, loggerVars
<1>7. CASE \E kind \in Kinds : Arrive(kind)
  BY <1>7 DEF Arrive, loggerVars
<1>8. CASE UNCHANGED vars
  BY <1>8 DEF vars, cardVars, loggerVars
<1> QED
  BY <1>1, <1>2, <1>3, <1>4, <1>5, <1>6, <1>7, <1>8 DEF Next, MainStep

LEMMA BuffersBurst ==
    ASSUME OwnTypes, Buffers, Burst
    PROVE  Buffers'
<1>1. PICK n \in 1 .. Len(ring) :
        /\ bufs' \in Seq(Mbufs) /\ Len(bufs') = n
        /\ \A i \in 1 .. n : bufs'[i] = ring[i]
        /\ ring' \in Seq(Mbufs) /\ Len(ring') = Len(ring) - n /\ Len(ring) \in Nat
        /\ \A i \in 1 .. Len(ring) - n : ring'[i] = ring[n + i]
  BY BurstTaken
<1>2. mbuf_pool' = mbuf_pool /\ at = "loop" /\ bufs = <<>> /\ Len(bufs) = 0
  BY DEF Burst, OwnTypes
<1>3. n \in Nat /\ n <= Len(ring) /\ 1 <= n
  BY <1>1
<1>4. \A i, j \in 1 .. Len(ring') : ring'[i] = ring'[j] => i = j
  BY <1>1, <1>3 DEF Buffers
<1>5. \A i, j \in 1 .. Len(bufs') : bufs'[i] = bufs'[j] => i = j
  BY <1>1, <1>3 DEF Buffers
<1>6. \A i \in 1 .. Len(ring'), j \in 1 .. Len(bufs') : ring'[i] # bufs'[j]
  <2>1. ASSUME NEW i \in 1 .. Len(ring) - n, NEW j \in 1 .. n
        PROVE  ring[n + i] # ring[j]
    <3>1. n + i \in 1 .. Len(ring) /\ j \in 1 .. Len(ring) /\ n + i # j
      BY <1>1, <1>3
    <3> QED
      BY <3>1 DEF Buffers
  <2> QED
    BY <1>1, <2>1
<1>7. \A i \in 1 .. Len(ring') : ring'[i] \notin mbuf_pool'
  BY <1>1, <1>2, <1>3 DEF Buffers
<1>8. \A i \in 1 .. Len(bufs') : bufs'[i] \notin mbuf_pool'
  BY <1>1, <1>2, <1>3 DEF Buffers
<1>9. ASSUME NEW m \in Mbufs
      PROVE  \/ m \in mbuf_pool'
             \/ \E i \in 1 .. Len(ring') : ring'[i] = m
             \/ \E i \in 1 .. Len(bufs') : bufs'[i] = m
  <2>1. CASE m \in mbuf_pool
    BY <1>2, <2>1
  <2>2. ASSUME NEW i \in 1 .. Len(ring), ring[i] = m
        PROVE  \/ \E k \in 1 .. Len(ring') : ring'[k] = m
               \/ \E k \in 1 .. Len(bufs') : bufs'[k] = m
    <3>1. CASE i <= n
      <4>1. i \in 1 .. Len(bufs') /\ bufs'[i] = m
        BY <1>1, <1>3, <2>2, <3>1
      <4> QED
        BY <4>1
    <3>2. CASE ~(i <= n)
      <4>1. i - n \in 1 .. Len(ring) - n /\ n + (i - n) = i
        BY <1>1, <1>3, <3>2
      <4>2. i - n \in 1 .. Len(ring') /\ ring'[i - n] = m
        BY <1>1, <2>2, <4>1
      <4> QED
        BY <4>2
    <3> QED
      BY <3>1, <3>2
  <2>3. m \in mbuf_pool \/ \E i \in 1 .. Len(ring) : ring[i] = m
    BY <1>2 DEF Buffers, BeforePool, Ended
  <2> QED
    BY <2>1, <2>2, <2>3
<1> QED
  BY <1>4, <1>5, <1>6, <1>7, <1>8, <1>9 DEF Buffers

LEMMA BuffersFree ==
    ASSUME OwnTypes, Buffers, FreePacket
    PROVE  Buffers'
<1>1. /\ Len(bufs) \in Nat \ {0} /\ Head(bufs) = bufs[1]
      /\ bufs' \in Seq(Mbufs) /\ Len(bufs') = Len(bufs) - 1
      /\ \A i \in 1 .. Len(bufs) - 1 : bufs'[i] = bufs[i + 1]
  BY HeadOfBurst DEF FreePacket, InBurst
<1>2. ring' = ring /\ mbuf_pool' = mbuf_pool \cup {bufs[1]} /\ at = "logging"
  BY <1>1 DEF FreePacket, cardVars
<1>3. \A i, j \in 1 .. Len(bufs') : bufs'[i] = bufs'[j] => i = j
  BY <1>1 DEF Buffers
<1>4. \A i \in 1 .. Len(ring'), j \in 1 .. Len(bufs') : ring'[i] # bufs'[j]
  BY <1>1, <1>2 DEF Buffers
<1>5. \A i \in 1 .. Len(ring') : ring'[i] \notin mbuf_pool'
  <2>1. 1 \in 1 .. Len(bufs)
    BY <1>1
  <2> QED
    BY <1>2, <2>1 DEF Buffers
<1>6. \A i \in 1 .. Len(bufs') : bufs'[i] \notin mbuf_pool'
  BY <1>1, <1>2 DEF Buffers
<1>7. ASSUME NEW m \in Mbufs
      PROVE  \/ m \in mbuf_pool'
             \/ \E i \in 1 .. Len(ring') : ring'[i] = m
             \/ \E i \in 1 .. Len(bufs') : bufs'[i] = m
  <2>1. ASSUME NEW i \in 1 .. Len(bufs), bufs[i] = m
        PROVE  m \in mbuf_pool' \/ \E k \in 1 .. Len(bufs') : bufs'[k] = m
    <3>1. CASE i = 1
      BY <1>2, <2>1, <3>1
    <3>2. CASE i # 1
      <4>1. i - 1 \in 1 .. Len(bufs) - 1 /\ (i - 1) + 1 = i
        BY <1>1, <3>2
      <4>2. i - 1 \in 1 .. Len(bufs') /\ bufs'[i - 1] = m
        BY <1>1, <2>1, <4>1
      <4> QED
        BY <4>2
    <3> QED
      BY <3>1, <3>2
  <2>2. \/ m \in mbuf_pool
        \/ \E i \in 1 .. Len(ring) : ring[i] = m
        \/ \E i \in 1 .. Len(bufs) : bufs[i] = m
    BY <1>2 DEF Buffers, BeforePool, Ended
  <2> QED
    BY <1>2, <2>1, <2>2
<1> QED
  BY <1>2, <1>3, <1>4, <1>5, <1>6, <1>7 DEF Buffers

LEMMA BuffersArrive ==
    ASSUME OwnTypes, Buffers, NEW kind \in Kinds, Arrive(kind)
    PROVE  Buffers'
<1>1. PICK m \in mbuf_pool :
        mbuf_pool' = mbuf_pool \ {m} /\ ring' = Append(ring, m)
  BY DEF Arrive
<1>2. /\ Len(ring) \in Nat /\ Len(ring') = Len(ring) + 1
      /\ \A i \in 1 .. Len(ring) : ring'[i] = ring[i]
      /\ ring'[Len(ring) + 1] = m
  BY <1>1, AppendProperties, LenProperties DEF OwnTypes
<1>3. bufs' = bufs /\ at' = at
  BY DEF Arrive
<1>4. \A i \in 1 .. Len(ring') : i \in 1 .. Len(ring) \/ i = Len(ring) + 1
  BY <1>2
<1>5. \A i, j \in 1 .. Len(ring') : ring'[i] = ring'[j] => i = j
  BY <1>1, <1>2, <1>4 DEF Buffers
<1>6. \A i \in 1 .. Len(ring'), j \in 1 .. Len(bufs') : ring'[i] # bufs'[j]
  BY <1>1, <1>2, <1>3, <1>4 DEF Buffers
<1>7. \A i \in 1 .. Len(ring') : ring'[i] \notin mbuf_pool'
  BY <1>1, <1>2, <1>4 DEF Buffers
<1>8. \A i \in 1 .. Len(bufs') : bufs'[i] \notin mbuf_pool'
  BY <1>1, <1>3 DEF Buffers
<1>9. ASSUME at' \notin BeforePool \cup Ended, NEW b \in Mbufs
      PROVE  \/ b \in mbuf_pool'
             \/ \E i \in 1 .. Len(ring') : ring'[i] = b
             \/ \E i \in 1 .. Len(bufs') : bufs'[i] = b
  <2>1. \A i \in 1 .. Len(ring) : i \in 1 .. Len(ring')
    BY <1>2
  <2>2. Len(ring) + 1 \in 1 .. Len(ring')
    BY <1>2
  <2>3. \/ b \in mbuf_pool
        \/ \E i \in 1 .. Len(ring) : ring[i] = b
        \/ \E i \in 1 .. Len(bufs) : bufs[i] = b
    BY <1>3, <1>9 DEF Buffers
  <2> QED
    BY <1>1, <1>2, <1>3, <2>1, <2>2, <2>3
<1>10. at' \notin BeforePool \cup Ended =>
         \A b \in Mbufs : \/ b \in mbuf_pool'
                          \/ \E i \in 1 .. Len(ring') : ring'[i] = b
                          \/ \E i \in 1 .. Len(bufs') : bufs'[i] = b
  BY <1>9
<1> QED
  BY <1>3, <1>5, <1>6, <1>7, <1>8, <1>10 DEF Buffers

LEMMA BuffersStop ==
    ASSUME OwnTypes, Buffers, Stop
    PROVE  Buffers'
<1>1. /\ mbuf_pool' = mbuf_pool \cup Range(ring) /\ ring' = <<>> /\ Len(ring') = 0
      /\ bufs' = bufs /\ bufs = <<>> /\ Len(bufs) = 0 /\ at = "loop"
  BY DEF Stop, OwnTypes
<1>2. DOMAIN ring = 1 .. Len(ring)
  BY LenProperties DEF OwnTypes
<1> QED
  BY <1>1, <1>2 DEF Buffers, Range, BeforePool, Ended

LEMMA BuffersStep ==
    ASSUME OwnTypes, Setting, Buffers, [Next]_vars
    PROVE  Buffers'
<1>1. CASE /\ UNCHANGED <<ring, bufs, mbuf_pool>>
           /\ at' \notin BeforePool \cup Ended => at \notin BeforePool \cup Ended
  BY <1>1 DEF Buffers
<1>2. CASE Setup
  <2>1. /\ UNCHANGED <<ring, bufs>> /\ at' = StepAfter[at] /\ at \in DOMAIN StepAfter
        /\ mbuf_pool' = IF at = "pool" THEN Mbufs ELSE mbuf_pool
    BY <1>2 DEF Setup, cardVars
  <2>2. CASE at = "pool"
    <3>1. ring = <<>> /\ bufs = <<>> /\ Len(ring) = 0 /\ Len(bufs) = 0
      BY <2>2 DEF Setting, BeforePool, OwnTypes
    <3> QED
      BY <2>1, <2>2, <3>1 DEF Buffers
  <2>3. CASE at # "pool"
    <3>1. at' \notin BeforePool \cup Ended => at \notin BeforePool \cup Ended
      BY <2>1, <2>3 DEF StepAfter, BeforePool, Ended
    <3> QED
      BY <1>1, <2>1, <2>3, <3>1
  <2> QED
    BY <2>2, <2>3
<1>3. CASE Logging \/ Fail \/ Analyze \/ LogPacket \/ InLogger \/ Finish \/ Killed
           \/ (\E s \in Signals : Signal(s)) \/ UNCHANGED vars
  <2>1. UNCHANGED <<ring, bufs, mbuf_pool>>
    BY <1>3 DEF Logging, Fail, Analyze, LogPacket, InLogger, Finish, Killed, Signal, vars, cardVars
  <2>2. at' \notin BeforePool \cup Ended => at \notin BeforePool \cup Ended
    BY <1>3 DEF Logging, Fail, Analyze, LogPacket, InLogger, Finish, Killed, Signal, vars,
                BeforePool, Ended
  <2> QED
    BY <1>1, <2>1, <2>2
<1> QED
  BY <1>2, <1>3, BuffersBurst, BuffersFree, BuffersArrive, BuffersStop DEF Next, MainStep

----------------------------------------------------------------------------
(* The burst and the log *)

LEMMA IntactStep ==
    ASSUME OwnTypes, Buffers, Intact, [Next]_vars
    PROVE  Intact'
<1>1. CASE UNCHANGED <<pkt, bufs, handed>>
  BY <1>1 DEF Intact, Left
<1>2. CASE Burst
  <2>1. PICK n \in 1 .. Len(ring) :
          /\ Len(bufs') = n /\ \A i \in 1 .. n : bufs'[i] = ring[i]
          /\ Len(handed') = Len(handed) + n /\ Len(handed) \in Nat
          /\ \A j \in 1 .. n : handed'[Len(handed) + j] = pkt[ring[j]]
          /\ Len(ring) \in Nat
    BY <1>2, BurstTaken
  <2>2. pkt' = pkt /\ Left' = Len(handed)
    BY <1>2, <2>1 DEF Burst, Left
  <2> QED
    BY <2>1, <2>2 DEF Intact
<1>3. CASE FreePacket
  <2>1. /\ Len(bufs) \in Nat \ {0} /\ Len(bufs') = Len(bufs) - 1
        /\ \A i \in 1 .. Len(bufs) - 1 : bufs'[i] = bufs[i + 1]
    BY <1>3, HeadOfBurst DEF FreePacket, InBurst
  <2>2. pkt' = pkt /\ handed' = handed /\ Len(handed) \in Nat
    BY <1>3, LenProperties DEF FreePacket, cardVars, history, OwnTypes
  <2>3. Left' = Left + 1 /\ Left \in Nat
    BY <2>1, <2>2 DEF Left, Intact
  <2>4. ASSUME NEW j \in 1 .. Len(bufs) - 1
        PROVE  pkt[bufs[j + 1]] = handed[(Left + 1) + j]
    <3>1. j + 1 \in 1 .. Len(bufs) /\ Left + (j + 1) = (Left + 1) + j
      BY <2>1, <2>3
    <3> QED
      BY <3>1 DEF Intact
  <2> QED
    BY <2>1, <2>2, <2>3, <2>4 DEF Intact
<1>4. ASSUME NEW kind \in Kinds, Arrive(kind)
      PROVE  Intact'
  <2>1. PICK m \in mbuf_pool : pkt' = [pkt EXCEPT ![m] = kind]
    BY <1>4 DEF Arrive
  <2>2. bufs' = bufs /\ handed' = handed
    BY <1>4 DEF Arrive, history
  <2>3. \A j \in 1 .. Len(bufs) : bufs[j] # m /\ bufs[j] \in Mbufs
    BY ElementOfSeq DEF Buffers, OwnTypes
  <2> QED
    BY <2>1, <2>2, <2>3 DEF Intact, Left, OwnTypes
<1> QED
  BY <1>1, <1>2, <1>3, <1>4
  DEF Next, MainStep, Logging, Setup, Fail, Analyze, LogPacket, InLogger, Stop, Finish, Killed,
      Signal, vars, cardVars, history

\* Steps outside of the logger.
LEMMA LoggedOutside ==
    ASSUME OwnTypes, Intact, Logged, [Next]_vars, UNCHANGED loggerVars
    PROVE  Logged'
<1>1. Log!Text' = Log!Text /\ UNCHANGED <<calls, pc, call, state, run>>
      /\ Written' = Written /\ (open' <=> open)
      /\ Lines(Log!Text, Written)' = Lines(Log!Text, Written)
  BY DEF loggerVars, Log!Text, Written, Lines
<1>2. CASE /\ UNCHANGED <<bufs, handed, message>>
           /\ at' = "logging" <=> at = "logging"
  <2>1. Left' = Left
    BY <1>2 DEF Left
  <2> QED
    BY <1>1, <1>2, <2>1 DEF Logged
<1>3. CASE Burst
  <2>1. PICK n \in 1 .. Len(ring) :
          /\ Len(bufs') = n /\ Len(handed') = Len(handed) + n /\ Len(handed) \in Nat
          /\ \A i \in 1 .. Len(handed) : handed'[i] = handed[i]
          /\ Len(ring) \in Nat
    BY <1>3, BurstTaken
  <2>2. bufs = <<>> /\ Len(bufs) = 0 /\ at = "loop" /\ at' = "analyze" /\ message' = message
    BY <1>3 DEF Burst, OwnTypes
  <2>3. Left' = Len(handed) /\ Left = Len(handed)
    BY <2>1, <2>2 DEF Left
  <2> QED
    BY <1>1, <2>1, <2>2, <2>3 DEF Logged
<1>4. CASE FreePacket
  <2>1. /\ Len(bufs) \in Nat \ {0} /\ Len(bufs') = Len(bufs) - 1
        /\ UNCHANGED <<handed, message>> /\ Len(handed) \in Nat
    BY <1>4, HeadOfBurst, LenProperties DEF FreePacket, InBurst, OwnTypes, history
  <2>2. Left' = Left + 1 /\ Left \in Nat
    BY <2>1 DEF Left, Intact
  <2>3. at = "logging" /\ at' # "logging" /\ pc[Main] = "idle"
    BY <1>4 DEF FreePacket
  <2> QED
    BY <1>1, <2>1, <2>2, <2>3 DEF Logged
<1>5. CASE LogPacket
  <2>1. calls' = calls + 1 /\ calls \in Nat
    BY <1>5 DEF LogPacket, Log!Log, Logged, Intact
  <2> QED
    BY <1>1, <2>1
<1>6. CASE InLogger
  BY <1>2, <1>6 DEF InLogger, history
<1>7. CASE Finish
  <2>1. state' # state
    BY <1>7 DEF Finish, Log!LoggerFree
  <2> QED
    BY <2>1 DEF loggerVars
<1>8. CASE Logging \/ Fail \/ Killed
  <2>1. state' # state
    BY <1>8 DEF Logging, Fail, Killed, Log!LoggerInit, Log!Kill
  <2> QED
    BY <2>1 DEF loggerVars
<1>9. CASE Setup
  <2>1. at \in DOMAIN StepAfter /\ at' = StepAfter[at]
    BY <1>9 DEF Setup
  <2> QED
    BY <1>2, <1>9, <2>1 DEF Setup, history, StepAfter
<1>10. CASE Analyze \/ Stop
  BY <1>2, <1>10 DEF Analyze, Stop, history
<1>11. CASE \E s \in Signals : Signal(s)
  BY <1>2, <1>11 DEF Signal
<1>12. CASE \E kind \in Kinds : Arrive(kind)
  BY <1>2, <1>12 DEF Arrive, history
<1>13. CASE UNCHANGED vars
  BY <1>2, <1>13 DEF vars, history
<1> QED
  BY <1>3, <1>4, <1>5, <1>6, <1>7, <1>8, <1>9, <1>10, <1>11, <1>12, <1>13 DEF Next, MainStep

\* A line more.
LEMMA LinesMore ==
    ASSUME NEW text \in Seq(Log!Piece), NEW n \in Nat, Lines(text, n),
           NEW p \in Log!Piece, p[2] = n + 1, p[3] = 0,
           NEW q \in Log!Piece, q[2] = n + 1, q[3] = 1
    PROVE  Lines(Append(Append(text, p), q), n + 1)
<1> DEFINE half == Append(text, p)
<1>1. /\ half \in Seq(Log!Piece) /\ Len(half) = 2 * n + 1 /\ half[2 * n + 1] = p
      /\ \A i \in 1 .. 2 * n : half[i] = text[i]
  BY AppendProperties DEF Lines
<1> HIDE DEF half
<1> DEFINE more == Append(half, q)
<1>2. /\ Len(more) = 2 * n + 2 /\ more[2 * n + 2] = q
      /\ \A i \in 1 .. 2 * n + 1 : more[i] = half[i]
  BY <1>1, AppendProperties
<1> HIDE DEF more
<1>3. ASSUME NEW i \in 1 .. n + 1
      PROVE  /\ more[2 * i - 1][2] = i /\ more[2 * i - 1][3] = 0
             /\ more[2 * i][2] = i /\ more[2 * i][3] = 1
  <2>1. CASE i = n + 1
    <3>1. 2 * i - 1 = 2 * n + 1 /\ 2 * i = 2 * n + 2 /\ 2 * n + 1 \in 1 .. 2 * n + 1
      BY <2>1
    <3> QED
      BY <1>1, <1>2, <2>1, <3>1
  <2>2. CASE i \in 1 .. n
    <3>1. /\ 2 * i - 1 \in 1 .. 2 * n /\ 2 * i \in 1 .. 2 * n
          /\ 2 * i - 1 \in 1 .. 2 * n + 1 /\ 2 * i \in 1 .. 2 * n + 1
      BY <2>2
    <3> QED
      BY <1>1, <1>2, <2>2, <3>1 DEF Lines
  <2> QED
    BY <2>1, <2>2
<1>4. Len(more) = 2 * (n + 1)
  BY <1>2
<1> QED
  BY <1>3, <1>4 DEF Lines, more, half

\* Steps of the logger.
LEMMA LogSteps ==
    ASSUME OwnTypes, Setting, Intact, Log!TypeOK, Logged, LogPacket \/ InLogger
    PROVE  Log!TypeOK' /\ Logged'
<1> DEFINE Pcs == {"idle", "call", "lock", "trace", "unlock"}
<1>1. UNCHANGED <<bufs, handed>> /\ Left' = Left /\ Left \in Nat /\ at' = "logging"
  BY DEF LogPacket, InLogger, cardVars, history, Left, Intact
<1>2. /\ pc \in [{Main} -> Pcs] /\ call \in [{Main} -> Nat \X Log!LogTypes]
      /\ frame \in [{Main} -> 0 .. 0] /\ run \in 0 .. 1 /\ calls \in 0 .. MaxPackets
      /\ buffer \in Seq(Log!Piece) /\ file \in Seq(Log!Piece)
      /\ calls \in Nat
  BY SizeAssumption DEF Log!TypeOK
<1>3. CASE LogPacket
  <2>1. at = "log" /\ Log!Log(Main, "INFO") /\ message' = Append(message, pkt[Head(bufs)])
    BY <1>3 DEF LogPacket
  <2>2. /\ calls' = calls + 1 /\ calls < MaxPackets /\ pc[Main] = "idle"
        /\ call' = [call EXCEPT ![Main] = <<calls + 1, "INFO">>]
        /\ frame' = [frame EXCEPT ![Main] = 0]
        /\ pc' = IF open THEN [pc EXCEPT ![Main] = "call"] ELSE pc
        /\ UNCHANGED <<state, open, owner, buffer, file, run, cut>>
        /\ state = "live"
    BY <2>1 DEF Log!Log, Log!Goto
  <2>3. Log!TypeOK'
    <3>1. <<calls + 1, "INFO">> \in Nat \X Log!LogTypes
      BY <1>2 DEF Log!LogTypes
    <3>2. calls' \in 0 .. MaxPackets
      BY <1>2, <2>2, SizeAssumption
    <3>3. pc' \in [{Main} -> Pcs] /\ frame' \in [{Main} -> 0 .. 0]
      BY <1>2, <2>2
    <3>4. call' \in [{Main} -> Nat \X Log!LogTypes]
      BY <1>2, <2>2, <3>1
    <3> QED
      BY <2>2, <3>2, <3>3, <3>4 DEF Log!TypeOK
  <2>4. calls = Left /\ Len(message) = calls /\ \A n \in 1 .. calls : message[n] = handed[n]
    BY <1>1, <2>1 DEF Logged
  <2>5. pkt[Head(bufs)] = handed[calls + 1] /\ pkt[Head(bufs)] \in Kinds
    <3>1. 1 \in 1 .. Len(bufs) /\ Head(bufs) = bufs[1] /\ pkt[Head(bufs)] \in Kinds
      BY <2>1, HeadOfBurst DEF InBurst
    <3> QED
      BY <2>4, <3>1 DEF Intact
  <2>6. /\ Len(message') = calls + 1
        /\ \A n \in 1 .. calls : message'[n] = handed[n]
        /\ message'[calls + 1] = handed[calls + 1]
    BY <2>1, <2>4, <2>5, AppendProperties DEF OwnTypes
  <2>7. \A n \in 1 .. calls' : message'[n] = handed'[n]
    BY <1>1, <1>2, <2>2, <2>6
  <2>8. Log!Text' = Log!Text
    BY <2>2 DEF Log!Text
  <2>9. CASE open
    <3>1. pc'[Main] = "call" /\ call'[Main] = <<calls', "INFO">>
      BY <1>2, <2>2, <2>9
    <3>2. Written' = Written
      BY <1>2, <2>2, <3>1 DEF Written
    <3>3. Lines(Log!Text, Written)'
      BY <2>8, <2>9, <3>2 DEF Logged, Lines
    <3>4. state = "live" => run = 1
      BY DEF Logged
    <3> QED
      BY <1>1, <2>2, <2>3, <2>4, <2>6, <2>7, <2>9, <3>1, <3>3, <3>4 DEF Logged
  <2>10. CASE ~open
    <3>1. Log!Text = <<>> /\ pc'[Main] = "idle"
      BY <2>1, <2>2, <2>10 DEF Logged
    <3>2. state = "live" => run = 1
      BY DEF Logged
    <3> QED
      BY <1>1, <2>2, <2>3, <2>4, <2>6, <2>7, <2>8, <2>10, <3>1, <3>2 DEF Logged
  <2> QED
    BY <2>9, <2>10
<1>4. CASE InLogger
  <2>1. at = "logging" /\ message' = message /\ Log!LogStep(Main)
    BY <1>4 DEF InLogger, history
  <2>2. /\ calls = Left + 1 /\ Len(message) = calls
        /\ \A n \in 1 .. calls : message[n] = handed[n]
    BY <2>1 DEF Logged
  <2>3. pc[Main] # "idle" /\ pc[Main] # "trace"
    BY <2>1 DEF Logged, Log!LogStep, Log!Lock, Log!PrintLine, Log!PrintFrame, Log!EndTrace, Log!Unlock
  <2>4. open /\ state = "live" /\ run = 1 /\ Lines(Log!Text, Written)
    BY <2>1, <2>3 DEF Logged
  <2>5. CASE Log!Lock(Main) \/ Log!Unlock(Main)
    <3>1. /\ UNCHANGED <<state, open, call, frame, buffer, file, run, calls, cut>>
          /\ \/ pc[Main] = "call" /\ pc' = [pc EXCEPT ![Main] = "lock"] /\ owner' = Main
             \/ pc[Main] = "unlock" /\ pc' = [pc EXCEPT ![Main] = "idle"] /\ owner' = "nobody"
      BY <2>5 DEF Log!Lock, Log!Unlock, Log!Goto
    <3>2. Log!TypeOK'
      <4>1. pc' \in [{Main} -> Pcs] /\ owner' \in {Main} \cup {"nobody"}
        BY <1>2, <3>1
      <4> QED
        BY <3>1, <4>1 DEF Log!TypeOK
    <3>3. Log!Text' = Log!Text
      BY <3>1 DEF Log!Text
    <3>4. /\ pc'[Main] \in {"lock", "idle"}
          /\ pc'[Main] = "lock" <=> pc[Main] = "call"
          /\ pc[Main] # "lock"
      BY <1>2, <3>1
    <3>5. Lines(Log!Text, Written)'
      <4>1. Written' = Written
        BY <3>1, <3>4 DEF Written
      <4> QED
        BY <2>4, <3>3, <4>1 DEF Lines
    <3>6. pc'[Main] \in {"call", "lock"} => call'[Main] = <<calls', "INFO">>
      BY <3>1, <3>4 DEF Logged
    <3> QED
      BY <1>1, <2>1, <2>2, <2>4, <3>1, <3>2, <3>3, <3>4, <3>5, <3>6 DEF Logged
  <2>6. CASE Log!PrintLine(Main)
    <3>1. /\ pc[Main] = "lock" /\ call[Main] = <<calls, "INFO">> /\ Log!Printf(Main, 0)
          /\ pc' = [pc EXCEPT ![Main] = IF call[Main][2] = "ERROR" THEN "trace" ELSE "unlock"]
          /\ UNCHANGED <<state, open, owner, call, frame, run, calls, cut>>
      BY <2>6 DEF Log!PrintLine, Log!Goto, Logged
    <3>2. call[Main][1] = calls /\ call[Main][2] = "INFO"
      BY <3>1
    <3>3. pc' = [pc EXCEPT ![Main] = "unlock"] /\ pc'[Main] = "unlock" /\ pc' \in [{Main} -> Pcs]
      BY <1>2, <3>1, <3>2
    <3>4. /\ buffer' \in Seq(Log!Piece) /\ file' \in Seq(Log!Piece)
          /\ Log!Text' = Append(Append(Log!Text, Begin(0)), Rest(0))
      BY <3>1, PrintText
    <3>5. Log!TypeOK'
      BY <2>4, <3>1, <3>3, <3>4 DEF Log!TypeOK
    <3>6. Written = calls - 1 /\ Written' = calls /\ calls - 1 \in Nat /\ (calls - 1) + 1 = calls
      BY <1>1, <1>2, <2>2, <3>1, <3>3 DEF Written
    <3>7. Log!Text \in Seq(Log!Piece)
      BY <1>2, ConcatProperties DEF Log!Text
    <3>8. /\ Begin(0) \in Log!Piece /\ Begin(0)[2] = calls /\ Begin(0)[3] = 0
          /\ Rest(0) \in Log!Piece /\ Rest(0)[2] = calls /\ Rest(0)[3] = 1
      BY <3>2, PieceTypes DEF Begin, Rest
    <3>9. Lines(Log!Text', calls)
      <4> DEFINE p == Begin(0)
                 q == Rest(0)
                 n == calls - 1
      <4>1. Lines(Log!Text, n) /\ n \in Nat /\ p[2] = n + 1 /\ q[2] = n + 1
        BY <2>4, <3>6, <3>8
      <4> HIDE DEF p, q, n
      <4>2. Lines(Append(Append(Log!Text, p), q), n + 1)
        BY <3>7, <3>8, <4>1, LinesMore DEF p, q
      <4> QED
        BY <3>4, <3>6, <4>2 DEF p, q, n
    <3>10. Lines(Log!Text, Written)'
      BY <3>6, <3>9 DEF Lines
    <3> QED
      BY <1>1, <2>1, <2>2, <2>4, <3>1, <3>3, <3>5, <3>10 DEF Logged
  <2>7. ~Log!PrintFrame(Main) /\ ~Log!EndTrace(Main)
    BY <2>3 DEF Log!PrintFrame, Log!EndTrace
  <2> QED
    BY <2>1, <2>5, <2>6, <2>7 DEF Log!LogStep
<1> QED
  BY <1>3, <1>4

\* The beginning and the end of the logger.
LEMMA LogEnds ==
    ASSUME OwnTypes, Setting, Intact, Log!TypeOK, Logged, Logging \/ Finish \/ Fail \/ Killed
    PROVE  Log!TypeOK' /\ Logged'
<1> DEFINE Pcs == {"idle", "call", "lock", "trace", "unlock"}
<1>1. UNCHANGED <<bufs, handed, message>> /\ Left' = Left /\ Left \in Nat /\ at' # "logging"
  BY DEF Logging, Finish, Fail, Killed, cardVars, history, Left, Intact
<1>2. /\ pc \in [{Main} -> Pcs] /\ calls \in Nat /\ run \in 0 .. 1
      /\ buffer \in Seq(Log!Piece) /\ file \in Seq(Log!Piece)
      /\ cut \subseteq 1 .. run
  BY SizeAssumption DEF Log!TypeOK
<1>3. CASE Finish
  <2>1. /\ at = "print_stats" /\ at' = "done" /\ state' = "freed"
        /\ file' = file \o buffer /\ buffer' = <<>>
        /\ UNCHANGED <<open, owner, pc, call, frame, run, calls, cut>>
    BY <1>3 DEF Finish, Log!LoggerFree, Log!callVars
  <2>2. file' \in Seq(Log!Piece) /\ buffer' \in Seq(Log!Piece) /\ Log!Text' = Log!Text
    <3>1. file \o buffer \in Seq(Log!Piece)
      BY <1>2, ConcatProperties
    <3> QED
      BY <2>1, <3>1, ConcatEmptySeq DEF Log!Text
  <2>3. Log!TypeOK'
    BY <2>1, <2>2 DEF Log!TypeOK
  <2>4. /\ pc[Main] = "idle" /\ (open' <=> open)
        /\ Lines(Log!Text, Written)' = Lines(Log!Text, Written)
    BY <2>1, <2>2 DEF Logged, Written, Lines
  <2> QED
    BY <1>1, <2>1, <2>2, <2>3, <2>4 DEF Logged
<1>4. CASE Logging \/ Fail \/ Killed
  <2>1. at \in BeforeLoop
    <3>1. CASE Logging
      BY <3>1 DEF Logging, BeforeLoop, BeforePool
    <3>2. CASE Fail
      BY <3>2 DEF Fail, BeforeLoop, BeforePool, StepAfter
    <3>3. CASE Killed
      BY <3>3 DEF Killed, BeforeLoop, BeforePool, StepAfter, Setting, OwnTypes, InBurst
    <3> QED
      BY <1>4, <3>1, <3>2, <3>3
  <2>2. handed = <<>> /\ bufs = <<>> /\ Left = 0 /\ calls = 0 /\ at # "logging" /\ at # "done"
    <3>1. handed = <<>> /\ bufs = <<>> /\ at # "logging" /\ at # "done"
      BY <2>1 DEF Setting, OwnTypes, BeforeLoop, BeforePool
    <3> QED
      BY <3>1 DEF Left, Logged
  <2>3. pc[Main] = "idle" /\ Log!Text = <<>>
    <3>1. pc[Main] = "idle"
      BY <2>2 DEF Logged
    <3>2. Log!Text \in Seq(Log!Piece)
      BY <1>2, ConcatProperties DEF Log!Text
    <3>3. Log!Text = <<>> \/ Len(Log!Text) = 0
      <4>1. Written = 0
        <5>1. pc[Main] \notin {"call", "lock"}
          BY <3>1
        <5>2. Written = calls - 0
          BY <5>1 DEF Written
        <5> QED
          BY <2>2, <5>2
      <4>2. Log!Text = <<>> \/ Lines(Log!Text, Written)
        BY DEF Logged
      <4> QED
        BY <4>1, <4>2 DEF Lines
    <3> QED
      BY <3>1, <3>2, <3>3, EmptySeq
  <2>4. file = <<>> /\ buffer = <<>>
    BY <1>2, <2>3, ConcatEqualIffEmpty, LenProperties, EmptySeq, ConcatProperties DEF Log!Text
  <2>5. CASE Logging
    <3>1. /\ state' = "live" /\ run' = run + 1 /\ run < 1 /\ calls' = 0 /\ open' \in BOOLEAN
          /\ UNCHANGED <<owner, pc, call, frame, buffer, file, cut>> /\ at' = "eal"
      BY <2>5 DEF Logging, Log!LoggerInit, Log!callVars
    <3>2. Log!TypeOK'
      <4>1. run' \in 0 .. 1 /\ calls' \in 0 .. MaxPackets /\ cut' \subseteq 1 .. run'
        BY <1>2, <3>1, SizeAssumption
      <4> QED
        BY <2>4, <3>1, <4>1 DEF Log!TypeOK
    <3>3. Log!Text' = <<>> /\ Len(Log!Text') = 0 /\ Written' = 0
      <4>1. Log!Text' = Log!Text /\ pc'[Main] = "idle"
        BY <2>3, <3>1 DEF Log!Text
      <4>2. Written' = 0
        <5>1. calls' = 0
          BY <3>1
        <5>2. pc'[Main] \notin {"call", "lock"}
          BY <4>1
        <5>3. Written' = calls' - 0
          BY <5>2 DEF Written
        <5> QED
          BY <5>1, <5>3
      <4>3. Log!Text' = <<>>
        BY <2>3, <4>1
      <4>4. Len(Log!Text') = 0
        BY <4>3
      <4> QED
        BY <4>2, <4>3, <4>4
    <3>4. Lines(Log!Text, Written)' /\ run' = 1
      BY <1>2, <3>1, <3>3 DEF Lines
    <3>5. open' \/ ~open'
      OBVIOUS
    <3> QED
      BY <1>1, <2>2, <2>3, <3>1, <3>2, <3>3, <3>4, <3>5 DEF Logged
  <2>6. CASE Fail \/ Killed
    <3>1. /\ state' = "none" /\ open' = FALSE /\ owner' = "nobody" /\ buffer' = <<>>
          /\ pc' = [t \in {Main} |-> "idle"]
          /\ cut' = cut \cup {run} /\ state = "live"
          /\ UNCHANGED <<call, frame, file, run, calls>>
      BY <2>6 DEF Fail, Killed, Log!Kill
    <3>2. Log!TypeOK'
      <4>1. pc' \in [{Main} -> Pcs] /\ buffer' \in Seq(Log!Piece)
        BY <3>1
      <4>2. cut' \subseteq 1 .. run'
        <5>1. run = 1
          BY <3>1 DEF Logged
        <5> QED
          BY <1>2, <3>1, <5>1
      <4> QED
        BY <3>1, <4>1, <4>2 DEF Log!TypeOK
    <3>3. Log!Text' = <<>> /\ pc'[Main] = "idle"
      BY <2>3, <2>4, <3>1 DEF Log!Text
    <3> QED
      BY <1>1, <2>2, <3>1, <3>2, <3>3 DEF Logged
  <2> QED
    BY <1>4, <2>5, <2>6
<1> QED
  BY <1>3, <1>4

LEMMA LoggerKept ==
    ASSUME OwnTypes, Setting, Intact, Log!TypeOK, Logged, [Next]_vars
    PROVE  Log!TypeOK' /\ Logged'
<1>1. CASE UNCHANGED loggerVars
  <2>1. Log!TypeOK'
    BY <1>1 DEF Log!TypeOK, loggerVars
  <2> QED
    BY <1>1, <2>1, LoggedOutside
<1>2. CASE Setup \/ Burst \/ Analyze \/ FreePacket \/ Stop \/ UNCHANGED vars
           \/ (\E s \in Signals : Signal(s)) \/ \E kind \in Kinds : Arrive(kind)
  <2>1. UNCHANGED loggerVars
    BY <1>2 DEF Setup, Burst, Analyze, FreePacket, Stop, vars, Signal, Arrive
  <2> QED
    BY <1>1, <2>1
<1> QED
  BY <1>2, LogSteps, LogEnds DEF Next, MainStep

----------------------------------------------------------------------------
(* The counters *)

NumberIn(s, kind) == Cardinality({i \in 1 .. Len(s) : s[i] = kind})

LEMMA NumberType ==
    ASSUME NEW s \in Seq(Kinds), NEW kind
    PROVE  /\ IsFiniteSet({i \in 1 .. Len(s) : s[i] = kind})
           /\ NumberIn(s, kind) \in Nat
<1>1. Len(s) \in Nat
  BY LenProperties
<1>2. IsFiniteSet(1 .. Len(s))
  BY <1>1, FS_Interval
<1>3. IsFiniteSet({i \in 1 .. Len(s) : s[i] = kind})
  BY <1>2, FS_Subset
<1> QED
  BY <1>3, FS_CardinalityType DEF NumberIn

\* One packet more.
LEMMA NumberAppend ==
    ASSUME NEW s \in Seq(Kinds), NEW k \in Kinds, NEW kind \in Kinds,
           NEW s2, s2 = Append(s, k)
    PROVE  NumberIn(s2, kind) = NumberIn(s, kind) + (IF k = kind THEN 1 ELSE 0)
<1> DEFINE Old == {i \in 1 .. Len(s) : s[i] = kind}
           New == {i \in 1 .. Len(s2) : s2[i] = kind}
<1>1. /\ Len(s) \in Nat /\ Len(s2) = Len(s) + 1
      /\ \A i \in 1 .. Len(s) : s2[i] = s[i]
      /\ s2[Len(s) + 1] = k
  BY AppendProperties, LenProperties
<1>2. IsFiniteSet(Old) /\ Cardinality(Old) \in Nat
  BY NumberType DEF NumberIn
<1>3. Len(s) + 1 \notin Old
  BY <1>1
<1>4. New = IF k = kind THEN Old \cup {Len(s) + 1} ELSE Old
  <2>1. 1 .. Len(s2) = (1 .. Len(s)) \cup {Len(s) + 1}
    BY <1>1
  <2> QED
    BY <1>1, <2>1
<1> HIDE DEF Old, New
<1>5. Cardinality(New) = Cardinality(Old) + (IF k = kind THEN 1 ELSE 0)
  <2>1. Cardinality(Old \cup {Len(s) + 1}) = Cardinality(Old) + 1
    BY <1>2, <1>3, FS_AddElement
  <2> QED
    BY <1>2, <1>4, <2>1
<1> QED
  BY <1>5 DEF NumberIn, Old, New

Exact(s) ==
    /\ \A kind \in {"tcp", "udp", "icmp"} : stats[kind] = NumberIn(s, kind)
    /\ stats["ip"] = Len(s) - NumberIn(s, "frame")
    /\ stats["total"] = Len(s)
    /\ stats["total"] = stats["tcp"] + stats["udp"] + stats["icmp"] + stats["other"]
    /\ stats["bytes"] =
         Length["tcp"] * NumberIn(s, "tcp") + Length["udp"] * NumberIn(s, "udp")
           + Length["icmp"] * NumberIn(s, "icmp") + Length["ip"] * NumberIn(s, "ip")
           + Length["frame"] * NumberIn(s, "frame")

LEMMA StatsAreExact == StatsExact <=> Exact(Counted)
  BY DEF StatsExact, Exact, NumberOf, NumberIn

LEMMA Prefix ==
    ASSUME NEW h \in Seq(Kinds), NEW n \in 0 .. Len(h), NEW c, c = SubSeq(h, 1, n)
    PROVE  /\ c \in Seq(Kinds) /\ Len(c) = n
           /\ \A i \in 1 .. n : c[i] = h[i]
<1>1. \A i \in 1 .. n : h[i] \in Kinds
  BY ElementOfSeq, LenProperties
<1>2. n \in Int /\ n \in Nat
  BY LenProperties
<1>3. /\ SubSeq(h, 1, n) \in Seq(Kinds)
      /\ Len(SubSeq(h, 1, n)) = IF 1 <= n THEN n - 1 + 1 ELSE 0
      /\ \A i \in 1 .. n - 1 + 1 : SubSeq(h, 1, n)[i] = h[1 + i - 1]
  BY <1>1, <1>2, SubSeqProperties
<1> QED
  BY <1>2, <1>3

\* The number of packets counted.
Done == Left + (IF at \in {"log", "logging"} THEN 1 ELSE 0)

LEMMA CountedType ==
    ASSUME OwnTypes, Intact
    PROVE  /\ Done \in 0 .. Len(handed) /\ Len(handed) \in Nat /\ Done \in Nat
           /\ Counted = SubSeq(handed, 1, Done)
           /\ Counted \in Seq(Kinds) /\ Len(Counted) = Done
           /\ \A i \in 1 .. Done : Counted[i] = handed[i]
<1>1. /\ Len(handed) \in Nat /\ Len(bufs) \in Nat
      /\ Left = Len(handed) - Len(bufs) /\ Left \in Nat
  BY LenProperties DEF OwnTypes, Left, Intact
<1>2. at \in {"log", "logging"} => Len(bufs) # 0
  BY HeadOfBurst DEF InBurst
<1>3. Done \in 0 .. Len(handed) /\ Done \in Nat
  BY <1>1, <1>2 DEF Done
<1>4. Counted = SubSeq(handed, 1, Done)
  BY DEF Counted, Left, Done
<1>5. handed \in Seq(Kinds)
  BY DEF OwnTypes
<1> QED
  BY <1>1, <1>3, <1>4, <1>5, Prefix

\* Only analyze_packet counts.
LEMMA CountedKept ==
    ASSUME OwnTypes, Setting, Intact, [Next]_vars, ~Analyze
    PROVE  Counted' = Counted
<1>1. /\ Done \in 0 .. Len(handed) /\ Len(handed) \in Nat
      /\ Counted = SubSeq(handed, 1, Done)
      /\ Counted \in Seq(Kinds) /\ Len(Counted) = Done
      /\ \A i \in 1 .. Done : Counted[i] = handed[i]
  BY CountedType
<1>2. Counted' = SubSeq(handed', 1, Done')
  BY DEF Counted, Left, Done
<1>3. CASE /\ UNCHANGED <<handed, bufs>>
           /\ at' \in {"log", "logging"} <=> at \in {"log", "logging"}
  <2>1. Done' = Done /\ handed' = handed
    BY <1>3 DEF Done, Left
  <2> QED
    BY <1>1, <1>2, <2>1
<1>4. CASE FreePacket
  <2>1. Len(bufs) \in Nat \ {0} /\ Len(bufs') = Len(bufs) - 1
    BY <1>4, HeadOfBurst DEF FreePacket, InBurst
  <2>2. handed' = handed /\ at = "logging" /\ at' \notin {"log", "logging"}
    BY <1>4 DEF FreePacket, history
  <2>3. Done' = Done
    BY <1>1, <2>1, <2>2 DEF Done, Left
  <2> QED
    BY <1>1, <1>2, <2>2, <2>3
<1>5. CASE Burst
  <2>1. PICK n \in 1 .. Len(ring) :
          /\ Len(bufs') = n /\ Len(ring) \in Nat
          /\ handed' \in Seq(Kinds) /\ Len(handed') = Len(handed) + n
          /\ \A i \in 1 .. Len(handed) : handed'[i] = handed[i]
    BY <1>5, BurstTaken
  <2>2. bufs = <<>> /\ Len(bufs) = 0 /\ at = "loop" /\ at' = "analyze"
    BY <1>5 DEF Burst, OwnTypes
  <2>3. Done' = Len(handed) /\ Done = Len(handed) /\ Done' \in 0 .. Len(handed')
    BY <1>1, <2>1, <2>2 DEF Done, Left
  <2>4. /\ SubSeq(handed', 1, Done') \in Seq(Kinds)
        /\ Len(SubSeq(handed', 1, Done')) = Done'
        /\ \A i \in 1 .. Done' : SubSeq(handed', 1, Done')[i] = handed'[i]
    BY <2>1, <2>3, Prefix
  <2>5. \A i \in 1 .. Len(Counted') : Counted'[i] = Counted[i]
    BY <1>1, <1>2, <2>1, <2>3, <2>4
  <2>6. Counted' \in Seq(Kinds) /\ Len(Counted') = Len(Counted)
    BY <1>1, <1>2, <2>3, <2>4
  <2> QED
    BY <1>1, <2>5, <2>6, SeqEqual
<1>6. CASE Logging \/ Fail \/ LogPacket \/ InLogger \/ Stop \/ Finish \/ UNCHANGED vars
           \/ (\E s \in Signals : Signal(s)) \/ \E kind \in Kinds : Arrive(kind)
  BY <1>3, <1>6
  DEF Logging, Fail, LogPacket, InLogger, Stop, Finish, Signal, Arrive, vars, cardVars, history,
      StepAfter
<1>7. CASE Setup
  <2>1. at' \notin {"log", "logging"} /\ at \notin {"log", "logging"}
    BY <1>7 DEF Setup, StepAfter
  <2> QED
    BY <1>3, <1>7, <2>1 DEF Setup, cardVars, history
<1>8. CASE Killed
  BY <1>3, <1>8 DEF Killed, Setting, InBurst, cardVars, history
<1> QED
  BY <1>4, <1>5, <1>6, <1>7, <1>8 DEF Next, MainStep

\* analyze_packet takes the next packet that was handed out.
LEMMA CountedMore ==
    ASSUME OwnTypes, Intact, Analyze
    PROVE  Counted' = Append(Counted, pkt[Head(bufs)])
<1>1. /\ Done \in 0 .. Len(handed) /\ Len(handed) \in Nat /\ Done \in Nat
      /\ Counted \in Seq(Kinds) /\ Len(Counted) = Done
      /\ \A i \in 1 .. Done : Counted[i] = handed[i]
  BY CountedType
<1>2. /\ handed' = handed /\ bufs' = bufs /\ at = "analyze" /\ at' = "log"
      /\ handed \in Seq(Kinds)
  BY DEF Analyze, history, OwnTypes
<1>3. Len(bufs) \in Nat \ {0} /\ Head(bufs) = bufs[1] /\ pkt[Head(bufs)] \in Kinds
  BY <1>2, HeadOfBurst DEF InBurst
<1>4. Done = Left /\ Done' = Done + 1 /\ Left = Len(handed) - Len(bufs)
  BY <1>1, <1>2 DEF Done, Left
<1>5. pkt[Head(bufs)] = handed[Done + 1]
  <2>1. 1 \in 1 .. Len(bufs)
    BY <1>3
  <2> QED
    BY <1>3, <1>4, <2>1 DEF Intact
<1>6. Counted' = SubSeq(handed, 1, Done + 1)
  <2>1. Counted' = SubSeq(handed', 1, Done')
    BY DEF Counted, Left, Done
  <2> QED
    BY <1>2, <1>4, <2>1
<1>7. Done + 1 \in 0 .. Len(handed)
  BY <1>1, <1>3, <1>4
<1> DEFINE n == Done + 1
           more == Append(Counted, pkt[Head(bufs)])
<1>8. /\ SubSeq(handed, 1, n) \in Seq(Kinds) /\ Len(SubSeq(handed, 1, n)) = n
      /\ \A i \in 1 .. n : SubSeq(handed, 1, n)[i] = handed[i]
  <2>1. n \in 0 .. Len(handed)
    BY <1>7
  <2> HIDE DEF n
  <2> QED
    BY <1>2, <2>1, Prefix
<1>9. /\ more \in Seq(Kinds) /\ Len(more) = n
      /\ \A i \in 1 .. Done : more[i] = handed[i]
      /\ more[Done + 1] = handed[Done + 1]
  BY <1>1, <1>3, <1>5, AppendProperties
<1>10. \A i \in 1 .. n : SubSeq(handed, 1, n)[i] = more[i]
  <2>1. \A i \in 1 .. n : i \in 1 .. Done \/ i = Done + 1
    BY <1>1
  <2> HIDE DEF more
  <2> QED
    BY <1>8, <1>9, <2>1
<1> HIDE DEF n, more
<1>11. SubSeq(handed, 1, n) = more
  BY <1>8, <1>9, <1>10, SeqEqual
<1> QED
  BY <1>6, <1>11 DEF n, more

\* Its packet is counted as what it is, and once.
LEMMA ExactAnalyze ==
    ASSUME OwnTypes, Intact, Exact(Counted), Analyze
    PROVE  Exact(Counted)'
<1> DEFINE kind == pkt[Head(bufs)]
           d(k) == IF kind = k THEN 1 ELSE 0
           N(k) == NumberIn(Counted, k)
<1>1. kind \in Kinds /\ Counted \in Seq(Kinds) /\ Counted' = Append(Counted, kind)
  <2>1. at \in InBurst
    BY DEF Analyze, InBurst
  <2> QED
    BY <2>1, HeadOfBurst, CountedType, CountedMore
<1>2. Length[kind] \in Nat /\ \A k \in Kinds : Length[k] \in Nat
  BY <1>1, LengthAssumption
<1>3. stats' = [c \in Counters |->
          stats[c] + (IF c = "bytes" THEN Length[kind]
                      ELSE IF c \in CountedIn(kind) THEN 1 ELSE 0)]
  BY DEF Analyze
<1> HIDE DEF kind
<1>4. Len(Counted') = Len(Counted) + 1 /\ Len(Counted) \in Nat
  BY <1>1, AppendProperties, LenProperties
<1>5. \A k \in Kinds : NumberIn(Counted', k) = N(k) + d(k)
  <2> TAKE k \in Kinds
  <2>1. NumberIn(Counted', k) = NumberIn(Counted, k) + (IF kind = k THEN 1 ELSE 0)
    <3>1. \A s \in Seq(Kinds), x \in Kinds : \A s2 : s2 = Append(s, x) =>
            NumberIn(s2, k) = NumberIn(s, k) + (IF x = k THEN 1 ELSE 0)
      BY NumberAppend, Zenon
    <3> QED
      BY <1>1, <3>1
  <2> QED
    BY <2>1
<1>6. \A k \in Kinds : N(k) \in Nat
  BY <1>1, NumberType
<1>7. stats \in [Counters -> Nat]
  BY DEF OwnTypes
<1>8. /\ stats'["total"] = stats["total"] + 1
      /\ stats'["bytes"] = stats["bytes"] + Length[kind]
      /\ stats'["ip"] = stats["ip"] + (1 - d("frame"))
      /\ stats'["tcp"] = stats["tcp"] + d("tcp")
      /\ stats'["udp"] = stats["udp"] + d("udp")
      /\ stats'["icmp"] = stats["icmp"] + d("icmp")
      /\ stats'["other"] = stats["other"] + (d("frame") + d("ip"))
  BY <1>1, <1>3, <1>7 DEF Counters, CountedIn, Kinds
<1>9. d("tcp") + d("udp") + d("icmp") + d("ip") + d("frame") = 1
  BY <1>1 DEF Kinds
<1>10. \A k \in Kinds : Length[k] * (N(k) + d(k)) = Length[k] * N(k) + (IF kind = k THEN Length[k] ELSE 0)
  <2> TAKE k \in Kinds
  <2>1. Length[k] \in Int /\ N(k) \in Int
    BY <1>2, <1>6
  <2> HIDE DEF N
  <2>2. CASE kind = k
    BY <2>1, <2>2
  <2>3. CASE kind # k
    BY <2>1, <2>3
  <2> QED
    BY <2>2, <2>3
<1>11. {"tcp", "udp", "icmp", "ip", "frame"} = Kinds
  BY DEF Kinds
<1>12. /\ \A k \in {"tcp", "udp", "icmp"} : stats'[k] = NumberIn(Counted', k)
       /\ stats'["ip"] = Len(Counted') - NumberIn(Counted', "frame")
       /\ stats'["total"] = Len(Counted')
  <2>1. /\ \A k \in {"tcp", "udp", "icmp"} : stats[k] = N(k)
        /\ stats["ip"] = Len(Counted) - N("frame")
        /\ stats["total"] = Len(Counted)
    BY DEF Exact
  <2>2. N("frame") \in Nat /\ NumberIn(Counted', "frame") = N("frame") + d("frame")
    BY <1>5, <1>6, <1>11
  <2>3. stats'["ip"] = Len(Counted') - NumberIn(Counted', "frame")
    BY <1>4, <1>8, <2>1, <2>2
  <2>4. \A k \in {"tcp", "udp", "icmp"} : stats'[k] = NumberIn(Counted', k)
    BY <1>5, <1>8, <1>11, <2>1
  <2> QED
    BY <1>4, <1>8, <2>1, <2>3, <2>4
<1>13. stats'["total"] = stats'["tcp"] + stats'["udp"] + stats'["icmp"] + stats'["other"]
  <2>1. stats["total"] = stats["tcp"] + stats["udp"] + stats["icmp"] + stats["other"]
    BY DEF Exact
  <2>2. \A c \in Counters : stats[c] \in Nat
    BY <1>7
  <2> QED
    BY <1>8, <1>9, <2>1, <2>2 DEF Counters
<1>14. stats'["bytes"] =
         Length["tcp"] * NumberIn(Counted', "tcp") + Length["udp"] * NumberIn(Counted', "udp")
           + Length["icmp"] * NumberIn(Counted', "icmp") + Length["ip"] * NumberIn(Counted', "ip")
           + Length["frame"] * NumberIn(Counted', "frame")
  <2> DEFINE P(k) == Length[k] * N(k)
             add(k) == IF kind = k THEN Length[k] ELSE 0
  <2>1. stats["bytes"] = P("tcp") + P("udp") + P("icmp") + P("ip") + P("frame")
    BY DEF Exact
  <2>2. \A k \in Kinds : Length[k] * NumberIn(Counted', k) = P(k) + add(k)
    BY <1>5, <1>10
  <2>3. Length[kind] = add("tcp") + add("udp") + add("icmp") + add("ip") + add("frame")
    BY <1>1, <1>2 DEF Kinds
  <2>4. \A k \in Kinds : P(k) \in Int /\ add(k) \in Int
    <3> TAKE k \in Kinds
    <3>1. Length[k] \in Int /\ N(k) \in Int
      BY <1>2, <1>6
    <3> HIDE DEF N
    <3> QED
      BY <3>1
  <2> HIDE DEF P, add, N
  <2>5. Length["tcp"] * NumberIn(Counted', "tcp") + Length["udp"] * NumberIn(Counted', "udp")
           + Length["icmp"] * NumberIn(Counted', "icmp") + Length["ip"] * NumberIn(Counted', "ip")
           + Length["frame"] * NumberIn(Counted', "frame")
         = (P("tcp") + add("tcp")) + (P("udp") + add("udp")) + (P("icmp") + add("icmp"))
           + (P("ip") + add("ip")) + (P("frame") + add("frame"))
    BY <1>11, <2>2
  <2> QED
    BY <1>8, <1>11, <2>1, <2>3, <2>4, <2>5
<1> QED
  BY <1>12, <1>13, <1>14 DEF Exact

----------------------------------------------------------------------------
(* The invariant and the theorems *)

IInv == TypeOK /\ Setting /\ Buffers /\ Intact /\ Logged /\ StatsExact

LEMMA InitExact == Init => StatsExact
<1> SUFFICES ASSUME Init PROVE StatsExact
  OBVIOUS
<1>1. Counted = <<>>
  <2>1. OwnTypes /\ Intact
    BY Init1 DEF TypeOK, OwnTypes
  <2>2. Counted \in Seq(Kinds) /\ Len(Counted) = Done
    BY <2>1, CountedType
  <2>3. Done = 0
    BY DEF Init, Done, Left
  <2> QED
    BY <2>2, <2>3, EmptySeq
<1>2. \A k : NumberIn(<<>>, k) = 0
  <2> TAKE k
  <2>1. {i \in 1 .. Len(<<>>) : <<>>[i] = k} = {}
    OBVIOUS
  <2> QED
    BY <2>1, FS_EmptySet DEF NumberIn
<1>3. \A c \in Counters : stats[c] = 0
  BY DEF Init
<1>4. \A k \in Kinds : Length[k] * 0 = 0
  BY LengthAssumption
<1>5. Exact(<<>>)
  <2>1. Len(<<>>) = 0
    OBVIOUS
  <2> QED
    BY <1>2, <1>3, <1>4, <2>1 DEF Exact, Counters, Kinds
<1> QED
  BY <1>1, <1>5, StatsAreExact

LEMMA Inductive == Spec => []IInv
<1>1. Init => IInv
  BY Init1, InitExact DEF IInv
<1>2. ASSUME IInv, [Next]_vars
      PROVE  IInv'
  <2>1. OwnTypes /\ Log!TypeOK
    BY <1>2 DEF IInv, TypeOK, OwnTypes
  <2>2. OwnTypes' /\ Log!TypeOK' /\ Setting' /\ Buffers' /\ Intact' /\ Logged'
    BY <1>2, <2>1, OwnTypesStep, SettingStep, BuffersStep, IntactStep, LoggerKept DEF IInv
  <2>3. TypeOK'
    BY <2>2 DEF TypeOK, OwnTypes
  <2>4. Exact(Counted)'
    <3>1. Exact(Counted)
      BY <1>2, StatsAreExact DEF IInv
    <3>2. CASE Analyze
      BY <1>2, <2>1, <3>1, <3>2, ExactAnalyze DEF IInv
    <3>3. CASE ~Analyze
      <4>1. Counted' = Counted
        BY <1>2, <2>1, <3>3, CountedKept DEF IInv
      <4>2. stats' = stats
        BY <1>2, <3>3
        DEF Next, MainStep, Logging, Setup, Fail, Burst, LogPacket, InLogger, FreePacket, Stop,
            Finish, Killed, Signal, Arrive, vars
      <4> QED
        BY <3>1, <4>1, <4>2 DEF Exact
    <3> QED
      BY <3>2, <3>3
  <2>5. StatsExact'
    BY <2>4 DEF StatsExact, Exact, NumberOf, NumberIn
  <2> QED
    BY <1>2, <2>2, <2>3, <2>5 DEF IInv
<1> QED
  BY <1>1, <1>2, PTL DEF Spec

\* main.c: the loop leaves nothing of a burst behind, the counters are naturals, and
\* the Logger is used within its own types.
THEOREM TypeCorrect == Spec => []TypeOK
<1>1. IInv => TypeOK
  BY DEF IInv
<1> QED
  BY <1>1, Inductive, PTL

\* rte_pktmbuf_free gives every buffer of a burst back, once; the card never fills a
\* buffer that main still reads.
THEOREM BuffersConserved == Spec => []MbufsConserved
<1>1. IInv => MbufsConserved
  <2> SUFFICES ASSUME IInv, at \notin Ended \cup {"logger_init", "eal", "ports", "pool"}
               PROVE  /\ mbuf_pool \cup Range(ring) \cup Range(bufs) = Mbufs
                      /\ IsInjective(ring \o bufs)
                      /\ mbuf_pool \cap Range(ring \o bufs) = {}
    BY DEF MbufsConserved
  <2>1. /\ ring \in Seq(Mbufs) /\ bufs \in Seq(Mbufs) /\ mbuf_pool \subseteq Mbufs
        /\ Len(ring) \in Nat /\ Len(bufs) \in Nat
        /\ DOMAIN ring = 1 .. Len(ring) /\ DOMAIN bufs = 1 .. Len(bufs)
    BY LenProperties DEF IInv, TypeOK
  <2>2. /\ \A i \in 1 .. Len(ring) : ring[i] \in Mbufs
        /\ \A i \in 1 .. Len(bufs) : bufs[i] \in Mbufs
    BY <2>1, ElementOfSeq
  <2>3. mbuf_pool \cup Range(ring) \cup Range(bufs) = Mbufs
    BY <2>1, <2>2 DEF IInv, Buffers, BeforePool, Range
  <2> DEFINE both == ring \o bufs
  <2>4. /\ DOMAIN both = 1 .. Len(ring) + Len(bufs)
        /\ \A i \in 1 .. Len(ring) + Len(bufs) :
             both[i] = IF i <= Len(ring) THEN ring[i] ELSE bufs[i - Len(ring)]
    <3>1. /\ both \in Seq(Mbufs) /\ Len(both) = Len(ring) + Len(bufs)
          /\ \A i \in 1 .. Len(ring) + Len(bufs) :
               both[i] = IF i <= Len(ring) THEN ring[i] ELSE bufs[i - Len(ring)]
      BY <2>1, ConcatProperties
    <3> HIDE DEF both
    <3> QED
      BY <3>1, LenProperties
  <2> HIDE DEF both
  <2>5. ASSUME NEW i \in 1 .. Len(ring) + Len(bufs)
        PROVE  \/ i \in 1 .. Len(ring) /\ both[i] = ring[i]
               \/ /\ i > Len(ring) /\ i - Len(ring) \in 1 .. Len(bufs)
                  /\ both[i] = bufs[i - Len(ring)]
    BY <2>1, <2>4
  <2>6. IsInjective(both)
    <3>1. ASSUME NEW i \in 1 .. Len(ring) + Len(bufs), NEW j \in 1 .. Len(ring) + Len(bufs),
                 both[i] = both[j]
          PROVE  i = j
      <4>1. CASE i \in 1 .. Len(ring) /\ j \in 1 .. Len(ring)
        BY <2>4, <3>1, <4>1 DEF IInv, Buffers
      <4>2. CASE i > Len(ring) /\ j > Len(ring)
        <5>1. i - Len(ring) \in 1 .. Len(bufs) /\ j - Len(ring) \in 1 .. Len(bufs)
          BY <2>1, <4>2
        <5>2. bufs[i - Len(ring)] = bufs[j - Len(ring)]
          BY <2>1, <2>4, <3>1, <4>2
        <5>3. i - Len(ring) = j - Len(ring)
          BY <5>1, <5>2 DEF IInv, Buffers
        <5> QED
          BY <2>1, <5>3
      <4>3. CASE i \in 1 .. Len(ring) /\ j > Len(ring)
        <5>1. j - Len(ring) \in 1 .. Len(bufs) /\ ring[i] = bufs[j - Len(ring)]
          BY <2>1, <2>4, <3>1, <4>3
        <5> QED
          BY <4>3, <5>1 DEF IInv, Buffers
      <4>4. CASE j \in 1 .. Len(ring) /\ i > Len(ring)
        <5>1. i - Len(ring) \in 1 .. Len(bufs) /\ ring[j] = bufs[i - Len(ring)]
          BY <2>1, <2>4, <3>1, <4>4
        <5> QED
          BY <4>4, <5>1 DEF IInv, Buffers
      <4> QED
        BY <2>1, <4>1, <4>2, <4>3, <4>4
    <3> QED
      BY <2>4, <3>1 DEF IsInjective
  <2>7. mbuf_pool \cap Range(both) = {}
    <3>1. ASSUME NEW i \in 1 .. Len(ring) + Len(bufs)
          PROVE  both[i] \notin mbuf_pool
      BY <2>5 DEF IInv, Buffers
    <3> QED
      BY <2>4, <3>1 DEF Range
  <2> QED
    BY <2>3, <2>6, <2>7 DEF both
<1> QED
  BY <1>1, Inductive, PTL

\* analyze_packet counts every packet that rte_eth_rx_burst has handed out once and
\* as what it was then, whatever the card fills meanwhile and whenever a signal comes.
THEOREM CountersExact == Spec => []StatsExact
<1>1. IInv => StatsExact
  BY DEF IInv
<1> QED
  BY <1>1, Inductive, PTL

\* The file that logger_free leaves is one whole line for each packet, in their
\* order, if it could be opened, and otherwise has nothing.
THEOREM LogIsComplete == Spec => []LogComplete
<1>1. IInv => LogComplete
  <2> SUFFICES ASSUME IInv, at = "done"
               PROVE  LogComplete
    BY DEF LogComplete
  <2>1. /\ bufs = <<>> /\ Len(bufs) = 0 /\ handed \in Seq(Kinds) /\ Len(handed) \in Nat
        /\ Left = Len(handed)
    BY LenProperties DEF IInv, TypeOK, Left, Ended
  <2>2. pc[Main] = "idle" /\ calls = Len(handed) /\ Written = calls
    BY <2>1 DEF IInv, Logged, Written
  <2>3. buffer = <<>> /\ file \in Seq(Log!Piece)
    BY DEF IInv, Setting, TypeOK, Log!TypeOK
  <2>4. Log!Text = file
    BY <2>3, ConcatEmptySeq DEF Log!Text
  <2>5. CASE open
    <3>1. Lines(file, Len(handed)) /\ \A n \in 1 .. Len(handed) : message[n] = handed[n]
      BY <2>2, <2>4, <2>5 DEF IInv, Logged
    <3> QED
      BY <2>5, <3>1 DEF Lines, LogComplete
  <2>6. CASE ~open
    BY <2>4, <2>6 DEF IInv, Logged, LogComplete
  <2> QED
    BY <2>5, <2>6
<1> QED
  BY <1>1, Inductive, PTL

\* main uses the logger as its interface asks: what it does to the Logger is a
\* behaviour of the module Logger with one thread and one run.
THEOREM ImplementsLogger == Spec => Log!Spec
<1>1. Init => Log!Init
  BY DEF Init
<1>2. [Next]_vars => [Log!Next]_(Log!vars)
  <2> SUFFICES ASSUME [Next]_vars PROVE [Log!Next]_(Log!vars)
    OBVIOUS
  <2>1. CASE UNCHANGED loggerVars
    BY <2>1 DEF loggerVars, Log!vars, Log!callVars
  <2>2. CASE Logging \/ Fail \/ Killed \/ Finish
    BY <2>2 DEF Logging, Fail, Killed, Finish, Log!Next
  <2>3. CASE LogPacket \/ InLogger
    <3>1. Main \in {Main} /\ "INFO" \in Log!LogTypes
      BY DEF Log!LogTypes
    <3>2. Log!Thread(Main)
      BY <2>3, <3>1 DEF LogPacket, InLogger, Log!Thread
    <3> QED
      BY <3>1, <3>2 DEF Log!Next
  <2> QED
    BY <2>1, <2>2, <2>3
    DEF Next, MainStep, Setup, Burst, Analyze, FreePacket, Stop, vars, Signal, Arrive
<1> QED
  BY <1>1, <1>2, PTL DEF Spec, Log!Spec
=============================================================================
