---------------------------- MODULE LoggerProofs ----------------------------
(***************************************************************************)
(* Theorems about the logger, for any number of threads, calls and runs:   *)
(* the text of concurrent calls is never mixed, only a killed run leaves   *)
(* half a line, and after logger_free the file has the line of every call. *)
(***************************************************************************)
EXTENDS Logger, SequenceTheorems, TLAPS

----------------------------------------------------------------------------
(* The text *)

\* The two pieces of line k of a call.
Begin(t, k) == <<run, call[t][1], 2 * k>>
Rest(t, k) == <<run, call[t][1], 2 * k + 1>>

\* What waits in the buffer is of this run.
OfRun == \A i \in 1 .. Len(buffer) : buffer[i][1] = run

LEMMA PieceTypes ==
    ASSUME TypeOK, NEW t \in Threads, NEW k \in Nat
    PROVE  /\ call[t][1] \in Nat /\ run \in Nat /\ frame[t] \in Nat /\ calls \in Nat
           /\ Begin(t, k) \in Piece /\ Rest(t, k) \in Piece
<1>1. frame[t] \in 0 .. Frames /\ call[t] \in Nat \X LogTypes /\ run \in 0 .. MaxRuns
      /\ calls \in 0 .. MaxCalls
  BY DEF TypeOK
<1>2. frame[t] \in Nat /\ call[t][1] \in Nat /\ run \in Nat /\ calls \in Nat
  BY <1>1, BoundAssumption
<1>3. 2 * k \in Nat /\ 2 * k + 1 \in Nat
  OBVIOUS
<1> QED
  BY <1>2, <1>3 DEF Piece, Begin, Rest

\* Wherever the new text is cut, both parts together are the old text and the line.
LEMMA PrintText ==
    ASSUME TypeOK, NEW t \in Threads, NEW k \in Nat, Printf(t, k)
    PROVE  /\ buffer' \in Seq(Piece) /\ file' \in Seq(Piece)
           /\ Text' = Append(Append(Text, Begin(t, k)), Rest(t, k))
           /\ OfRun => \A i \in 1 .. Len(buffer') : buffer'[i][1] = run
<1> DEFINE line == <<Begin(t, k), Rest(t, k)>>
           text == buffer \o line
<1>1. PICK n \in {0} \cup Len(buffer) .. Len(text) :
        /\ file' = file \o SubSeq(text, 1, n)
        /\ buffer' = SubSeq(text, n + 1, Len(text))
  BY DEF Printf, Begin, Rest
<1>2. /\ Begin(t, k) \in Piece /\ Rest(t, k) \in Piece
      /\ buffer \in Seq(Piece) /\ file \in Seq(Piece)
  BY PieceTypes DEF TypeOK
<1>3. /\ line \in Seq(Piece) /\ Len(line) = 2
      /\ line[1] = Begin(t, k) /\ line[2] = Rest(t, k)
  BY <1>2
<1> HIDE DEF line
<1>4. /\ text \in Seq(Piece) /\ Len(text) = Len(buffer) + 2 /\ Len(buffer) \in Nat
      /\ \A i \in 1 .. Len(buffer) + 2 :
           text[i] = IF i <= Len(buffer) THEN buffer[i] ELSE line[i - Len(buffer)]
  <2>1. /\ text \in Seq(Piece) /\ Len(text) = Len(buffer) + Len(line)
        /\ \A i \in 1 .. Len(buffer) + Len(line) :
             text[i] = IF i <= Len(buffer) THEN buffer[i] ELSE line[i - Len(buffer)]
    BY <1>2, <1>3, ConcatProperties
  <2> HIDE DEF text
  <2> QED
    BY <1>2, <1>3, <2>1, LenProperties
<1> HIDE DEF text
<1>5. /\ n \in Nat /\ n \in 0 .. Len(text) /\ n \in 1 - 1 .. Len(text)
      /\ Len(text) \in n .. Len(text) /\ 1 \in 1 .. Len(text) + 1
      /\ 1 \in Int /\ n \in Int /\ n + 1 \in Int /\ Len(text) \in Int
  BY <1>1, <1>4
<1>6. /\ SubSeq(text, 1, n) \in Seq(Piece) /\ SubSeq(text, n + 1, Len(text)) \in Seq(Piece)
      /\ Len(SubSeq(text, n + 1, Len(text)))
           = IF n + 1 <= Len(text) THEN Len(text) - (n + 1) + 1 ELSE 0
      /\ \A i \in 1 .. Len(text) - (n + 1) + 1 :
           SubSeq(text, n + 1, Len(text))[i] = text[(n + 1) + i - 1]
  <2>1. \A i \in 1 .. Len(text) : text[i] \in Piece
    BY <1>4, ElementOfSeq
  <2>2. \A i \in 1 .. n : text[i] \in Piece
    BY <1>5, <2>1
  <2>3. \A i \in n + 1 .. Len(text) : text[i] \in Piece
    BY <1>5, <2>1
  <2> QED
    BY <1>5, <2>2, <2>3, SubSeqProperties
<1>7. SubSeq(text, 1, n) \o SubSeq(text, n + 1, Len(text)) = text
  <2>1. SubSeq(text, 1, n) \o SubSeq(text, n + 1, Len(text)) = SubSeq(text, 1, Len(text))
    BY <1>4, <1>5, ConcatAdjacentSubSeq
  <2> QED
    BY <1>4, <2>1, SubSeqFull
<1>8. Text' = file \o text
  <2>1. Text' = (file \o SubSeq(text, 1, n)) \o SubSeq(text, n + 1, Len(text))
    BY <1>1 DEF Text
  <2>2. \A a, b \in Seq(Piece) : (file \o a) \o b = file \o (a \o b)
    BY <1>2, ConcatAssociative
  <2>3. (file \o SubSeq(text, 1, n)) \o SubSeq(text, n + 1, Len(text))
            = file \o (SubSeq(text, 1, n) \o SubSeq(text, n + 1, Len(text)))
    BY <1>6, <2>2
  <2> QED
    BY <1>7, <2>1, <2>3
<1>9. file \o text = Append(Append(Text, Begin(t, k)), Rest(t, k))
  <2> DEFINE more == Append(Append(Text, Begin(t, k)), Rest(t, k))
             all == file \o text
  <2>1. /\ Text \in Seq(Piece) /\ Len(Text) = Len(file) + Len(buffer) /\ Len(file) \in Nat
        /\ \A i \in 1 .. Len(file) + Len(buffer) :
             Text[i] = IF i <= Len(file) THEN file[i] ELSE buffer[i - Len(file)]
    BY <1>2, ConcatProperties, LenProperties DEF Text
  <2>2. /\ all \in Seq(Piece) /\ Len(all) = Len(file) + Len(text)
        /\ \A i \in 1 .. Len(file) + Len(text) :
             all[i] = IF i <= Len(file) THEN file[i] ELSE text[i - Len(file)]
    <3>1. text \in Seq(Piece) /\ file \in Seq(Piece)
      BY <1>2, <1>4
    <3> QED
      BY <3>1, ConcatProperties
  <2>3. /\ more \in Seq(Piece) /\ Len(more) = Len(Text) + 2
        /\ \A i \in 1 .. Len(Text) : more[i] = Text[i]
        /\ more[Len(Text) + 1] = Begin(t, k) /\ more[Len(Text) + 2] = Rest(t, k)
    <3> DEFINE half == Append(Text, Begin(t, k))
    <3>1. /\ half \in Seq(Piece) /\ Len(half) = Len(Text) + 1 /\ Len(Text) \in Nat
          /\ \A i \in 1 .. Len(Text) : half[i] = Text[i]
          /\ half[Len(Text) + 1] = Begin(t, k)
      BY <1>2, <2>1, AppendProperties, LenProperties
    <3> HIDE DEF half
    <3>2. /\ Append(half, Rest(t, k)) \in Seq(Piece)
          /\ Len(Append(half, Rest(t, k))) = Len(half) + 1
          /\ \A i \in 1 .. Len(half) : Append(half, Rest(t, k))[i] = half[i]
          /\ Append(half, Rest(t, k))[Len(half) + 1] = Rest(t, k)
      BY <1>2, <3>1, AppendProperties
    <3>3. /\ \A i \in 1 .. Len(Text) : i \in 1 .. Len(half)
          /\ Len(Text) + 1 \in 1 .. Len(half) /\ Len(half) + 1 = Len(Text) + 2
      BY <3>1
    <3> QED
      BY <3>1, <3>2, <3>3 DEF half
  <2> HIDE DEF more, all
  <2>4. ASSUME NEW i \in 1 .. Len(all)
        PROVE  all[i] = more[i]
    <3>1. CASE i <= Len(Text)
      <4>1. i \in 1 .. Len(Text) /\ i \in 1 .. Len(file) + Len(text)
        BY <1>4, <2>1, <2>2, <3>1
      <4>2. CASE i <= Len(file)
        BY <2>1, <2>2, <2>3, <4>1, <4>2
      <4>3. CASE ~(i <= Len(file))
        <5>1. i - Len(file) \in 1 .. Len(buffer) + 2 /\ i - Len(file) <= Len(buffer)
          BY <1>4, <2>1, <4>1, <4>3
        <5>2. text[i - Len(file)] = buffer[i - Len(file)]
          BY <1>4, <5>1
        <5> QED
          BY <2>1, <2>2, <2>3, <4>1, <4>3, <5>2
      <4> QED
        BY <4>2, <4>3
    <3>2. CASE i > Len(Text)
      <4>1. /\ ~(i <= Len(file)) /\ i \in 1 .. Len(file) + Len(text)
            /\ i - Len(file) \in 1 .. Len(buffer) + 2 /\ ~(i - Len(file) <= Len(buffer))
            /\ \/ i = Len(Text) + 1 /\ (i - Len(file)) - Len(buffer) = 1
               \/ i = Len(Text) + 2 /\ (i - Len(file)) - Len(buffer) = 2
        <5>1. i \in Nat /\ i <= Len(file) + Len(buffer) + 2 /\ i > Len(file) + Len(buffer)
          BY <1>4, <2>1, <2>2, <3>2
        <5>2. Len(buffer) \in Nat /\ Len(file) \in Nat /\ Len(text) = Len(buffer) + 2
          BY <1>4, <2>1
        <5> QED
          BY <2>1, <5>1, <5>2
      <4>2. all[i] = line[(i - Len(file)) - Len(buffer)]
        BY <1>4, <2>2, <4>1
      <4> QED
        BY <1>3, <2>3, <4>1, <4>2
    <3> QED
      BY <2>1, <3>1, <3>2
  <2>5. Len(all) = Len(more)
    BY <1>4, <2>1, <2>2, <2>3
  <2>6. all = more
    BY <2>2, <2>3, <2>4, <2>5, SeqEqual
  <2> QED
    BY <2>6 DEF all, more
<1>10. file' \in Seq(Piece)
  BY <1>1, <1>2, <1>6, ConcatProperties
<1>11. ASSUME OfRun
       PROVE  \A i \in 1 .. Len(buffer') : buffer'[i][1] = run
  <2>1. Begin(t, k)[1] = run /\ Rest(t, k)[1] = run
    BY DEF Begin, Rest
  <2>2. \A i \in 1 .. Len(text) : text[i][1] = run
    <3>1. \A i \in 1 .. Len(text) :
             i \in 1 .. Len(buffer) \/ i - Len(buffer) = 1 \/ i - Len(buffer) = 2
      BY <1>4
    <3>2. \A i \in 1 .. Len(text) : i \in 1 .. Len(buffer) <=> i <= Len(buffer)
      BY <1>4
    <3> QED
      BY <1>3, <1>4, <1>11, <2>1, <3>1, <3>2 DEF OfRun
  <2>3. \A i \in 1 .. Len(buffer') : /\ i \in 1 .. Len(text) - (n + 1) + 1
                                     /\ (n + 1) + i - 1 \in 1 .. Len(text)
    BY <1>1, <1>5, <1>6
  <2> QED
    BY <1>1, <1>6, <2>2, <2>3
<1> QED
  BY <1>1, <1>6, <1>8, <1>9, <1>10, <1>11

LEMMA TextType ==
    ASSUME buffer \in Seq(Piece), file \in Seq(Piece)
    PROVE  Text \in Seq(Piece) /\ Len(Text) \in Nat
  BY ConcatProperties, LenProperties DEF Text

\* A piece at the end of the text.
LEMMA Appended ==
    ASSUME NEW text \in Seq(Piece), NEW piece \in Piece,
           NEW text2, text2 = Append(text, piece)
    PROVE  /\ Len(text) \in Nat /\ Len(text2) = Len(text) + 1
           /\ \A i \in 1 .. Len(text) : text2[i] = text[i]
           /\ text2[Len(text) + 1] = piece
  BY AppendProperties, LenProperties

\* What the killed process leaves is the beginning of its text.
LEMMA FileBegins ==
    ASSUME buffer \in Seq(Piece), file \in Seq(Piece)
    PROVE  /\ Len(file) \in Nat /\ Len(Text) \in Nat /\ Len(file) <= Len(Text)
           /\ \A i \in 1 .. Len(file) : file[i] = Text[i]
<1>1. /\ Len(file) \in Nat /\ Len(buffer) \in Nat
      /\ Len(Text) = Len(file) + Len(buffer)
  BY ConcatProperties, LenProperties DEF Text
<1>2. \A i \in 1 .. Len(file) + Len(buffer) :
        Text[i] = IF i <= Len(file) THEN file[i] ELSE buffer[i - Len(file)]
  BY ConcatProperties DEF Text
<1> QED
  BY <1>1, <1>2

LEMMA EmptyBuffer ==
    ASSUME file \in Seq(Piece), buffer = <<>>
    PROVE  Text = file
  BY ConcatEmptySeq DEF Text

----------------------------------------------------------------------------
(* The threads *)

Writing == {"lock", "trace", "unlock"}

\* Who writes holds the mutex; calls under way have numbers of their own.
Threading ==
    /\ \A t \in Threads :
         /\ pc[t] \in Writing => owner = t
         /\ pc[t] # "idle" => state = "live" /\ open /\ call[t][1] \in 1 .. calls
         /\ pc[t] = "trace" => call[t][2] = "ERROR"
    /\ \A t, u \in Threads :
         pc[t] # "idle" /\ pc[u] # "idle" /\ t # u => call[t][1] # call[u][1]
    /\ state # "none" => run > 0 /\ run \notin cut

LEMMA Init1 == Init => TypeOK /\ Threading
<1> SUFFICES ASSUME Init PROVE TypeOK /\ Threading
  OBVIOUS
<1>1. <<>> \in Seq(Piece) /\ <<0, "INFO">> \in Nat \X LogTypes
  BY DEF LogTypes
<1>2. open \in BOOLEAN
  BY DEF Init
<1> QED
  BY <1>1, <1>2, BoundAssumption DEF Init, TypeOK, Threading, Writing

LEMMA Step1 ==
    ASSUME TypeOK, Threading, [Next]_vars
    PROVE  TypeOK' /\ Threading'
<1>1. CASE LoggerInit
  <2>1. open' \in BOOLEAN
    BY <1>1 DEF LoggerInit
  <2>2. \A t \in Threads : pc[t] = "idle"
    BY <1>1 DEF LoggerInit, Threading
  <2>3. buffer = <<>>
    BY <1>1 DEF LoggerInit, TypeOK
  <2>4. run \in Nat /\ run' \in Nat /\ run' = run + 1 /\ cut' = cut /\ cut \subseteq 1 .. run
    BY <1>1, BoundAssumption DEF LoggerInit, TypeOK
  <2>5. cut' \subseteq 1 .. run' /\ run' \notin cut' /\ run' > 0
    BY <2>4
  <2> QED
    BY <1>1, <2>1, <2>2, <2>3, <2>5, BoundAssumption
    DEF LoggerInit, TypeOK, Threading, callVars, Writing
<1>2. ASSUME NEW t \in Threads, NEW type \in LogTypes, Log(t, type)
      PROVE  TypeOK' /\ Threading'
  <2>1. <<calls + 1, type>> \in Nat \X LogTypes /\ calls + 1 \in 0 .. MaxCalls
    BY <1>2, BoundAssumption DEF Log, TypeOK
  <2>2. open' = open
    BY <1>2 DEF Log
  <2>3. TypeOK'
    <3>1. calls' \in 0 .. MaxCalls /\ call' \in [Threads -> Nat \X LogTypes]
      BY <1>2, <2>1 DEF Log, TypeOK
    <3>2. frame' \in [Threads -> 0 .. Frames]
      BY <1>2, BoundAssumption DEF Log, TypeOK
    <3>3. pc' \in [Threads -> {"idle", "call", "lock", "trace", "unlock"}]
      BY <1>2 DEF Log, TypeOK, Goto
    <3> QED
      BY <1>2, <2>2, <3>1, <3>2, <3>3 DEF Log, TypeOK
  <2>4. \A u \in Threads : pc'[u] # "idle" =>
           \/ u = t /\ call'[u][1] = calls' /\ open
           \/ u # t /\ pc'[u] = pc[u] /\ call'[u] = call[u]
    BY <1>2 DEF Log, TypeOK, Goto
  <2>5. calls' = calls + 1 /\ calls \in Nat /\ state = "live"
    BY <1>2 DEF Log, TypeOK
  <2>6. \A u \in Threads : pc'[u] \in Writing \cup {"trace"} =>
            pc'[u] = pc[u] /\ call'[u] = call[u]
    BY <1>2 DEF Log, TypeOK, Goto, Writing
  <2>7. owner' = owner /\ state' = state
    BY <1>2 DEF Log
  <2> QED
    <3>1. cut' = cut /\ run' = run
      BY <1>2 DEF Log
    <3> QED
      BY <2>2, <2>3, <2>4, <2>5, <2>6, <2>7, <3>1 DEF Threading, Writing
<1>3. ASSUME NEW t \in Threads, Lock(t)
      PROVE  TypeOK' /\ Threading'
  <2>1. open' = open
    BY <1>3 DEF Lock
  <2>2. \A u \in Threads : pc[u] \notin Writing
    BY <1>3, NoThreadAssumption DEF Lock, Threading
  <2>3. TypeOK'
    BY <1>3, <2>1 DEF Lock, TypeOK, Goto
  <2> QED
    BY <1>3, <2>1, <2>2, <2>3 DEF Lock, TypeOK, Threading, Goto, Writing
<1>4. ASSUME NEW t \in Threads, PrintLine(t)
      PROVE  TypeOK' /\ Threading'
  <2>2. buffer' \in Seq(Piece) /\ file' \in Seq(Piece)
    BY <1>4, PrintText DEF PrintLine
  <2>3. open' = open /\ open
    BY <1>4 DEF PrintLine, Threading
  <2> QED
    BY <1>4, <2>2, <2>3 DEF PrintLine, TypeOK, Threading, Goto, Writing
<1>5. ASSUME NEW t \in Threads, PrintFrame(t)
      PROVE  TypeOK' /\ Threading'
  <2>1. frame[t] + 1 \in Nat
    BY PieceTypes DEF TypeOK
  <2>2. buffer' \in Seq(Piece) /\ file' \in Seq(Piece)
    BY <1>5, <2>1, PrintText DEF PrintFrame
  <2>3. open' = open /\ open
    BY <1>5 DEF PrintFrame, Threading
  <2>4. frame' \in [Threads -> 0 .. Frames]
    BY <1>5, BoundAssumption DEF PrintFrame, TypeOK
  <2> QED
    BY <1>5, <2>2, <2>3, <2>4 DEF PrintFrame, TypeOK, Threading, Writing
<1>6. ASSUME NEW t \in Threads, EndTrace(t)
      PROVE  TypeOK' /\ Threading'
  <2>1. open' = open
    BY <1>6 DEF EndTrace
  <2> QED
    BY <1>6, <2>1 DEF EndTrace, TypeOK, Threading, Goto, Writing
<1>7. ASSUME NEW t \in Threads, Unlock(t)
      PROVE  TypeOK' /\ Threading'
  <2>1. open' = open
    BY <1>7 DEF Unlock
  <2>2. \A u \in Threads : u # t => pc[u] \notin Writing
    BY <1>7 DEF Unlock, Threading, Writing
  <2> QED
    BY <1>7, <2>1, <2>2 DEF Unlock, TypeOK, Threading, Goto, Writing
<1>8. CASE LoggerFree
  <2>1. file \o buffer \in Seq(Piece) /\ <<>> \in Seq(Piece)
    BY ConcatProperties DEF TypeOK
  <2>2. open' = open
    BY <1>8 DEF LoggerFree
  <2> QED
    BY <1>8, <2>1, <2>2 DEF LoggerFree, TypeOK, Threading, callVars, Writing
<1>9. CASE Kill
  <2>1. <<>> \in Seq(Piece)
    OBVIOUS
  <2>2. open' \in BOOLEAN /\ ~open'
    BY <1>9 DEF Kill
  <2>3. run \in 1 .. run
    BY <1>9, BoundAssumption DEF Kill, TypeOK, Threading
  <2>4. cut' \subseteq 1 .. run
    BY <1>9, <2>3 DEF Kill, TypeOK
  <2> QED
    BY <1>9, <2>1, <2>2, <2>4 DEF Kill, TypeOK, Threading, Writing
<1>10. CASE UNCHANGED vars
  <2>1. open' = open
    BY <1>10 DEF vars
  <2> QED
    BY <1>10, <2>1 DEF vars, callVars, TypeOK, Threading, Writing
<1> QED
  BY <1>1, <1>2, <1>3, <1>4, <1>5, <1>6, <1>7, <1>8, <1>9, <1>10
  DEF Next, Thread, LogStep

----------------------------------------------------------------------------
(* Nothing is torn *)

Last(text) == text[Len(text)]
UntornText(text) == \A i \in 1 .. Len(text) - 1 : Follows(text[i], text[i + 1])

\* The text has nothing of calls to come, and the end of it is what the thread
\* that holds the mutex has written.
TextOf(r, n, text) ==
    \A i \in 1 .. Len(text) : text[i][1] <= r /\ (text[i][1] = r => text[i][2] <= n)

EndOf(text) ==
    /\ Len(text) > 0 /\ Last(text)[1] \notin cut /\ (\A t \in Threads : pc[t] # "trace") =>
         EndsCall(Last(text))
    /\ \A t \in Threads :
         pc[t] = "trace" => Len(text) > 0 /\ Last(text) = Rest(t, frame[t])

Orderly ==
    /\ TextOf(run, calls, Text) /\ EndOf(Text) /\ UntornText(Text) /\ OfRun
    /\ \A t \in Threads : pc[t] \in {"call", "lock"} => frame[t] = 0

LEMMA UntornAppend ==
    ASSUME NEW text \in Seq(Piece), NEW piece \in Piece,
           NEW text2, text2 = Append(text, piece), UntornText(text),
           Len(text) > 0 => Follows(Last(text), piece)
    PROVE  UntornText(text2)
<1>1. /\ Len(text) \in Nat /\ Len(text2) = Len(text) + 1
      /\ \A i \in 1 .. Len(text) : text2[i] = text[i]
      /\ text2[Len(text) + 1] = piece
  BY Appended
<1>2. ASSUME NEW i \in 1 .. Len(text)
      PROVE  Follows(text2[i], text2[i + 1])
  <2>1. CASE i = Len(text)
    BY <1>1, <2>1 DEF Last
  <2>2. CASE i < Len(text)
    <3>1. i \in 1 .. Len(text) - 1 /\ i + 1 \in 1 .. Len(text)
      BY <1>1, <2>2
    <3>2. text2[i] = text[i] /\ text2[i + 1] = text[i + 1]
      BY <1>1, <3>1
    <3>3. Follows(text[i], text[i + 1])
      BY <3>1 DEF UntornText
    <3> QED
      BY <3>2, <3>3
  <2> QED
    BY <1>1, <2>1, <2>2
<1> QED
  BY <1>1, <1>2 DEF UntornText

LEMMA TextOfAppend ==
    ASSUME NEW text \in Seq(Piece), NEW piece \in Piece, NEW r, NEW n,
           NEW text2, text2 = Append(text, piece), TextOf(r, n, text),
           piece[1] <= r /\ (piece[1] = r => piece[2] <= n)
    PROVE  TextOf(r, n, text2)
<1>1. /\ Len(text) \in Nat /\ Len(text2) = Len(text) + 1
      /\ \A i \in 1 .. Len(text) : text2[i] = text[i]
      /\ text2[Len(text) + 1] = piece
  BY Appended
<1>2. \A i \in 1 .. Len(text2) : i \in 1 .. Len(text) \/ i = Len(text) + 1
  BY <1>1
<1> QED
  BY <1>1, <1>2 DEF TextOf

LEMMA Init2 == Init => Orderly
<1> SUFFICES ASSUME Init PROVE Orderly
  OBVIOUS
<1>1. Text = <<>> /\ Len(Text) = 0
  BY DEF Init, Text
<1> QED
  BY <1>1 DEF Init, Orderly, TextOf, EndOf, UntornText, OfRun

\* A line behind the text, by the thread that holds the mutex.
LEMMA OrderlyPrint ==
    ASSUME TypeOK, Threading, Orderly, NEW t \in Threads, NEW k \in Nat, Printf(t, k),
           call[t][1] <= calls,
           Len(Text) > 0 => Follows(Last(Text), Begin(t, k))
    PROVE  /\ TextOf(run, calls, Text') /\ UntornText(Text')
           /\ Len(Text') > 0 /\ Last(Text') = Rest(t, k)
<1> DEFINE p == Begin(t, k)
           q == Rest(t, k)
           half == Append(Text, p)
<1>1. /\ p \in Piece /\ q \in Piece /\ call[t][1] \in Nat /\ run \in Nat
      /\ p[1] = run /\ p[2] = call[t][1] /\ p[3] = 2 * k
      /\ q[1] = run /\ q[2] = call[t][1] /\ q[3] = p[3] + 1
  BY PieceTypes DEF Begin, Rest
<1>2. Text' = Append(half, q) /\ Text \in Seq(Piece)
  BY PrintText, TextType DEF TypeOK
<1>3. p[1] <= run /\ p[2] <= calls /\ q[1] <= run /\ q[2] <= calls
  BY <1>1
<1>4. Follows(p, q)
  BY <1>1 DEF Follows
<1>5. Len(Text) > 0 => Follows(Last(Text), p)
  OBVIOUS
<1> HIDE DEF p, q
<1>6. half \in Seq(Piece) /\ Len(half) = Len(Text) + 1 /\ Len(Text) \in Nat /\ Last(half) = p
  BY <1>1, <1>2, AppendProperties, LenProperties DEF Last
<1>7. TextOf(run, calls, half) /\ UntornText(half)
  BY <1>1, <1>2, <1>3, <1>5, TextOfAppend, UntornAppend DEF Orderly
<1> HIDE DEF half
<1>8. TextOf(run, calls, Text') /\ UntornText(Text')
  BY <1>1, <1>2, <1>3, <1>4, <1>6, <1>7, TextOfAppend, UntornAppend
<1>9. Len(Text') > 0 /\ Last(Text') = q
  BY <1>1, <1>2, <1>6, AppendProperties DEF Last
<1> QED
  BY <1>8, <1>9 DEF q

LEMMA OrderlyPrintLine ==
    ASSUME TypeOK, Threading, Orderly, NEW t \in Threads, PrintLine(t)
    PROVE  Orderly'
<1>1. /\ state = "live" /\ call[t][1] <= calls /\ calls \in Nat
      /\ \A u \in Threads : u # t => pc[u] \notin Writing
  BY PieceTypes DEF PrintLine, Threading, Writing
<1>2. Len(Text) > 0 => Follows(Last(Text), Begin(t, 0))
  <2> SUFFICES ASSUME Len(Text) > 0 PROVE Follows(Last(Text), Begin(t, 0))
    OBVIOUS
  <2>1. \A u \in Threads : pc[u] # "trace"
    BY <1>1 DEF PrintLine, Writing
  <2>2. Begin(t, 0)[1] = run /\ Begin(t, 0)[3] = 0
    BY DEF Begin
  <2>3. Len(Text) \in 1 .. Len(Text) /\ Text[Len(Text)] \in Piece
    BY TextType, ElementOfSeq DEF TypeOK
  <2>4. Last(Text)[1] \in Nat /\ Last(Text)[1] <= run /\ run \in Nat /\ run \notin cut
    BY <1>1, <2>3, PieceTypes DEF Orderly, TextOf, Last, Piece, Threading
  <2>5. CASE Last(Text)[1] \in cut
    <3>1. Last(Text)[1] < run
      BY <2>4, <2>5
    <3> QED
      BY <2>2, <2>5, <3>1 DEF Follows
  <2>6. CASE Last(Text)[1] \notin cut
    BY <2>1, <2>2, <2>4, <2>6 DEF Orderly, EndOf, Follows
  <2> QED
    BY <2>5, <2>6
<1>3. /\ TextOf(run, calls, Text') /\ UntornText(Text')
      /\ Len(Text') > 0 /\ Last(Text') = Rest(t, 0)
  BY <1>1, <1>2, OrderlyPrint DEF PrintLine
<1>4. /\ run' = run /\ calls' = calls /\ frame' = frame /\ call' = call /\ cut' = cut
      /\ \A u \in Threads : u # t => pc'[u] = pc[u]
      /\ pc'[t] \in {"trace", "unlock"} /\ frame[t] = 0
  BY DEF PrintLine, Goto, TypeOK, Orderly
<1>5. OfRun'
  BY <1>4, PrintText DEF PrintLine, Orderly, OfRun
<1>6. EndOf(Text)'
  <2>1. EndsCall(Rest(t, 0))'
    BY DEF EndsCall, Rest
  <2>2. Rest(t, frame[t])' = Rest(t, 0)
    BY <1>4 DEF Rest
  <2>3. \A u \in Threads : pc'[u] = "trace" => u = t
    BY <1>1, <1>4 DEF Writing
  <2>4. EndsCall(Last(Text))'
    BY <1>3 DEF EndsCall, Rest, Last
  <2> QED
    BY <1>3, <2>2, <2>3, <2>4 DEF EndOf, Last
<1>7. \A u \in Threads : pc'[u] \in {"call", "lock"} => frame'[u] = 0
  BY <1>4 DEF Orderly
<1> QED
  BY <1>3, <1>4, <1>5, <1>6, <1>7 DEF Orderly, TextOf, UntornText, Follows, EndsCall

LEMMA OrderlyPrintFrame ==
    ASSUME TypeOK, Threading, Orderly, NEW t \in Threads, PrintFrame(t)
    PROVE  Orderly'
<1> DEFINE k == frame[t] + 1
<1>1. /\ call[t][1] <= calls /\ calls \in Nat /\ frame[t] \in Nat /\ k \in Nat
      /\ \A u \in Threads : u # t => pc[u] \notin Writing
  BY PieceTypes DEF PrintFrame, Threading, Writing
<1>2. Follows(Last(Text), Begin(t, k))
  <2>1. Last(Text) = Rest(t, frame[t])
    BY DEF PrintFrame, Orderly, EndOf
  <2>2. 2 * k = 2 * frame[t] + 1 + 1
    BY <1>1
  <2> QED
    BY <2>1, <2>2 DEF Follows, Begin, Rest
<1>3. /\ TextOf(run, calls, Text') /\ UntornText(Text')
      /\ Len(Text') > 0 /\ Last(Text') = Rest(t, k)
  BY <1>1, <1>2, OrderlyPrint DEF PrintFrame
<1>4. /\ run' = run /\ calls' = calls /\ call' = call /\ pc' = pc /\ cut' = cut
      /\ \A u \in Threads : u # t => frame'[u] = frame[u]
      /\ pc[t] = "trace" /\ frame'[t] = k
  BY DEF PrintFrame, TypeOK
<1>5. OfRun'
  BY <1>1, <1>4, PrintText DEF PrintFrame, Orderly, OfRun
<1>6. EndOf(Text)'
  <2>1. Rest(t, frame[t])' = Rest(t, k)
    BY <1>4 DEF Rest
  <2>2. \A u \in Threads : pc'[u] = "trace" => u = t
    BY <1>1, <1>4 DEF Writing
  <2> QED
    BY <1>3, <1>4, <2>1, <2>2 DEF EndOf, Last
<1>7. \A u \in Threads : pc'[u] \in {"call", "lock"} => frame'[u] = 0
  BY <1>4 DEF Orderly
<1> QED
  BY <1>3, <1>4, <1>5, <1>6, <1>7 DEF Orderly, TextOf, UntornText, Follows, EndsCall

\* Steps that leave the text and the end of it alone.
LEMMA OrderlyKept ==
    ASSUME TypeOK, Threading, Orderly, Text' = Text,
           \/ LoggerInit \/ LoggerFree \/ UNCHANGED vars
           \/ \E t \in Threads : Lock(t) \/ EndTrace(t) \/ Unlock(t)
           \/ \E t \in Threads, type \in LogTypes : Log(t, type)
    PROVE  Orderly'
<1>0. run \in Nat /\ calls \in Nat
  BY BoundAssumption DEF TypeOK
<1>t. \A i \in 1 .. Len(Text) : Text[i][1] \in Nat
  <2>1. Text \in Seq(Piece)
    BY TextType DEF TypeOK
  <2>2. \A i \in 1 .. Len(Text) : Text[i] \in Piece
    BY <2>1, ElementOfSeq
  <2> QED
    BY <2>2 DEF Piece
<1>u. UntornText(Text)'
  <2>1. cut' = cut
    BY DEF LoggerInit, LoggerFree, Lock, EndTrace, Unlock, Log, vars
  <2> QED
    BY <2>1 DEF Orderly, UntornText, Follows, EndsCall
<1>1. CASE LoggerInit
  <2>1. \A t \in Threads : pc[t] = "idle" /\ pc'[t] = "idle"
    BY <1>1 DEF LoggerInit, Threading, callVars
  <2>2. run' = run + 1 /\ \A i \in 1 .. Len(Text) : Text[i][1] < run'
    BY <1>0, <1>1, <1>t DEF LoggerInit, Orderly, TextOf
  <2>3. TextOf(run, calls, Text)'
    BY <1>0, <1>t, <2>2 DEF TextOf
  <2>4. EndOf(Text)'
    <3>1. cut' = cut
      BY <1>1 DEF LoggerInit
    <3> QED
      BY <2>1, <3>1 DEF Orderly, EndOf, EndsCall, Last
  <2>5. OfRun'
    <3>1. buffer' = <<>>
      BY <1>1 DEF LoggerInit, TypeOK
    <3>2. Len(<<>>) = 0
      OBVIOUS
    <3> QED
      BY <3>1, <3>2 DEF OfRun
  <2> QED
    BY <1>u, <2>1, <2>3, <2>4, <2>5 DEF Orderly
<1>2. ASSUME NEW t \in Threads, NEW type \in LogTypes, Log(t, type)
      PROVE  Orderly'
  <2>1. /\ run' = run /\ calls' = calls + 1 /\ state' = state /\ cut' = cut
        /\ buffer' = buffer
    BY <1>2 DEF Log
  <2>2. TextOf(run, calls, Text)'
    <3>1. \A i \in 1 .. Len(Text) : Text[i][2] \in Nat
      <4>1. Text \in Seq(Piece)
        BY TextType DEF TypeOK
      <4>2. \A i \in 1 .. Len(Text) : Text[i] \in Piece
        BY <4>1, ElementOfSeq
      <4> QED
        BY <4>2 DEF Piece
    <3> QED
      BY <1>0, <2>1, <3>1 DEF Orderly, TextOf
  <2>3. \A u \in Threads :
          /\ u # t => pc'[u] = pc[u] /\ call'[u] = call[u] /\ frame'[u] = frame[u]
          /\ u = t => pc[u] = "idle" /\ pc'[u] \in {"idle", "call"} /\ frame'[u] = 0
    BY <1>2 DEF Log, Goto, TypeOK
  <2>4. EndOf(Text)'
    BY <2>1, <2>3 DEF Orderly, EndOf, EndsCall, Last, Rest
  <2>5. \A u \in Threads : pc'[u] \in {"call", "lock"} => frame'[u] = 0
    BY <2>3 DEF Orderly
  <2>6. OfRun'
    BY <2>1 DEF Orderly, OfRun
  <2> QED
    BY <1>u, <2>2, <2>4, <2>5, <2>6 DEF Orderly
<1>3. ASSUME NEW t \in Threads, Lock(t) \/ EndTrace(t) \/ Unlock(t)
      PROVE  Orderly'
  <2>1. /\ run' = run /\ calls' = calls /\ call' = call /\ frame' = frame /\ cut' = cut
        /\ buffer' = buffer
        /\ \A u \in Threads : u # t => pc'[u] = pc[u]
        /\ pc'[t] # "trace"
        /\ pc[t] = "trace" => frame[t] \in {0, Frames}
        /\ pc'[t] \in {"call", "lock"} => pc[t] \in {"call", "lock"}
    BY <1>3 DEF Lock, EndTrace, Unlock, Goto, TypeOK
  <2>2. TextOf(run, calls, Text)' /\ OfRun'
    BY <2>1 DEF Orderly, TextOf, OfRun
  <2>3. EndOf(Text)'
    <3>1. pc[t] = "trace" => EndsCall(Last(Text))
      BY <2>1, PieceTypes DEF Orderly, EndOf, EndsCall, Rest
    <3>2. Len(Text) > 0 /\ Last(Text)[1] \notin cut /\ (\A u \in Threads : pc'[u] # "trace") =>
             EndsCall(Last(Text))
      BY <2>1, <3>1 DEF Orderly, EndOf
    <3>3. \A u \in Threads : pc'[u] = "trace" =>
             Len(Text) > 0 /\ Last(Text) = Rest(u, frame[u])
      BY <2>1 DEF Orderly, EndOf
    <3> QED
      BY <2>1, <3>2, <3>3 DEF EndOf, EndsCall, Last, Rest
  <2> QED
    BY <1>u, <2>1, <2>2, <2>3 DEF Orderly
<1>4. CASE LoggerFree \/ UNCHANGED vars
  <2>1. /\ run' = run /\ calls' = calls /\ call' = call /\ frame' = frame /\ cut' = cut
        /\ pc' = pc /\ buffer' \in {buffer, <<>>}
    BY <1>4 DEF LoggerFree, callVars, vars
  <2>2. OfRun'
    <3>1. Len(<<>>) = 0
      OBVIOUS
    <3> QED
      BY <2>1, <3>1 DEF Orderly, OfRun
  <2>3. TextOf(run, calls, Text)' /\ EndOf(Text)'
    BY <2>1 DEF Orderly, TextOf, EndOf, EndsCall, Last, Rest
  <2> QED
    BY <1>u, <2>1, <2>2, <2>3 DEF Orderly
<1> QED
  BY <1>1, <1>2, <1>3, <1>4

LEMMA OrderlyKill ==
    ASSUME TypeOK, Threading, Orderly, Kill
    PROVE  Orderly'
<1>1. Text' = file
  <2>1. file' = file /\ buffer' = <<>>
    BY DEF Kill
  <2> QED
    BY <2>1, ConcatEmptySeq DEF Text, TypeOK
<1>2. /\ Len(file) \in Nat /\ Len(Text) \in Nat /\ Len(file) <= Len(Text)
      /\ \A i \in 1 .. Len(file) : file[i] = Text[i]
  BY FileBegins DEF TypeOK
<1>3. TextOf(run, calls, file)
  BY <1>2 DEF Orderly, TextOf
<1>4. UntornText(file)
  <2>1. ASSUME NEW i \in 1 .. Len(file) - 1
        PROVE  Follows(file[i], file[i + 1])
    <3>1. i \in 1 .. Len(Text) - 1 /\ i \in 1 .. Len(file) /\ i + 1 \in 1 .. Len(file)
      BY <1>2
    <3>2. Follows(Text[i], Text[i + 1])
      BY <3>1 DEF Orderly, UntornText
    <3> QED
      BY <1>2, <3>1, <3>2
  <2> QED
    BY <2>1 DEF UntornText
<1>5. /\ run' = run /\ calls' = calls /\ cut' = cut \cup {run} /\ buffer' = <<>>
      /\ \A t \in Threads : pc'[t] = "idle"
  BY DEF Kill
<1>6. UntornText(Text)'
  <2>1. ASSUME NEW p, NEW q, Follows(p, q)
        PROVE  Follows(p, q)'
    BY <1>5, <2>1 DEF Follows, EndsCall
  <2> QED
    BY <1>1, <1>4, <2>1 DEF UntornText
<1>7. Len(file) > 0 /\ Last(file)[1] \notin cut \cup {run} => EndsCall(Last(file))
  <2> SUFFICES ASSUME Len(file) > 0, Last(file)[1] \notin cut, Last(file)[1] # run
               PROVE  EndsCall(Last(file))
    OBVIOUS
  <2>1. Last(file) = Text[Len(file)]
    BY <1>2 DEF Last
  <2>2. CASE Len(file) = Len(Text)
    <3>1. \A t \in Threads : pc[t] # "trace"
      <4>1. ASSUME NEW t \in Threads, pc[t] = "trace"
            PROVE  FALSE
        <5>1. Last(Text) = Rest(t, frame[t])
          BY <4>1 DEF Orderly, EndOf
        <5> QED
          BY <2>1, <2>2, <5>1 DEF Rest, Last
      <4> QED
        BY <4>1
    <3> QED
      BY <2>1, <2>2, <3>1 DEF Orderly, EndOf, Last
  <2>3. CASE Len(file) < Len(Text)
    <3>1. Len(file) \in 1 .. Len(Text) - 1
      BY <1>2, <2>3
    <3>2. Follows(Text[Len(file)], Text[Len(file) + 1])
      BY <3>1 DEF Orderly, UntornText
    <3>3. Text[Len(file) + 1][1] = run
      <4>1. /\ Len(buffer) \in Nat /\ Len(Text) = Len(file) + Len(buffer)
            /\ \A i \in 1 .. Len(file) + Len(buffer) :
                 Text[i] = IF i <= Len(file) THEN file[i] ELSE buffer[i - Len(file)]
        BY ConcatProperties, LenProperties DEF Text, TypeOK
      <4>2. /\ Len(file) + 1 \in 1 .. Len(file) + Len(buffer)
            /\ ~(Len(file) + 1 <= Len(file)) /\ (Len(file) + 1) - Len(file) = 1
            /\ 1 \in 1 .. Len(buffer)
        BY <1>2, <2>3, <4>1
      <4>3. Text[Len(file) + 1] = buffer[1]
        BY <4>1, <4>2
      <4> QED
        BY <4>2, <4>3 DEF Orderly, OfRun
    <3> QED
      BY <2>1, <3>2, <3>3 DEF Follows
  <2> QED
    BY <1>2, <2>2, <2>3
<1>8. EndOf(Text)'
  BY <1>1, <1>5, <1>7 DEF EndOf, EndsCall, Last
<1>9. OfRun'
  <2>1. Len(<<>>) = 0
    OBVIOUS
  <2> QED
    BY <1>5, <2>1 DEF OfRun
<1> QED
  BY <1>1, <1>3, <1>5, <1>6, <1>8, <1>9 DEF Orderly, TextOf

\* The text of the process changes only when something is printed.
LEMMA TextKept ==
    ASSUME TypeOK, Threading,
           \/ LoggerInit \/ LoggerFree \/ UNCHANGED vars
           \/ \E t \in Threads : Lock(t) \/ EndTrace(t) \/ Unlock(t)
           \/ \E t \in Threads, type \in LogTypes : Log(t, type)
    PROVE  Text' = Text
<1>1. CASE LoggerFree
  <2>1. file \o buffer \in Seq(Piece)
    BY ConcatProperties DEF TypeOK
  <2>2. Text' = (file \o buffer) \o <<>>
    BY <1>1 DEF LoggerFree, Text
  <2> QED
    BY <2>1, <2>2, ConcatEmptySeq DEF Text
<1>2. CASE ~LoggerFree
  <2>1. file' = file /\ buffer' = buffer
    BY <1>2 DEF LoggerInit, Lock, EndTrace, Unlock, Log, vars
  <2> QED
    BY <2>1 DEF Text
<1> QED
  BY <1>1, <1>2

LEMMA Step2 ==
    ASSUME TypeOK, Threading, Orderly, [Next]_vars
    PROVE  Orderly'
  BY TextKept, OrderlyKept, OrderlyKill, OrderlyPrintLine, OrderlyPrintFrame
  DEF Next, Thread, LogStep

----------------------------------------------------------------------------
(* Nothing is missing *)

Pending(c) == \E t \in Threads : pc[t] \in {"call", "lock"} /\ call[t][1] = c

LinesIn(r, c, text) == {i \in 1 .. Len(text) : text[i] = <<r, c, 0>>}
None(r, c, text) == LinesIn(r, c, text) = {}
Once(r, c, text) == \E i \in 1 .. Len(text) : LinesIn(r, c, text) = {i}

\* The line of a call stands in the text, once, unless it is still to be printed;
\* without a file the run has written nothing.
Counted ==
    /\ state = "live" /\ open =>
         \A c \in 1 .. calls :
            /\ Pending(c) => None(run, c, Text)
            /\ ~Pending(c) => Once(run, c, Text)
    /\ state = "live" /\ ~open => \A i \in 1 .. Len(Text) : Text[i][1] # run
    /\ AllThere

\* A piece more in the text.
LEMMA LinesAppend ==
    ASSUME NEW text \in Seq(Piece), NEW piece \in Piece,
           NEW text2, text2 = Append(text, piece), NEW r, NEW c
    PROVE  /\ piece # <<r, c, 0>> /\ None(r, c, text) => None(r, c, text2)
           /\ piece # <<r, c, 0>> /\ Once(r, c, text) => Once(r, c, text2)
           /\ piece = <<r, c, 0>> /\ None(r, c, text) => Once(r, c, text2)
<1>1. /\ Len(text) \in Nat /\ Len(text2) = Len(text) + 1
      /\ \A i \in 1 .. Len(text) : text2[i] = text[i]
      /\ text2[Len(text) + 1] = piece
  BY Appended
<1>2. \A i : i \in 1 .. Len(text2) <=> i \in 1 .. Len(text) \/ i = Len(text) + 1
  BY <1>1
<1>3. Len(text) + 1 \notin 1 .. Len(text)
  BY <1>1
<1>4. piece # <<r, c, 0>> => LinesIn(r, c, text2) = LinesIn(r, c, text)
  BY <1>1, <1>2 DEF LinesIn
<1>5. piece = <<r, c, 0>> /\ None(r, c, text) => LinesIn(r, c, text2) = {Len(text) + 1}
  BY <1>1, <1>2 DEF LinesIn, None
<1>6. CASE piece # <<r, c, 0>>
  BY <1>2, <1>4, <1>6 DEF None, Once
<1>7. CASE piece = <<r, c, 0>>
  BY <1>2, <1>5, <1>7 DEF Once
<1> QED
  BY <1>6, <1>7

\* A line more: only its beginning can be the line of a call.
LEMMA LinesPrint ==
    ASSUME TypeOK, NEW t \in Threads, NEW k \in Nat, Printf(t, k), NEW c
    PROVE  /\ k # 0 \/ c # call[t][1] =>
                 /\ None(run, c, Text) => None(run, c, Text')
                 /\ Once(run, c, Text) => Once(run, c, Text')
           /\ k = 0 /\ c = call[t][1] /\ None(run, c, Text) => Once(run, c, Text')
<1> DEFINE p == Begin(t, k)
           q == Rest(t, k)
           half == Append(Text, p)
<1>1. p \in Piece /\ q \in Piece /\ Text \in Seq(Piece) /\ Text' = Append(half, q)
  BY PieceTypes, PrintText, TextType DEF TypeOK
<1>2. p = <<run, c, 0>> <=> k = 0 /\ c = call[t][1]
  <2>1. 2 * k = 0 <=> k = 0
    OBVIOUS
  <2> QED
    BY <2>1 DEF Begin
<1>3. q # <<run, c, 0>>
  <2>1. 2 * k + 1 # 0
    OBVIOUS
  <2> QED
    BY <2>1 DEF Rest
<1> HIDE DEF p, q
<1>4. /\ p # <<run, c, 0>> /\ None(run, c, Text) => None(run, c, half)
      /\ p # <<run, c, 0>> /\ Once(run, c, Text) => Once(run, c, half)
      /\ p = <<run, c, 0>> /\ None(run, c, Text) => Once(run, c, half)
  BY <1>1, LinesAppend
<1>5. half \in Seq(Piece)
  BY <1>1, AppendProperties
<1> HIDE DEF half
<1>6. /\ None(run, c, half) => None(run, c, Text')
      /\ Once(run, c, half) => Once(run, c, Text')
  BY <1>1, <1>3, <1>5, LinesAppend
<1> QED
  BY <1>2, <1>4, <1>6

LEMMA Init3 == Init => Counted
  BY DEF Init, Counted, AllThere

LEMMA CountedPrintLine ==
    ASSUME TypeOK, Threading, Counted, NEW t \in Threads, PrintLine(t)
    PROVE  Counted'
<1>1. /\ state = "live" /\ open /\ state' = state /\ (open' <=> open)
      /\ run' = run /\ calls' = calls /\ call' = call
      /\ pc'[t] \notin {"call", "lock"} /\ pc[t] = "lock"
      /\ \A u \in Threads : u # t => pc'[u] = pc[u]
  BY DEF PrintLine, Threading, Goto, TypeOK
<1>2. ASSUME NEW c \in 1 .. calls
      PROVE  /\ Pending(c)' => None(run, c, Text')
             /\ ~Pending(c)' => Once(run, c, Text')
  <2>1. /\ Pending(c) => None(run, c, Text)
        /\ ~Pending(c) => Once(run, c, Text)
    BY <1>1 DEF Counted
  <2>2. /\ c # call[t][1] =>
             /\ None(run, c, Text) => None(run, c, Text')
             /\ Once(run, c, Text) => Once(run, c, Text')
        /\ c = call[t][1] /\ None(run, c, Text) => Once(run, c, Text')
    BY LinesPrint DEF PrintLine
  <2>3. CASE c = call[t][1]
    <3>1. Pending(c) /\ ~Pending(c)'
      BY <1>1, <2>3 DEF Pending, Threading
    <3> QED
      BY <2>1, <2>2, <2>3, <3>1
  <2>4. CASE c # call[t][1]
    <3>1. Pending(c)' <=> Pending(c)
      BY <1>1, <2>4 DEF Pending
    <3> QED
      BY <2>1, <2>2, <2>4, <3>1
  <2> QED
    BY <2>3, <2>4
<1> QED
  BY <1>1, <1>2 DEF Counted, AllThere

LEMMA CountedPrintFrame ==
    ASSUME TypeOK, Threading, Counted, NEW t \in Threads, PrintFrame(t)
    PROVE  Counted'
<1>1. /\ state = "live" /\ open /\ state' = state /\ (open' <=> open)
      /\ run' = run /\ calls' = calls /\ call' = call /\ pc' = pc
  BY DEF PrintFrame, Threading
<1>2. ASSUME NEW c \in 1 .. calls
      PROVE  /\ Pending(c)' => None(run, c, Text')
             /\ ~Pending(c)' => Once(run, c, Text')
  <2>1. /\ Pending(c) => None(run, c, Text)
        /\ ~Pending(c) => Once(run, c, Text)
    BY <1>1 DEF Counted
  <2>2. Pending(c)' <=> Pending(c)
    BY <1>1 DEF Pending
  <2>3. frame[t] + 1 \in Nat /\ frame[t] + 1 # 0
    BY PieceTypes
  <2>4. /\ None(run, c, Text) => None(run, c, Text')
        /\ Once(run, c, Text) => Once(run, c, Text')
    BY <2>3, LinesPrint DEF PrintFrame
  <2> QED
    BY <2>1, <2>2, <2>4
<1> QED
  BY <1>1, <1>2 DEF Counted, AllThere

\* Behind the beginning of a call's line in a text without a killed end stands the
\* rest of it.
LEMMA WholeLine ==
    ASSUME TypeOK, Threading, Orderly, state = "live", \A t \in Threads : pc[t] = "idle",
           NEW c, NEW i \in 1 .. Len(Text), Text[i] = <<run, c, 0>>
    PROVE  i < Len(Text) /\ Text[i + 1] = <<run, c, 1>>
<1>1. Text \in Seq(Piece) /\ Len(Text) \in Nat /\ run \notin cut
  BY TextType DEF TypeOK, Threading
<1>2. Frames \in Nat /\ 2 * Frames + 1 # 0
  BY BoundAssumption
<1>3. ~EndsCall(Text[i])
  BY <1>2 DEF EndsCall
<1>4. i < Len(Text)
  <2>1. i # Len(Text)
    BY <1>1, <1>3 DEF Orderly, EndOf, Last
  <2> QED
    BY <1>1, <2>1
<1>5. i \in 1 .. Len(Text) - 1 /\ i + 1 \in 1 .. Len(Text)
  BY <1>1, <1>4
<1>6. Follows(Text[i], Text[i + 1]) /\ Text[i + 1] \in Piece
  BY <1>1, <1>5, ElementOfSeq DEF Orderly, UntornText
<1>7. Text[i + 1][1] = run /\ Text[i + 1][2] = c /\ Text[i + 1][3] = 0 + 1
  BY <1>1, <1>3, <1>6 DEF Follows
<1> QED
  BY <1>4, <1>6, <1>7 DEF Piece

\* Steps that print nothing.
LEMMA CountedKept ==
    ASSUME TypeOK, Threading, Orderly, Counted, Text' = Text,
           \/ LoggerInit \/ LoggerFree \/ UNCHANGED vars
           \/ \E t \in Threads : Lock(t) \/ EndTrace(t) \/ Unlock(t)
           \/ \E t \in Threads, type \in LogTypes : Log(t, type)
    PROVE  Counted'
<1>0. run \in Nat /\ calls \in Nat
  BY BoundAssumption DEF TypeOK
<1>1. CASE LoggerInit
  <2>1. run' = run + 1 /\ calls' = 0 /\ state' = "live"
    BY <1>1 DEF LoggerInit
  <2>2. \A i \in 1 .. Len(Text) : Text[i][1] # run'
    BY <1>0, <2>1 DEF Orderly, TextOf
  <2> QED
    BY <2>1, <2>2 DEF Counted, AllThere
<1>2. ASSUME NEW t \in Threads, NEW type \in LogTypes, Log(t, type)
      PROVE  Counted'
  <2>1. /\ run' = run /\ calls' = calls + 1 /\ state' = state /\ state = "live"
        /\ (open' <=> open)
    BY <1>2 DEF Log
  <2>2. CASE ~open
    BY <2>1, <2>2 DEF Counted, AllThere
  <2>3. CASE open
    <3>1. \A u \in Threads :
            /\ u # t => pc'[u] = pc[u] /\ call'[u] = call[u]
            /\ u = t => pc[u] = "idle" /\ pc'[u] = "call" /\ call'[u][1] = calls + 1
      BY <1>2, <2>3 DEF Log, Goto, TypeOK
    <3>2. ASSUME NEW c \in 1 .. calls
          PROVE  /\ Pending(c)' => None(run, c, Text)
                 /\ ~Pending(c)' => Once(run, c, Text)
      <4>1. c # calls + 1
        BY <1>0
      <4>2. Pending(c)' <=> Pending(c)
        BY <3>1, <4>1 DEF Pending
      <4> QED
        BY <2>1, <2>3, <4>2 DEF Counted
    <3>3. \A c \in 1 .. calls + 1 : c \in 1 .. calls \/ c = calls + 1
      BY <1>0
    <3>4. ASSUME NEW c \in 1 .. calls + 1
          PROVE  /\ Pending(c)' => None(run, c, Text)
                 /\ ~Pending(c)' => Once(run, c, Text)
      <4>1. CASE c \in 1 .. calls
        BY <3>2, <4>1
      <4>2. CASE c = calls + 1
        <5>1. Pending(c)'
          BY <3>1, <4>2 DEF Pending
        <5>2. None(run, c, Text)
          BY <1>0, <4>2 DEF None, LinesIn, Orderly, TextOf
        <5> QED
          BY <5>1, <5>2
      <4> QED
        BY <3>3, <4>1, <4>2
    <3> QED
      BY <2>1, <2>3, <3>4 DEF Counted, AllThere
  <2> QED
    BY <2>2, <2>3
<1>3. CASE \/ UNCHANGED vars
           \/ \E t \in Threads : Lock(t) \/ EndTrace(t) \/ Unlock(t)
  <2>1. /\ run' = run /\ calls' = calls /\ state' = state /\ call' = call /\ file' = file
        /\ (open' <=> open)
        /\ \A u \in Threads : pc'[u] \in {"call", "lock"} <=> pc[u] \in {"call", "lock"}
    BY <1>3 DEF Lock, EndTrace, Unlock, Goto, TypeOK, vars, callVars
  <2>2. \A c : Pending(c)' <=> Pending(c)
    BY <2>1 DEF Pending
  <2>3. AllThere'
    <3>1. \A c : LinesOf(c, file)' = LinesOf(c, file)
      BY <2>1 DEF LinesOf
    <3> QED
      BY <2>1, <3>1 DEF Counted, AllThere
  <2> QED
    BY <2>1, <2>2, <2>3 DEF Counted
<1>4. CASE LoggerFree
  <2>1. /\ run' = run /\ calls' = calls /\ state' = "freed" /\ state = "live"
        /\ \A t \in Threads : pc[t] = "idle"
        /\ (open' <=> open)
    BY <1>4 DEF LoggerFree
  <2>2. file' = Text
    BY <1>4 DEF LoggerFree, Text
  <2>3. CASE open
    <3>1. \A c \in 1 .. calls : Once(run, c, Text)
      BY <2>1, <2>3 DEF Counted, Pending
    <3>2. ASSUME NEW c \in 1 .. calls
          PROVE  \E i \in 1 .. Len(Text) - 1 :
                    LinesIn(run, c, Text) = {i} /\ Text[i + 1] = <<run, c, 1>>
      <4>1. PICK i \in 1 .. Len(Text) : LinesIn(run, c, Text) = {i}
        BY <3>1 DEF Once
      <4>2. Text[i] = <<run, c, 0>>
        BY <4>1 DEF LinesIn
      <4>3. i < Len(Text) /\ Text[i + 1] = <<run, c, 1>>
        BY <2>1, <4>2, WholeLine
      <4>4. Len(Text) \in Nat
        BY TextType DEF TypeOK
      <4> QED
        <5>1. i \in 1 .. Len(Text) - 1
          BY <4>3, <4>4
        <5> QED
          BY <4>1, <4>3, <5>1
    <3>3. \A c : LinesOf(c, file)' = LinesIn(run, c, Text)
      BY <2>1, <2>2 DEF LinesIn, LinesOf
    <3>4. \A c \in 1 .. calls' : \E i \in 1 .. Len(file') - 1 :
             LinesOf(c, file)' = {i} /\ file'[i + 1] = <<run', c, 1>>
      BY <2>1, <2>2, <3>2, <3>3
    <3> QED
      BY <2>1, <2>3, <3>4 DEF Counted, AllThere
  <2>4. CASE ~open
    <3>1. \A i \in 1 .. Len(Text) : Text[i][1] # run
      BY <2>1, <2>4 DEF Counted
    <3>2. \A c \in 1 .. calls' : LinesOf(c, file)' = {}
      BY <2>1, <2>2, <3>1 DEF LinesOf
    <3> QED
      BY <2>1, <2>4, <3>2 DEF Counted, AllThere
  <2> QED
    BY <2>3, <2>4
<1> QED
  BY <1>1, <1>2, <1>3, <1>4

LEMMA Step3 ==
    ASSUME TypeOK, Threading, Orderly, Counted, [Next]_vars
    PROVE  Counted'
<1>1. CASE Kill
  BY <1>1 DEF Kill, Counted, AllThere
<1>2. CASE ~Kill
  BY <1>2, TextKept, CountedKept, CountedPrintLine, CountedPrintFrame
  DEF Next, Thread, LogStep
<1> QED
  BY <1>1, <1>2

----------------------------------------------------------------------------
(* The theorems *)

IInv == TypeOK /\ Threading /\ Orderly /\ Counted

LEMMA Inductive == Spec => []IInv
<1>1. Init => IInv
  BY Init1, Init2, Init3 DEF IInv
<1>2. IInv /\ [Next]_vars => IInv'
  BY Step1, Step2, Step3 DEF IInv
<1> QED
  BY <1>1, <1>2, PTL DEF Spec

\* logger.c: what is not open or no longer lives has no text that waits.
THEOREM TypeCorrect == Spec => []TypeOK
<1>1. IInv => TypeOK
  BY DEF IInv
<1> QED
  BY <1>1, Inductive, PTL

\* The mutex of logger_log keeps a line and its trace together, whatever the number
\* of threads, and wherever in a line stdio's buffer is full and written.  Half a line
\* or trace, with the next run's first line behind it, is left by killed runs only.
THEOREM NeverTorn == Spec => []Untorn
<1>1. IInv => Untorn
  BY DEF IInv, Orderly, UntornText, Untorn
<1> QED
  BY <1>1, Inductive, PTL

\* After logger_free the file has exactly one line, and a whole one, of every call of
\* the run; of a run that could not open the file it has none.
THEOREM NothingMissing == Spec => []AllThere
<1>1. IInv => AllThere
  BY DEF IInv, Counted
<1> QED
  BY <1>1, Inductive, PTL
=============================================================================
