-------------------------- MODULE MouseRingProofs --------------------------
(***************************************************************************)
(* Theorems about the mouse driver, for every set of processes, every      *)
(* size of the buffer and every text.                                      *)
(***************************************************************************)
EXTENDS MouseRing, SequenceTheorems, TLAPS

----------------------------------------------------------------------------
(* Lemmas about the arithmetic of the ring *)

RingTypeOK ==
    /\ size \in Nat
    /\ data \in [0 .. size - 1 -> Byte \cup {Uninit}]
    /\ head \in 0 .. size
    /\ tail \in 0 .. size

\* Used and free bytes are within the ring, and room for an insertion
\* never exceeds what the unread bytes leave.
LEMMA Bounds ==
    ASSUME RingTypeOK
    PROVE  /\ Available \in 0 .. size
           /\ Space \in 0 .. size
           /\ Available + Space <= size
  BY DEF RingTypeOK, Available, Space

\* Every unread byte lies in the ring.
LEMMA SlotInRing ==
    ASSUME RingTypeOK, NEW k \in 1 .. Available
    PROVE  Slot(tail + k - 1) \in 0 .. size - 1
  BY DEF RingTypeOK, Available, Slot

LEMMA ContentsType ==
    ASSUME RingTypeOK
    PROVE  /\ Contents \in Seq(Byte \cup {Uninit})
           /\ Len(Contents) = Available
<1>1. Available \in Nat
  BY Bounds
<1>2. Contents \in [1 .. Available -> Byte \cup {Uninit}]
  BY SlotInRing DEF RingTypeOK, Contents
<1> QED
  BY <1>1, <1>2

LEMMA AdvanceType ==
    ASSUME RingTypeOK, NEW i \in 0 .. size, NEW n \in 0 .. size
    PROVE  Advance(i, n) \in 0 .. size
  BY DEF RingTypeOK, Advance

LEMMA FilledType ==
    ASSUME RingTypeOK, NEW s \in Seq(Byte)
    PROVE  Filled(s) \in [0 .. size - 1 -> Byte \cup {Uninit}]
<1> SUFFICES ASSUME NEW i \in 0 .. size - 1,
                    NEW k, k = IF i >= head THEN i - head ELSE i + size - head
             PROVE  (IF k < Len(s) THEN s[k + 1] ELSE data[i]) \in Byte \cup {Uninit}
  BY DEF Filled
<1>1. k \in Nat
  BY DEF RingTypeOK
<1>2. CASE k < Len(s)
  <2>1. k + 1 \in 1 .. Len(s)
    BY <1>1, <1>2
  <2> QED
    BY <1>2, <2>1
<1>3. CASE ~(k < Len(s))
  BY <1>3 DEF RingTypeOK
<1> QED
  BY <1>2, <1>3

LEMMA FreshType ==
    ASSUME NEW n \in Nat
    PROVE  Fresh(n) \in [0 .. n - 1 -> Byte \cup {Uninit}]
  BY DEF Fresh

LEMMA AtMostType ==
    ASSUME NEW a \in Nat, NEW b \in Nat
    PROVE  AtMost(a, b) \in Nat /\ AtMost(a, b) <= a /\ AtMost(a, b) <= b
  BY DEF AtMost

LEMMA EventTextsType ==
    ASSUME NEW m \in Nat, NEW e \in EventTexts(m)
    PROVE  e \in Seq(Byte) /\ Len(e) \in Nat \ {0}
<1>1. \A l \in XLines \cup YLines : l \in Seq(Byte) /\ Len(l) \in Nat \ {0}
  BY TextAssumption, EmptySeq
<1>2. ASSUME NEW x \in XLines, NEW y \in YLines
      PROVE  x \o y \in Seq(Byte) /\ Len(x \o y) \in Nat \ {0}
  <2>1. Len(x \o y) = Len(x) + Len(y)
    BY <1>1, ConcatProperties
  <2> QED
    BY <1>1, <2>1
<1> QED
  <2>1. e \in XLines \cup YLines \cup BothLines
    BY DEF EventTexts
  <2>2. CASE e \in BothLines
    <3>1. PICK x \in XLines, y \in YLines : e = x \o y
      BY <2>2 DEF BothLines
    <3> QED
      BY <1>2, <3>1
  <2> QED
    BY <1>1, <2>1, <2>2

\* What Insert does to the ring, for a text that there is room for.
LEMMA InsertType ==
    ASSUME RingTypeOK, NEW s \in Seq(Byte), Len(s) <= Space, Insert(s)
    PROVE  /\ RingTypeOK'
           /\ last' \in Outcomes
<1>1. Len(s) \in 0 .. size
  BY Bounds DEF RingTypeOK
<1>2. head' \in 0 .. size
  BY <1>1, AdvanceType DEF RingTypeOK, Insert
<1>3. data' \in [0 .. size - 1 -> Byte \cup {Uninit}]
  BY FilledType DEF Insert
<1> QED
  BY <1>2, <1>3 DEF RingTypeOK, Insert, Outcomes

\* The text that is left of s when only n bytes fit.
LEMMA CutText ==
    ASSUME NEW s \in Seq(Byte), NEW n \in 0 .. Len(s)
    PROVE  SubSeq(s, 1, n) \in Seq(Byte) /\ Len(SubSeq(s, 1, n)) = n
  BY SubSeqProperties

----------------------------------------------------------------------------
(* The type invariant *)

\* The part of TypeOK that the ring and the last outcome do not touch.
CallersTypeOK ==
    /\ display_mode \in Modes
    /\ stage \in Stages
    /\ opened \subseteq Procs
    /\ pc \in [Procs -> {"idle", "push", "show"}]
    /\ event \in [Procs -> Seq(Byte)]
    /\ used \in [Procs -> Nat]

LEMMA TypeParts == TypeOK <=> RingTypeOK /\ CallersTypeOK /\ last \in Outcomes
  BY DEF TypeOK, RingTypeOK, CallersTypeOK, Outcomes

LEMMA QuietType == Quiet \in Outcomes
  BY EmptySeq DEF Quiet, Outcomes

LEMMA TypeInit == Init => TypeOK
<1> SUFFICES ASSUME Init PROVE TypeOK
  OBVIOUS
<1>1. RingTypeOK
  BY FreshType DEF Init, RingTypeOK
<1>2. CallersTypeOK
  BY EmptySeq, ModeAssumption DEF Init, CallersTypeOK, Stages
<1>3. last \in Outcomes
  BY QuietType DEF Init
<1> QED
  BY <1>1, <1>2, <1>3, TypeParts

LEMMA TypeStep == TypeOK /\ [Next]_vars => TypeOK'
<1> SUFFICES ASSUME RingTypeOK, CallersTypeOK, last \in Outcomes, [Next]_vars
             PROVE  RingTypeOK' /\ CallersTypeOK' /\ last' \in Outcomes
  BY TypeParts DEF TypeOK, RingTypeOK, CallersTypeOK, Outcomes
<1>u. CASE UNCHANGED vars
  BY <1>u DEF vars, ring, callers, RingTypeOK, CallersTypeOK
<1>ring. ASSUME UNCHANGED ring PROVE RingTypeOK'
  BY <1>ring DEF ring, RingTypeOK
<1>freed. ASSUME Freed PROVE RingTypeOK' /\ last' \in Outcomes
  BY <1>freed, FreshType, QuietType DEF Freed, RingTypeOK
<1>1. CASE RingInit
  <2>1. RingTypeOK'
    BY <1>1, FreshType, SizeAssumption DEF RingInit, RingTypeOK
  <2>2. CallersTypeOK' /\ last' \in Outcomes
    BY <1>1, QuietType, ModeAssumption DEF RingInit, CallersTypeOK, callers, Stages
  <2> QED
    BY <2>1, <2>2
<1>2. CASE RegisterChrdev \/ CreateKobject \/ CreateGroup \/ ExitKobject \/ ExitChrdev
  BY <1>2, <1>ring, QuietType
     DEF RegisterChrdev, CreateKobject, CreateGroup, ExitKobject, ExitChrdev, Advanced,
         CallersTypeOK, callers, Stages
<1>3. CASE InitFails
  BY <1>3, <1>freed DEF InitFails, CallersTypeOK, callers, Stages
<1>4. CASE ExitFree
  BY <1>4, <1>freed DEF ExitFree, CallersTypeOK, callers, Stages
<1>5. ASSUME NEW p \in Procs, OpenFormat(p) PROVE RingTypeOK' /\ CallersTypeOK' /\ last' \in Outcomes
  <2>1. PICK e \in EventTexts(display_mode) : event' = [event EXCEPT ![p] = e]
    BY <1>5 DEF OpenFormat
  <2>2. e \in Seq(Byte)
    BY EventTextsType, ModeAssumption DEF CallersTypeOK
  <2> QED
    BY <1>5, <1>ring, <2>1, <2>2, QuietType DEF OpenFormat, CallersTypeOK
<1>6. ASSUME NEW p \in Procs, OpenInsert(p) PROVE RingTypeOK' /\ CallersTypeOK' /\ last' \in Outcomes
  <2>1. RingTypeOK' /\ last' \in Outcomes
    BY <1>6, <1>ring, InsertType, QuietType DEF OpenInsert, CallersTypeOK, Outcomes
  <2>2. CallersTypeOK'
    BY <1>6, EmptySeq DEF OpenInsert, CallersTypeOK
  <2> QED
    BY <2>1, <2>2
<1>7. ASSUME NEW p \in Procs, Release(p) PROVE RingTypeOK' /\ CallersTypeOK' /\ last' \in Outcomes
  BY <1>7, <1>ring, QuietType DEF Release, CallersTypeOK
<1>moved. ASSUME Unmoved PROVE CallersTypeOK'
  BY <1>moved DEF Unmoved, callers, CallersTypeOK
<1>8. ASSUME NEW p \in Procs, NEW text \in Texts, Write(p, text)
      PROVE  RingTypeOK' /\ CallersTypeOK' /\ last' \in Outcomes
  <2> DEFINE n == AtMost(Len(text), Space)
  <2>1. text \in Seq(Byte) /\ Len(text) \in Nat
    BY TextAssumption
  <2>2. n \in 0 .. Len(text) /\ n <= Space
    BY <2>1, Bounds DEF AtMost, RingTypeOK
  <2>3. ASSUME Insert(SubSeq(text, 1, n)) PROVE RingTypeOK' /\ last' \in Outcomes
    <3>1. SubSeq(text, 1, n) \in Seq(Byte) /\ Len(SubSeq(text, 1, n)) <= Space
      BY <2>1, <2>2, CutText
    <3> HIDE DEF n
    <3> QED
      BY <2>3, <3>1, InsertType DEF Outcomes
  <2>4. ASSUME last' = Quiet, UNCHANGED ring PROVE RingTypeOK' /\ last' \in Outcomes
    BY <2>4, <1>ring, QuietType
  <2> QED
    BY <1>8, <1>moved, <2>3, <2>4 DEF Write
<1>9. ASSUME NEW p \in Procs, NEW text \in Texts, WriteFault(p, text)
      PROVE  RingTypeOK' /\ CallersTypeOK' /\ last' \in Outcomes
  <2>1. PICK k \in 0 .. Len(text) : data' = Filled(SubSeq(text, 1, k))
    BY <1>9 DEF WriteFault
  <2>2. SubSeq(text, 1, k) \in Seq(Byte)
    BY CutText, TextAssumption
  <2>3. RingTypeOK'
    BY <1>9, <2>1, <2>2, FilledType DEF WriteFault, RingTypeOK
  <2> QED
    BY <1>9, <1>moved, <2>3, QuietType DEF WriteFault
<1>10. ASSUME NEW p \in Procs, NEW count \in Counts, Read(p, count)
       PROVE  RingTypeOK' /\ CallersTypeOK' /\ last' \in Outcomes
  <2> DEFINE n == AtMost(count, Available)
  <2>1. n \in 0 .. Available /\ n \in 0 .. size
    BY Bounds, CountAssumption DEF AtMost, RingTypeOK
  <2>2. SubSeq(Contents, 1, n) \in Seq(Byte \cup {Uninit})
    BY <2>1, ContentsType, SubSeqProperties
  <2>3. tail' \in 0 .. size
    BY <1>10, <2>1, AdvanceType DEF Read, RingTypeOK
  <2>4. last' \in Outcomes
    <3>1. [op |-> "out", bytes |-> SubSeq(Contents, 1, n)] \in Outcomes
      BY <2>2 DEF Outcomes
    <3> HIDE DEF n
    <3> QED
      BY <1>10, <3>1, QuietType DEF Read, n
  <2> QED
    BY <1>10, <1>moved, <2>3, <2>4 DEF Read, RingTypeOK
<1>11. ASSUME NEW p \in Procs, NEW count \in Counts, ReadFault(p, count)
       PROVE  RingTypeOK' /\ CallersTypeOK' /\ last' \in Outcomes
  BY <1>11, <1>ring, <1>moved, QuietType DEF ReadFault
<1>12. ASSUME NEW p \in Procs, NEW mode \in Modes, SetDisplayMode(p, mode)
       PROVE  RingTypeOK' /\ CallersTypeOK' /\ last' \in Outcomes
  BY <1>12, <1>ring, QuietType DEF SetDisplayMode, CallersTypeOK, callers
<1>13. ASSUME NEW p \in Procs, StatusCount(p)
       PROVE  RingTypeOK' /\ CallersTypeOK' /\ last' \in Outcomes
  BY <1>13, <1>ring, QuietType, Bounds DEF StatusCount, CallersTypeOK
<1>14. ASSUME NEW p \in Procs, StatusPrint(p)
       PROVE  RingTypeOK' /\ CallersTypeOK' /\ last' \in Outcomes
  BY <1>14, <1>ring, QuietType DEF StatusPrint, CallersTypeOK
<1>15. ASSUME NEW p \in Procs, NEW n \in Sizes, BufferSizeStore(p, n)
       PROVE  RingTypeOK' /\ CallersTypeOK' /\ last' \in Outcomes
  <2>1. CASE head # tail
    BY <1>15, <2>1, <1>ring, <1>moved, QuietType DEF BufferSizeStore
  <2>2. CASE head = tail
    <3>1. n \in Nat
      BY SizeAssumption
    <3>2. RingTypeOK'
      BY <1>15, <2>2, <3>1, FreshType DEF BufferSizeStore, RingTypeOK
    <3> QED
      BY <1>15, <3>2, <1>moved, QuietType DEF BufferSizeStore
  <2> QED
    BY <2>1, <2>2
<1>16. ASSUME NEW p \in Procs, ClearBufferStore(p)
       PROVE  RingTypeOK' /\ CallersTypeOK' /\ last' \in Outcomes
  BY <1>16, <1>moved, EmptySeq DEF ClearBufferStore, RingTypeOK, Outcomes
<1> QED
  BY <1>u, <1>1, <1>2, <1>3, <1>4, <1>5, <1>6, <1>7, <1>8, <1>9, <1>10, <1>11, <1>12,
     <1>13, <1>14, <1>15, <1>16
     DEF Next, Lifecycle, DeviceCall, SysfsCall

\* head and tail stay within 0..size, data keeps the length that size
\* announces and every call leaves an outcome of its kind
\* (mouse_driv.c:195-338), whatever the size of the buffer is.
THEOREM TypeInvariant == Spec => []TypeOK
  BY TypeInit, TypeStep, PTL DEF Spec

----------------------------------------------------------------------------
(* Loading and unloading *)

InUse == \E p \in Procs : p \in opened \/ pc[p] # "idle"

\* Strengthening of NoUseAfterFree: an open device is a registered one, a
\* sysfs call in progress keeps the attributes alive, and a freed ring is
\* an empty one.  An opener that waits for the lock has formatted an event.
LifeInv ==
    /\ InUse => stage \in {"chrdev", "kobj", "live", "oops"}
    /\ \A p \in Procs : pc[p] = "show" => stage = "live"
    /\ \A p \in Procs : pc[p] = "push" => event[p] # <<>>
    /\ ~Allocated => head = tail

LEMMA LifeInit == Init => LifeInv
  BY DEF Init, LifeInv, InUse, Allocated

LEMMA LifeStep == TypeOK /\ LifeInv /\ [Next]_vars => LifeInv'
<1> SUFFICES ASSUME TypeOK, LifeInv, [Next]_vars PROVE LifeInv'
  OBVIOUS
<1> USE DEF LifeInv, InUse, Allocated
<1>u. CASE UNCHANGED vars
  BY <1>u DEF vars, ring, callers
<1>1. CASE RingInit
  BY <1>1 DEF RingInit, callers
<1>2. CASE RegisterChrdev \/ CreateKobject \/ CreateGroup
  BY <1>2 DEF RegisterChrdev, CreateKobject, CreateGroup, Advanced, ring, callers
<1>3. CASE ExitKobject \/ ExitChrdev
  BY <1>3 DEF ExitKobject, ExitChrdev, Advanced, ring, callers
<1>4. CASE InitFails \/ ExitFree
  BY <1>4 DEF InitFails, ExitFree, Freed, callers
<1>5. ASSUME NEW p \in Procs, OpenFormat(p) PROVE LifeInv'
  <2>1. PICK e \in EventTexts(display_mode) : event' = [event EXCEPT ![p] = e]
    BY <1>5 DEF OpenFormat
  <2>2. e # <<>>
    BY EventTextsType, ModeAssumption, EmptySeq DEF TypeOK
  <2> QED
    BY <1>5, <2>1, <2>2 DEF OpenFormat, ring, TypeOK
<1>6. ASSUME NEW p \in Procs, OpenInsert(p) PROVE LifeInv'
  BY <1>6 DEF OpenInsert, TypeOK
<1>7. ASSUME NEW p \in Procs, Release(p) PROVE LifeInv'
  BY <1>7 DEF Release, ring
<1>8. ASSUME NEW p \in Procs, NEW text \in Texts, Write(p, text) \/ WriteFault(p, text)
      PROVE  LifeInv'
  BY <1>8 DEF Write, WriteFault, Ready, Unmoved, callers
<1>9. ASSUME NEW p \in Procs, NEW count \in Counts, Read(p, count) \/ ReadFault(p, count)
      PROVE  LifeInv'
  BY <1>9 DEF Read, ReadFault, Ready, Unmoved, callers, ring
<1>10. ASSUME NEW p \in Procs, NEW mode \in Modes, SetDisplayMode(p, mode) PROVE LifeInv'
  BY <1>10 DEF SetDisplayMode, ring, callers
<1>11. ASSUME NEW p \in Procs, StatusCount(p) \/ StatusPrint(p) PROVE LifeInv'
  BY <1>11 DEF StatusCount, StatusPrint, InSysfs, ring, TypeOK
<1>12. ASSUME NEW p \in Procs, NEW n \in Sizes, BufferSizeStore(p, n) PROVE LifeInv'
  BY <1>12 DEF BufferSizeStore, InSysfs, Unmoved, callers, ring
<1>13. ASSUME NEW p \in Procs, ClearBufferStore(p) PROVE LifeInv'
  BY <1>13 DEF ClearBufferStore, InSysfs, Unmoved, callers
<1> QED
  BY <1>u, <1>1, <1>2, <1>3, <1>4, <1>5, <1>6, <1>7, <1>8, <1>9, <1>10, <1>11, <1>12, <1>13
     DEF Next, Lifecycle, DeviceCall, SysfsCall

\* rmmod never frees the ring under a process that has the device open or
\* is inside one of the driver's calls (mouse_driv_exit:409-421); only the
\* unwinding of a failed mouse_driv_init (387-404) can.
THEOREM RingStaysAllocated == Spec => []NoUseAfterFree
<1>1. LifeInv => NoUseAfterFree
  BY DEF LifeInv, InUse, NoUseAfterFree, Allocated
<1> QED
  BY <1>1, LifeInit, LifeStep, TypeInvariant, PTL DEF Spec

----------------------------------------------------------------------------
(* What an insertion does to the unread bytes *)

\* The copies of an insertion that there is room for leave the unread
\* bytes alone ...
LEMMA FilledKeeps ==
    ASSUME RingTypeOK, NEW s \in Seq(Byte), Len(s) <= Space, NEW k \in 1 .. Available
    PROVE  Filled(s)[Slot(tail + k - 1)] = data[Slot(tail + k - 1)]
<1> DEFINE i == Slot(tail + k - 1)
           o == IF i >= head THEN i - head ELSE i + size - head
<1>1. i \in 0 .. size - 1
  BY SlotInRing
<1>2. o \in Nat /\ o >= Len(s)
  BY DEF RingTypeOK, Available, Space, Slot
<1>3. Filled(s)[i] = IF o < Len(s) THEN s[o + 1] ELSE data[i]
  BY <1>1 DEF Filled
<1> QED
  BY <1>2, <1>3

\* ... and put the new ones behind them.
LEMMA FilledAdds ==
    ASSUME RingTypeOK, NEW s \in Seq(Byte), Len(s) <= Space, NEW k \in 1 .. Len(s)
    PROVE  Filled(s)[Slot(tail + Available + k - 1)] = s[k]
<1> DEFINE i == Slot(tail + Available + k - 1)
           o == IF i >= head THEN i - head ELSE i + size - head
<1>1. i \in 0 .. size - 1 /\ o = k - 1
  BY DEF RingTypeOK, Available, Space, Slot
<1>2. Filled(s)[i] = IF o < Len(s) THEN s[o + 1] ELSE data[i]
  BY <1>1 DEF Filled
<1> QED
  BY <1>1, <1>2

\* The number of unread bytes after an insertion.
LEMMA AvailableAfterInsert ==
    ASSUME RingTypeOK, NEW s \in Seq(Byte), s # <<>>, Len(s) <= Space, Insert(s)
    PROVE  \/ Available' = Available + Len(s)
           \/ Available' = 0 /\ Available + Len(s) = size
<1>1. Len(s) \in Nat \ {0}
  BY EmptySeq
<1> QED
  BY <1>1 DEF RingTypeOK, Available, Space, Insert, Advance

\* The unread bytes after an insertion are the old ones followed by the
\* new ones, unless the insertion has filled the ring to the last byte and
\* head has come back to tail.
LEMMA ContentsAfterInsert ==
    ASSUME RingTypeOK, NEW s \in Seq(Byte), s # <<>>, Len(s) <= Space, Insert(s)
    PROVE  \/ Contents' = Contents \o s
           \/ Contents' = <<>> /\ Available + Len(s) = size
<1> DEFINE Bytes == Byte \cup {Uninit}
<1>1. RingTypeOK'
  BY InsertType
<1>2. Contents' \in Seq(Bytes) /\ Len(Contents') = Available'
  <2>1. Available' \in 0 .. size
    <3>1. Len(s) \in Nat
      OBVIOUS
    <3> QED
      BY <3>1, Bounds, AvailableAfterInsert DEF RingTypeOK
  <2>2. ASSUME NEW k \in 1 .. Available'
        PROVE  Slot(tail + k - 1) \in 0 .. size - 1
    BY <2>1 DEF RingTypeOK, Slot
  <2>3. Contents' \in [1 .. Available' -> Bytes]
    BY <1>1, <2>2 DEF RingTypeOK, Contents, Slot, Insert
  <2> QED
    BY <2>1, <2>3
<1>3. Contents \in Seq(Bytes) /\ Len(Contents) = Available /\ Available \in Nat
  BY ContentsType, Bounds
<1>4. CASE Available' = Available + Len(s)
  <2>1. Contents \o s \in Seq(Bytes) /\ Len(Contents \o s) = Available + Len(s)
    BY <1>3
  <2>2. ASSUME NEW k \in 1 .. Available + Len(s)
        PROVE  Contents'[k] = (Contents \o s)[k]
    <3>1. Contents'[k] = Filled(s)[Slot(tail + k - 1)]
      BY <1>4 DEF Contents, Slot, Insert
    <3>2. CASE k <= Available
      <4>1. (Contents \o s)[k] = Contents[k] /\ k \in 1 .. Available
        BY <1>3, <3>2
      <4> QED
        BY <3>1, <4>1, FilledKeeps DEF Contents
    <3>3. CASE k > Available
      <4> DEFINE j == k - Available
      <4>1. j \in 1 .. Len(s) /\ (Contents \o s)[k] = s[j] /\ tail + k - 1 = tail + Available + j - 1
        BY <1>3, <3>3 DEF RingTypeOK
      <4> HIDE DEF j
      <4> QED
        BY <3>1, <4>1, FilledAdds
    <3> QED
      BY <1>3, <3>2, <3>3
  <2> QED
    BY <1>2, <1>3, <1>4, <2>1, <2>2, SeqEqual
<1>5. CASE Available' = 0 /\ Available + Len(s) = size
  BY <1>2, <1>5, EmptySeq
<1> QED
  BY <1>4, <1>5, AvailableAfterInsert

\* A read takes the oldest bytes and leaves the others as they were.
LEMMA ContentsAfterRead ==
    ASSUME RingTypeOK, NEW n \in 1 .. Available,
           tail' = Advance(tail, n), UNCHANGED <<data, size, head>>
    PROVE  Contents' = SubSeq(Contents, n + 1, Available)
<1> DEFINE Bytes == Byte \cup {Uninit}
<1>1. Available \in Nat /\ Available' = Available - n
  BY Bounds DEF RingTypeOK, Available, Advance
<1>2. ASSUME NEW k \in 1 .. Available - n
      PROVE  Slot(Advance(tail, n) + k - 1) = Slot(tail + (n + k) - 1)
  BY <1>1 DEF RingTypeOK, Available, Slot, Advance
<1>3. Contents' = [k \in 1 .. Available - n |-> data[Slot(tail + (n + k) - 1)]]
  <2>1. Contents' = [k \in 1 .. Available - n |-> data[Slot(Advance(tail, n) + k - 1)]]
    BY <1>1 DEF Contents, Slot
  <2> QED
    BY <1>2, <2>1
<1>4. SubSeq(Contents, n + 1, Available) = [k \in 1 .. Available - n |-> Contents[n + k]]
  BY <1>1, ContentsType
<1>5. \A k \in 1 .. Available - n : Contents[n + k] = data[Slot(tail + (n + k) - 1)]
  BY <1>1 DEF Contents
<1> QED
  BY <1>3, <1>4, <1>5

LEMMA ContentsUnchanged == UNCHANGED ring => Contents' = Contents
  BY DEF ring, Contents, Available, Slot

LEMMA ContentsAfterFault ==
    ASSUME RingTypeOK, NEW s \in Seq(Byte), Len(s) <= Space,
           data' = Filled(s), UNCHANGED <<size, head, tail>>
    PROVE  Contents' = Contents
<1>1. Contents' = [k \in 1 .. Available |-> Filled(s)[Slot(tail + k - 1)]]
  BY DEF Contents, Available, Slot
<1>2. \A k \in 1 .. Available : Filled(s)[Slot(tail + k - 1)] = data[Slot(tail + k - 1)]
  BY FilledKeeps
<1> QED
  BY <1>1, <1>2 DEF Contents

LEMMA EmptyContents ==
    /\ RingTypeOK /\ head = tail => Contents = <<>>
    /\ head' = tail' /\ tail' \in Nat => Contents' = <<>>
<1>1. ASSUME RingTypeOK, head = tail PROVE Contents = <<>>
  <2>1. Available = 0
    BY <1>1 DEF RingTypeOK, Available
  <2> QED
    BY <1>1, <2>1, ContentsType, EmptySeq
<1>2. ASSUME head' = tail', tail' \in Nat PROVE Contents' = <<>>
  <2>0. \A a \in Nat : \A b : (IF a >= a THEN a - a ELSE b) = 0
    OBVIOUS
  <2>1. Available' = 0
    BY <1>2, <2>0 DEF Available
  <2>2. Contents' = [k \in 1 .. 0 |-> data'[Slot(tail + k - 1)']]
    BY <2>1 DEF Contents
  <2> QED
    BY <2>2
<1> QED
  BY <1>1, <1>2

----------------------------------------------------------------------------
(* The driver implements a first-in first-out queue with overrun *)

\* The unread bytes in a call that inserts s.
LEMMA InsertIsFifo ==
    ASSUME RingTypeOK, NEW s \in Seq(Byte), s # <<>>, Len(s) <= Space, Insert(s)
    PROVE  Fifo!Next
<1>1. last'.op = "in" /\ last'.bytes = s /\ size' = size
  BY DEF Insert
<1>2. Len(Contents) = Available /\ Available + Len(s) <= size
  <2>1. Len(s) \in Nat
    OBVIOUS
  <2> QED
    BY <2>1, ContentsType, Bounds DEF RingTypeOK
<1>3. Fifo!Put(s) \/ Fifo!Overrun(s)
  BY <1>1, <1>2, ContentsAfterInsert DEF Fifo!Put, Fifo!Overrun
<1> QED
  BY <1>1, <1>3 DEF Fifo!Next

\* The unread bytes in a call that takes the first n of them.
LEMMA ReadIsFifo ==
    ASSUME RingTypeOK, NEW n \in 1 .. Available,
           last' = [op |-> "out", bytes |-> SubSeq(Contents, 1, n)],
           tail' = Advance(tail, n), UNCHANGED <<data, size, head>>
    PROVE  Fifo!Next
<1> DEFINE Bytes == Byte \cup {Uninit}
           s == SubSeq(Contents, 1, n)
           r == SubSeq(Contents, n + 1, Available)
<1>0. Contents \in Seq(Bytes) /\ Len(Contents) = Available /\ Available \in Nat
  BY ContentsType, Bounds
<1>1. Contents' = r
  BY ContentsAfterRead
<1>2. s \in Seq(Bytes) /\ Len(s) = n /\ \A i \in 1 .. n : s[i] = Contents[i]
  BY <1>0
<1>3. /\ r \in Seq(Bytes)
      /\ Len(r) = Available - n
      /\ \A i \in 1 .. Available - n : r[i] = Contents[n + i]
  BY <1>0
<1> HIDE DEF s, r
<1>4. /\ s \o r \in Seq(Bytes)
      /\ Len(s \o r) = Available
      /\ \A i \in 1 .. Available : (s \o r)[i] = IF i <= n THEN s[i] ELSE r[i - n]
  <2>1. Len(s) + Len(r) = Available
    BY <1>0, <1>2, <1>3
  <2> QED
    BY <1>2, <1>3, <2>1, ConcatProperties
<1>5. ASSUME NEW i \in 1 .. Available PROVE Contents[i] = (s \o r)[i]
  <2>1. CASE i <= n
    BY <1>0, <1>2, <1>4, <2>1
  <2>2. CASE i > n
    <3>1. i - n \in 1 .. Available - n /\ n + (i - n) = i
      BY <1>0, <2>2
    <3> QED
      BY <1>0, <1>3, <1>4, <2>2, <3>1
  <2>3. i <= n \/ i > n
    BY <1>0
  <2> QED
    BY <2>1, <2>2, <2>3
<1>6. Contents = s \o r
  BY <1>0, <1>4, <1>5, SeqEqual
<1>7. s # <<>>
  BY <1>2, EmptySeq
<1>8. Fifo!Take(s)
  BY <1>1, <1>6, <1>7 DEF Fifo!Take
<1> QED
  BY <1>8 DEF Fifo!Next, s

\* A call that leaves the unread bytes alone and reports none.
LEMMA IdleIsFifo ==
    ASSUME Contents' = Contents, size' = size, last' = Quiet
    PROVE  Fifo!Next
  BY DEF Fifo!Next, Fifo!Idle, Quiet, Fifo!Quiet

LEMMA FreedIsFifo ==
    ASSUME Freed
    PROVE  Fifo!Next
<1>1. Contents' = <<>>
  BY EmptyContents DEF Freed
<1> QED
  BY <1>1 DEF Freed, Quiet, Fifo!Next, Fifo!Discard, Fifo!Quiet

LEMMA FifoInit == Init => Fifo!Init
<1> SUFFICES ASSUME Init PROVE Fifo!Init
  OBVIOUS
<1>1. RingTypeOK
  BY TypeInit, TypeParts
<1>2. Contents = <<>>
  BY <1>1, EmptyContents DEF Init
<1> QED
  BY <1>2 DEF Init, Fifo!Init, Quiet, Fifo!Quiet

LEMMA FifoStep == TypeOK /\ LifeInv /\ [Next]_vars => [Fifo!Next]_(Fifo!vars)
<1> SUFFICES ASSUME RingTypeOK, CallersTypeOK, LifeInv, [Next]_vars
             PROVE  Fifo!Next \/ UNCHANGED Fifo!vars
  BY TypeParts
<1>u. CASE UNCHANGED vars
  BY <1>u, ContentsUnchanged DEF vars, ring, Fifo!vars
<1>quiet. ASSUME UNCHANGED ring, last' = Quiet PROVE Fifo!Next
  BY <1>quiet, ContentsUnchanged, IdleIsFifo DEF ring
<1>1. CASE RingInit
  <2>1. Contents = <<>>
    BY <1>1, EmptyContents DEF RingInit, LifeInv, Allocated
  <2>2. Contents' = <<>>
    BY <1>1, EmptyContents DEF RingInit
  <2> QED
    BY <1>1, <2>1, <2>2, SizeAssumption
       DEF RingInit, Quiet, Fifo!Next, Fifo!Resize, Fifo!Quiet
<1>2. CASE RegisterChrdev \/ CreateKobject \/ CreateGroup \/ ExitKobject \/ ExitChrdev
  BY <1>2, <1>quiet
     DEF RegisterChrdev, CreateKobject, CreateGroup, ExitKobject, ExitChrdev, Advanced
<1>3. CASE InitFails \/ ExitFree
  BY <1>3, FreedIsFifo DEF InitFails, ExitFree
<1>4. ASSUME NEW p \in Procs,
             OpenFormat(p) \/ Release(p) \/ StatusCount(p) \/ StatusPrint(p)
      PROVE  Fifo!Next
  BY <1>4, <1>quiet DEF OpenFormat, Release, StatusCount, StatusPrint
<1>5. ASSUME NEW p \in Procs, OpenInsert(p) PROVE Fifo!Next
  <2>1. CASE last' = Quiet /\ UNCHANGED ring
    BY <2>1, <1>quiet
  <2>2. CASE Len(event[p]) <= Space /\ Insert(event[p]) /\ event[p] # <<>>
    BY <2>2, InsertIsFifo DEF CallersTypeOK
  <2>3. event[p] # <<>>
    BY <1>5 DEF OpenInsert, LifeInv
  <2> QED
    BY <1>5, <2>1, <2>2, <2>3 DEF OpenInsert
<1>6. ASSUME NEW p \in Procs, NEW text \in Texts, Write(p, text) PROVE Fifo!Next
  <2> DEFINE n == AtMost(Len(text), Space)
  <2>1. text \in Seq(Byte) /\ Len(text) \in Nat
    BY TextAssumption
  <2>2. n \in 0 .. Len(text) /\ n <= Space
    BY <2>1, Bounds DEF AtMost, RingTypeOK
  <2>3. ASSUME n > 0, Insert(SubSeq(text, 1, n)) PROVE Fifo!Next
    <3>1. SubSeq(text, 1, n) \in Seq(Byte) /\ Len(SubSeq(text, 1, n)) = n
      BY <2>1, <2>2, CutText
    <3> HIDE DEF n
    <3>2. SubSeq(text, 1, n) # <<>>
      BY <2>2, <2>3, <3>1, EmptySeq
    <3> QED
      BY <2>2, <2>3, <3>1, <3>2, InsertIsFifo
  <2> QED
    BY <1>6, <1>quiet, <2>3 DEF Write
<1>7. ASSUME NEW p \in Procs, NEW text \in Texts, WriteFault(p, text) PROVE Fifo!Next
  <2>1. PICK k \in 0 .. Len(text) : k < AtMost(Len(text), Space) /\ data' = Filled(SubSeq(text, 1, k))
    BY <1>7 DEF WriteFault
  <2>2. text \in Seq(Byte) /\ Len(text) \in Nat
    BY TextAssumption
  <2>3. k <= Space
    BY <2>1, <2>2, Bounds DEF AtMost, RingTypeOK
  <2>4. SubSeq(text, 1, k) \in Seq(Byte) /\ Len(SubSeq(text, 1, k)) = k
    BY <2>2, CutText
  <2>5. Contents' = Contents
    BY <1>7, <2>1, <2>3, <2>4, ContentsAfterFault DEF WriteFault
  <2> QED
    BY <1>7, <2>5, IdleIsFifo DEF WriteFault
<1>8. ASSUME NEW p \in Procs, NEW count \in Counts, Read(p, count) PROVE Fifo!Next
  <2> DEFINE n == AtMost(count, Available)
  <2>1. n \in 0 .. Available
    BY Bounds, CountAssumption DEF AtMost, RingTypeOK
  <2>2. CASE n > 0
    <3>1. n \in 1 .. Available
      BY <2>1, <2>2, Bounds
    <3>2. last' = [op |-> "out", bytes |-> SubSeq(Contents, 1, n)] /\ tail' = Advance(tail, n)
      BY <1>8, <2>2 DEF Read
    <3>3. UNCHANGED <<data, size, head>>
      BY <1>8 DEF Read
    <3> HIDE DEF n
    <3> QED
      BY <3>1, <3>2, <3>3, ReadIsFifo
  <2>3. CASE ~(n > 0)
    BY <1>8, <2>3, <1>quiet DEF Read, ring
  <2> QED
    BY <2>2, <2>3
<1>9. ASSUME NEW p \in Procs, NEW count \in Counts, ReadFault(p, count) PROVE Fifo!Next
  BY <1>9, <1>quiet DEF ReadFault
<1>10. ASSUME NEW p \in Procs, NEW mode \in Modes, SetDisplayMode(p, mode) PROVE Fifo!Next
  BY <1>10, <1>quiet DEF SetDisplayMode
<1>11. ASSUME NEW p \in Procs, NEW n \in Sizes, BufferSizeStore(p, n) PROVE Fifo!Next
  <2>1. CASE head # tail
    BY <1>11, <2>1, <1>quiet DEF BufferSizeStore
  <2>2. CASE head = tail
    <3>1. Contents = <<>> /\ Contents' = <<>>
      BY <1>11, <2>2, EmptyContents DEF BufferSizeStore
    <3> QED
      BY <1>11, <2>2, <3>1, SizeAssumption
         DEF BufferSizeStore, Quiet, Fifo!Next, Fifo!Resize, Fifo!Quiet
  <2> QED
    BY <2>1, <2>2
<1>12. ASSUME NEW p \in Procs, ClearBufferStore(p) PROVE Fifo!Next
  <2>1. Contents' = <<>>
    BY <1>12, EmptyContents DEF ClearBufferStore
  <2> QED
    BY <1>12, <2>1 DEF ClearBufferStore, Fifo!Next, Fifo!Clear
<1> QED
  BY <1>u, <1>1, <1>2, <1>3, <1>4, <1>5, <1>6, <1>7, <1>8, <1>9, <1>10, <1>11, <1>12
     DEF Next, Lifecycle, DeviceCall, SysfsCall

\* Reads return what opens and writes inserted, in order and without gaps,
\* whatever the size of the ring, the lengths of the texts and the order of
\* the calls (mouse_driv.c:219-338); an insertion that fills the last byte
\* of the ring is the only one that can lose what was there.
THEOREM RingImplementsFifo == Spec => FifoSpec
<1>1. Spec => [](TypeOK /\ LifeInv)
  BY TypeInvariant, LifeInit, LifeStep, PTL DEF Spec
<1> QED
  BY <1>1, FifoInit, FifoStep, PTL DEF Spec, FifoSpec, Fifo!Spec

----------------------------------------------------------------------------
(* No reader is handed memory that nobody wrote *)

LEMMA WrittenInit == Init => OnlyWrittenBytes
  BY DEF Init, OnlyWrittenBytes, Available

LEMMA WrittenIsType ==
    ASSUME RingTypeOK
    PROVE  OnlyWrittenBytes <=> Contents \in Seq(Byte)
<1>1. Available \in Nat /\ Len(Contents) = Available
  BY Bounds, ContentsType
<1>2. ASSUME OnlyWrittenBytes PROVE Contents \in Seq(Byte)
  <2>1. Contents \in [1 .. Available -> Byte]
    BY <1>2 DEF OnlyWrittenBytes, Contents
  <2> QED
    BY <1>1, <2>1
<1>3. ASSUME Contents \in Seq(Byte) PROVE OnlyWrittenBytes
  BY <1>1, <1>3, ElementOfSeq DEF OnlyWrittenBytes
<1> QED
  BY <1>2, <1>3

\* A step of the queue keeps it made of bytes that were put into it.
LEMMA QueueStep ==
    ASSUME NEW B, NEW q \in Seq(B), NEW r, NEW s \in Seq(B \cup {Uninit}), q = s \o r,
           NEW C, r \in Seq(C), B \subseteq C, Uninit \in C
    PROVE  r \in Seq(B)
<1>1. s \in Seq(C)
  OBVIOUS
<1>2. /\ Len(q) = Len(s) + Len(r)
      /\ \A i \in 1 .. Len(s) + Len(r) : q[i] = IF i <= Len(s) THEN s[i] ELSE r[i - Len(s)]
  BY <1>1, ConcatProperties
<1>3. Len(s) \in Nat /\ Len(r) \in Nat /\ r \in [1 .. Len(r) -> C]
  BY <1>1
<1>4. ASSUME NEW i \in 1 .. Len(r) PROVE r[i] \in B
  <2>1. Len(s) + i \in 1 .. Len(q) /\ r[i] = q[Len(s) + i]
    BY <1>2, <1>3
  <2> QED
    BY <2>1, ElementOfSeq
<1> QED
  BY <1>3, <1>4

Typed == Contents \in Seq(Byte \cup {Uninit})
Written == Contents \in Seq(Byte)

LEMMA ContentsTypeNext == RingTypeOK' => Typed'
<1>1. RingTypeOK => Typed
  BY ContentsType DEF Typed
<1> QED
  BY <1>1, PTL

LEMMA WrittenStep ==
    ASSUME TypeOK, TypeOK', OnlyWrittenBytes, [Fifo!Next]_(Fifo!vars)
    PROVE  Written'
<1> SUFFICES Contents' \in Seq(Byte)
  BY DEF Written
<1>1. Contents \in Seq(Byte)
  BY TypeParts, WrittenIsType
<1>2. last' \in Outcomes
  BY DEF TypeOK
<1>3. CASE last'.op = "in" /\ (Fifo!Put(last'.bytes) \/ Fifo!Overrun(last'.bytes))
  <2>1. last'.bytes \in Seq(Byte)
    BY <1>2, <1>3 DEF Outcomes
  <2> DEFINE s == last'.bytes
  <2>2. Contents' = Contents \o s \/ Contents' = <<>>
    BY <1>3 DEF Fifo!Put, Fifo!Overrun
  <2> HIDE DEF s
  <2>3. Contents \o s \in Seq(Byte)
    BY <1>1, <2>1, ConcatProperties DEF s
  <2> QED
    BY <2>2, <2>3, EmptySeq
<1>4. CASE last'.op = "out" /\ Fifo!Take(last'.bytes)
  <2> DEFINE C == Byte \cup {Uninit}
  <2>1. last'.bytes \in Seq(C) /\ Contents' \in Seq(C)
    BY <1>2, <1>4, ContentsTypeNext, TypeParts DEF Outcomes, TypeOK, RingTypeOK, Typed
  <2>2. Contents = last'.bytes \o Contents'
    BY <1>4 DEF Fifo!Take
  <2> QED
    BY <1>1, <2>1, <2>2, QueueStep
<1>5. CASE Fifo!Clear \/ Fifo!Resize \/ Fifo!Idle \/ Fifo!Discard \/ UNCHANGED Fifo!vars
  BY <1>1, <1>5, EmptySeq DEF Fifo!Clear, Fifo!Resize, Fifo!Idle, Fifo!Discard, Fifo!vars
<1> QED
  BY <1>3, <1>4, <1>5 DEF Fifo!Next

\* Whatever the order of wraps, faults, overruns, clears and resizes, every
\* unread byte is one that an open or a write inserted: read never copies
\* to the user what kmalloc found in memory (mouse_driv.c:145, 197).
THEOREM NoUninitializedByte == Spec => []OnlyWrittenBytes
<1>1. TypeOK => (OnlyWrittenBytes <=> Written)
  BY TypeParts, WrittenIsType DEF Written
<1>2. TypeOK /\ TypeOK' /\ OnlyWrittenBytes /\ [Fifo!Next]_(Fifo!vars) => Written'
  BY WrittenStep
<1> QED
  BY <1>1, <1>2, WrittenInit, FifoStep, TypeInvariant, LifeInit, LifeStep, PTL DEF Spec
=============================================================================
