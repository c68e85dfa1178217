------------------------------ MODULE MouseRing ------------------------------
(***************************************************************************)
(* The character driver /dev/mouselog (src/hw14-driver/mouse_driv.c).      *)
(*                                                                         *)
(* A ring buffer is filled by simulate_mouse_data, called by every open,   *)
(* and by write, and drained by read; sysfs attributes show its state,     *)
(* resize it, clear it and choose what open inserts.  Every access to      *)
(* head, tail and data happens between mutex_lock and mutex_unlock of      *)
(* buffer.lock, so one critical section is one step; what the code reads   *)
(* outside the lock is a step of its own: display_mode before an insertion *)
(* (the event is already formatted while the opener waits for the lock)    *)
(* and buffer.size after buffer_status_show has released the lock.         *)
(*                                                                         *)
(* The kernel is external: it refuses rmmod while the device is open,      *)
(* refuses open while the module is going away and makes kobject_put wait  *)
(* for the sysfs calls in progress.                                        *)
(***************************************************************************)
EXTENDS Naturals, Sequences

CONSTANTS
    Procs,          \* processes that use the device
    Byte,           \* byte values
    Uninit,         \* content of a byte that kmalloc returned and nobody wrote
    BufferSize,     \* module parameter buffer_size: the size at load
    Sizes,          \* sizes buffer_size_store accepts (64..65536 in the code)
    XLines,         \* the texts "MOUSE_X:%d\n" can be
    YLines,         \* the texts "MOUSE_Y:%d\n" can be
    Texts,          \* what users pass to write
    Counts,         \* the lengths users pass to read
    Modes           \* values display_mode is given

ASSUME SizeAssumption == BufferSize \in Nat /\ Sizes \subseteq Nat
ASSUME ByteAssumption == Uninit \notin Byte
ASSUME TextAssumption ==
    /\ XLines \subseteq Seq(Byte) \ {<<>>}
    /\ YLines \subseteq Seq(Byte) \ {<<>>}
    /\ Texts \subseteq Seq(Byte)
ASSUME CountAssumption == Counts \subseteq Nat
ASSUME ModeAssumption == Modes \subseteq Nat /\ 2 \in Modes

VARIABLES
    data, size, head, tail,     \* struct ring_buffer
    display_mode,
    stage,                      \* how far loading or unloading has come
    opened,                     \* the processes that hold the device open
    pc,                         \* what a process is in the middle of
    event,                      \* event_str of an opener that waits for the lock
    used,                       \* available of a buffer_status_show in progress
    last                        \* what the last completed call moved

ring == <<data, size, head, tail>>
callers == <<opened, pc, event, used>>
vars == <<ring, display_mode, stage, callers, last>>

Stages == {"absent", "ring", "chrdev", "kobj", "live", "no_sysfs", "no_chrdev", "oops"}

\* Stages in which buffer.data is allocated.
Allocated == stage \notin {"absent", "oops"}

Quiet == [op |-> "none", bytes |-> <<>>]

----------------------------------------------------------------------------
(* The arithmetic of the ring.  head and tail may both equal size.         *)

Slot(i) == IF i < size THEN i ELSE i - size

\* Bytes between tail and head, as read and buffer_status compute them.
Available == IF head >= tail THEN head - tail ELSE size - tail + head

\* Room for an insertion, as write and simulate_mouse_data compute it.
Space == IF head >= tail THEN size - (head - tail) ELSE tail - head - 1

\* Mutant: the wrap is forgotten.
AdvanceUnwrapped(i, n) == i + n

\* head or tail after n more bytes: it stays at size when it reaches size.
Advance(i, n) == IF i + n <= size THEN i + n ELSE i + n - size

\* Mutant: the second of the two copies is forgotten.
FilledUnwrapped(s) ==
    [i \in 0 .. size - 1 |->
        IF i >= head /\ i - head < Len(s) THEN s[i - head + 1] ELSE data[i]]

\* data after the bytes of s were copied to it from head on, in one piece
\* or in two.
Filled(s) ==
    [i \in 0 .. size - 1 |->
        LET k == IF i >= head THEN i - head ELSE i + size - head
        IN  IF k < Len(s) THEN s[k + 1] ELSE data[i]]

\* The unread bytes, oldest first.
Contents == [k \in 1 .. Available |-> data[Slot(tail + k - 1)]]

Fresh(n) == [i \in 0 .. n - 1 |-> Uninit]

AtMost(count, limit) == IF count <= limit THEN count ELSE limit

----------------------------------------------------------------------------
Init ==
    /\ data = Fresh(0)
    /\ size = 0
    /\ head = 0
    /\ tail = 0
    /\ display_mode = 2
    /\ stage = "absent"
    /\ opened = {}
    /\ pc = [p \in Procs |-> "idle"]
    /\ event = [p \in Procs |-> <<>>]
    /\ used = [p \in Procs |-> 0]
    /\ last = Quiet

(***************************************************************************)
(* Loading and unloading.  The device is live for open as soon as          *)
(* register_chrdev returned, while kobject_create_and_add and              *)
(* sysfs_create_group can still fail; the unwinding then frees the ring    *)
(* and the module under a process that has the device open.  What such a   *)
(* process does next is undefined: the model stops in the stage "oops".    *)
(***************************************************************************)
RingInit ==
    /\ stage = "absent"
    /\ data' = Fresh(BufferSize)
    /\ size' = BufferSize
    /\ head' = 0
    /\ tail' = 0
    /\ display_mode' = 2
    /\ stage' = "ring"
    /\ last' = Quiet
    /\ UNCHANGED callers

Freed ==
    /\ data' = Fresh(0)
    /\ size' = 0
    /\ head' = 0
    /\ tail' = 0
    /\ last' = Quiet

Advanced(from, to) ==
    /\ stage = from
    /\ stage' = to
    /\ last' = Quiet
    /\ UNCHANGED <<ring, display_mode, callers>>

\* A step of mouse_driv_init failed: undo the earlier ones.
InitFails ==
    /\ stage \in {"ring", "chrdev", "kobj"}
    /\ Freed
    /\ stage' = IF opened = {} /\ \A p \in Procs : pc[p] = "idle"
                THEN "absent" ELSE "oops"
    /\ UNCHANGED <<display_mode, callers>>

RegisterChrdev == Advanced("ring", "chrdev")
CreateKobject == Advanced("chrdev", "kobj")
CreateGroup == Advanced("kobj", "live")

\* Mutant: fops without .owner, so that rmmod is not refused while the
\* device is open.
ExitUnowned ==
    /\ \A p \in Procs : pc[p] # "show"
    /\ Advanced("live", "no_sysfs")

\* mouse_driv_exit, called when nobody holds the device open.  kobject_put
\* returns when the sysfs calls in progress have returned.
ExitKobject ==
    /\ opened = {}
    /\ \A p \in Procs : pc[p] = "idle"
    /\ Advanced("live", "no_sysfs")

ExitChrdev == Advanced("no_sysfs", "no_chrdev")

ExitFree ==
    /\ stage = "no_chrdev"
    /\ Freed
    /\ stage' = "absent"
    /\ UNCHANGED <<display_mode, callers>>

----------------------------------------------------------------------------
(* open, release, read, write                                              *)

BothLines == {x \o y : x \in XLines, y \in YLines}

\* The texts simulate_mouse_data may format in mode m.
EventTexts(m) ==
    CASE m = 0 -> XLines
      [] m = 1 -> YLines
      [] OTHER -> BothLines

\* mouse_open up to mutex_lock: display_mode is read without the lock.
OpenFormat(p) ==
    /\ stage \in {"chrdev", "kobj", "live"}
    /\ p \notin opened
    /\ pc[p] = "idle"
    /\ \E e \in EventTexts(display_mode) : event' = [event EXCEPT ![p] = e]
    /\ pc' = [pc EXCEPT ![p] = "push"]
    /\ last' = Quiet
    /\ UNCHANGED <<ring, display_mode, stage, opened, used>>

\* The bytes of s are copied behind the unread ones and head moves on.
Insert(s) ==
    /\ data' = Filled(s)
    /\ head' = Advance(head, Len(s))
    /\ last' = [op |-> "in", bytes |-> s]
    /\ UNCHANGED <<size, tail>>

\* The critical section of simulate_mouse_data: the event goes in whole or
\* not at all, and open succeeds either way.
OpenInsert(p) ==
    /\ pc[p] = "push"
    /\ Allocated
    /\ \/ Len(event[p]) <= Space /\ Insert(event[p])
       \/ Len(event[p]) > Space /\ last' = Quiet /\ UNCHANGED ring
    /\ pc' = [pc EXCEPT ![p] = "idle"]
    /\ event' = [event EXCEPT ![p] = <<>>]
    /\ opened' = opened \cup {p}
    /\ UNCHANGED <<display_mode, stage, used>>

Release(p) ==
    /\ p \in opened
    /\ Allocated
    /\ opened' = opened \ {p}
    /\ last' = Quiet
    /\ UNCHANGED <<ring, display_mode, stage, pc, event, used>>

\* Holding the device open and in no call, so free to read or write.
Ready(p) == p \in opened /\ pc[p] = "idle" /\ Allocated

Unmoved == UNCHANGED <<display_mode, stage, callers>>

\* ring_buffer_write: as much of the text as there is room for.
Write(p, text) ==
    /\ Ready(p)
    /\ LET n == AtMost(Len(text), Space)
       IN  \/ n > 0 /\ Insert(SubSeq(text, 1, n))
           \/ n = 0 /\ last' = Quiet /\ UNCHANGED ring          \* ENOSPC
    /\ Unmoved

\* Mutant: head moves on before the result of the copy is looked at.
WriteFaultAdvances(p, text) ==
    /\ Ready(p)
    /\ AtMost(Len(text), Space) > 0
    /\ head' = Advance(head, AtMost(Len(text), Space))
    /\ last' = Quiet
    /\ UNCHANGED <<data, size, tail>>
    /\ Unmoved

\* copy_from_user fails after k bytes: head stays, free bytes are soiled.
WriteFault(p, text) ==
    /\ Ready(p)
    /\ \E k \in 0 .. Len(text) :
        /\ k < AtMost(Len(text), Space)
        /\ data' = Filled(SubSeq(text, 1, k))
    /\ last' = Quiet
    /\ UNCHANGED <<size, head, tail>>
    /\ Unmoved

\* ring_buffer_read: as many of the unread bytes as were asked for.
Read(p, count) ==
    /\ Ready(p)
    /\ LET n == AtMost(count, Available)
       IN  \/ /\ n > 0
              /\ last' = [op |-> "out", bytes |-> SubSeq(Contents, 1, n)]
              /\ tail' = Advance(tail, n)
           \/ n = 0 /\ last' = Quiet /\ UNCHANGED tail
    /\ UNCHANGED <<data, size, head>>
    /\ Unmoved

\* copy_to_user fails: tail stays, the same bytes will be read again.
ReadFault(p, count) ==
    /\ Ready(p)
    /\ AtMost(count, Available) > 0
    /\ last' = Quiet
    /\ UNCHANGED ring
    /\ Unmoved

----------------------------------------------------------------------------
(* sysfs: any process, while the attribute group exists                    *)

InSysfs(p) == stage = "live" /\ pc[p] = "idle"

\* display_mode_store checks the range, the module parameter of the same
\* name (mode 0644) does not; both write it without the lock.
SetDisplayMode(p, mode) ==
    /\ \/ InSysfs(p) /\ mode \in 0 .. 2
       \/ stage \notin {"absent", "oops"} /\ pc[p] = "idle"
    /\ display_mode' = mode
    /\ last' = Quiet
    /\ UNCHANGED <<ring, stage, callers>>

\* buffer_status_show under the lock ...
StatusCount(p) ==
    /\ InSysfs(p)
    /\ used' = [used EXCEPT ![p] = Available]
    /\ pc' = [pc EXCEPT ![p] = "show"]
    /\ last' = Quiet
    /\ UNCHANGED <<ring, display_mode, stage, opened, event>>

\* ... and after it, when it reads size again and prints: the ring it prints
\* about may be another one by then.
StatusPrint(p) ==
    /\ pc[p] = "show"
    /\ pc' = [pc EXCEPT ![p] = "idle"]
    /\ used' = [used EXCEPT ![p] = 0]
    /\ last' = Quiet
    /\ UNCHANGED <<ring, display_mode, stage, opened, event>>

\* buffer_size_store: only a ring without unread bytes is replaced.
BufferSizeStore(p, new_size) ==
    /\ InSysfs(p)
    /\ IF head # tail
       THEN UNCHANGED ring                                       \* EBUSY
       ELSE /\ data' = Fresh(new_size)
            /\ size' = new_size
            /\ head' = 0
            /\ tail' = 0
    /\ last' = Quiet
    /\ Unmoved

ClearBufferStore(p) ==
    /\ InSysfs(p)
    /\ head' = 0
    /\ tail' = 0
    /\ last' = [op |-> "clear", bytes |-> <<>>]
    /\ UNCHANGED <<data, size>>
    /\ Unmoved

----------------------------------------------------------------------------
Lifecycle ==
    \/ RingInit \/ RegisterChrdev \/ CreateKobject \/ CreateGroup \/ InitFails
    \/ ExitKobject \/ ExitChrdev \/ ExitFree

DeviceCall(p) ==
    \/ OpenFormat(p)
    \/ OpenInsert(p)
    \/ Release(p)
    \/ \E text \in Texts : Write(p, text) \/ WriteFault(p, text)
    \/ \E count \in Counts : Read(p, count) \/ ReadFault(p, count)

SysfsCall(p) ==
    \/ \E mode \in Modes : SetDisplayMode(p, mode)
    \/ StatusCount(p)
    \/ StatusPrint(p)
    \/ \E n \in Sizes : BufferSizeStore(p, n)
    \/ ClearBufferStore(p)

Next == Lifecycle \/ \E p \in Procs : DeviceCall(p) \/ SysfsCall(p)

Spec == Init /\ [][Next]_vars

----------------------------------------------------------------------------
(* Properties                                                              *)

\* What a call can have moved.
Outcomes ==
    [op : {"in"}, bytes : Seq(Byte)]
        \cup [op : {"none", "out", "clear"}, bytes : Seq(Byte \cup {Uninit})]

\* The ranges of the variables: head and tail may reach size but not pass it,
\* and the data are exactly as long as size says.
TypeOK ==
    /\ size \in Nat
    /\ data \in [0 .. size - 1 -> Byte \cup {Uninit}]
    /\ head \in 0 .. size
    /\ tail \in 0 .. size
    /\ display_mode \in Modes
    /\ stage \in Stages
    /\ opened \subseteq Procs
    /\ pc \in [Procs -> {"idle", "push", "show"}]
    /\ event \in [Procs -> Seq(Byte)]
    /\ used \in [Procs -> Nat]
    /\ last \in Outcomes

\* A process that has the device open, or is inside one of the driver's
\* functions, never meets a ring that was freed (buffer.data == NULL) by
\* mouse_driv_exit: only a failed mouse_driv_init can pull it away.
NoUseAfterFree ==
    \A p \in Procs : p \in opened \/ pc[p] # "idle" => Allocated \/ stage = "oops"

\* No byte between tail and head is one that kmalloc returned and nobody
\* wrote: read never hands kernel memory to the user, whatever the order of
\* wraps, faults, overruns, clears and resizes was.
OnlyWrittenBytes == \A k \in 1 .. Available : Contents[k] \in Byte

\* The two-part copies, the wrapping of head and tail and the exact fill
\* implement a first-in first-out queue of bytes with overrun.
Fifo == INSTANCE ByteFifo WITH
    queue <- Contents, capacity <- size, outcome <- last
FifoSpec == Fifo!Spec

\* mouse_driv.c:343 says that every open generates new data, and line 17
\* that cat reads them: on return of an open there is something to read.
OpenYieldsData ==
    [][\A p \in Procs : pc[p] = "push" /\ pc'[p] = "idle" => head' # tail']_vars
=============================================================================
