------------------------------ MODULE ByteFifo ------------------------------
(***************************************************************************)
(* What /dev/mouselog promises its users: a queue of bytes of bounded      *)
(* capacity.  Bytes leave in the order in which they entered, a reader is  *)
(* given the oldest ones, and the queue shrinks only when it is read,      *)
(* cleared or overrun.  The overrun is part of the promise the driver can  *)
(* keep: an insertion that fills the queue to the last byte may empty it.  *)
(* MouseRing implements this specification (module MCMouseRing).           *)
(***************************************************************************)
EXTENDS Naturals, Sequences

VARIABLES
    queue,          \* the unread bytes, oldest first
    capacity,       \* the number of bytes the queue can hold
    outcome         \* what the last operation moved

vars == <<queue, capacity, outcome>>

Quiet == [op |-> "none", bytes |-> <<>>]

Init ==
    /\ queue = <<>>
    /\ capacity = 0
    /\ outcome = Quiet

\* An insertion of the bytes s is appended whole ...
Put(s) ==
    /\ s # <<>>
    /\ Len(queue) + Len(s) <= capacity
    /\ queue' = queue \o s
    /\ UNCHANGED capacity

\* ... or fills the queue exactly and everything in it is forgotten.
Overrun(s) ==
    /\ s # <<>>
    /\ Len(queue) + Len(s) = capacity
    /\ queue' = <<>>
    /\ UNCHANGED capacity

\* The reader gets the bytes s, the oldest ones.
Take(s) ==
    /\ s # <<>>
    /\ queue = s \o queue'
    /\ UNCHANGED capacity

\* The owner of the device empties it on request.
Clear ==
    /\ queue' = <<>>
    /\ outcome' = [op |-> "clear", bytes |-> <<>>]
    /\ UNCHANGED capacity

\* The capacity changes only when nothing is waiting to be read.
Resize ==
    /\ queue = <<>>
    /\ capacity' \in Nat
    /\ outcome' = Quiet
    /\ UNCHANGED queue

\* A call that moves no byte: a refusal, a fault, a question.
Idle ==
    /\ outcome' = Quiet
    /\ UNCHANGED <<queue, capacity>>

\* The driver is unloaded.
Discard ==
    /\ queue' = <<>>
    /\ capacity' = 0
    /\ outcome' = Quiet

\* The bytes of a Put, an Overrun or a Take are those of the outcome.
Next ==
    \/ outcome'.op = "in" /\ (Put(outcome'.bytes) \/ Overrun(outcome'.bytes))
    \/ outcome'.op = "out" /\ Take(outcome'.bytes)
    \/ Clear
    \/ Resize
    \/ Idle
    \/ Discard

Spec == Init /\ [][Next]_vars
=============================================================================
