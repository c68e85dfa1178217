----------------------------- MODULE MCLogStat -----------------------------
(***************************************************************************)
(* Instance of LogStat: four files for three threads, so that the last     *)
(* thread gets the file left over; one to three keys, a capacity of two,   *)
(* and a top of one, so that keys are dropped and the report is cut; an    *)
(* IntMax of four, which the sizes of one URL exceed in some contents.     *)
(***************************************************************************)
EXTENDS LogStat

MCHit(url, size, referer) ==
    [matched |-> TRUE, url |-> url, size |-> size, referer |-> referer]
MCMiss == [matched |-> FALSE, url |-> NoUrl, size |-> 0, referer |-> "-"]

MCFile(lines) == [readable |-> TRUE, lines |-> lines]
MCLost == [readable |-> FALSE, lines |-> <<>>]

MCFirst ==
    {MCFile(<<MCHit("a", 1, "r"), MCHit("b", 2, "r")>>),
     MCFile(<<MCHit("b", 2, "r"), MCHit(NoUrl, 1, "s"), MCHit("b", 1, "s")>>)}

MCSecond ==
    {MCFile(<<MCHit("b", 1, "r")>>),
     MCFile(<<MCMiss, MCHit("c", 3, "s")>>),
     MCLost}

MCThird ==
    {MCFile(<<MCHit("a", 2, "r"), MCHit("b", 1, "s")>>),
     MCFile(<<>>)}

MCFourth == {MCFile(<<MCHit("a", 1, "s")>>)}

MCLogs ==
    {<<w, x, y, z>> : w \in MCFirst, x \in MCSecond, y \in MCThird, z \in MCFourth}
=============================================================================
