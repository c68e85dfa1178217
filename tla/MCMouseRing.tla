---------------------------- MODULE MCMouseRing ----------------------------
(***************************************************************************)
(* Instance of MouseRing: two processes, a ring of 4 bytes that can become *)
(* one of 3 and back, event lines of one and two bytes (the sign of a      *)
(* coordinate makes the difference in the code), writes that fit and       *)
(* writes that are cut short.                                              *)
(***************************************************************************)
EXTENDS MouseRing, TLC

MCBufferSize == 4
MCSizes == {3, 4}
MCByte == {"x", "y", "u"}
MCXLines == {<<"x">>, <<"x", "x">>}
MCYLines == {<<"y">>}
MCTexts == {<<>>, <<"u">>, <<"y", "u", "u">>}
MCCounts == {0, 1, 3}
MCModes == {0, 2, 7}

Symmetry == Permutations(Procs)

=============================================================================
