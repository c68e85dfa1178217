---------------------------- MODULE MCScoreboard ----------------------------
(***************************************************************************)
(* Instance of Scoreboard: three places with the first scores 200, 100 and *)
(* 0; results that miss the table but for the last place, that tie with a  *)
(* first score and that beat all; names that hold a tab and a number,      *)
(* which the loader takes for the score or refuses, one that is only tabs, *)
(* and the default name.                                                   *)
(***************************************************************************)
EXTENDS Scoreboard, TLC

MCWords == {"PLAYER", "ann"}
MCDefault == <<Word("PLAYER")>>
MCTab == <<Word("ann"), Number(50)>>
MCMinus == <<Word("ann"), Number(-5)>>
MCBlank == <<>>
MCNames == {MCTab, MCMinus, MCBlank}
MCResults == {0, 100, 300}
Symmetry == Permutations(Games)

\* The table after the insertions that scoreboard_init makes one by one is the
\* closed form that Scoreboard starts from.
Inserted[i \in 0 .. LEN] ==
    IF i = 0 THEN [p \in Places |-> -1]
    ELSE LET old == Inserted[i - 1]
             place == CHOOSE p \in Places :
                        /\ (i - 1) * 100 >= old[p]
                        /\ \A q \in 1 .. p - 1 : (i - 1) * 100 < old[q]
         IN  [p \in Places |->
                IF p < place THEN old[p]
                ELSE IF p = place THEN (i - 1) * 100 ELSE old[p - 1]]
ASSUME InitIsInsertions == Inserted[LEN] = [p \in Places |-> DefaultScore(p)]
=============================================================================
