----------------------------- MODULE Scoreboard -----------------------------
(***************************************************************************)
(* The table of the best results of hw17-tetris (scoreboard.c), the program*)
(* around it (main.c) and the menu that removes the table (run.sh).  A     *)
(* game loads the file when it starts, inserts its result when it ends and *)
(* writes the whole table back; several games may run over one file, a     *)
(* game may be killed at any moment, and the file may be removed at any    *)
(* moment.                                                                 *)
(*                                                                         *)
(* The ten lines of a table fit in the buffer of stdio, so a save reaches  *)
(* the file in two steps: fopen truncates it, fclose writes all the lines. *)
(* A line is the sequence of the tokens strtok finds in it; a token is its *)
(* text and what atoi makes of it, and so a name is a sequence of tokens,  *)
(* too: more than one if it contains tabs, none if it is nothing but tabs. *)
(* Places are numbered from 1, as in the file.                             *)
(***************************************************************************)
EXTENDS Integers, Sequences, FiniteSets

CONSTANTS
    Games,          \* players of the game, over one directory
    LEN,            \* SCOREBOARD_LEN
    Words,          \* tokens that are no numbers
    Default,        \* DEFAULT_NAME, as a name
    Names,          \* names of two characters and more
    Results,        \* scores a game ends with
    MaxGames        \* bound: games that are started

ASSUME LenAssumption == LEN \in Nat \ {0}
ASSUME BoundAssumption == MaxGames \in Nat
ASSUME ResultsAssumption == Results \subseteq Nat

Token == [text : Words \cup {"numeral"}, num : Int]
Word(w) == [text |-> w, num |-> 0]
Number(n) == [text |-> "numeral", num |-> n]

ASSUME NamesAssumption == Names \subseteq Seq(Token)
ASSUME DefaultAssumption == Default \in Seq(Token) /\ Len(Default) = 1

VARIABLES
    pc,         \* "idle", "play", "save" (file open for writing)
    names,      \* names[g][p]: an address
    scores,     \* scores[g][p]
    heap,       \* heap[g]: the texts of a game's allocated names
    linked,     \* the file a game writes is still the one in the directory
    file,       \* the lines of scoreboard.txt; a missing file has none
    started,    \* how many games were started
    known,      \* history: the results a game's table was computed from
    fknown,     \*          and those the file's table was
    ended,      \*          results of all games that came to their end
    serial,     \*          games ran one by one, and no result was thrown away
    tabbed      \*          a name with a tab was entered

table == <<names, scores, heap>>
history == <<known, fknown, ended, serial, tabbed>>
vars == <<pc, table, linked, file, started, history>>

Places == 1 .. LEN
Address == Nat \ {0}
Empty == <<>>

(*************************** The C functions ***************************)

\* malloc: an address that is not in use.
Fresh(hp) ==
    CHOOSE a \in 1 .. Cardinality(DOMAIN hp) + 1 : a \notin DOMAIN hp

Without(hp, a) == [b \in DOMAIN hp \ {a} |-> hp[b]]
With(hp, a, name) == [b \in DOMAIN hp \cup {a} |-> IF b = a THEN name ELSE hp[b]]

\* The lines that fprintf writes for a table.
LineOf(p, name, score) == <<Number(p)>> \o name \o <<Number(score)>>

\* Mutant: the places are written as they are counted in C, from 0.
LinesFromZero(nm, sc, hp) ==
    [p \in Places |-> LineOf(p - 1, hp[nm[p]], sc[p])]

LinesOf(nm, sc, hp) == [p \in Places |-> LineOf(p, hp[nm[p]], sc[p])]

\* scoreboard_init without the load: the table after the insertions of 0,
\* 100 and so on, each on top of the one before.
DefaultScore(p) == (LEN - p) * 100
\* Mutant: the places are left at their first values.
InitTableBare ==
    [names |-> [p \in Places |-> p],
     scores |-> [p \in Places |-> -1],
     heap |-> [a \in Places |-> Default]]

InitTable ==
    [names |-> [p \in Places |-> p],
     scores |-> [p \in Places |-> DefaultScore(p)],
     heap |-> [a \in Places |-> Default]]

Accepted(line) == Len(line) >= 3 /\ line[1].num <= LEN /\ line[3].num >= 0

\* Mutant: the lines are read to the end of the file.
LineForLoose(p, lines) ==
    LET found == {i \in 1 .. Len(lines) :
                    Accepted(lines[i]) /\ lines[i][1].num = p}
    IN  IF found = {} THEN 0
        ELSE CHOOSE i \in found : \A j \in found : j <= i

\* The last of the first LEN lines that is accepted for place p, or 0.
LineFor(p, lines) ==
    LET found == {i \in 1 .. Len(lines) :
                    i <= LEN /\ Accepted(lines[i]) /\ lines[i][1].num = p}
    IN  IF found = {} THEN 0
        ELSE CHOOSE i \in found : \A j \in found : j <= i

\* scoreboard_load: a place that a line names gets its score and a copy of
\* its name; the name it had is never freed.
Load(t, lines) ==
    LET line(p) == LineFor(p, lines)
        loaded == {p \in Places : line(p) # 0}
        copy(p) == LEN + p
    IN  [names |-> [p \in Places |-> IF p \in loaded THEN copy(p) ELSE t.names[p]],
         scores |-> [p \in Places |->
            IF p \in loaded THEN lines[line(p)][3].num ELSE t.scores[p]],
         heap |-> [a \in DOMAIN t.heap \cup {copy(p) : p \in loaded} |->
            IF a <= LEN THEN t.heap[a] ELSE <<lines[line(a - LEN)][2]>>]]

\* Mutant: the search does not stop at the first place it finds.
PlaceLast(sc, score) ==
    CHOOSE p \in Places : score >= sc[p] /\ \A q \in p + 1 .. LEN : score < sc[q]

\* scoreboard_insert: the first place whose score is not greater.
PlaceOf(sc, score) ==
    CHOOSE p \in Places : score >= sc[p] /\ \A q \in 1 .. p - 1 : score < sc[q]

\* Mutant: the last name is freed after the places have moved down.
InsertLate(t, name, score) ==
    IF \A p \in Places : score < t.scores[p] THEN t
    ELSE
    LET place == PlaceOf(t.scores, score)
        Shift(old, x) == [p \in Places |->
            IF p < place THEN old[p] ELSE IF p = place THEN x ELSE old[p - 1]]
        left == Without(t.heap, Shift(t.names, 0)[LEN])
        new == Fresh(left)
    IN  [names |-> Shift(t.names, new),
         scores |-> Shift(t.scores, score),
         heap |-> With(left, new, name)]

Insert(t, name, score) ==
    IF \A p \in Places : score < t.scores[p] THEN t
    ELSE
    LET place == PlaceOf(t.scores, score)
        left == Without(t.heap, t.names[LEN])
        new == Fresh(left)
        Shift(old, x) == [p \in Places |->
            IF p < place THEN old[p] ELSE IF p = place THEN x ELSE old[p - 1]]
    IN  [names |-> Shift(t.names, new),
         scores |-> Shift(t.scores, score),
         heap |-> With(left, new, name)]

(******************************* The games *******************************)

Table(g) == [names |-> names[g], scores |-> scores[g], heap |-> heap[g]]

SetTable(g, t) ==
    /\ names' = [names EXCEPT ![g] = t.names]
    /\ scores' = [scores EXCEPT ![g] = t.scores]
    /\ heap' = [heap EXCEPT ![g] = t.heap]

Init ==
    /\ pc = [g \in Games |-> "idle"]
    /\ names = [g \in Games |-> InitTable.names]
    /\ scores = [g \in Games |-> InitTable.scores]
    /\ heap = [g \in Games |-> InitTable.heap]
    /\ linked = [g \in Games |-> FALSE]
    /\ file = Empty
    /\ started = 0
    /\ known = [g \in Games |-> <<>>] /\ fknown = <<>> /\ ended = <<>>
    /\ serial = TRUE /\ tabbed = FALSE

\* The process is gone: what its memory held does not matter any more.
Exit(g) ==
    /\ pc' = [pc EXCEPT ![g] = "idle"]
    /\ SetTable(g, InitTable)
    /\ linked' = [linked EXCEPT ![g] = FALSE]
    /\ known' = [known EXCEPT ![g] = <<>>]

\* scoreboard_init.
Start(g) ==
    /\ pc[g] = "idle" /\ started < MaxGames
    /\ pc' = [pc EXCEPT ![g] = "play"]
    /\ SetTable(g, Load(InitTable, file))
    /\ started' = started + 1
    /\ known' = [known EXCEPT ![g] = fknown]
    /\ serial' = (serial /\ \A h \in Games : pc[h] = "idle")
    /\ UNCHANGED <<linked, file, fknown, ended, tabbed>>

\* The result of a game is inserted: the history takes note of it.
Note(g, name, score) ==
    /\ ended' = Append(ended, score)
    /\ tabbed' = (tabbed \/ Len(name) # 1)

\* run_game has returned: scoreboard_insert, and fopen in scoreboard_save.
Finish(g, name, score) ==
    /\ pc[g] = "play"
    /\ pc' = [pc EXCEPT ![g] = "save"]
    /\ SetTable(g, Insert(Table(g), name, score))
    /\ linked' = [linked EXCEPT ![g] = TRUE]
    /\ file' = Empty
    /\ known' = [known EXCEPT ![g] = Append(known[g], score)]
    /\ fknown' = <<>>
    /\ Note(g, name, score)
    /\ UNCHANGED <<started, serial>>

\* The file cannot be opened: the result is thrown away.
SaveFails(g, name, score) ==
    /\ pc[g] = "play"
    /\ Exit(g)
    /\ Note(g, name, score)
    /\ serial' = FALSE
    /\ UNCHANGED <<file, started, fknown>>

\* fclose writes the lines at the start of the file.  If another game has
\* written there since fopen, its last lines may stand behind them, as many as
\* its names were longer.  That the first of those may be a fragment of a line makes
\* no difference: the loader reads LEN lines, which are the new ones.
Write(g) ==
    /\ pc[g] = "save"
    /\ IF linked[g]
       THEN /\ \E k \in 0 .. Len(file) :
                 file' = LinesOf(names[g], scores[g], heap[g])
                             \o SubSeq(file, k + 1, Len(file))
            /\ fknown' = known[g]
       ELSE UNCHANGED <<file, fknown>>
    /\ Exit(g)
    /\ UNCHANGED <<started, ended, serial, tabbed>>

\* A game is killed while it plays or while its file is open.
Kill(g) ==
    /\ pc[g] # "idle"
    /\ Exit(g)
    /\ serial' = (serial /\ pc[g] = "play")
    /\ UNCHANGED <<file, started, fknown, ended, tabbed>>

\* The menu removes the file; a game that has it open writes to nowhere.
Remove ==
    /\ file' = Empty /\ fknown' = <<>>
    /\ linked' = [g \in Games |-> FALSE]
    /\ serial' = FALSE
    /\ UNCHANGED <<pc, table, started, known, ended, tabbed>>

Game(g) ==
    \/ Start(g)
    \/ \E name \in Names \cup {Default}, score \in Results :
          Finish(g, name, score) \/ SaveFails(g, name, score)
    \/ Write(g)
    \/ Kill(g)

Next == (\E g \in Games : Game(g)) \/ Remove

Spec == Init /\ [][Next]_vars

(****************************** Properties *****************************)

TypeOK ==
    /\ pc \in [Games -> {"idle", "play", "save"}]
    /\ \A g \in Games :
         /\ names[g] \in [Places -> Address]
         /\ scores[g] \in [Places -> Nat]
         /\ \A a \in DOMAIN heap[g] : a \in Address /\ heap[g][a] \in Seq(Token)
    /\ linked \in [Games -> BOOLEAN]
    /\ \A i \in 1 .. Len(file) : file[i] \in Seq(Token) /\ Len(file[i]) >= 2
    /\ started \in 0 .. MaxGames
    /\ known \in [Games -> Seq(Nat)] /\ fknown \in Seq(Nat) /\ ended \in Seq(Nat)
    /\ serial \in BOOLEAN /\ tabbed \in BOOLEAN

\* Every place of a game's table has a name of its own that is allocated: no
\* name is freed twice, and none is used after it was freed, whatever was
\* loaded and inserted (scoreboard_insert frees the last name, moves pointers).
OwnedOnce ==
    \A g \in Games : \A p \in Places :
        /\ names[g][p] \in DOMAIN heap[g]
        /\ \A q \in Places : names[g][p] = names[g][q] => p = q

\* The scores of a table, and of the lines of the file.
Saved == [p \in Places |-> file[p][3].num]
Ordered(sc) ==
    \A p \in Places :
        sc[p] >= DefaultScore(p) /\ \A q \in Places : p < q => sc[p] >= sc[q]

\* As long as no name with tabs was entered, every table is in descending
\* order and no place is below its first score, in memory and in the file,
\* whatever games overlap, get killed or lose the file.  scoreboard_insert
\* relies on the order.
Ranked ==
    ~tabbed => /\ \A g \in Games : Ordered(scores[g])
               /\ file # Empty => Ordered(Saved)

\* sc holds the LEN best of the first scores and the given results.
BestOf(sc, results) ==
    \A s \in Results \cup {DefaultScore(p) : p \in Places} :
        LET better == Cardinality({p \in Places : DefaultScore(p) >= s})
                      + Cardinality({i \in 1 .. Len(results) : results[i] >= s})
        IN  Cardinality({p \in Places : sc[p] >= s})
                = IF better < LEN THEN better ELSE LEN

\* A table is the best of the results it was computed from, over any number of
\* loads, insertions and saves: it is never mixed from the tables of two games
\* that save at once, and no result is in it twice.
BestOfKnown ==
    ~tabbed => /\ \A g \in Games : pc[g] # "idle" => BestOf(scores[g], known[g])
               /\ file # Empty => BestOf(Saved, fknown)

\* As long as games are played one by one, and none is killed while it saves,
\* the file holds the best results of all games that came to their end, killed
\* ones between them or not.
SerialBest ==
    serial /\ ~tabbed /\ ended # <<>> /\ (\A g \in Games : pc[g] # "save") =>
        file # Empty /\ BestOf(Saved, ended)
=============================================================================
