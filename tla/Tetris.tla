------------------------------- MODULE Tetris -------------------------------
(***************************************************************************)
(* The game of hw17-tetris (src/hw17-tetris/game.c): the falling           *)
(* tetromino, the arena and the score.  run_game is one loop: it handles   *)
(* the keys that were pressed and, when a frame time has passed, moves the *)
(* tetromino down or, when it cannot move, places it, removes the full     *)
(* lines and generates the next one.  A key is a step, a fall is a step,   *)
(* and so is every iteration of the loop of check_lines, which examines a  *)
(* line again after it has moved the upper ones down.                      *)
(*                                                                         *)
(* A tetromino is the set of the indices at which its array of 16 holds 1, *)
(* the arena is the set of its filled cells <<x, y>>, y growing downwards. *)
(***************************************************************************)
EXTENDS Integers, FiniteSets

CONSTANTS
    Width,          \* ARENA_WIDTH
    Height,         \* ARENA_HEIGHT
    Tetrominoes,    \* tetrominoes[0..6]
    MaxPlaced       \* bound: tetrominoes placed in a game

\* Without a column every line would be full, and check_lines would not end.
ASSUME SizeAssumption == Width \in Nat \ {0} /\ Height \in Nat
ASSUME TetrominoAssumption ==
    \A t \in Tetrominoes : t \subseteq 0 .. 15 /\ Cardinality(t) = 4
ASSUME BoundAssumption == MaxPlaced \in Nat

VARIABLES
    arena,
    curr, curr_rotation, curr_x, curr_y,    \* the falling tetromino
    score,
    pc,             \* "play", in check_lines ("lines") or game over ("over")
    y, count,       \* locals of check_lines: its line, and the lines removed
    placed,         \* how many tetrominoes were placed
    landed          \* the arena check_lines was called with

tetromino == <<curr, curr_rotation, curr_x, curr_y>>
vars == <<arena, tetromino, score, pc, y, count, placed, landed>>

Columns == 0 .. Width - 1
Lines == 0 .. Height - 1
Cells == Columns \X Lines

\* rotate: the index of column i and line j of a turned tetromino.
rotate(rotation, i, j) ==
    CASE rotation = 0 -> i + 4 * j
      [] rotation = 1 -> 12 + j - 4 * i
      [] rotation = 2 -> 15 - 4 * j - i
      [] rotation = 3 -> 3 - j + 4 * i

\* The cells that a tetromino covers.
Covered(t, rotation, cx, cy) ==
    {<<cx + c[1], cy + c[2]>> :
        c \in {d \in (0 .. 3) \X (0 .. 3) : rotate(rotation, d[1], d[2]) \in t}}

\* Mutant: the left border is forgotten.
check_position_left(t, rotation, cx, cy) ==
    \A c \in Covered(t, rotation, cx, cy) :
        c[1] < Width /\ c[2] < Height /\ c \notin arena

check_position(t, rotation, cx, cy) ==
    \A c \in Covered(t, rotation, cx, cy) :
        c[1] >= 0 /\ c[1] < Width /\ c[2] < Height /\ c \notin arena

Start == (Width \div 2) - 2

\* generate_tetromino: the game is over when there is no room for it.
generate_tetromino ==
    /\ \E t \in Tetrominoes :
        /\ curr' = t
        /\ pc' = IF check_position(t, 0, Start, 0) THEN "play" ELSE "over"
    /\ curr_rotation' = 0
    /\ curr_x' = Start
    /\ curr_y' = 0

Init ==
    /\ arena = {}
    /\ curr \in Tetrominoes
    /\ curr_rotation = 0
    /\ curr_x = Start
    /\ curr_y = 0
    /\ pc = IF check_position(curr, 0, Start, 0) THEN "play" ELSE "over"
    /\ score = 0
    /\ y = -1
    /\ count = 0
    /\ placed = 0
    /\ landed = {}

----------------------------------------------------------------------------
(* handle_input: a key moves the tetromino if it fits where it goes        *)

Moved(rotation, cx, cy) ==
    /\ pc = "play"
    /\ check_position(curr, rotation, cx, cy)
    /\ curr_rotation' = rotation
    /\ curr_x' = cx
    /\ curr_y' = cy
    /\ UNCHANGED <<arena, curr, score, pc, y, count, placed, landed>>

KeyW == Moved((curr_rotation + 1) % 4, curr_x, curr_y)
KeyA == Moved(curr_rotation, curr_x - 1, curr_y)
KeyD == Moved(curr_rotation, curr_x + 1, curr_y)
KeyS == Moved(curr_rotation, curr_x, curr_y + 1)

----------------------------------------------------------------------------
(* A frame                                                                 *)

MoveDown == Moved(curr_rotation, curr_x, curr_y + 1)

\* place_to_arena, what is outside of the arena left out.
PlaceToArena ==
    /\ pc = "play"
    /\ ~check_position(curr, curr_rotation, curr_x, curr_y + 1)
    /\ arena' = arena \cup (Covered(curr, curr_rotation, curr_x, curr_y) \cap Cells)
    /\ landed' = arena'
    /\ placed' = placed + 1
    /\ pc' = "lines"
    /\ y' = Height - 1
    /\ count' = 0
    /\ UNCHANGED <<tetromino, score>>

Full(cells, line) == \A x \in Columns : <<x, line>> \in cells

\* Mutant: the next line is examined without a second look at this one.
RemoveLineOnce ==
    /\ pc = "lines"
    /\ y >= 0
    /\ Full(arena, y)
    /\ arena' = {c \in arena : c[2] > y}
                    \cup {<<c[1], c[2] + 1>> : c \in {d \in arena : d[2] < y}}
    /\ count' = count + 1
    /\ y' = y - 1
    /\ UNCHANGED <<tetromino, score, pc, placed, landed>>

\* check_lines: a full line is removed, the upper ones move down, line 0 is
\* empty, and the same line is examined again ...
RemoveLine ==
    /\ pc = "lines"
    /\ y >= 0
    /\ Full(arena, y)
    /\ arena' = {c \in arena : c[2] > y}
                    \cup {<<c[1], c[2] + 1>> : c \in {d \in arena : d[2] < y}}
    /\ count' = count + 1
    /\ UNCHANGED <<tetromino, score, pc, y, placed, landed>>

\* ... any other one is passed.
PassLine ==
    /\ pc = "lines"
    /\ y >= 0
    /\ ~Full(arena, y)
    /\ y' = y - 1
    /\ UNCHANGED <<arena, tetromino, score, pc, count, placed, landed>>

\* Mutant: a point a line.
GeneratePoint ==
    /\ pc = "lines"
    /\ y < 0
    /\ placed < MaxPlaced
    /\ score' = score + count
    /\ count' = 0
    /\ generate_tetromino
    /\ UNCHANGED <<arena, y, placed, landed>>

\* The lines are counted in the score and the next tetromino appears.
Generate ==
    /\ pc = "lines"
    /\ y < 0
    /\ placed < MaxPlaced
    /\ score' = score + count * 100
    /\ count' = 0
    /\ generate_tetromino
    /\ UNCHANGED <<arena, y, placed, landed>>

Keys == KeyW \/ KeyA \/ KeyD \/ KeyS

\* Mutant: the result of move_down is not looked at.
FrameIgnored == MoveDown \/ RemoveLine \/ PassLine \/ Generate

Frame == MoveDown \/ PlaceToArena \/ RemoveLine \/ PassLine \/ Generate

Next == Keys \/ Frame

Spec == Init /\ [][Next]_vars

\* Frames go on while keys are pressed: handle_input takes those that are
\* there and returns.
FairSpec == Spec /\ WF_vars(Frame)

----------------------------------------------------------------------------
(* Properties                                                              *)

\* The ranges of the variables: positions of the tetromino around the
\* arena, filled cells inside of it, a score in hundreds.
TypeOK ==
    /\ arena \subseteq Cells
    /\ curr \in Tetrominoes
    /\ curr_rotation \in 0 .. 3
    /\ curr_x \in Int
    /\ curr_y \in Nat
    /\ score \in Nat /\ score % 100 = 0
    /\ pc \in {"play", "lines", "over"}
    /\ y \in -1 .. Height - 1
    /\ count \in Nat
    /\ placed \in Nat
    /\ landed \subseteq Cells

\* The tetromino in play is inside the arena and covers no filled cell,
\* after any sequence of turns, moves and falls: place_to_arena never has to
\* leave out a cell, and never fills one twice.
TetrominoFits ==
    pc = "play" =>
        /\ Covered(curr, curr_rotation, curr_x, curr_y) \subseteq Cells
        /\ Covered(curr, curr_rotation, curr_x, curr_y) \cap arena = {}

\* No cell appears or gets lost: the cells of all the tetrominoes that were
\* placed are in the arena or were paid for by the score, a line at a time.
CellsConserved ==
    Cardinality(arena) + Width * (score \div 100 + count) = 4 * placed

\* What removing the full lines of an arena at once would give: every other
\* line moves down by the number of full lines below it.
Collapsed(cells) ==
    {<<c[1], c[2] + Cardinality({line \in Lines : line > c[2] /\ Full(cells, line)})>> :
        c \in {d \in cells : ~Full(cells, d[2])}}

\* check_lines, which shifts the arena in place while it walks it upwards,
\* removes all the full lines and no other one, adjacent ones included.
LinesCollapsed == pc = "lines" /\ y < 0 => arena = Collapsed(landed)

\* Every tetromino lands in the end, whatever the player does: there is no
\* key that keeps it in the air.
TetrominoLands == pc = "play" ~> pc = "lines"
=============================================================================
