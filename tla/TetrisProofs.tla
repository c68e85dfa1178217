---------------------------- MODULE TetrisProofs ----------------------------
(***************************************************************************)
(* Theorems about the game, for every size of the arena and every set of   *)
(* tetrominoes: the arena of 10 x 20 and the seven of game.c among them.   *)
(***************************************************************************)
EXTENDS Tetris, FiniteSetTheorems, FunctionTheorems, TLAPS

----------------------------------------------------------------------------
(* Lemmas *)

\* A tetromino covers no more than the 4 x 4 cells at its position.
LEMMA CoveredCells ==
    ASSUME NEW t, NEW rotation, NEW cx \in Int, NEW cy \in Nat,
           NEW c \in Covered(t, rotation, cx, cy)
    PROVE  /\ c = <<c[1], c[2]>>
           /\ c[1] \in Int
           /\ c[2] \in Nat
<1> PICK d \in (0 .. 3) \X (0 .. 3) : c = <<cx + d[1], cy + d[2]>>
  BY DEF Covered
<1> QED
  OBVIOUS

\* What check_position accepts lies in the arena, on free cells.
LEMMA AcceptedFits ==
    ASSUME NEW t, NEW rotation, NEW cx \in Int, NEW cy \in Nat,
           check_position(t, rotation, cx, cy)
    PROVE  /\ Covered(t, rotation, cx, cy) \subseteq Cells
           /\ Covered(t, rotation, cx, cy) \cap arena = {}
<1>1. ASSUME NEW c \in Covered(t, rotation, cx, cy)
      PROVE  c \in Cells /\ c \notin arena
  <2>1. c = <<c[1], c[2]>> /\ c[1] \in Int /\ c[2] \in Nat
    BY CoveredCells
  <2>2. c[1] >= 0 /\ c[1] < Width /\ c[2] < Height /\ c \notin arena
    BY DEF check_position
  <2>3. c[1] \in Columns /\ c[2] \in Lines
    BY <2>1, <2>2, SizeAssumption DEF Columns, Lines
  <2> QED
    BY <2>1, <2>2, <2>3 DEF Cells
<1> QED
  BY <1>1

LEMMA StartType == Start \in Int
  BY SizeAssumption DEF Start

\* The lines above a removed one stay in the arena when they move down.
LEMMA ShiftedInArena ==
    ASSUME arena \subseteq Cells, NEW l \in Lines
    PROVE  {<<c[1], c[2] + 1>> : c \in {d \in arena : d[2] < l}} \subseteq Cells
<1> SUFFICES ASSUME NEW c \in arena, c[2] < l
             PROVE  <<c[1], c[2] + 1>> \in Cells
  OBVIOUS
<1>1. c[1] \in Columns /\ c[2] \in Lines
  BY DEF Cells
<1>2. c[2] + 1 \in Lines
  BY <1>1, SizeAssumption DEF Lines
<1> QED
  BY <1>1, <1>2 DEF Cells

----------------------------------------------------------------------------
(* Types *)

LEMMA TypeInit == Init => TypeOK
  BY StartType, SizeAssumption DEF Init, TypeOK

LEMMA TypeMoved ==
    ASSUME TypeOK, NEW rotation \in 0 .. 3, NEW cx \in Int, NEW cy \in Nat,
           Moved(rotation, cx, cy)
    PROVE  TypeOK'
  BY DEF TypeOK, Moved

LEMMA TypeStep == TypeOK /\ [Next]_vars => TypeOK'
<1> SUFFICES ASSUME TypeOK, [Next]_vars PROVE TypeOK'
  OBVIOUS
<1>1. CASE Keys \/ MoveDown
  <2>1. /\ curr_rotation \in 0 .. 3 /\ (curr_rotation + 1) % 4 \in 0 .. 3
        /\ curr_x \in Int /\ curr_x - 1 \in Int /\ curr_x + 1 \in Int
        /\ curr_y \in Nat /\ curr_y + 1 \in Nat
    BY DEF TypeOK
  <2> QED
    BY <1>1, <2>1, TypeMoved DEF Keys, KeyW, KeyA, KeyD, KeyS, MoveDown
<1>2. CASE PlaceToArena
  <2>1. Height - 1 \in -1 .. Height - 1
    BY SizeAssumption
  <2> QED
    BY <1>2, <2>1 DEF TypeOK, PlaceToArena, tetromino
<1>3. CASE RemoveLine
  <2>1. y \in Lines
    BY <1>3, SizeAssumption DEF TypeOK, RemoveLine, Lines
  <2>2. arena' \subseteq Cells
    BY <1>3, <2>1, ShiftedInArena DEF TypeOK, RemoveLine
  <2> QED
    BY <1>3, <2>2 DEF TypeOK, RemoveLine, tetromino
<1>4. CASE PassLine
  <2>1. y' \in -1 .. Height - 1
    BY <1>4, SizeAssumption DEF TypeOK, PassLine
  <2> QED
    BY <1>4, <2>1 DEF TypeOK, PassLine, tetromino
<1>5. CASE Generate
  <2>1. \A s, n \in Nat : s % 100 = 0 => s + n * 100 \in Nat /\ (s + n * 100) % 100 = 0
    OBVIOUS
  <2>2. score' \in Nat /\ score' % 100 = 0
    BY <1>5, <2>1 DEF TypeOK, Generate
  <2>3. curr' \in Tetrominoes /\ curr_rotation' \in 0 .. 3 /\ curr_x' \in Int
            /\ curr_y' \in Nat /\ pc' \in {"play", "over"}
    BY <1>5, StartType DEF Generate, generate_tetromino
  <2> QED
    BY <1>5, <2>2, <2>3 DEF TypeOK, Generate
<1>6. CASE UNCHANGED vars
  BY <1>6 DEF TypeOK, vars, tetromino
<1> QED
  BY <1>1, <1>2, <1>3, <1>4, <1>5, <1>6 DEF Next, Frame

\* Types are kept: the tetromino never rises above line 0, check_lines walks
\* the lines of the arena and stops above it, cells stay in the arena.
THEOREM TypeInvariant == Spec => []TypeOK
  BY TypeInit, TypeStep, PTL DEF Spec

----------------------------------------------------------------------------
(* The tetromino in play *)

LEMMA FitsInit == Init => TetrominoFits
  BY StartType, AcceptedFits DEF Init, TetrominoFits

LEMMA FitsMoved ==
    ASSUME TypeOK, NEW rotation \in 0 .. 3, NEW cx \in Int, NEW cy \in Nat,
           Moved(rotation, cx, cy)
    PROVE  TetrominoFits'
<1>1. /\ Covered(curr, rotation, cx, cy) \subseteq Cells
      /\ Covered(curr, rotation, cx, cy) \cap arena = {}
  BY AcceptedFits DEF Moved
<1>2. curr' = curr /\ curr_rotation' = rotation /\ curr_x' = cx /\ curr_y' = cy
        /\ arena' = arena
  BY DEF Moved
<1> QED
  BY <1>1, <1>2 DEF TetrominoFits, Covered, Cells, Columns, Lines

LEMMA FitsStep == TypeOK /\ TetrominoFits /\ [Next]_vars => TetrominoFits'
<1> SUFFICES ASSUME TypeOK, TetrominoFits, [Next]_vars PROVE TetrominoFits'
  OBVIOUS
<1>1. CASE Keys \/ MoveDown
  <2>1. /\ curr_rotation \in 0 .. 3 /\ (curr_rotation + 1) % 4 \in 0 .. 3
        /\ curr_x \in Int /\ curr_x - 1 \in Int /\ curr_x + 1 \in Int
        /\ curr_y \in Nat /\ curr_y + 1 \in Nat
    BY DEF TypeOK
  <2> QED
    BY <1>1, <2>1, FitsMoved DEF Keys, KeyW, KeyA, KeyD, KeyS, MoveDown
<1>2. CASE PlaceToArena \/ RemoveLine \/ PassLine
  BY <1>2 DEF TetrominoFits, PlaceToArena, RemoveLine, PassLine
<1>3. CASE Generate
  <2> SUFFICES ASSUME pc' = "play"
               PROVE  /\ Covered(curr, curr_rotation, curr_x, curr_y)' \subseteq Cells
                      /\ Covered(curr, curr_rotation, curr_x, curr_y)' \cap arena' = {}
    BY DEF TetrominoFits
  <2>1. PICK t \in Tetrominoes : check_position(t, 0, Start, 0) /\ curr' = t
    BY <1>3 DEF Generate, generate_tetromino
  <2>2. /\ Covered(t, 0, Start, 0) \subseteq Cells
        /\ Covered(t, 0, Start, 0) \cap arena = {}
    BY <2>1, StartType, AcceptedFits
  <2>3. curr_rotation' = 0 /\ curr_x' = Start /\ curr_y' = 0 /\ arena' = arena
    BY <1>3 DEF Generate, generate_tetromino
  <2> QED
    BY <2>1, <2>2, <2>3 DEF Covered
<1>4. CASE UNCHANGED vars
  BY <1>4 DEF TetrominoFits, vars, tetromino, Covered
<1> QED
  BY <1>1, <1>2, <1>3, <1>4 DEF Next, Frame

\* Whatever the player presses, the tetromino in play is inside the arena
\* and on free cells, so that place_to_arena places it whole.
THEOREM TetrominoAlwaysFits == Spec => []TetrominoFits
  BY FitsInit, FitsStep, TypeInvariant, PTL DEF Spec

----------------------------------------------------------------------------
(* check_lines *)

LEMMA CellFacts ==
    ASSUME NEW c \in Cells
    PROVE  c = <<c[1], c[2]>> /\ c[1] \in Columns /\ c[2] \in Lines /\ c[1] \in Nat /\ c[2] \in Nat
  BY SizeAssumption DEF Cells, Columns, Lines

\* The full lines of the arena check_lines was called with, below a line.
FullBelow(l) == {line \in Lines : line > l /\ Full(landed, line)}

\* While check_lines walks up, the lines from y on up are those that were
\* count lines higher, as many as were full so far; the lines under y are
\* those that were not full, each moved down by the full ones below it.
Walk ==
    pc = "lines" =>
        /\ \A x \in Columns : \A l \in 0 .. y :
                <<x, l>> \in arena <=> <<x, l - count>> \in landed
        /\ count = Cardinality(FullBelow(y - count))
        /\ \A c \in landed : c[2] > y - count /\ ~ Full(landed, c[2]) =>
                /\ c[2] + Cardinality(FullBelow(c[2])) > y
                /\ <<c[1], c[2] + Cardinality(FullBelow(c[2]))>> \in arena
        /\ \A p \in arena : p[2] > y =>
                \E c \in landed :
                    /\ c[2] > y - count
                    /\ ~ Full(landed, c[2])
                    /\ p = <<c[1], c[2] + Cardinality(FullBelow(c[2]))>>

LEMMA FullBelowFinite ==
    ASSUME NEW l
    PROVE  IsFiniteSet(FullBelow(l)) /\ Cardinality(FullBelow(l)) \in Nat
<1>1. IsFiniteSet(Lines) /\ FullBelow(l) \in SUBSET Lines
  BY SizeAssumption, FS_Interval DEF Lines, FullBelow
<1>2. IsFiniteSet(FullBelow(l))
  BY <1>1, FS_Subset
<1> QED
  BY <1>2, FS_CardinalityType

\* The line that is looked at and the line of the arena check_lines was
\* called with are full together.
LEMMA SameLine ==
    ASSUME TypeOK, Walk, pc = "lines", y >= 0
    PROVE  /\ y \in Lines /\ y \in Nat /\ y - count \in Int
           /\ Full(arena, y) <=> Full(landed, y - count)
           /\ Full(landed, y - count) => y - count \in Lines
<1>1. y \in Nat /\ y \in Lines /\ count \in Nat /\ y - count \in Int
  BY SizeAssumption DEF TypeOK, Lines
<1>2. Full(arena, y) <=> Full(landed, y - count)
  <2>1. y \in 0 .. y
    BY <1>1
  <2>2. \A x \in Columns : <<x, y>> \in arena <=> <<x, y - count>> \in landed
    BY <2>1 DEF Walk
  <2> QED
    BY <2>2 DEF Full
<1>3. Full(landed, y - count) => y - count \in Lines
  <2>1. 0 \in Columns
    BY SizeAssumption DEF Columns
  <2>2. ASSUME Full(landed, y - count)
        PROVE  y - count \in Lines
    <3>1. <<0, y - count>> \in Cells
      BY <2>1, <2>2 DEF Full, TypeOK
    <3> QED
      BY <3>1 DEF Cells
  <2> QED
    BY <2>2
<1> QED
  BY <1>1, <1>2, <1>3

LEMMA WalkPlace ==
    ASSUME TypeOK, PlaceToArena
    PROVE  Walk'
<1>1. /\ landed' = arena' /\ y' = Height - 1 /\ count' = 0 /\ arena' \subseteq Cells
  BY DEF PlaceToArena, TypeOK
<1>2. \A c \in arena' : c = <<c[1], c[2]>> /\ c[2] \in Lines /\ c[2] \in Nat
  BY <1>1, CellFacts
<1>3. \A c \in arena' : ~ (c[2] > Height - 1)
  BY <1>2, SizeAssumption DEF Lines
<1>4. FullBelow(y - count)' = {}
  BY <1>1, SizeAssumption DEF FullBelow, Lines
<1>5. count' = Cardinality(FullBelow(y - count)')
  BY <1>1, <1>4, FS_EmptySet
<1>6. \A l \in 0 .. Height - 1 : l - 0 = l
  OBVIOUS
<1>7. Height - 1 - 0 = Height - 1
  BY SizeAssumption
<1> QED
  BY <1>1, <1>3, <1>5, <1>6, <1>7 DEF Walk

LEMMA WalkRemove ==
    ASSUME TypeOK, Walk, RemoveLine
    PROVE  Walk'
<1> DEFINE below(l) == Cardinality(FullBelow(l))
<1>1. /\ pc = "lines" /\ y >= 0 /\ Full(arena, y) /\ count' = count + 1 /\ y' = y /\ landed' = landed
      /\ arena' = {c \in arena : c[2] > y} \cup {<<c[1], c[2] + 1>> : c \in {d \in arena : d[2] < y}}
  BY DEF RemoveLine
<1>2. y \in Nat /\ count \in Nat /\ y - count \in Lines /\ Full(landed, y - count)
  BY <1>1, SameLine DEF TypeOK
<1>3. \A c \in arena : c = <<c[1], c[2]>> /\ c[1] \in Columns /\ c[2] \in Nat
  BY CellFacts DEF TypeOK
<1>4. \A c \in landed : c = <<c[1], c[2]>> /\ c[1] \in Columns /\ c[2] \in Nat
  BY CellFacts DEF TypeOK
<1>5. \A l : FullBelow(l)' = FullBelow(l)
  BY <1>1 DEF FullBelow, Full
<1>6. ASSUME NEW x \in Columns, NEW l \in 0 .. y
      PROVE  <<x, l>> \in arena' <=> <<x, l - (count + 1)>> \in landed
  <2>1. <<x, l>> \in arena' <=> <<x, l - 1>> \in arena
    BY <1>1, <1>2, <1>3
  <2>2. CASE l = 0
    <3>1. <<x, l - 1>> \notin arena
      BY <1>3, <2>2
    <3>2. <<x, l - (count + 1)>> \notin landed
      BY <1>2, <1>4, <2>2
    <3> QED
      BY <2>1, <3>1, <3>2
  <2>3. CASE l # 0
    <3>1. l - 1 \in 0 .. y /\ l - 1 - count = l - (count + 1)
      BY <1>2, <2>3
    <3>2. <<x, l - 1>> \in arena <=> <<x, l - 1 - count>> \in landed
      BY <1>1, <3>1 DEF Walk
    <3> QED
      BY <2>1, <3>1, <3>2
  <2> QED
    BY <2>2, <2>3
<1>7. count + 1 = below(y - (count + 1))
  <2>1. FullBelow(y - (count + 1)) = FullBelow(y - count) \cup {y - count}
    <3>1. \A line \in Lines : line > y - (count + 1) <=> line > y - count \/ line = y - count
      BY <1>2 DEF Lines
    <3> QED
      BY <1>2, <3>1 DEF FullBelow
  <2>2. y - count \notin FullBelow(y - count)
    BY <1>2 DEF FullBelow
  <2>3. count = below(y - count)
    BY <1>1 DEF Walk
  <2> QED
    BY <1>2, <2>1, <2>2, <2>3, FullBelowFinite, FS_AddElement
<1>8. ASSUME NEW c \in landed, c[2] > y - (count + 1), ~ Full(landed, c[2])
      PROVE  c[2] + below(c[2]) > y /\ <<c[1], c[2] + below(c[2])>> \in arena'
  <2>1. c[2] > y - count
    <3>1. c[2] # y - count
      BY <1>2, <1>8
    <3> QED
      BY <1>2, <1>4, <1>8, <3>1
  <2>2. c[2] + below(c[2]) > y /\ <<c[1], c[2] + below(c[2])>> \in arena
    BY <1>1, <1>8, <2>1 DEF Walk
  <2> QED
    BY <1>1, <2>2
<1>9. ASSUME NEW p \in arena', p[2] > y
      PROVE  \E c \in landed : c[2] > y - (count + 1) /\ ~ Full(landed, c[2])
                               /\ p = <<c[1], c[2] + below(c[2])>>
  <2>1. p \in arena
    <3>1. ASSUME NEW d \in arena, d[2] < y, p = <<d[1], d[2] + 1>>
          PROVE  FALSE
      BY <1>2, <1>3, <1>9, <3>1
    <3> QED
      BY <1>1, <3>1
  <2>2. PICK c \in landed : c[2] > y - count /\ ~ Full(landed, c[2])
                            /\ p = <<c[1], c[2] + below(c[2])>>
    BY <1>1, <1>9, <2>1 DEF Walk
  <2>3. c[2] > y - (count + 1)
    BY <1>2, <1>4, <2>2
  <2> QED
    BY <2>2, <2>3
<1>10. \A l : Full(landed, l)' <=> Full(landed, l)
  BY <1>1 DEF Full
<1> QED
  BY <1>1, <1>5, <1>6, <1>7, <1>8, <1>9, <1>10 DEF Walk

LEMMA WalkPass ==
    ASSUME TypeOK, Walk, PassLine
    PROVE  Walk'
<1> DEFINE below(l) == Cardinality(FullBelow(l))
<1>1. /\ pc = "lines" /\ y >= 0 /\ ~ Full(arena, y)
      /\ y' = y - 1 /\ count' = count /\ landed' = landed /\ arena' = arena
  BY DEF PassLine
<1>2. y \in Nat /\ count \in Nat /\ ~ Full(landed, y - count) /\ y - count \in Int
  BY <1>1, SameLine DEF TypeOK
<1>3. \A c \in arena : c = <<c[1], c[2]>> /\ c[1] \in Columns /\ c[2] \in Nat
  BY CellFacts DEF TypeOK
<1>4. \A c \in landed : c = <<c[1], c[2]>> /\ c[1] \in Columns /\ c[2] \in Nat
  BY CellFacts DEF TypeOK
<1>5. \A l : FullBelow(l)' = FullBelow(l)
  BY <1>1 DEF FullBelow, Full
<1>6. \A x \in Columns : \A l \in 0 .. y - 1 : <<x, l>> \in arena <=> <<x, l - count>> \in landed
  <2>1. 0 .. y - 1 \subseteq 0 .. y
    BY <1>2
  <2>2. \A x \in Columns : \A l \in 0 .. y : <<x, l>> \in arena <=> <<x, l - count>> \in landed
    BY <1>1 DEF Walk
  <2> QED
    BY <2>1, <2>2
<1>7. count = below(y - count) /\ below(y - 1 - count) = below(y - count)
  <2>1. \A line \in Lines : line > y - 1 - count <=> line > y - count \/ line = y - count
    BY <1>2 DEF Lines
  <2>2. FullBelow(y - 1 - count) = FullBelow(y - count)
    BY <1>2, <2>1 DEF FullBelow
  <2> QED
    BY <1>1, <2>2 DEF Walk
<1>8. ASSUME NEW c \in landed, c[2] > y - 1 - count, ~ Full(landed, c[2])
      PROVE  c[2] + below(c[2]) > y - 1 /\ <<c[1], c[2] + below(c[2])>> \in arena
  <2>1. below(c[2]) \in Nat /\ c[2] \in Nat
    BY <1>4, FullBelowFinite
  <2>2. CASE c[2] = y - count
    <3>1. c[2] + below(c[2]) = y /\ y - count = c[2]
      BY <1>2, <1>7, <2>1, <2>2
    <3>2. <<c[1], y - count>> \in landed /\ c[1] \in Columns
      BY <1>4, <2>2
    <3>3. <<c[1], y>> \in arena
      BY <1>1, <1>2, <3>2 DEF Walk
    <3> QED
      BY <1>2, <3>1, <3>3
  <2>3. CASE c[2] # y - count
    <3>1. c[2] > y - count
      BY <1>2, <1>8, <2>1, <2>3
    <3>2. c[2] + below(c[2]) > y /\ <<c[1], c[2] + below(c[2])>> \in arena
      BY <1>1, <1>8, <3>1 DEF Walk
    <3> QED
      BY <1>2, <2>1, <3>2
  <2> QED
    BY <2>2, <2>3
<1>9. ASSUME NEW p \in arena, p[2] > y - 1
      PROVE  \E c \in landed : c[2] > y - 1 - count /\ ~ Full(landed, c[2])
                               /\ p = <<c[1], c[2] + below(c[2])>>
  <2>1. CASE p[2] > y
    <3>1. PICK c \in landed : c[2] > y - count /\ ~ Full(landed, c[2])
                              /\ p = <<c[1], c[2] + below(c[2])>>
      BY <1>1, <2>1 DEF Walk
    <3>2. c[2] > y - 1 - count
      BY <1>2, <1>4, <3>1
    <3> QED
      BY <3>1, <3>2
  <2>2. CASE ~ (p[2] > y)
    <3>1. p = <<p[1], y>> /\ p[1] \in Columns
      <4>1. p[2] = y
        BY <1>2, <1>3, <1>9, <2>2
      <4> QED
        BY <1>3, <4>1
    <3> DEFINE c == <<p[1], y - count>>
    <3>2. c \in landed
      BY <1>1, <1>2, <3>1 DEF Walk
    <3>3. c[1] = p[1] /\ c[2] = y - count
      OBVIOUS
    <3> HIDE DEF c
    <3>4. c[2] > y - 1 - count /\ ~ Full(landed, c[2])
      BY <1>2, <3>3
    <3>5. c[2] + below(c[2]) = y
      BY <1>2, <1>7, <3>3
    <3> QED
      BY <3>1, <3>2, <3>3, <3>4, <3>5
  <2> QED
    BY <2>1, <2>2
<1>10. \A l : Full(landed, l)' <=> Full(landed, l)
  BY <1>1 DEF Full
<1> QED
  BY <1>1, <1>5, <1>6, <1>7, <1>8, <1>9, <1>10 DEF Walk

LEMMA WalkStep ==
    ASSUME TypeOK, Walk, [Next]_vars
    PROVE  Walk'
<1>1. CASE pc' # "lines"
  BY <1>1 DEF Walk
<1>2. CASE pc' = "lines" /\ (Keys \/ MoveDown \/ Generate)
  BY <1>2 DEF Keys, KeyW, KeyA, KeyD, KeyS, MoveDown, Moved, Generate, generate_tetromino
<1>3. CASE UNCHANGED vars
  <2>1. pc' = pc /\ y' = y /\ count' = count /\ arena' = arena /\ landed' = landed
    BY <1>3 DEF vars
  <2>2. \A l : FullBelow(l)' = FullBelow(l)
    BY <2>1 DEF FullBelow, Full
  <2>3. \A l : Full(landed, l)' <=> Full(landed, l)
    BY <2>1 DEF Full
  <2> QED
    BY <2>1, <2>2, <2>3 DEF Walk
<1> QED
  BY <1>1, <1>2, <1>3, WalkPlace, WalkRemove, WalkPass DEF Next, Frame

\* check_lines, which shifts the arena under its own walk, removes exactly the
\* full lines of any arena, wherever and however many they are.
THEOREM LinesRemoved == Spec => []LinesCollapsed
<1>1. Init => Walk
  BY DEF Init, Walk
<1>2. TypeOK /\ Walk /\ [Next]_vars => Walk'
  BY WalkStep
<1>3. TypeOK /\ Walk => LinesCollapsed
  <2> SUFFICES ASSUME TypeOK, Walk, pc = "lines", y < 0
               PROVE  arena = Collapsed(landed)
    BY DEF LinesCollapsed
  <2>1. y = -1 /\ count \in Nat
    BY SizeAssumption DEF TypeOK
  <2>2. \A c \in landed : c[2] \in Nat /\ c[2] > y - count
    BY <2>1, CellFacts DEF TypeOK
  <2>3. \A p \in arena : p[2] > y
    BY <2>1, CellFacts DEF TypeOK
  <2>4. arena \subseteq Collapsed(landed)
    BY <2>3 DEF Walk, Collapsed, FullBelow
  <2>5. Collapsed(landed) \subseteq arena
    BY <2>2 DEF Walk, Collapsed, FullBelow
  <2> QED
    BY <2>4, <2>5
<1> QED
  BY <1>1, <1>2, <1>3, TypeInvariant, PTL DEF Spec

----------------------------------------------------------------------------
(* Cells *)

\* A turned tetromino shows every index of its array at one place.
LEMMA RotateBijective ==
    ASSUME NEW rotation \in 0 .. 3
    PROVE  /\ \A i, j \in 0 .. 3 : rotate(rotation, i, j) \in 0 .. 15
           /\ \A i, j, k, l \in 0 .. 3 :
                 rotate(rotation, i, j) = rotate(rotation, k, l) => i = k /\ j = l
           /\ \A n \in 0 .. 15 : \E i, j \in 0 .. 3 : rotate(rotation, i, j) = n
<1>1. \A n \in 0 .. 15 : /\ n % 4 \in 0 .. 3 /\ n \div 4 \in 0 .. 3 /\ n = (n % 4) + 4 * (n \div 4)
                         /\ 3 - (n % 4) \in 0 .. 3 /\ 3 - (n \div 4) \in 0 .. 3
  OBVIOUS
<1>2. CASE rotation = 0
  <2>1. \A i, j : rotate(rotation, i, j) = i + 4 * j
    BY <1>2 DEF rotate
  <2>2. \A n \in 0 .. 15 : rotate(rotation, n % 4, n \div 4) = n
    BY <1>1, <2>1
  <2> QED
    BY <1>1, <2>1, <2>2
<1>3. CASE rotation = 1
  <2>1. \A i, j : rotate(rotation, i, j) = 12 + j - 4 * i
    BY <1>3 DEF rotate
  <2>2. \A n \in 0 .. 15 : rotate(rotation, 3 - (n \div 4), n % 4) = n
    BY <1>1, <2>1
  <2> QED
    BY <1>1, <2>1, <2>2
<1>4. CASE rotation = 2
  <2>1. \A i, j : rotate(rotation, i, j) = 15 - 4 * j - i
    BY <1>4 DEF rotate
  <2>2. \A n \in 0 .. 15 : rotate(rotation, 3 - (n % 4), 3 - (n \div 4)) = n
    BY <1>1, <2>1
  <2> QED
    BY <1>1, <2>1, <2>2
<1>5. CASE rotation = 3
  <2>1. \A i, j : rotate(rotation, i, j) = 3 - j + 4 * i
    BY <1>5 DEF rotate
  <2>2. \A n \in 0 .. 15 : rotate(rotation, n \div 4, 3 - (n % 4)) = n
    BY <1>1, <2>1
  <2> QED
    BY <1>1, <2>1, <2>2
<1> QED
  BY <1>2, <1>3, <1>4, <1>5

\* A tetromino covers four cells, however it is turned.
LEMMA FourCells ==
    ASSUME NEW t \in Tetrominoes, NEW rotation \in 0 .. 3, NEW cx \in Int, NEW cy \in Nat
    PROVE  IsFiniteSet(Covered(t, rotation, cx, cy)) /\ Cardinality(Covered(t, rotation, cx, cy)) = 4
<1> DEFINE C == Covered(t, rotation, cx, cy)
           D == {d \in (0 .. 3) \X (0 .. 3) : rotate(rotation, d[1], d[2]) \in t}
           f == [c \in C |-> rotate(rotation, c[1] - cx, c[2] - cy)]
<1>1. t \subseteq 0 .. 15 /\ Cardinality(t) = 4
  BY TetrominoAssumption
<1>2. C = {<<cx + d[1], cy + d[2]>> : d \in D}
  BY DEF Covered
<1>3. ASSUME NEW c \in C
      PROVE  /\ c = <<c[1], c[2]>> /\ c[1] \in Int /\ c[2] \in Int
             /\ c[1] - cx \in 0 .. 3 /\ c[2] - cy \in 0 .. 3
             /\ rotate(rotation, c[1] - cx, c[2] - cy) \in t
  <2>1. PICK d \in D : c = <<cx + d[1], cy + d[2]>>
    BY <1>2
  <2>2. d[1] \in 0 .. 3 /\ d[2] \in 0 .. 3 /\ rotate(rotation, d[1], d[2]) \in t
    OBVIOUS
  <2>3. c[1] = cx + d[1] /\ c[2] = cy + d[2]
    BY <2>1
  <2>4. c[1] - cx = d[1] /\ c[2] - cy = d[2]
    BY <2>2, <2>3
  <2> QED
    BY <2>1, <2>2, <2>3, <2>4
<1>4. f \in [C -> t]
  <2> HIDE DEF C
  <2> QED
    BY <1>3
<1>5. ASSUME NEW a \in C, NEW b \in C, f[a] = f[b]
      PROVE  a = b
  <2>1. rotate(rotation, a[1] - cx, a[2] - cy) = rotate(rotation, b[1] - cx, b[2] - cy)
    <3> HIDE DEF C
    <3> QED
      BY <1>5
  <2> HIDE DEF C, f
  <2>2. a[1] - cx = b[1] - cx /\ a[2] - cy = b[2] - cy
    BY <1>3, <2>1, RotateBijective
  <2>3. a[1] = b[1] /\ a[2] = b[2]
    BY <1>3, <2>2
  <2>4. a = <<a[1], a[2]>> /\ b = <<b[1], b[2]>>
    BY <1>3
  <2> QED
    BY <2>3, <2>4
<1>6. ASSUME NEW n \in t
      PROVE  \E c \in C : f[c] = n
  <2>1. PICK i \in 0 .. 3, j \in 0 .. 3 : rotate(rotation, i, j) = n
    BY <1>1, RotateBijective
  <2> DEFINE d == <<i, j>>
             c == <<cx + i, cy + j>>
  <2>2. d \in D /\ c = <<cx + d[1], cy + d[2]>>
    BY <2>1
  <2>3. c \in C
    BY <1>2, <2>2
  <2>4. c[1] - cx = i /\ c[2] - cy = j
    OBVIOUS
  <2>5. f[c] = n
    <3> HIDE DEF C, c
    <3> QED
      BY <2>1, <2>3, <2>4
  <2> HIDE DEF f, c
  <2> QED
    BY <2>3, <2>5
<1> HIDE DEF C, f
<1>7. f \in Bijection(C, t)
  BY <1>4, <1>5, <1>6, Fun_IsBij
<1>8. Inverse(f, C, t) \in Bijection(t, C)
  BY <1>7, Fun_BijInverse
<1>9. IsFiniteSet(t)
  <2>1. IsFiniteSet(0 .. 15)
    <3>1. 0 \in Int /\ 15 \in Int
      OBVIOUS
    <3> DEFINE n == 15
    <3>2. n \in Int
      OBVIOUS
    <3> HIDE DEF n
    <3>3. IsFiniteSet(0 .. n)
      BY <3>1, <3>2, FS_Interval
    <3> QED
      BY <3>3 DEF n
  <2> QED
    BY <1>1, <2>1, FS_Subset
<1>10. IsFiniteSet(C) /\ Cardinality(C) = 4
  BY <1>1, <1>8, <1>9, FS_Bijection DEF ExistsBijection
<1> QED
  BY <1>10 DEF C

LEMMA ArenaFinite ==
    ASSUME NEW S \in SUBSET Cells
    PROVE  IsFiniteSet(S) /\ Cardinality(S) \in Nat
<1>1. IsFiniteSet(Columns) /\ IsFiniteSet(Lines)
  BY SizeAssumption, FS_Interval DEF Columns, Lines
<1>2. IsFiniteSet(Cells)
  BY <1>1, FS_Product DEF Cells
<1>3. IsFiniteSet(S)
  BY <1>2, FS_Subset
<1> QED
  BY <1>3, FS_CardinalityType

\* Removing a full line takes away as many cells as the arena is wide.
LEMMA LineRemoved ==
    ASSUME TypeOK, RemoveLine
    PROVE  Cardinality(arena') = Cardinality(arena) - Width
<1> DEFINE B == Columns \X {y}
           S == arena \ B
           h == [c \in S |-> IF c[2] > y THEN c ELSE <<c[1], c[2] + 1>>]
<1>1. /\ y \in Lines /\ y \in Nat /\ Full(arena, y)
      /\ arena' = {c \in arena : c[2] > y} \cup {<<c[1], c[2] + 1>> : c \in {d \in arena : d[2] < y}}
  BY SizeAssumption DEF TypeOK, RemoveLine, Lines
<1>2. \A c \in arena : c = <<c[1], c[2]>> /\ c[1] \in Columns /\ c[1] \in Nat /\ c[2] \in Nat
  BY CellFacts DEF TypeOK
<1>3. IsFiniteSet(arena) /\ Cardinality(arena) \in Nat
  BY ArenaFinite DEF TypeOK
<1>4. IsFiniteSet(B) /\ Cardinality(B) = Width
  <2>1. IsFiniteSet(Columns) /\ Cardinality(Columns) = Width
    BY SizeAssumption, FS_Interval DEF Columns
  <2>2. IsFiniteSet({y}) /\ Cardinality({y}) = 1
    BY FS_Singleton
  <2>3. IsFiniteSet(B) /\ Cardinality(B) = Width * 1
    BY <2>1, <2>2, FS_Product
  <2> QED
    BY <2>3, SizeAssumption
<1>5. arena \cap B = B
  BY <1>1 DEF Full
<1>6. IsFiniteSet(S) /\ Cardinality(S) = Cardinality(arena) - Width
  <2> HIDE DEF B
  <2> QED
    BY <1>3, <1>4, <1>5, FS_Difference
<1>7. \A c \in S : c \in arena /\ c[2] # y
  BY <1>2
<1>8. \A c \in arena : c[2] # y => c \in S
  OBVIOUS
<1> HIDE DEF S
<1>9. ASSUME NEW c \in S
      PROVE  h[c] \in arena' /\ h[c] = <<c[1], IF c[2] > y THEN c[2] ELSE c[2] + 1>>
  BY <1>1, <1>2, <1>7
<1>10. ASSUME NEW a \in S, NEW b \in S, h[a] = h[b]
       PROVE  a = b
  <2> HIDE DEF h
  <2>1. /\ a[1] = b[1]
        /\ (IF a[2] > y THEN a[2] ELSE a[2] + 1) = (IF b[2] > y THEN b[2] ELSE b[2] + 1)
    BY <1>9, <1>10
  <2>2. a[2] = b[2]
    BY <1>1, <1>2, <1>7, <2>1
  <2>3. a = <<a[1], a[2]>> /\ b = <<b[1], b[2]>>
    BY <1>2, <1>7
  <2> QED
    BY <2>1, <2>2, <2>3
<1>11. ASSUME NEW p \in arena'
       PROVE  \E c \in S : h[c] = p
  <2>1. CASE p \in arena /\ p[2] > y
    <3>1. p \in S
      BY <1>1, <1>2, <1>8, <2>1
    <3> QED
      BY <2>1, <3>1
  <2>2. ASSUME NEW d \in arena, d[2] < y, p = <<d[1], d[2] + 1>>
        PROVE  \E c \in S : h[c] = p
    <3>1. d \in S /\ ~ (d[2] > y)
      BY <1>1, <1>2, <1>8, <2>2
    <3> QED
      BY <2>2, <3>1
  <2> QED
    BY <1>1, <2>1, <2>2
<1>12. h \in [S -> arena']
  BY <1>9
<1> HIDE DEF h
<1>13. h \in Bijection(S, arena')
  BY <1>10, <1>11, <1>12, Fun_IsBij
<1>14. Cardinality(arena') = Cardinality(S)
  BY <1>6, <1>13, FS_Bijection DEF ExistsBijection
<1> QED
  BY <1>6, <1>14

\* Lines are counted only while check_lines runs.
Idle == pc = "play" => count = 0

LEMMA IdleStep ==
    ASSUME Idle, [Next]_vars
    PROVE  Idle'
  BY DEF Idle, Next, Keys, Frame, KeyW, KeyA, KeyD, KeyS, MoveDown, Moved, PlaceToArena, RemoveLine,
         PassLine, Generate, generate_tetromino, vars

LEMMA CellsStep ==
    ASSUME TypeOK, TetrominoFits, Idle, CellsConserved, [Next]_vars
    PROVE  CellsConserved'
<1>1. Cardinality(arena) \in Nat /\ Width \in Nat /\ count \in Nat /\ score \in Nat /\ placed \in Nat
  BY ArenaFinite, SizeAssumption DEF TypeOK
<1>2. CASE PlaceToArena
  <2> DEFINE C == Covered(curr, curr_rotation, curr_x, curr_y)
  <2>1. C \subseteq Cells /\ C \cap arena = {} /\ IsFiniteSet(C) /\ Cardinality(C) = 4
    BY <1>2, FourCells DEF PlaceToArena, TetrominoFits, TypeOK
  <2>2. /\ arena' = arena \cup (C \cap Cells) /\ placed' = placed + 1
        /\ count' = 0 /\ score' = score
    BY <1>2 DEF PlaceToArena
  <2> HIDE DEF C
  <2>3. arena' = arena \cup C /\ arena \cap C = {}
    BY <2>1, <2>2
  <2>4. Cardinality(arena') = Cardinality(arena) + 4
    <3>1. IsFiniteSet(arena)
      BY ArenaFinite DEF TypeOK
    <3>2. Cardinality(arena \cup C) = Cardinality(arena) + 4 - Cardinality(arena \cap C)
      BY <2>1, <3>1, FS_Union
    <3>3. Cardinality(arena \cap C) = 0
      BY <2>3, FS_EmptySet
    <3> QED
      BY <1>1, <2>3, <3>2, <3>3
  <2>5. count = 0
    BY <1>2 DEF Idle, PlaceToArena
  <2> DEFINE w == Width * (score \div 100 + 0)
  <2>6. w \in Int
    BY <1>1
  <2>7. Cardinality(arena) + w = 4 * placed
    BY <2>5 DEF CellsConserved
  <2>8. CellsConserved' <=> Cardinality(arena') + w = 4 * (placed + 1)
    BY <2>2 DEF CellsConserved
  <2> HIDE DEF w
  <2> QED
    BY <1>1, <2>4, <2>6, <2>7, <2>8
<1>3. CASE RemoveLine
  <2>1. Cardinality(arena') = Cardinality(arena) - Width
    BY <1>3, LineRemoved
  <2>2. count' = count + 1 /\ score' = score /\ placed' = placed
    BY <1>3 DEF RemoveLine
  <2>3. score \div 100 \in Nat
    BY <1>1
  <2>4. Width * (score \div 100 + (count + 1)) = Width * (score \div 100 + count) + Width
    BY <1>1, <2>3
  <2> QED
    BY <1>1, <2>1, <2>2, <2>4 DEF CellsConserved
<1>4. CASE Generate
  <2>1. score' = score + count * 100 /\ count' = 0 /\ arena' = arena /\ placed' = placed
    BY <1>4 DEF Generate
  <2>2. (score + count * 100) \div 100 = score \div 100 + count
    BY <1>1
  <2>3. score' \div 100 + count' = score \div 100 + count
    BY <1>1, <2>1, <2>2
  <2> QED
    BY <2>1, <2>3 DEF CellsConserved
<1>5. CASE Keys \/ MoveDown \/ PassLine \/ UNCHANGED vars
  BY <1>5
  DEF CellsConserved, Keys, KeyW, KeyA, KeyD, KeyS, MoveDown, Moved, PassLine, vars
<1> QED
  BY <1>2, <1>3, <1>4, <1>5 DEF Next, Frame

\* Placing fills four cells, a removed line takes Width of them and is paid
\* for: no cell appears or gets lost in a game of any length.
THEOREM NoCellLost == Spec => []CellsConserved
<1>1. Init => CellsConserved
  <2>1. Width * (0 \div 100 + 0) = 0
    BY SizeAssumption
  <2> QED
    BY <2>1, FS_EmptySet DEF Init, CellsConserved
<1>2. Init => Idle
  BY DEF Init, Idle
<1>3. Idle /\ [Next]_vars => Idle'
  BY IdleStep
<1>4. TypeOK /\ TetrominoFits /\ Idle /\ CellsConserved /\ [Next]_vars => CellsConserved'
  BY CellsStep
<1> QED
  BY <1>1, <1>2, <1>3, <1>4, TypeInvariant, TetrominoAlwaysFits, PTL DEF Spec
=============================================================================
