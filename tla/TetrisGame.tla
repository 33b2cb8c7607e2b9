----------------------------- MODULE TetrisGame -----------------------------
(***************************************************************************)
(* A game of tetris-app/main.c, from start to game over: the keys move the *)
(* piece, the clock lets it fall, a piece that cannot fall joins the pile, *)
(* complete lines are removed.  The field is counted in cells of 8 columns *)
(* (MOVE_X): a byte 0x7e in column 1 of a cell is what the code looks for, *)
(* and every cell of mino_shape that is not blank has one.  x is the       *)
(* direction of the fall, y the one across.                                *)
(***************************************************************************)
EXTENDS Integers, FiniteSets

CONSTANTS Height,   \* FIELD_HEIGHT: the cells of a line
          Depth,    \* (FIELD_WIDTH - 8) / MOVE_X: the lines
          SpawnY,   \* where a piece appears
          Types,    \* the piece types that are drawn, of 0..MINO_TYPE_MAX-1
          MaxPieces \* bound: the pieces of a game that are followed

ASSUME GameAssumption ==
  /\ Height \in Nat /\ Depth \in Nat /\ SpawnY \in Nat
  /\ Depth >= 4 /\ SpawnY + 4 <= Height
  /\ Types \subseteq 0..8 /\ MaxPieces \in Nat \ {0}

-----------------------------------------------------------------------------
(* The pieces: for each angle, the columns that are set in its four rows   *)

Mino(r0, r1, r2, r3) ==
  ({0} \X r0) \cup ({1} \X r1) \cup ({2} \X r2) \cup ({3} \X r3)

MINO_TYPE_I == <<Mino({}, 0..3, {}, {}), Mino({2}, {2}, {2}, {2}),
                 Mino({}, {}, 0..3, {}), Mino({1}, {1}, {1}, {1})>>
MINO_TYPE_O == [a \in 1..4 |-> Mino({}, {1, 2}, {1, 2}, {})]
\* The fourth row of S at 270 degrees is missing in the table: C makes it blank.
MINO_TYPE_S == <<Mino({2}, {1, 2}, {1}, {}), Mino({}, {0, 1}, {1, 2}, {}),
                 Mino({2}, {1, 2}, {1}, {}), Mino({}, {0, 1}, {1, 2}, {})>>
MINO_TYPE_Z == <<Mino({1}, {1, 2}, {2}, {}), Mino({}, {2, 3}, {1, 2}, {}),
                 Mino({1}, {1, 2}, {2}, {}), Mino({}, {2, 3}, {1, 2}, {})>>
MINO_TYPE_J == <<Mino({}, {2}, 0..2, {}), Mino({1}, {1}, {1, 2}, {}),
                 Mino({}, 0..2, {0}, {}), Mino({1, 2}, {2}, {2}, {})>>
MINO_TYPE_L == <<Mino({}, 0..2, {2}, {}), Mino({}, {2}, {2}, {1, 2}),
                 Mino({}, {0}, 0..2, {}), Mino({}, {1, 2}, {1}, {1})>>
MINO_TYPE_T == <<Mino({1}, {1, 2}, {1}, {}), Mino({}, 0..2, {1}, {}),
                 Mino({1}, {0, 1}, {1}, {}), Mino({1}, 0..2, {}, {})>>
MINO_TYPE_O_EASY == [a \in 1..4 |-> Mino({1}, {}, {}, {})]
MINO_TYPE_I_EASY == <<Mino({}, {1, 2}, {}, {}), Mino({}, {2}, {2}, {}),
                      Mino({}, {}, {1, 2}, {}), Mino({}, {1}, {1}, {})>>

mino_shape == <<MINO_TYPE_I, MINO_TYPE_O, MINO_TYPE_S, MINO_TYPE_Z, MINO_TYPE_J,
                MINO_TYPE_L, MINO_TYPE_T, MINO_TYPE_O_EASY, MINO_TYPE_I_EASY>>

-----------------------------------------------------------------------------
VARIABLES field,              \* the cells <<y, x>> of the pile
          mino,               \* position, type and angle of the piece
          score,
          state,              \* "fall", "scan" (a piece has landed) or "over"
          line,               \* the line the scan looks at next
          num_of_line_filled,
          is_game_over,
          memory,             \* "ok" until the scan writes behind the field
          expected,           \* history: cells put down less cells removed
          pieces              \* how many pieces have appeared in this game

vars == <<field, mino, score, state, line, num_of_line_filled, is_game_over, memory, expected, pieces>>
landing == <<line, num_of_line_filled, is_game_over>>

Cells == (0..Height-1) \X (0..Depth-1)

\* The cells the piece m covers.
Covered(m) == {<<m.y + c[1], m.x + c[2]>> : c \in mino_shape[m.type + 1][m.angle + 1]}

\* Cells that are blank in the shape are compared with whatever is there,
\* inside the field or not, and never hit.
is_hit(m) == \E c \in Covered(m) : c \notin Cells \/ c \in field

\* Random type and angle.
reset_mino(m) ==
  \E t \in Types, a \in 0..3 : m = [x |-> 0, y |-> SpawnY, type |-> t, angle |-> a]

Init ==
  /\ field = {} /\ reset_mino(mino)
  /\ score = 0 /\ state = "fall"
  /\ line = 0 /\ num_of_line_filled = 0 /\ is_game_over = FALSE
  /\ memory = "ok" /\ expected = 0 /\ pieces = 1

-----------------------------------------------------------------------------
(* The keys                                                                *)

Left  == [mino EXCEPT !.y = mino.y + 1]
Right == [mino EXCEPT !.y = mino.y - 1]
Down  == [mino EXCEPT !.x = mino.x + 1]

Turned == [mino EXCEPT !.angle = (mino.angle + 1) % 4]

\* The keys l, r, d and u: the move is made unless it hits something.
Moved(next) ==
  /\ state = "fall" /\ ~is_hit(next)
  /\ mino' = next
  /\ UNCHANGED <<field, score, state, landing, memory, expected, pieces>>

\* The key f: fall as long as nothing is hit.
HardDrop ==
  /\ state = "fall"
  /\ \E d \in 0..Depth :
       /\ \A k \in 1..d : ~is_hit([mino EXCEPT !.x = mino.x + k])
       /\ d < Depth => is_hit([mino EXCEPT !.x = mino.x + d + 1])
       /\ mino' = [mino EXCEPT !.x = mino.x + d]
  /\ UNCHANGED <<field, score, state, landing, memory, expected, pieces>>

Key == Moved(Left) \/ Moved(Right) \/ Moved(Down) \/ Moved(Turned) \/ HardDrop

-----------------------------------------------------------------------------
(* The clock                                                               *)

\* The interval has passed and nothing is below: the piece falls, even one
\* that overlaps the pile.
Fall ==
  /\ state = "fall" /\ ~is_hit(Down)
  /\ mino' = Down
  /\ UNCHANGED <<field, score, state, landing, memory, expected, pieces>>

\* A plausible bug: a piece that overlaps the pile does not land.
Mutant_Land ==
  /\ state = "fall" /\ is_hit(Down) /\ ~is_hit(mino)
  /\ field' = field \cup Covered(mino)
  /\ expected' = expected + Cardinality(Covered(mino))
  /\ is_game_over' = FALSE
  /\ state' = "scan" /\ line' = 0 /\ num_of_line_filled' = 0
  /\ UNCHANGED <<mino, score, memory, pieces>>

\* A plausible bug: that the piece overlaps the pile is not noticed.
Mutant_Land3 ==
  /\ state = "fall" /\ is_hit(Down)
  /\ field' = field \cup Covered(mino)
  /\ expected' = expected + Cardinality(Covered(mino))
  /\ is_game_over' = FALSE
  /\ state' = "scan" /\ line' = 0 /\ num_of_line_filled' = 0
  /\ UNCHANGED <<mino, score, memory, pieces>>

\* The interval has passed and the piece cannot fall: it joins the pile.
Land ==
  /\ state = "fall" /\ is_hit(Down)
  /\ field' = field \cup Covered(mino)
  /\ expected' = expected + Cardinality(Covered(mino))
  /\ is_game_over' = is_hit(mino)
  /\ state' = "scan" /\ line' = 0 /\ num_of_line_filled' = 0
  /\ UNCHANGED <<mino, score, memory, pieces>>

Complete(i) == \A y \in 0..Height-1 : <<y, i>> \in field

\* Every line above i moves down by one; the uppermost one is left as it is.
ShiftDown(i) == {c \in field : c[2] > i \/ c[2] = 0}
                  \cup {<<c[1], c[2] + 1>> : c \in {d \in field : d[2] < i}}

\* A plausible bug: the line is counted but the pile does not move.
Mutant_ScanLine ==
  /\ state = "scan" /\ line < Depth
  /\ num_of_line_filled' = num_of_line_filled + (IF Complete(line) THEN 1 ELSE 0)
  /\ line' = line + 1
  /\ UNCHANGED <<field, mino, score, state, is_game_over, memory, expected, pieces>>

\* One turn of the loop over the lines.
ScanLine ==
  /\ state = "scan" /\ line < Depth
  /\ line' = line + 1
  /\ \/ /\ Complete(line)
        /\ num_of_line_filled' = num_of_line_filled + 1
        /\ field' = ShiftDown(line)
        /\ expected' = expected - Height
     \/ /\ ~Complete(line)
        /\ UNCHANGED <<field, num_of_line_filled, expected>>
  /\ UNCHANGED <<mino, score, state, is_game_over, memory, pieces>>

\* The last turn is one too many: behind the end of each row it reads the first
\* cell of the next one, and behind the last row any byte.  A line it takes
\* for complete is shifted, the last cell behind the end of the array.
ScanBehindField ==
  /\ state = "scan" /\ line = Depth
  /\ line' = line + 1
  /\ memory' \in IF \A y \in 1..Height-1 : <<y, 0>> \in field
                 THEN {memory, "overrun"} ELSE {memory}
  /\ UNCHANGED <<field, mino, score, state, num_of_line_filled, is_game_over, expected, pieces>>

\* A cell of the pile in the uppermost line.
Topped == \E y \in 0..Height-1 : <<y, 0>> \in field

Bonus(n) == CASE n = 1 -> 90 [] n = 2 -> 390 [] n = 3 -> 690 [] n = 4 -> 990 [] OTHER -> 0

\* The score is saved without the piece that ends the game.
GameOver ==
  /\ state = "scan" /\ line = Depth + 1 /\ (is_game_over \/ Topped)
  /\ state' = "over" /\ is_game_over' = TRUE
  /\ UNCHANGED <<field, mino, score, line, num_of_line_filled, memory, expected, pieces>>

\* A plausible bug: the uppermost line is not looked at.
Mutant_NextPiece ==
  /\ state = "scan" /\ line = Depth + 1 /\ ~is_game_over
  /\ pieces < MaxPieces /\ pieces' = pieces + 1
  /\ score' = score + 10 + Bonus(num_of_line_filled)
  /\ reset_mino(mino')
  /\ state' = "fall"
  /\ UNCHANGED <<field, landing, memory, expected>>

NextPiece ==
  /\ state = "scan" /\ line = Depth + 1 /\ ~(is_game_over \/ Topped)
  /\ pieces < MaxPieces /\ pieces' = pieces + 1
  /\ score' = score + 10 + Bonus(num_of_line_filled)
  /\ reset_mino(mino')
  /\ state' = "fall"
  /\ UNCHANGED <<field, landing, memory, expected>>

\* The key f on the game over screen.
start ==
  /\ state = "over"
  /\ score' = 0 /\ field' = {} /\ expected' = 0 /\ pieces' = 1
  /\ reset_mino(mino')
  /\ state' = "fall"
  /\ UNCHANGED <<landing, memory>>

Clock == Fall \/ Land \/ ScanLine \/ ScanBehindField \/ GameOver \/ NextPiece

Next == Key \/ Clock \/ start

Spec == Init /\ [][Next]_vars

\* The loop polls the keys and never waits for one, so the interval passes
\* whatever the player does.
FairSpec == Spec /\ WF_vars(Clock)

-----------------------------------------------------------------------------
GameTypeOK ==
  /\ field \subseteq Cells
  /\ mino \in [x : 0..Depth-1, y : -3..Height-1, type : Types, angle : 0..3]
  /\ score \in Nat /\ expected \in Nat /\ pieces \in 1..MaxPieces
  /\ state \in {"fall", "scan", "over"} /\ line \in 0..Depth+1
  /\ num_of_line_filled \in 0..Depth /\ is_game_over \in BOOLEAN
  /\ memory \in {"ok", "overrun"}

\* While a piece falls no line of the pile is complete and the uppermost line,
\* which a shift cannot empty, has no cell: what the scan and the game over
\* test of the landing before must have ensured.
LinesCleared == state = "fall" => (\A i \in 0..Depth-1 : ~Complete(i)) /\ ~Topped

\* A falling piece is inside the field, and overlaps the pile only where it
\* appeared: a key or the clock never moves it into the pile.
PieceFits ==
  state = "fall" =>
    /\ Covered(mino) \subseteq Cells
    /\ Covered(mino) \cap field # {} => mino.x = 0 /\ mino.y = SpawnY

\* While the game goes on the pile holds every cell that was put down except
\* those of the lines removed: no landing buries a cell of another piece, and
\* no shift doubles or loses one.
CellsConserved == state = "fall" => Cardinality(field) = expected

\* The loop that looks one line too far never takes it for complete, so
\* nothing behind the field is written.
ScanStaysInside == memory = "ok"

\* No landing completes more lines than the score has a reward for.
LinesRewarded == num_of_line_filled <= 4

\* The field and the piece while the game goes on: complete lines are gone, the
\* piece is inside the field and off the pile, and the score knew the lines.
FieldInv == GameTypeOK /\ LinesCleared /\ PieceFits /\ LinesRewarded

\* Whatever keys are pressed, every piece lands.
PieceLands == (state = "fall") ~> (state # "fall")

=============================================================================
