-------------------------- MODULE TetrisGameProofs --------------------------
(***************************************************************************)
(* Proofs about a game for every size of the field and every choice of     *)
(* pieces.                                                                 *)
(***************************************************************************)
EXTENDS TetrisGame, FiniteSetTheorems, TLAPS

-----------------------------------------------------------------------------
(* The invariant                                                           *)

\* The cells of the pile without the copies of the uppermost line, which every
\* shift leaves behind in the line below it.
Real == {c \in field : c[2] = 0 \/ c[2] > num_of_line_filled}

GameTypes ==
  /\ field \subseteq Cells
  /\ mino \in [x : 0..Depth-1, y : -3..Height-1, type : Types, angle : 0..3]
  /\ score \in Nat /\ expected \in Int /\ pieces \in 1..MaxPieces
  /\ state \in {"fall", "scan", "over"} /\ line \in 0..Depth+1
  /\ num_of_line_filled \in 0..Depth /\ num_of_line_filled <= 4
  /\ is_game_over \in BOOLEAN

\* Before a landing no line is complete, the piece has come to where it is
\* without touching the pile, and every cell is accounted for.
Falling == state = "fall" => LinesCleared /\ PieceFits /\ Cardinality(field) = expected

\* While the lines are scanned: the uppermost one has at most two cells, of the
\* piece that has landed; those behind are not complete; those ahead that are
\* contain a cell of the piece, so that there are four at most.
Scanning ==
  state = "scan" =>
    /\ \A y \in Int : <<y, 0>> \in field => y \in {mino.y + 1, mino.y + 2}
    /\ \A i \in 0..Depth-1 : i < line => ~Complete(i)
    /\ \A i \in 0..Depth-1 : i >= line /\ Complete(i) => mino.x <= i /\ i <= mino.x + 3
    /\ \/ num_of_line_filled = 0
       \/ num_of_line_filled <= line - mino.x /\ num_of_line_filled < line

\* From the landing on: the lines that were shifted in are copies of the
\* uppermost one, and without them the cells are what was put down less what
\* was removed, unless the last piece covered cells of the pile.
Counting ==
  state # "fall" =>
    /\ \A c \in field : c[2] <= num_of_line_filled => <<c[1], 0>> \in field
    /\ Cardinality(Real) <= expected
    /\ ~is_game_over => Cardinality(Real) = expected

GameInd == GameTypes /\ Falling /\ Scanning /\ Counting /\ ScanStaysInside

-----------------------------------------------------------------------------
(* The pieces                                                              *)

\* A shape is in its four by four cells, has at least one, and has cells in its
\* first column only in the two rows in the middle.
ShapeOK(s) ==
  /\ s # {}
  /\ \A c \in s : c[1] \in 0..3 /\ c[2] \in 0..3 /\ (c[2] = 0 => c[1] \in {1, 2})

\* Mino builds such a shape from rows of which the outer two do not begin at
\* the first column.
LEMMA MinoOK ==
  ASSUME NEW r0, NEW r1, NEW r2, NEW r3, r0 \subseteq 1..3, r1 \subseteq 0..3,
         r2 \subseteq 0..3, r3 \subseteq 1..3, r0 # {} \/ r1 # {} \/ r2 # {}
  PROVE  ShapeOK(Mino(r0, r1, r2, r3))
<1> DEFINE s == Mino(r0, r1, r2, r3)
<1>1. ASSUME NEW c \in s
      PROVE  c[1] \in 0..3 /\ c[2] \in 0..3 /\ (c[2] = 0 => c[1] \in {1, 2})
  <2> DEFINE Good(p, q) == p \in 0..3 /\ q \in 0..3 /\ (q = 0 => p \in {1, 2})
  <2>1. CASE c \in {0} \X r0
    <3>1. c[1] = 0 /\ c[2] \in r0
      BY <2>1
    <3>2. \A q \in r0 : Good(0, q)
      OBVIOUS
    <3> HIDE DEF Good
    <3>3. Good(c[1], c[2])
      BY <3>1, <3>2, Zenon
    <3> QED
      BY <3>3 DEF Good
  <2>2. CASE c \in {1} \X r1
    <3>1. c[1] = 1 /\ c[2] \in r1
      BY <2>2
    <3>2. \A q \in r1 : Good(1, q)
      OBVIOUS
    <3> HIDE DEF Good
    <3>3. Good(c[1], c[2])
      BY <3>1, <3>2, Zenon
    <3> QED
      BY <3>3 DEF Good
  <2>3. CASE c \in {2} \X r2
    <3>1. c[1] = 2 /\ c[2] \in r2
      BY <2>3
    <3>2. \A q \in r2 : Good(2, q)
      OBVIOUS
    <3> HIDE DEF Good
    <3>3. Good(c[1], c[2])
      BY <3>1, <3>2, Zenon
    <3> QED
      BY <3>3 DEF Good
  <2>4. CASE c \in {3} \X r3
    <3>1. c[1] = 3 /\ c[2] \in r3
      BY <2>4
    <3>2. \A q \in r3 : Good(3, q)
      OBVIOUS
    <3> HIDE DEF Good
    <3>3. Good(c[1], c[2])
      BY <3>1, <3>2, Zenon
    <3> QED
      BY <3>3 DEF Good
  <2> QED
    BY <2>1, <2>2, <2>3, <2>4 DEF Mino
<1>2. s # {}
  <2>1. ASSUME NEW k \in r0 PROVE <<0, k>> \in s
    <3>1. <<0, k>> \in {0} \X r0
      OBVIOUS
    <3> QED
      BY <3>1 DEF Mino
  <2>2. ASSUME NEW k \in r1 PROVE <<1, k>> \in s
    <3>1. <<1, k>> \in {1} \X r1
      OBVIOUS
    <3> QED
      BY <3>1 DEF Mino
  <2>3. ASSUME NEW k \in r2 PROVE <<2, k>> \in s
    <3>1. <<2, k>> \in {2} \X r2
      OBVIOUS
    <3> QED
      BY <3>1 DEF Mino
  <2> HIDE DEF s
  <2> QED
    BY <2>1, <2>2, <2>3
<1> HIDE DEF s
<1>3. ShapeOK(s)
  BY <1>1, <1>2 DEF ShapeOK
<1> QED
  BY <1>3 DEF s

\* All shapes of the table are such shapes.
LEMMA ShapesOK ==
  ASSUME NEW t \in 0..8, NEW a \in 0..3
  PROVE  ShapeOK(mino_shape[t + 1][a + 1])
<1>1. \A n \in 1..4 : ShapeOK(MINO_TYPE_I[n])
  BY MinoOK DEF MINO_TYPE_I
<1>2. \A n \in 1..4 : ShapeOK(MINO_TYPE_O[n])
  BY MinoOK DEF MINO_TYPE_O
<1>3. \A n \in 1..4 : ShapeOK(MINO_TYPE_S[n])
  BY MinoOK DEF MINO_TYPE_S
<1>4. \A n \in 1..4 : ShapeOK(MINO_TYPE_Z[n])
  BY MinoOK DEF MINO_TYPE_Z
<1>5. \A n \in 1..4 : ShapeOK(MINO_TYPE_J[n])
  BY MinoOK DEF MINO_TYPE_J
<1>6. \A n \in 1..4 : ShapeOK(MINO_TYPE_L[n])
  BY MinoOK DEF MINO_TYPE_L
<1>7. \A n \in 1..4 : ShapeOK(MINO_TYPE_T[n])
  BY MinoOK DEF MINO_TYPE_T
<1>8. \A n \in 1..4 : ShapeOK(MINO_TYPE_O_EASY[n])
  BY MinoOK DEF MINO_TYPE_O_EASY
<1>9. \A n \in 1..4 : ShapeOK(MINO_TYPE_I_EASY[n])
  BY MinoOK DEF MINO_TYPE_I_EASY
<1>10. t + 1 \in 1..9 /\ a + 1 \in 1..4
  OBVIOUS
<1> QED
  BY <1>1, <1>2, <1>3, <1>4, <1>5, <1>6, <1>7, <1>8, <1>9, <1>10 DEF mino_shape

Minos == [x : Int, y : Int, type : Types, angle : 0..3]

\* The cells a piece covers, seen from its position.
LEMMA CoveredCells ==
  ASSUME NEW m \in Minos
  PROVE  /\ \A c \in Covered(m) : \E p, q \in 0..3 :
              c = <<m.y + p, m.x + q>> /\ (q = 0 => p \in {1, 2})
         /\ Covered(m) # {}
<1> DEFINE s == mino_shape[m.type + 1][m.angle + 1]
<1>1. ShapeOK(s)
  BY ShapesOK, GameAssumption DEF Minos
<1>2. Covered(m) = {<<m.y + c[1], m.x + c[2]>> : c \in s}
  BY DEF Covered
<1> HIDE DEF s
<1>3. \A c \in s : c[1] \in 0..3 /\ c[2] \in 0..3 /\ (c[2] = 0 => c[1] \in {1, 2})
  BY <1>1 DEF ShapeOK
<1>4. s # {}
  BY <1>1 DEF ShapeOK
<1> QED
  BY <1>2, <1>3, <1>4, Zenon

\* The field is finite, and so is a piece in it.
LEMMA CellsFinite ==
  /\ IsFiniteSet(Cells)
  /\ \A S \in SUBSET Cells : IsFiniteSet(S) /\ Cardinality(S) \in Nat
<1>1. IsFiniteSet(0..Height-1) /\ IsFiniteSet(0..Depth-1)
  BY GameAssumption, FS_Interval
<1>2. IsFiniteSet(Cells)
  BY <1>1, FS_Product DEF Cells
<1> QED
  BY <1>2, FS_Subset, FS_CardinalityType

\* A piece that hits nothing is where GameTypes wants it.
LEMMA PieceInside ==
  ASSUME NEW m \in Minos, Covered(m) \subseteq Cells, m.x >= 0
  PROVE  m.x \in 0..Depth-1 /\ m.y \in -3..Height-1
<1>1. PICK c \in Covered(m) : TRUE
  BY CoveredCells
<1>2. PICK p \in 0..3, q \in 0..3 : c = <<m.y + p, m.x + q>>
  BY CoveredCells
<1>3. m.x \in Int /\ m.y \in Int
  BY DEF Minos
<1>4. m.y + p \in 0..Height-1 /\ m.x + q \in 0..Depth-1
  BY <1>2 DEF Cells
<1> QED
  BY <1>2, <1>3, <1>4, GameAssumption

\* A piece that appears is inside the field, at its upper edge.
LEMMA ResetInside ==
  ASSUME NEW m, reset_mino(m)
  PROVE  /\ m \in Minos /\ m.x = 0 /\ m.y = SpawnY /\ Covered(m) \subseteq Cells
<1>1. m \in Minos /\ m.x = 0 /\ m.y = SpawnY
  BY GameAssumption DEF reset_mino, Minos
<1>2. ASSUME NEW c \in Covered(m) PROVE c \in Cells
  <2>1. PICK p \in 0..3, q \in 0..3 : c = <<m.y + p, m.x + q>>
    BY <1>1, CoveredCells
  <2>2. m.y + p \in 0..Height-1 /\ m.x + q \in 0..Depth-1
    BY <1>1, GameAssumption
  <2> QED
    BY <2>1, <2>2 DEF Cells
<1> QED
  BY <1>1, <1>2

-----------------------------------------------------------------------------
(* The steps                                                               *)

\* A move keeps the invariant: of a key or of the clock.
LEMMA MoveInd ==
  ASSUME GameInd, state = "fall", NEW m \in Minos, m.x >= 0, m = mino \/ ~is_hit(m),
         mino' = m, UNCHANGED <<field, score, state, landing, memory, expected, pieces>>
  PROVE  GameInd'
<1>1. PieceFits /\ LinesCleared /\ Cardinality(field) = expected
  BY DEF GameInd, Falling
<1>2. Covered(m) \subseteq Cells /\ (Covered(m) \cap field # {} => m.x = 0 /\ m.y = SpawnY)
  <2>1. CASE m = mino
    BY <1>1, <2>1 DEF PieceFits
  <2>2. CASE ~is_hit(m)
    BY <2>2 DEF is_hit
  <2> QED
    BY <2>1, <2>2
<1>3. PieceFits'
  BY <1>2 DEF PieceFits
<1>4. LinesCleared' /\ Cardinality(field)' = expected'
  BY <1>1 DEF LinesCleared, Complete, Topped
<1>5. GameTypes'
  <2>1. m.x \in 0..Depth-1 /\ m.y \in -3..Height-1
    BY <1>2, PieceInside
  <2>2. mino' \in [x : 0..Depth-1, y : -3..Height-1, type : Types, angle : 0..3]
    BY <2>1 DEF Minos
  <2> QED
    BY <2>2 DEF GameInd, GameTypes, landing
<1>6. Scanning' /\ Counting' /\ ScanStaysInside'
  BY DEF GameInd, Scanning, Counting, ScanStaysInside
<1> QED
  BY <1>3, <1>4, <1>5, <1>6 DEF GameInd, Falling

\* The keys, and the clock while nothing is below.
LEMMA MovesInd ==
  ASSUME GameInd, Key \/ Fall
  PROVE  GameInd'
<1>1. /\ mino \in Minos /\ mino.x \in 0..Depth-1 /\ mino.y \in -3..Height-1
      /\ mino.angle \in 0..3 /\ mino.type \in Types
  BY GameAssumption DEF GameInd, GameTypes, Minos
<1>2. ASSUME NEW k \in Nat
      PROVE  [mino EXCEPT !.x = mino.x + k] \in Minos /\ [mino EXCEPT !.x = mino.x + k].x >= 0
  BY <1>1, GameAssumption DEF Minos
<1>3. CASE Moved(Left)
  <2>1. Left \in Minos /\ Left.x >= 0
    BY <1>1, GameAssumption DEF Left, Minos
  <2> QED
    BY <1>3, <2>1, MoveInd DEF Moved
<1>4. CASE Moved(Right)
  <2>1. Right \in Minos /\ Right.x >= 0
    BY <1>1, GameAssumption DEF Right, Minos
  <2> QED
    BY <1>4, <2>1, MoveInd DEF Moved
<1>5. CASE Moved(Down) \/ Fall
  <2>1. Down \in Minos /\ Down.x >= 0
    BY <1>2 DEF Down
  <2> QED
    BY <1>5, <2>1, MoveInd DEF Moved, Fall
<1>6. CASE Moved(Turned)
  <2>1. Turned \in Minos /\ Turned.x >= 0
    <3>1. (mino.angle + 1) % 4 \in 0..3
      BY <1>1
    <3> QED
      BY <1>1, <3>1, GameAssumption DEF Turned, Minos
  <2> QED
    BY <1>6, <2>1, MoveInd DEF Moved
<1>7. CASE HardDrop
  <2>1. PICK d \in 0..Depth : /\ \A k \in 1..d : ~is_hit([mino EXCEPT !.x = mino.x + k])
                              /\ mino' = [mino EXCEPT !.x = mino.x + d]
    BY <1>7 DEF HardDrop
  <2> DEFINE m == [mino EXCEPT !.x = mino.x + d]
  <2>2. m = mino \/ ~is_hit(m)
    <3>1. CASE d = 0
      BY <1>1, <3>1 DEF Minos
    <3>2. CASE d # 0
      <4>1. d \in 1..d
        BY <3>2, GameAssumption
      <4> QED
        BY <2>1, <4>1
    <3> QED
      BY <3>1, <3>2
  <2>3. m \in Minos /\ m.x >= 0 /\ mino' = m
    BY <1>2, <2>1
  <2> HIDE DEF m
  <2> QED
    BY <1>7, <2>2, <2>3, MoveInd DEF HardDrop
<1> QED
  BY <1>3, <1>4, <1>5, <1>6, <1>7 DEF Key

\* A piece that lands puts at most two cells in the uppermost line and
\* completes lines only where it is.
LEMMA LandInd ==
  ASSUME GameInd, Land
  PROVE  GameInd'
<1>1. /\ PieceFits /\ LinesCleared /\ Cardinality(field) = expected /\ state = "fall"
      /\ GameTypes /\ mino \in Minos /\ mino.x \in Int /\ mino.x >= 0
  BY GameAssumption DEF GameInd, Falling, Land, GameTypes, Minos
<1>2. /\ Covered(mino) \subseteq Cells /\ field \subseteq Cells
      /\ (\A i \in 0..Depth-1 : ~Complete(i)) /\ ~Topped
  BY <1>1 DEF PieceFits, LinesCleared, GameTypes
<1>3. /\ field' = field \cup Covered(mino) /\ expected' = expected + Cardinality(Covered(mino))
      /\ is_game_over' = is_hit(mino) /\ state' = "scan" /\ line' = 0 /\ num_of_line_filled' = 0
      /\ UNCHANGED <<mino, score, memory, pieces>>
  BY DEF Land
<1>4. field' \subseteq Cells
  BY <1>2, <1>3
<1>5. /\ IsFiniteSet(field) /\ IsFiniteSet(Covered(mino)) /\ Cardinality(field) \in Nat
      /\ Cardinality(Covered(mino)) \in Nat /\ Cardinality(field') \in Nat
      /\ Cardinality(field \cap Covered(mino)) \in Nat
  <2>1. field \cap Covered(mino) \subseteq Cells
    BY <1>2
  <2> QED
    BY <1>2, <1>4, <2>1, CellsFinite
<1>6. GameTypes'
  <2>1. is_hit(mino) \in BOOLEAN
    BY DEF is_hit
  <2>2. is_game_over' \in BOOLEAN
    BY <1>3, <2>1
  <2> QED
    BY <1>1, <1>3, <1>4, <1>5, <2>2, GameAssumption DEF GameTypes
<1>7. Scanning'
  <2>1. ASSUME NEW y \in Int, <<y, 0>> \in field' PROVE y \in {mino.y + 1, mino.y + 2}
    <3>1. <<y, 0>> \notin field
      BY <1>2 DEF Topped, Cells
    <3>2. PICK p \in 0..3, q \in 0..3 : <<y, 0>> = <<mino.y + p, mino.x + q>> /\ (q = 0 => p \in {1, 2})
      BY <1>1, <1>3, <2>1, <3>1, CoveredCells
    <3>3. q = 0
      BY <1>1, <3>2
    <3> QED
      BY <3>2, <3>3
  <2>2. ASSUME NEW i \in 0..Depth-1, Complete(i)' PROVE mino.x <= i /\ i <= mino.x + 3
    <3>1. PICK y \in 0..Height-1 : <<y, i>> \notin field
      BY <1>2 DEF Complete
    <3>2. <<y, i>> \in Covered(mino)
      BY <1>3, <2>2, <3>1 DEF Complete
    <3>3. PICK p \in 0..3, q \in 0..3 : <<y, i>> = <<mino.y + p, mino.x + q>>
      BY <1>1, <3>2, CoveredCells
    <3> QED
      BY <1>1, <3>3
  <2> QED
    BY <1>3, <2>1, <2>2, GameAssumption DEF Scanning
<1>8. Counting'
  <2>1. Real' = field'
    BY <1>3, <1>4, GameAssumption DEF Real, Cells
  <2>2. ASSUME NEW c \in field', c[2] <= 0 PROVE <<c[1], 0>> \in field'
    <3>1. c = <<c[1], c[2]>> /\ c[2] \in 0..Depth-1
      BY <1>4 DEF Cells
    <3>2. c[2] = 0
      BY <2>2, <3>1, GameAssumption
    <3> QED
      BY <3>1, <3>2
  <2>3. Cardinality(field') = Cardinality(field) + Cardinality(Covered(mino))
                               - Cardinality(field \cap Covered(mino))
    BY <1>3, <1>5, FS_Union
  <2>4. Cardinality(field') <= expected'
    BY <1>1, <1>3, <1>5, <2>3
  <2>5. ASSUME ~is_game_over' PROVE Cardinality(field') = expected'
    <3>1. field \cap Covered(mino) = {}
      BY <1>3, <2>5 DEF is_hit
    <3>2. Cardinality(field \cap Covered(mino)) = 0
      BY <3>1, FS_EmptySet
    <3> QED
      BY <1>1, <1>3, <1>5, <2>3, <3>2
  <2> QED
    BY <1>3, <2>1, <2>2, <2>4, <2>5 DEF Counting
<1>9. Falling' /\ ScanStaysInside'
  BY <1>3 DEF Falling, GameInd, ScanStaysInside
<1> QED
  BY <1>6, <1>7, <1>8, <1>9 DEF GameInd

\* The cells of line i.
LineCells(i) == (0..Height-1) \X {i}

\* A complete line has Height cells.
LEMMA LineCount ==
  ASSUME NEW i
  PROVE  IsFiniteSet(LineCells(i)) /\ Cardinality(LineCells(i)) = Height
<1>1. /\ IsFiniteSet(0..Height-1) /\ Cardinality(0..Height-1) = Height
      /\ IsFiniteSet({i}) /\ Cardinality({i}) = 1
  <2>1. /\ IsFiniteSet(0..Height-1)
        /\ Cardinality(0..Height-1) = IF 0 > Height-1 THEN 0 ELSE Height-1 - 0 + 1
    BY GameAssumption, FS_Interval
  <2>2. Cardinality(0..Height-1) = Height
    BY <2>1, GameAssumption
  <2> QED
    BY <2>1, <2>2, FS_Singleton
<1>2. ASSUME NEW S, IsFiniteSet(S), NEW T, IsFiniteSet(T)
      PROVE  IsFiniteSet(S \X T) /\ Cardinality(S \X T) = Cardinality(S) * Cardinality(T)
  BY <1>2, FS_Product
<1>3. /\ IsFiniteSet((0..Height-1) \X {i})
      /\ Cardinality((0..Height-1) \X {i}) = Cardinality(0..Height-1) * Cardinality({i})
  BY <1>1, <1>2, Zenon
<1> QED
  BY <1>1, <1>3, GameAssumption DEF LineCells

\* Where the shift over line i puts a cell of the pile.
ShiftCell(i, c) == IF c[2] > i \/ c[2] = 0 THEN c ELSE <<c[1], c[2] + 1>>

\* The shift over a complete line i takes the cells of that line away, moves
\* those above it down by one and leaves everything else where it is; none
\* falls on another.
LEMMA ShiftCount ==
  ASSUME field \subseteq Cells, NEW i \in 1..Depth-1, Complete(i), num_of_line_filled \in Nat,
         num_of_line_filled < i, field' = ShiftDown(i), num_of_line_filled' = num_of_line_filled + 1
  PROVE  /\ field' \subseteq Cells
         /\ Cardinality(Real') = Cardinality(Real) - Height
<1> DEFINE n == num_of_line_filled
           Kept == Real \ LineCells(i)
           f == [c \in Kept |-> ShiftCell(i, c)]
<1>1. \A c \in field : /\ c = <<c[1], c[2]>> /\ c[1] \in 0..Height-1 /\ c[2] \in 0..Depth-1
                      /\ c[1] \in Int /\ c[2] \in Int
  BY GameAssumption DEF Cells
<1>2. \A c : c \in field' <=> \/ c \in field /\ (c[2] > i \/ c[2] = 0)
                             \/ \E d \in field : d[2] < i /\ c = <<d[1], d[2] + 1>>
  BY DEF ShiftDown
<1>3. field' \subseteq Cells
  BY <1>1, <1>2, GameAssumption DEF Cells
<1>4. \A c : c \in Kept <=> c \in field /\ (c[2] = 0 \/ c[2] > n) /\ c[2] # i
  BY <1>1 DEF Real, LineCells
<1>5. \A c : c \in Real' <=> c \in field' /\ (c[2] = 0 \/ c[2] > n + 1)
  BY DEF Real
<1>6. LineCells(i) \subseteq Real
  BY DEF LineCells, Real, Complete
<1> HIDE DEF Kept
<1>7. f \in [Kept -> Real']
  <2> SUFFICES ASSUME NEW c \in Kept PROVE ShiftCell(i, c) \in Real'
    OBVIOUS
  <2>1. c \in field /\ (c[2] = 0 \/ c[2] > n) /\ c[2] # i /\ c[2] \in Int
    BY <1>1, <1>4
  <2>2. CASE c[2] > i \/ c[2] = 0
    BY <1>2, <1>5, <2>1, <2>2 DEF ShiftCell
  <2>3. CASE ~(c[2] > i \/ c[2] = 0)
    <3>1. c[2] < i /\ c[2] > n
      BY <2>1, <2>3
    <3> DEFINE e == <<c[1], c[2] + 1>>
    <3>2. e \in field'
      BY <1>2, <2>1, <3>1
    <3>3. e[2] > n + 1
      BY <2>1, <3>1
    <3>4. e \in Real'
      BY <1>5, <3>2, <3>3
    <3> QED
      BY <2>3, <3>4 DEF ShiftCell
  <2> QED
    BY <2>2, <2>3
<1>8. ASSUME NEW c \in Kept, NEW d \in Kept, ShiftCell(i, c) = ShiftCell(i, d) PROVE c = d
  <2>1. /\ c = <<c[1], c[2]>> /\ d = <<d[1], d[2]>> /\ c[2] \in Int /\ d[2] \in Int
        /\ c[2] # i /\ d[2] # i /\ (c[2] = 0 \/ c[2] > n) /\ (d[2] = 0 \/ d[2] > n)
    BY <1>1, <1>4
  <2>2. CASE (c[2] > i \/ c[2] = 0) /\ (d[2] > i \/ d[2] = 0)
    BY <1>8, <2>2 DEF ShiftCell
  <2>3. CASE (c[2] > i \/ c[2] = 0) /\ ~(d[2] > i \/ d[2] = 0)
    BY <1>8, <2>1, <2>3 DEF ShiftCell
  <2>4. CASE ~(c[2] > i \/ c[2] = 0) /\ (d[2] > i \/ d[2] = 0)
    BY <1>8, <2>1, <2>4 DEF ShiftCell
  <2>5. CASE ~(c[2] > i \/ c[2] = 0) /\ ~(d[2] > i \/ d[2] = 0)
    BY <1>8, <2>1, <2>5 DEF ShiftCell
  <2> QED
    BY <2>2, <2>3, <2>4, <2>5
<1>9. ASSUME NEW r \in Real' PROVE \E c \in Kept : f[c] = r
  <2>1. CASE r \in field /\ (r[2] > i \/ r[2] = 0)
    <3>1. r \in Kept
      BY <1>1, <1>4, <2>1
    <3>2. f[r] = r
      BY <2>1, <3>1 DEF ShiftCell
    <3> QED
      BY <3>1, <3>2
  <2>2. ASSUME NEW d \in field, d[2] < i, r = <<d[1], d[2] + 1>> PROVE \E c \in Kept : f[c] = r
    <3>1. d[2] \in Int /\ d[2] >= 0 /\ r[2] = d[2] + 1
      BY <1>1, <2>2
    <3>2. d[2] > n
      BY <1>5, <3>1
    <3>3. d \in Kept
      BY <1>4, <2>2, <3>1, <3>2
    <3>4. f[d] = r
      BY <2>2, <3>1, <3>2, <3>3 DEF ShiftCell
    <3> QED
      BY <3>3, <3>4
  <2> QED
    BY <1>2, <1>5, <2>1, <2>2
<1>10. ExistsBijection(Kept, Real')
  <2>1. \A c, d \in Kept : f[c] = f[d] => c = d
    BY <1>8
  <2>2. f \in Bijection(Kept, Real')
    <3> HIDE DEF f
    <3> QED
      BY <1>7, <1>9, <2>1 DEF Bijection, Injection, Surjection, IsInjective
  <2> QED
    BY <2>2 DEF ExistsBijection
<1>11. IsFiniteSet(Real) /\ Cardinality(Real) \in Nat
  <2>1. Real \subseteq Cells
    BY DEF Real
  <2> QED
    BY <2>1, CellsFinite
<1>12. IsFiniteSet(Kept) /\ Cardinality(Kept) = Cardinality(Real) - Height
  <2>1. Real \cap LineCells(i) = LineCells(i)
    BY <1>6
  <2>2. /\ IsFiniteSet(Real \ LineCells(i))
        /\ Cardinality(Real \ LineCells(i)) = Cardinality(Real) - Cardinality(Real \cap LineCells(i))
    BY <1>11, FS_Difference, Zenon
  <2> QED
    BY <2>1, <2>2, LineCount DEF Kept
<1> QED
  BY <1>3, <1>10, <1>12, FS_Bijection

\* The uppermost line is never complete, nor is what the scan takes for a line
\* behind the field: that needs three cells.
LEMMA TopIncomplete ==
  ASSUME GameInd, state = "scan"
  PROVE  \E y \in 1..Height-1 : <<y, 0>> \notin field
<1>1. \A y \in Int : <<y, 0>> \in field => y \in {mino.y + 1, mino.y + 2}
  BY DEF GameInd, Scanning
<1>2. mino.y \in Int
  BY GameAssumption DEF GameInd, GameTypes
<1>3. 1 \in 1..Height-1 /\ 2 \in 1..Height-1 /\ 3 \in 1..Height-1
  BY GameAssumption
<1> QED
  BY <1>1, <1>2, <1>3

\* One turn of the scan.
LEMMA ScanLineInd ==
  ASSUME GameInd, ScanLine
  PROVE  GameInd'
<1>1. /\ GameTypes /\ Scanning /\ Counting /\ state = "scan" /\ line \in 0..Depth-1
      /\ line \in Int /\ num_of_line_filled \in Nat /\ num_of_line_filled <= 4 /\ mino.x \in Nat
      /\ line' = line + 1 /\ UNCHANGED <<mino, score, state, is_game_over, memory, pieces>>
  BY GameAssumption DEF GameInd, GameTypes, ScanLine
<1>2. Falling' /\ ScanStaysInside'
  BY <1>1 DEF Falling, GameInd, ScanStaysInside
<1>3. CASE ~Complete(line) /\ UNCHANGED <<field, num_of_line_filled, expected>>
  <2>1. GameTypes'
    BY <1>1, <1>3, GameAssumption DEF GameTypes
  <2>2. Scanning'
    BY <1>1, <1>3, GameAssumption DEF Scanning, Complete
  <2>3. Counting'
    BY <1>1, <1>3 DEF Counting, Real
  <2> QED
    BY <1>2, <2>1, <2>2, <2>3 DEF GameInd
<1>4. CASE /\ Complete(line) /\ num_of_line_filled' = num_of_line_filled + 1
           /\ field' = ShiftDown(line) /\ expected' = expected - Height
  <2>1. line # 0
    <3>1. PICK y \in 1..Height-1 : <<y, 0>> \notin field
      BY <1>1, TopIncomplete
    <3>2. y \in 0..Height-1
      BY GameAssumption
    <3> QED
      BY <1>4, <3>1, <3>2 DEF Complete
  <2>2. num_of_line_filled < line
    BY <1>1, <2>1 DEF Scanning
  <2>3. line \in 1..Depth-1
    BY <1>1, <2>1
  <2>4. field' \subseteq Cells /\ Cardinality(Real') = Cardinality(Real) - Height
    BY <1>1, <1>4, <2>2, <2>3, ShiftCount DEF GameTypes
  <2>5. \A c : c \in field' <=> \/ c \in field /\ (c[2] > line \/ c[2] = 0)
                               \/ \E d \in field : d[2] < line /\ c = <<d[1], d[2] + 1>>
    BY <1>4 DEF ShiftDown
  <2>6. \A c \in field : /\ c = <<c[1], c[2]>> /\ c[2] \in 0..Depth-1 /\ c[2] \in Int
    BY <1>1, GameAssumption DEF GameTypes, Cells
  <2>7. ASSUME NEW y PROVE <<y, 0>> \in field' <=> <<y, 0>> \in field
    BY <2>5, <2>6
  <2>8. ASSUME NEW i \in 1..Depth-1, NEW y, i <= line
        PROVE  <<y, i>> \in field' <=> <<y, i - 1>> \in field
    <3>1. ASSUME <<y, i>> \in field' PROVE <<y, i - 1>> \in field
      <4> DEFINE e == <<y, i>>
      <4>0. e[2] = i /\ ~(i > line \/ i = 0)
        BY <1>1, <2>8, GameAssumption
      <4>1. PICK d \in field : e = <<d[1], d[2] + 1>>
        BY <2>5, <3>1, <4>0
      <4>2. d = <<y, i - 1>>
        BY <2>6, <4>1
      <4> QED
        BY <4>2
    <3>2. ASSUME <<y, i - 1>> \in field PROVE <<y, i>> \in field'
      <4> DEFINE d == <<y, i - 1>>
      <4>1. d \in field /\ d[2] < line /\ <<y, i>> = <<d[1], d[2] + 1>>
        BY <1>1, <2>8, <3>2
      <4> QED
        BY <2>5, <4>1
    <3> QED
      BY <3>1, <3>2
  <2>9. ASSUME NEW i \in 0..Depth-1, NEW y, i > line
        PROVE  <<y, i>> \in field' <=> <<y, i>> \in field
    <3>1. ASSUME NEW d \in field, d[2] < line PROVE <<y, i>> # <<d[1], d[2] + 1>>
      BY <1>1, <2>6, <2>9, <3>1
    <3> QED
      BY <1>1, <2>5, <2>9, <3>1
  <2>10. mino.x <= line /\ line <= mino.x + 3
    BY <1>1, <1>4 DEF Scanning
  <2>11. /\ num_of_line_filled' \in 0..Depth /\ num_of_line_filled' <= 4
         /\ num_of_line_filled' <= line' - mino.x /\ num_of_line_filled' < line'
    BY <1>1, <1>4, <2>2, <2>3, <2>10, GameAssumption DEF Scanning
  <2>12. GameTypes'
    BY <1>1, <1>4, <2>4, <2>11, GameAssumption DEF GameTypes
  <2>13. ASSUME NEW i \in 0..Depth-1, i < line' PROVE ~Complete(i)'
    <3>1. CASE i = 0
      <4>1. PICK y \in 0..Height-1 : <<y, 0>> \notin field
        BY <1>1, TopIncomplete, GameAssumption
      <4> QED
        BY <2>7, <3>1, <4>1 DEF Complete
    <3>2. CASE i # 0
      <4>1. i \in 1..Depth-1 /\ i <= line /\ i - 1 \in 0..Depth-1 /\ i - 1 < line
        BY <1>1, <2>13, <3>2, GameAssumption
      <4>2. ~Complete(i - 1)
        BY <1>1, <4>1 DEF Scanning
      <4> QED
        BY <2>8, <4>1, <4>2 DEF Complete
    <3> QED
      BY <3>1, <3>2
  <2>14. ASSUME NEW i \in 0..Depth-1, i >= line', Complete(i)'
         PROVE  mino.x <= i /\ i <= mino.x + 3
    <3>1. i > line
      BY <1>1, <2>14
    <3>2. Complete(i)
      BY <2>9, <2>14, <3>1 DEF Complete
    <3> QED
      BY <1>1, <3>1, <3>2 DEF Scanning
  <2>15. Scanning'
    <3>1. \A y \in Int : <<y, 0>> \in field' => y \in {mino.y + 1, mino.y + 2}
      BY <1>1, <2>7 DEF Scanning
    <3> QED
      BY <1>1, <2>11, <2>13, <2>14, <3>1 DEF Scanning
  <2>16. ASSUME NEW c \in field', c[2] <= num_of_line_filled' PROVE <<c[1], 0>> \in field'
    <3>1. CASE c \in field /\ (c[2] > line \/ c[2] = 0)
      <4>1. c[2] = 0
        BY <1>1, <2>6, <2>11, <2>16, <3>1
      <4> QED
        BY <2>6, <2>16, <3>1, <4>1
    <3>2. ASSUME NEW d \in field, c = <<d[1], d[2] + 1>> PROVE <<c[1], 0>> \in field'
      <4>1. d[2] <= num_of_line_filled /\ c[1] = d[1]
        BY <1>1, <1>4, <2>6, <2>16, <3>2
      <4>2. <<d[1], 0>> \in field
        BY <1>1, <4>1 DEF Counting
      <4> QED
        BY <2>7, <4>1, <4>2
    <3> QED
      BY <2>5, <3>1, <3>2
  <2>17. Counting'
    <3>1. Cardinality(Real) \in Nat /\ expected \in Int /\ Height \in Nat
      <4>1. Real \subseteq Cells
        BY <1>1 DEF Real, GameTypes
      <4> QED
        BY <1>1, <4>1, CellsFinite, GameAssumption DEF GameTypes
    <3>2. Cardinality(Real') <= expected'
      BY <1>1, <1>4, <2>4, <3>1 DEF Counting
    <3>3. ~is_game_over' => Cardinality(Real') = expected'
      BY <1>1, <1>4, <2>4 DEF Counting
    <3> QED
      BY <2>16, <3>2, <3>3 DEF Counting
  <2> QED
    BY <1>2, <2>12, <2>15, <2>17 DEF GameInd
<1> QED
  BY <1>3, <1>4 DEF ScanLine

\* The turn behind the field finds no line, and the game ends.
LEMMA ScanEndInd ==
  ASSUME GameInd, ScanBehindField \/ GameOver
  PROVE  GameInd'
<1>1. CASE ScanBehindField
  <2>1. /\ state = "scan" /\ line = Depth /\ line' = Depth + 1
        /\ UNCHANGED <<field, mino, score, state, num_of_line_filled, is_game_over, expected, pieces>>
    BY <1>1 DEF ScanBehindField
  <2>2. memory' = memory
    BY <1>1, <2>1, TopIncomplete DEF ScanBehindField
  <2>3. GameTypes' /\ Falling' /\ ScanStaysInside'
    BY <2>1, <2>2, GameAssumption DEF GameInd, GameTypes, Falling, ScanStaysInside
  <2>4. Counting'
    BY <2>1 DEF GameInd, Counting, Real
  <2>5. Scanning'
    BY <2>1, GameAssumption DEF GameInd, GameTypes, Scanning, Complete
  <2> QED
    BY <2>3, <2>4, <2>5 DEF GameInd
<1>2. CASE GameOver
  <2>1. /\ state = "scan" /\ state' = "over" /\ is_game_over' = TRUE
        /\ UNCHANGED <<field, mino, score, line, num_of_line_filled, memory, expected, pieces>>
    BY <1>2 DEF GameOver
  <2>2. GameTypes' /\ Falling' /\ Scanning' /\ ScanStaysInside'
    BY <2>1 DEF GameInd, GameTypes, Falling, Scanning, ScanStaysInside
  <2>3. Counting'
    BY <2>1 DEF GameInd, Counting, Real
  <2> QED
    BY <2>2, <2>3 DEF GameInd
<1> QED
  BY <1>1, <1>2

\* A piece that appears over a pile with no complete line and an empty
\* uppermost one.
LEMMA AppearInd ==
  ASSUME GameTypes, ScanStaysInside, reset_mino(mino'), state' = "fall", field' \subseteq Cells,
         \A i \in 0..Depth-1 : ~Complete(i)', ~Topped', Cardinality(field') = expected',
         score' \in Nat, pieces' \in 1..MaxPieces, UNCHANGED <<landing, memory>>
  PROVE  GameInd'
<1>1. mino' \in Minos /\ mino'.x = 0 /\ mino'.y = SpawnY /\ Covered(mino') \subseteq Cells
  BY ResetInside
<1>2. mino' \in [x : 0..Depth-1, y : -3..Height-1, type : Types, angle : 0..3]
  BY <1>1, GameAssumption DEF Minos
<1>3. expected' \in Int
  BY CellsFinite
<1>4. GameTypes'
  BY <1>2, <1>3 DEF GameTypes, landing
<1>5. Falling'
  BY <1>1 DEF Falling, LinesCleared, PieceFits
<1> QED
  BY <1>4, <1>5 DEF GameInd, Scanning, Counting, ScanStaysInside

\* After a landing, and at the start of a game.
LEMMA NewPieceInd ==
  ASSUME GameInd, NextPiece \/ start
  PROVE  GameInd'
<1>1. CASE NextPiece
  <2>1. /\ state = "scan" /\ line = Depth + 1 /\ ~is_game_over /\ ~Topped
        /\ pieces < MaxPieces /\ pieces' = pieces + 1
        /\ score' = score + 10 + Bonus(num_of_line_filled)
        /\ reset_mino(mino') /\ state' = "fall" /\ UNCHANGED <<field, landing, memory, expected>>
    BY <1>1 DEF NextPiece
  <2>2. /\ GameTypes /\ Scanning /\ Counting /\ field \subseteq Cells
        /\ num_of_line_filled \in Nat
    BY GameAssumption DEF GameInd, GameTypes
  <2>3. Real = field
    <3>1. ASSUME NEW c \in field PROVE c[2] > num_of_line_filled
      <4>1. c[1] \in 0..Height-1 /\ c[2] \in Int
        BY <2>2, GameAssumption DEF Cells
      <4>2. <<c[1], 0>> \notin field
        BY <2>1, <4>1 DEF Topped
      <4> QED
        BY <2>1, <2>2, <4>1, <4>2 DEF Counting
    <3> QED
      BY <3>1 DEF Real
  <2>4. Cardinality(field) = expected
    BY <2>1, <2>2, <2>3 DEF Counting
  <2>5. (\A i \in 0..Depth-1 : ~Complete(i)') /\ ~Topped'
    BY <2>1, <2>2, GameAssumption DEF Scanning, Complete, Topped
  <2>6. score' \in Nat /\ pieces' \in 1..MaxPieces
    <3>1. Bonus(num_of_line_filled) \in Nat
      BY DEF Bonus
    <3>2. score \in Nat /\ pieces \in 1..MaxPieces /\ MaxPieces \in Nat
      BY <2>2, GameAssumption DEF GameTypes
    <3> QED
      BY <2>1, <3>1, <3>2
  <2> QED
    BY <2>1, <2>2, <2>4, <2>5, <2>6, AppearInd DEF GameInd
<1>2. CASE start
  <2>1. /\ score' = 0 /\ field' = {} /\ expected' = 0 /\ pieces' = 1 /\ reset_mino(mino')
        /\ state' = "fall" /\ UNCHANGED <<landing, memory>>
    BY <1>2 DEF start
  <2>2. (\A i \in 0..Depth-1 : ~Complete(i)') /\ ~Topped'
    <3>1. 0 \in 0..Height-1
      BY GameAssumption
    <3> QED
      BY <2>1, <3>1 DEF Complete, Topped
  <2>3. Cardinality(field') = expected' /\ score' \in Nat /\ pieces' \in 1..MaxPieces
    BY <2>1, FS_EmptySet, GameAssumption
  <2> QED
    BY <2>1, <2>2, <2>3, AppearInd DEF GameInd
<1> QED
  BY <1>1, <1>2

\* The invariant is inductive.
LEMMA GameIndInductive ==
  /\ Init => GameInd
  /\ GameInd /\ [Next]_vars => GameInd'
<1>1. ASSUME Init PROVE GameInd
  <2>1. mino \in Minos /\ mino.x = 0 /\ mino.y = SpawnY /\ Covered(mino) \subseteq Cells
    BY <1>1, ResetInside DEF Init
  <2>2. /\ field = {} /\ score = 0 /\ state = "fall" /\ line = 0 /\ num_of_line_filled = 0
        /\ is_game_over = FALSE /\ memory = "ok" /\ expected = 0 /\ pieces = 1
    BY <1>1 DEF Init
  <2>3. GameTypes
    <3>1. mino \in [x : 0..Depth-1, y : -3..Height-1, type : Types, angle : 0..3]
      BY <2>1, GameAssumption DEF Minos
    <3>2. is_game_over \in BOOLEAN
      BY <2>2
    <3> QED
      BY <2>2, <3>1, <3>2, GameAssumption DEF GameTypes
  <2>4. LinesCleared /\ PieceFits
    <3>1. 0 \in 0..Height-1
      BY GameAssumption
    <3> QED
      BY <2>1, <2>2, <3>1 DEF LinesCleared, PieceFits, Complete, Topped
  <2>5. Falling
    BY <2>2, <2>4, FS_EmptySet DEF Falling
  <2> QED
    BY <2>2, <2>3, <2>5 DEF GameInd, Scanning, Counting, ScanStaysInside
<1>2. ASSUME GameInd, UNCHANGED vars PROVE GameInd'
  BY <1>2 DEF vars, GameInd, GameTypes, Falling, LinesCleared, PieceFits, Scanning, Counting, Real,
              ScanStaysInside, Complete, Topped
<1>3. ASSUME GameInd, Next PROVE GameInd'
  BY <1>3, MovesInd, LandInd, ScanLineInd, ScanEndInd, NewPieceInd DEF Next, Clock
<1> QED
  BY <1>1, <1>2, <1>3

-----------------------------------------------------------------------------
(* What it shows                                                           *)

(***************************************************************************)
(* For a field of any size, any set of pieces and any keys: the piece is   *)
(* inside the field and off the pile, complete lines are gone before the   *)
(* next piece appears, and no landing completes more than four.            *)
(***************************************************************************)
THEOREM FieldIsSound == Spec => []FieldInv
<1>1. GameInd => FieldInv
  <2> SUFFICES ASSUME GameInd PROVE FieldInv
    OBVIOUS
  <2>1. expected \in Nat
    <3>1. Cardinality(field) \in Nat /\ Cardinality(Real) \in Nat
      BY CellsFinite DEF GameInd, GameTypes, Real
    <3> QED
      BY <3>1 DEF GameInd, GameTypes, Falling, Counting
  <2>2. GameTypeOK
    BY <2>1 DEF GameInd, GameTypes, GameTypeOK, ScanStaysInside
  <2>3. LinesRewarded
    BY DEF GameInd, GameTypes, LinesRewarded
  <2>4. LinesCleared /\ PieceFits
    <3>1. CASE state = "fall"
      BY <3>1 DEF GameInd, Falling
    <3>2. CASE state # "fall"
      BY <3>2 DEF LinesCleared, PieceFits
    <3> QED
      BY <3>1, <3>2
  <2> QED
    BY <2>2, <2>3, <2>4 DEF FieldInv
<1> QED
  BY <1>1, GameIndInductive, PTL DEF Spec

(***************************************************************************)
(* Landings and shifts lose no cell and double none while the game goes    *)
(* on: the pile is what was put down less the lines removed, although a    *)
(* shift does copy cells of the uppermost line.                            *)
(***************************************************************************)
THEOREM CellsAreConserved == Spec => []CellsConserved
<1>1. GameInd => CellsConserved
  BY DEF GameInd, Falling, CellsConserved
<1> QED
  BY <1>1, GameIndInductive, PTL DEF Spec

(***************************************************************************)
(* The loop over the lines goes one too far, but what it finds there never *)
(* looks like a complete line, so nothing behind the field is written.     *)
(***************************************************************************)
THEOREM ScanIsInside == Spec => []ScanStaysInside
<1>1. GameInd => ScanStaysInside
  BY DEF GameInd
<1> QED
  BY <1>1, GameIndInductive, PTL DEF Spec

=============================================================================
