----------------------------- MODULE Digitizer -----------------------------
(***************************************************************************)
(* Digitizer: from the dots of the warped view to the symbols of the piece *)
(* of the floor around the centre of the image.                            *)
(*                                                                         *)
(* A dot lies a unit from its crossing of the view's columns and rows,     *)
(* which are Spacing apart, on the side its symbol says.                   *)
(***************************************************************************)
EXTENDS ImgPreprocessor

CONSTANTS
  subCol, subRow,           \* columns, with a baseline, and rows of a piece
  EPS                       \* how far a dot may lie from its baseline

entireCol == ROI_width_dots
entireRow == ROI_height_dots

\* The sizes are those runDigitize does not refuse.
ASSUME DigitizerAssumption ==
  /\ subCol \in Nat \ {0} /\ subRow \in Nat \ {0}
  /\ subCol <= entireCol - 2 /\ subRow <= entireRow - 2
  /\ EPS \in Nat

VARIABLES
  digitizied_array,         \* the symbols of the piece; <<>> before
  movementIndex,            \* the place of the centre in the piece
  subRect,                  \* the cells of the piece, [left, top, right, bottom]
  CP_dotIndex               \* the cell of the dot nearest the centre

digitizerVars == <<digitizied_array, movementIndex, subRect, CP_dotIndex>>

CENTER == -1
LEFT == 0
TOP == 1
RIGHT == 2
BOTTOM == 3

NoRect == [left |-> 0, top |-> 0, right |-> 0, bottom |-> 0]

NothingDigitized ==
  /\ digitizied_array = <<>> /\ movementIndex = <<0, 0>>
  /\ subRect = NoRect /\ CP_dotIndex = <<0, 0>>

ForgetPiece ==
  /\ digitizied_array' = <<>> /\ movementIndex' = <<0, 0>>
  /\ subRect' = NoRect /\ CP_dotIndex' = <<0, 0>>

-----------------------------------------------------------------------------

\* The cells of the view, without the outermost columns and rows.
Cells == (1 .. entireCol - 2) \X (1 .. entireRow - 2)

InCell(dot, cell) == \A i \in 1 .. 2 : 2 * Distance(dot[i], Spacing * cell[i]) <= Spacing

\* The dot of each cell that has one.  Two dots share a cell only when a dot
\* lies half a pitch off, which the views leave out.
Sort2DdotArr(dots) ==
  [cell \in {c \in Cells : \E dot \in dots : InCell(dot, c)} |->
     CHOOSE dot \in dots : InCell(dot, cell)]

\* The cells whose dot stands on the baseline at a place across the view.
CellsOn(dots, at) == {c \in DOMAIN dots : Distance(dots[c][1], at) < EPS}

\* The dots that the dashes of a baseline cover are put back: from one dot of
\* the baseline the whole of its column.
InterpolatingDashArea(dots, at) ==
  IF CellsOn(dots, at) = {} THEN dots
  ELSE LET known == CHOOSE c \in CellsOn(dots, at) : TRUE
           column == {known[1]} \X (1 .. entireRow - 2)
       IN [c \in DOMAIN dots \cup column |->
             IF c \in column
             THEN <<dots[known][1], dots[known][2] + (c[2] - known[2]) * Spacing>>
             ELSE dots[c]]

SquaredDistance(a, b) ==
  (a[1] - b[1]) * (a[1] - b[1]) + (a[2] - b[2]) * (a[2] - b[2])

\* The cells whose dot is nearest the centre.  Of several, the order of the
\* hash table decides.
FindCP_Index(dots, CP) ==
  IF dots = <<>> THEN {<<0, 0>>}
  ELSE {c \in DOMAIN dots : \A d \in DOMAIN dots :
          SquaredDistance(dots[c], CP) <= SquaredDistance(dots[d], CP)}

\* Mistake: the piece may take in the outermost column.
FirstAtBorder(centre, size, entire) ==
  LET first == centre - size \div 2
  IN IF first < 1 THEN 1
     ELSE IF first + size - 1 > entire - 1 THEN entire - size ELSE first

\* The first column, or row, of a piece of a size around a centre: it is moved
\* when it would leave the cells 1 .. entire - 2.
FirstOfPiece(centre, size, entire) ==
  LET first == centre - size \div 2
  IN IF first < 1 THEN 1
     ELSE IF first + size - 1 > entire - 2 THEN entire - 1 - size ELSE first

\* Mistake: the centre is taken to be in the middle of a moved piece.
MovementUncorrected(centre, size, entire) == size \div 2

\* Where the centre is in the piece: its middle, corrected when it was moved.
Movement(centre, size, entire) ==
  LET first == centre - size \div 2
      last == first + size - 1
  IN IF first < 1 THEN size \div 2 - (1 - first)
     ELSE IF last > entire - 2 THEN size \div 2 - (entire - 2 - last)
     ELSE size \div 2

RectAround(centre) ==
  LET left == FirstOfPiece(centre[1], subCol, entireCol)
      top == FirstOfPiece(centre[2], subRow, entireRow)
  IN [left |-> left, top |-> top,
      right |-> left + subCol - 1, bottom |-> top + subRow - 1]

CellsOf(rect) == (rect.left .. rect.right) \X (rect.top .. rect.bottom)

-----------------------------------------------------------------------------

\* The symbol of a dot that lies (dx, dy) from its crossing; 45 degrees and 135
\* degrees belong to the direction that follows.
Direction(dx, dy) ==
  CASE dx = 0 /\ dy = 0 -> RIGHT
    [] -dx <= dy /\ dy < dx -> RIGHT
    [] -dy < dx /\ dx <= dy -> BOTTOM
    [] dx < dy /\ dy <= -dx -> LEFT
    [] OTHER -> TOP

\* The angle to the direction is at most MaxAngle, 17 degrees.
WithinMaxAngle(dx, dy) ==
  LET major == IF Direction(dx, dy) \in {LEFT, RIGHT} THEN dx ELSE dy
      minor == IF Direction(dx, dy) \in {LEFT, RIGHT} THEN dy ELSE dx
  IN 10 * Distance(minor, 0) <= 3 * Distance(major, 0)

OffsetX(dots, c) == dots[c][1] - Spacing * c[1]
OffsetY(dots, c) == dots[c][2] - Spacing * c[2]

\* FindBaselineInSubset: the column of the piece the baseline is.
BaselineColumns(dots, rect, at) ==
  LET on == CellsOn(dots, at) \cap CellsOf(rect)
  IN IF on = {} THEN {} ELSE {(CHOOSE c \in on : TRUE)[1]}

Digits(dots, rect, baseline) ==
  [i \in 1 .. subRow |-> [j \in 1 .. subCol |->
     LET c == <<rect.left + j - 1, rect.top + i - 1>>
     IN IF c[1] \in baseline THEN CENTER
        ELSE Direction(OffsetX(dots, c), OffsetY(dots, c))]]

AnglesHold(dots, rect, baseline) ==
  \A c \in CellsOf(rect) :
    c[1] \in baseline \/ WithinMaxAngle(OffsetX(dots, c), OffsetY(dots, c))

\* Too few dots, or none on the middle baseline.
TooFew ==
  Cardinality(transformed_points) < subRow * subCol \/ middle_dots = {}

\* The piece around a dot nearest the centre.  The place of the centre is written
\* before the piece is known to be complete.
DigitizePiece(dots, at) ==
  \E centre \in FindCP_Index(dots, transformed_CP) :
    LET rect == RectAround(centre)
        baseline == BaselineColumns(dots, rect, at)
    IN /\ CP_dotIndex' = centre
       /\ movementIndex' = <<Movement(centre[1], subCol, entireCol),
                             Movement(centre[2], subRow, entireRow)>>
       /\ subRect' = rect
       /\ IF CellsOf(rect) \subseteq DOMAIN dots /\ AnglesHold(dots, rect, baseline)
          THEN digitizied_array' = Digits(dots, rect, baseline) /\ stage' = "digitized"
          ELSE stage' = "rejected" /\ UNCHANGED digitizied_array

\* The middle baseline is where one of its dots is, the one that was detected
\* first.
runDigitize ==
  /\ stage = "digitize"
  /\ UNCHANGED <<retry, lineVars, viewVars>>
  /\ \/ TooFew /\ stage' = "rejected" /\ UNCHANGED digitizerVars
     \/ /\ ~TooFew
        /\ \E at \in {dot[1] : dot \in middle_dots} :
             DigitizePiece(InterpolatingDashArea(Sort2DdotArr(transformed_points), at), at)

-----------------------------------------------------------------------------

\* The piece lies within the cells, and the place reported for the centre is
\* where the centre is, also when the piece had to be moved at the edge of the
\* view; a piece that was digitized contains its centre.
WindowInside ==
  subRect # NoRect =>
    /\ 1 <= subRect.left /\ subRect.right <= entireCol - 2
    /\ 1 <= subRect.top /\ subRect.bottom <= entireRow - 2
    /\ CP_dotIndex = <<subRect.left + movementIndex[1],
                       subRect.top + movementIndex[2]>>
    /\ digitizied_array # <<>> => CP_dotIndex \in CellsOf(subRect)
=============================================================================
