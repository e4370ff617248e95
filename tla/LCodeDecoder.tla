----------------------------- MODULE LCodeDecoder -----------------------------
(***************************************************************************)
(* lcode_localizer_node from an image to a reading: the floor is built     *)
(* once, and image_callback runs the preprocessor, the digitizer and the   *)
(* search of the floor on each image.  Localizer takes it from there.      *)
(*                                                                         *)
(* What a camera sees stands for the pixels: the lines of the image, and   *)
(* the printed floor in the view that the corners cut out of it.           *)
(***************************************************************************)
EXTENDS GenBGArray, Digitizer

CONSTANTS
  Scenes,              \* what the line detection may find: [lines, near]
  Views                \* what the corners may cut out of the floor

\* An image has as many dots as have been detected.
FoundLines == {line \in Lines : IsFiniteSet(line.dots)}

ASSUME DecoderAssumption ==
  /\ aLen = 4 /\ subRow = k1 /\ subCol = k2 + 1 /\ k2 = lineInterval
  /\ ROI_width_dots = 2 * subCol + 1
  /\ \A scene \in Scenes : scene.near \in BOOLEAN /\ scene.lines \in Seq(FoundLines)

\* The camera is over the floor, on which the view begins with a baseline; the
\* dashes are measured to within a few units.  A dot lies nearer to its crossing
\* than to another, out of the margin unless its crossing is at the edge, and no
\* symbol is as near to a baseline as the baseline's own dots may be.
ASSUME SceneryAssumption ==
  \A v \in Views :
    /\ v.turn \in -180 .. 180 /\ v.upside \in BOOLEAN /\ v.CP \in Int \X Int
    /\ v.x0 \in Nat /\ v.x0 % subCol = 0
    /\ v.x0 + entireCol <= total_elements[k2 - 1] + total_elements[k2 - 1] \div lineInterval
    /\ v.y0 \in Nat /\ v.y0 + entireRow < total_elements[k1]
    /\ v.errors \in Seq(-6 .. 6)
    /\ v.off \in Int /\ v.around \in Nat
    /\ \A d \in {1, v.off, -v.off} : 2 * d < Spacing /\ d + Margin < Spacing
    /\ \A d \in {v.off, -v.off} : d + 1 + EPS <= Spacing

\* The middle baseline has dots within the margin, and no more than the ten that
\* are accepted.
ASSUME RowsAssumption == entireRow \in 5 .. 32 /\ EPS # 0

VARIABLES
  seen,                \* the view of this image, once it is cut out: a set
  reading              \* <<raw_x, raw_y, heading>>, once published

vars == <<sequenceVars, arrayVars, preprocessorVars, digitizerVars, seen, reading>>

floorVars == <<sequenceVars, arrayVars>>

Init ==
  /\ ArrayInit
  /\ stage = "build" /\ NoLines /\ NoView /\ NothingDigitized
  /\ seen = {} /\ reading = <<>>

\* The constructor of the node: the sequences are written before any image.
BuildFloor ==
  /\ stage = "build"
  /\ BuildArray
  /\ stage' = IF built' THEN "idle" ELSE "build"
  /\ UNCHANGED <<retry, lineVars, viewVars, digitizerVars, seen, reading>>

-----------------------------------------------------------------------------
(* What is printed in a view.  A view is upright or turned upside down; its *)
(* cell <<0, 0>> shows the floor's cell <<x0, y0>>, and CP is the centre of *)
(* the image in it, upright.  off is how far the baselines' dots lie from   *)
(* their lines, errors those of the lengths of the dashes, lost the cells   *)
(* whose dot is not detected, skewed and misread those whose dot lies       *)
(* aslant or where another symbol has it, turn the angle of the camera to   *)
(* the view, and around the number of dots outside it that count as in it.  *)

DotRows == 3           \* a baseline has a dot every third row
DashLengths == <<40, 32, 24>>

SymbolOffset == [s \in Symbols |->
  CASE s = LEFT -> <<-1, 0>> [] s = TOP -> <<0, -1>>
    [] s = RIGHT -> <<1, 0>> [] s = BOTTOM -> <<0, 1>>]

ViewCells == (0 .. entireCol - 1) \X (0 .. entireRow - 1)

OnBaseline(v, c) == IsBaseline(v.x0 + c[1])

OffsetOf(v, c) ==
  IF OnBaseline(v, c) THEN <<v.off, 0>>
  ELSE IF c \in v.skewed THEN <<1, 1>>
  ELSE LET symbol == PrintedCell(v.x0 + c[1], v.y0 + c[2])
       IN SymbolOffset[IF c \in v.misread THEN (symbol + 1) % aLen ELSE symbol]

\* Where the dot of a cell is, in the upright view.
DotOf(v, c) ==
  <<Spacing * c[1] + OffsetOf(v, c)[1], Spacing * c[2] + OffsetOf(v, c)[2]>>

\* Between its dots a baseline has dashes.
DotCells(v) ==
  {c \in ViewCells \ v.lost :
     OnBaseline(v, c) => (v.y0 + c[2]) % DotRows = 0}

AsSeen(v, dot) == IF v.upside THEN Turned(dot) ELSE dot

PointsIn(v) == {AsSeen(v, DotOf(v, c)) : c \in DotCells(v)}

MiddleIn(v) ==
  {AsSeen(v, DotOf(v, c)) : c \in {d \in DotCells(v) : d[1] = subCol}}

DashesIn(v) ==
  LET upright == [i \in DOMAIN v.errors |->
                    DashLengths[((v.y0 \div DotRows + i - 1) % 3) + 1] + v.errors[i]]
  IN IF v.upside THEN Reverse(upright) ELSE upright

-----------------------------------------------------------------------------
(* An image *)

IdleElse == <<floorVars, digitizerVars, seen, reading>>

\* An image comes.  It may be empty or have fewer than required_min_dots dots.
TakeImage ==
  /\ \/ stage = "idle" /\ Reject
     \/ \E scene \in Scenes : DetectBaseLines(scene.lines, scene.near)
  /\ UNCHANGED IdleElse

PreprocessLines ==
  /\ \/ orderBaseLinesByClosestDot
     \/ findValidLinesByDotsNum
     \/ validateClosestBaseLinesByDirection
     \/ FindSideDots
     \/ findwarpPerspectiveCornerPoint
     \/ adjustCornersToPredefinedArea
  /\ UNCHANGED IdleElse

CutOut ==
  /\ stage = "warp"
  /\ \E v \in Views :
       /\ seen' = {v}
       /\ preprocessPointData(PointsIn(v), v.around, MiddleIn(v), AsSeen(v, v.CP), v.turn,
                              DashesIn(v))
  /\ UNCHANGED <<floorVars, digitizerVars, reading>>

PreprocessView ==
  /\ excludeMarginDots \/ checkAndCorrectOrientation
  /\ UNCHANGED IdleElse

Digitize == runDigitize /\ UNCHANGED <<floorVars, seen, reading>>

\* The cell of the centre is looked up.  The angle of the image is clockwise,
\* the heading counter-clockwise, within one turn.
Publish ==
  /\ stage = "digitized"
  /\ LET raw == getPos(digitizied_array, movementIndex)
     IN IF raw[1] = -1 \/ raw[2] = -1
        THEN stage' = "rejected" /\ UNCHANGED reading
        ELSE /\ stage' = "published"
             /\ reading' = <<raw[1], raw[2], (-camera_up_angle) % 360>>
  /\ UNCHANGED <<floorVars, retry, lineVars, viewVars, digitizerVars, seen>>

Ended == {"published", "rejected", "sheared"}

\* The next image has a preprocessor of its own.  The digitizer keeps what it
\* found, but writes it anew before it is read again: it is forgotten here.
NextImage ==
  /\ stage \in Ended
  /\ stage' = "idle"
  /\ ForgetLines /\ ForgetView /\ ForgetPiece
  /\ seen' = {} /\ reading' = <<>>
  /\ UNCHANGED floorVars

image_callback ==
  \/ PreprocessLines
  \/ CutOut
  \/ PreprocessView
  \/ Digitize
  \/ Publish

Next == BuildFloor \/ TakeImage \/ image_callback \/ NextImage

\* The constructor runs on, and so does a callback among the lines, where its
\* loops are.
Fairness == WF_vars(BuildFloor) /\ WF_vars(PreprocessLines)

Spec == Init /\ [][Next]_vars /\ Fairness

-----------------------------------------------------------------------------
(* Properties *)

Stages ==
  {"build", "idle", "order", "count", "sides", "dots", "corners", "adjust",
   "warp", "trim", "orient", "digitize", "digitized"} \cup Ended

\* Every variable has its type; the words of the de Bruijn sequences are
\* written and read within their bounds.
TypeOK ==
  /\ SequenceTypeOK /\ ReadsInsideWord
  /\ stage \in Stages
  /\ built = (stage # "build")
  /\ dotNearCentre \in BOOLEAN /\ retry \in 0 .. 2
  /\ Range(closestLines) \subseteq Lines
  /\ camera_up_angle \in -360 .. 360
  /\ seen \subseteq Views /\ Cardinality(seen) <= 1
  /\ Len(reading) \in {0, 3}

\* printBGArr counts the baselines before a column from the edge of the floor,
\* getSubset and printSpecificRange from the edge of a piece: they place the same
\* floor under every piece.
PiecesArePrinted == [][~built /\ built' => FloorsAgree']_vars

\* The clusters are lines at different places, each found once and all with the
\* same dots, as baselines are; some of those may be missing.
BaselinesFound ==
  /\ \A c \in Range(clustered_lines) :
       Len(c) = 1 /\ c[1].dots = clustered_lines[1][1].dots
  /\ \A i, j \in DOMAIN clustered_lines :
       clustered_lines[i][1].at = clustered_lines[j][1].at => i = j

Validated == stage \in {"dots", "corners", "adjust"}

MiddleIsBetween ==
  (closestLines[2].at - closestLines[1].at) * (closestLines[3].at - closestLines[1].at) < 0

\* The outer lines lie on two sides of the middle one when only baselines are
\* found, wherever among them the centre of the image is and whichever of them
\* are missed.
SidesFlankMiddle == Validated /\ BaselinesFound => MiddleIsBetween

\* The comment at closestLines: the first is always the middle line.
MiddleLineIsMiddle == Validated => MiddleIsBetween

\* A line of which no dot is missing.
Whole(line) ==
  \A r \in line.dots : r = Max(line.dots) \/ r + DotRows \in line.dots

\* The corners of both lines are in the same two rows, however far either line
\* reaches, if no dot is missing, a row of dots passes the centre and the end
\* points of both lines are read in the same order.
CornersOnTwoRows ==
  /\ stage = "adjust"
  /\ \A i \in 1 .. 3 : Whole(closestLines[i])
  /\ \E r \in -1 .. 1 : \A i \in 1 .. 3 : r \in closestLines[i].dots
  /\ SideLines[1].swapped = SideLines[2].swapped
  => ToSet(corners[1]) = ToSet(corners[2])

\* The cells inside the margin that have a dot, or a dash in its stead.
ReadableCells(v) == {c \in Cells : c[1] = subCol \/ c \notin v.lost}

\* What is published is where the camera is: no dot that could be read is
\* nearer to the centre of the image than the one at the published cell, and
\* the heading is that of the camera, for an image taken either way up, with
\* dots lost or aslant and dashes measured badly.  A dot read as another symbol
\* may lead elsewhere on the floor.
ReadingIsRight ==
  stage = "published" =>
    \A v \in {w \in seen : w.misread = {}} :
      LET cell == <<reading[1] - v.x0, reading[2] - v.y0>>
      IN /\ cell \in ReadableCells(v)
         /\ \A c \in ReadableCells(v) :
              SquaredDistance(DotOf(v, cell), v.CP) <= SquaredDistance(DotOf(v, c), v.CP)
         /\ reading[3] = (IF v.upside THEN 180 - v.turn ELSE -v.turn) % 360

\* All dots and dashes are seen as they were printed; upside down, the dots of
\* the middle baseline are near enough to its line, for they are not turned.
Clean(v) ==
  /\ v.lost = {} /\ v.skewed = {} /\ v.misread = {} /\ v.errors = <<0, 0, 0, 0>>
  /\ v.upside => Distance(v.off, -v.off) < EPS

\* A clean view is read, wherever on the floor it is and wherever in it the
\* centre is.
CleanViewIsRead == stage = "rejected" => \A v \in seen : ~Clean(v)

\* The loops end: that of the de Bruijn sequences and the second passes over
\* the lines and over the corners.
EveryLoopEnds ==
  /\ <>built
  /\ stage = "order" ~> stage \in {"warp", "sheared", "rejected"}
=============================================================================
