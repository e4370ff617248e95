-------------------------- MODULE ImgPreprocessor --------------------------
(***************************************************************************)
(* ImgPreprocessor.run, one action for each function it calls.  First it   *)
(* chooses three baselines and, by the dots on the outer two, the corners  *)
(* of the view; then it warps the dots to the view, trims its margin and   *)
(* turns it by the dashes of the middle baseline.                          *)
(*                                                                         *)
(* The dots and the dashes of an image are inputs, not its pixels.  The    *)
(* state belongs to one image: image_callback makes a preprocessor for     *)
(* each.                                                                   *)
(***************************************************************************)
EXTENDS LineProcessor

CONSTANTS
  ROI_width_dots, ROI_height_dots,   \* columns and rows of the view
  Spacing,                           \* between them, in the units of the view
  DotSize,                           \* size of a dot, in dot intervals
  Margin,                            \* cut_margin_size, in units of the view
  FarCorner                          \* the corner of the image from its centre

ASSUME ViewAssumption ==
  /\ ROI_width_dots \in Nat /\ ROI_height_dots \in Nat
  /\ Spacing \in Nat \ {0} /\ DotSize \in Nat /\ Margin \in Nat
  /\ FarCorner \in Int

VARIABLES
  stage,               \* the function that comes next
  clustered_lines,
  dotNearCentre,       \* a dot was found near the centre of the image
  closestLines,        \* the first line of each, by distance from that dot
  retry,               \* passes made over the lines, or the corners
  side_dots,           \* the rows of the dots the corners are counted from
  corners,             \* the rows of the corners on the two outer lines
  transformed_points,  \* the dots in the view
  middle_dots,         \* those of the middle baseline
  transformed_CP,      \* the centre of the image in the view
  dashes,              \* the dashes of the middle baseline, from the top
  camera_up_angle      \* in degrees, clockwise from the right

lineVars == <<clustered_lines, dotNearCentre, closestLines, side_dots, corners>>
viewVars == <<transformed_points, middle_dots, transformed_CP, dashes, camera_up_angle>>
preprocessorVars == <<stage, retry, lineVars, viewVars>>

Distance(m, n) == IF m >= n THEN m - n ELSE n - m

expansion_point_num == (ROI_height_dots - 1) \div 6
ROI_width_size == Spacing * (ROI_width_dots - 1)
ROI_height_size == Spacing * (ROI_height_dots - 1)
baseline_cnt == 3

NoLines ==
  /\ clustered_lines = <<>> /\ dotNearCentre = FALSE /\ closestLines = <<>>
  /\ side_dots = <<>> /\ corners = <<>> /\ retry = 0

NoView ==
  /\ transformed_points = {} /\ middle_dots = {} /\ transformed_CP = <<0, 0>>
  /\ dashes = <<>> /\ camera_up_angle = 0

ForgetLines ==
  /\ clustered_lines' = <<>> /\ dotNearCentre' = FALSE /\ closestLines' = <<>>
  /\ side_dots' = <<>> /\ corners' = <<>> /\ retry' = 0

ForgetView ==
  /\ transformed_points' = {} /\ middle_dots' = {} /\ transformed_CP' = <<0, 0>>
  /\ dashes' = <<>> /\ camera_up_angle' = 0

Reject == stage' = "rejected" /\ UNCHANGED <<retry, lineVars, viewVars>>

-----------------------------------------------------------------------------
(* The baselines *)

\* Baselines are sought in the lines of an image; its centre may be near a dot.
DetectBaseLines(lines, near) ==
  /\ stage = "idle"
  /\ clustered_lines' = detectBaseLines(lines)
  /\ dotNearCentre' = near
  /\ stage' = IF Len(detectBaseLines(lines)) < baseline_cnt
              THEN "rejected" ELSE "order"
  /\ UNCHANGED <<retry, closestLines, side_dots, corners, viewVars>>

\* Where lines are ordered from: closest_dot_to_cross_point, which is still
\* the corner of the image when no dot was found near the centre.
OrderedFrom == IF dotNearCentre THEN 0 ELSE FarCorner

FromDot(line) == Distance(line.at, OrderedFrom)

SameSide(l, m) == (l.at - OrderedFrom) * (m.at - OrderedFrom) > 0

\* Every line of a cluster stands for its cluster, by its first line.  Of lines
\* at the same distance any may come first.
OrdersByDistance(clusters) ==
  LET lines == UNION {{i} \X DOMAIN clusters[i] : i \in DOMAIN clusters}
      Far(ij) == FromDot(clusters[ij[1]][ij[2]])
  IN {[n \in DOMAIN order |-> clusters[order[n][1]][1]] :
        order \in {o \in SetToSeqs(lines) :
                     \A m, n \in DOMAIN o : m < n => Far(o[m]) <= Far(o[n])}}

\* Mistake: they change places when the next two lie on both sides.
SwapsBetween(lines) ==
  IF ~SameSide(lines[2], lines[3])
  THEN <<lines[2], lines[1]>> \o SubSeq(lines, 3, Len(lines)) ELSE lines

\* The nearest line is the middle one, unless the next two lie on one side:
\* then it changes places with the second.
MiddleFirst(lines) ==
  IF SameSide(lines[2], lines[3])
  THEN <<lines[2], lines[1]>> \o SubSeq(lines, 3, Len(lines)) ELSE lines

orderBaseLinesByClosestDot ==
  /\ stage = "order"
  /\ \E lines \in OrdersByDistance(clustered_lines) :
       closestLines' = MiddleFirst(lines)
  /\ retry' = 0
  /\ stage' = "count"
  /\ UNCHANGED <<clustered_lines, dotNearCentre, side_dots, corners, viewVars>>

\* The dots on a line: none when the tolerance is 0, the size of the dot that
\* was not found.
DotsOn(line) == IF dotNearCentre THEN line.dots ELSE {}

\* The lines with 2.5 times the dots of another of the first three, or more.
Overfull ==
  {l \in 1 .. baseline_cnt : \E j \in 1 .. baseline_cnt \ {l} :
     2 * Cardinality(DotsOn(closestLines[l])) >= 5 * Cardinality(DotsOn(closestLines[j]))}

\* findValidLinesByDotsNum, one pass: the first overfull line is erased and
\* the passes begin again, twice at most.
findValidLinesByDotsNum ==
  /\ stage = "count"
  /\ IF retry = 2 \/ Len(closestLines) < baseline_cnt THEN Reject
     ELSE /\ IF Overfull # {}
             THEN /\ closestLines' = RemoveAt(closestLines, Min(Overfull))
                  /\ retry' = retry + 1
                  /\ stage' = "count"
             ELSE /\ retry' = 0
                  /\ stage' = "sides"
                  /\ UNCHANGED closestLines
          /\ UNCHANGED <<clustered_lines, dotNearCentre, side_dots, corners, viewVars>>

\* The outer lines lie on two sides of the centre, or one of them nearly in it.
SidesValid(l, m) ==
  l.at * m.at <= 0 \/ Min({Distance(l.at, 0), Distance(m.at, 0)}) <= DotSize

validateClosestBaseLinesByDirection ==
  /\ stage = "sides"
  /\ IF ~SidesValid(closestLines[2], closestLines[3]) THEN Reject
     ELSE stage' = "dots" /\ UNCHANGED <<retry, lineVars, viewVars>>

-----------------------------------------------------------------------------
(* The corners *)

\* Mistake: the sign of the distance is not dropped.
NearestSigned(line, row) ==
  {r \in line.dots : \A q \in line.dots : r - row <= q - row}

\* The dots of a line nearest a row.
NearestTo(line, row) ==
  {r \in line.dots : \A q \in line.dots :
     (r - row) * (r - row) <= (q - row) * (q - row)}

\* findClosestBaselineDotToNearCP, and the first part of
\* findwarpPerspectiveCornerPoint: the dot of the middle line nearest the
\* centre, and those of the outer lines nearest to it.
FindSideDots ==
  /\ stage = "dots"
  /\ \E middle \in NearestTo(closestLines[1], 0) :
     \E side1 \in NearestTo(closestLines[2], middle),
        side2 \in NearestTo(closestLines[3], middle) :
       side_dots' = <<side1, side2>>
  /\ retry' = 0
  /\ stage' = "corners"
  /\ UNCHANGED <<clustered_lines, dotNearCentre, closestLines, corners, viewVars>>

\* Rows of the dots of a line before and after a row.
Above(line, row) == {r \in line.dots : r < row}
Below(line, row) == {r \in line.dots : r > row}

\* findCornerDotCandidates: towards the start of a line and towards its end.
ToStart(line, row) == IF line.swapped THEN Below(line, row) ELSE Above(line, row)
ToEnd(line, row) == IF line.swapped THEN Above(line, row) ELSE Below(line, row)

\* How many dots are missing on one end and needed on the other.
Expansion(dots) ==
  IF Cardinality(dots) < expansion_point_num
  THEN expansion_point_num - Cardinality(dots) ELSE 0

\* How far the four corners move to the start, or to the end when negative.
Shift(lines) ==
  LET Most(Side(_, _)) == Max({Expansion(Side(lines[i], side_dots[i])) : i \in 1 .. 2})
  IN IF Most(ToEnd) # 0 THEN Most(ToEnd) ELSE -Most(ToStart)

\* The nth of the dots on one side of row, which is itself the 0th.
NthDot(dots, row, n) ==
  CHOOSE r \in dots \cup {row} :
    Cardinality({q \in dots : Distance(q, row) <= Distance(r, row)}) = n

CornersFound(lines) ==
  \A i \in 1 .. 2 :
    /\ Cardinality(ToStart(lines[i], side_dots[i])) >= expansion_point_num + Shift(lines)
    /\ Cardinality(ToEnd(lines[i], side_dots[i])) >= expansion_point_num - Shift(lines)

CornersOn(lines) ==
  [i \in 1 .. 2 |->
     <<NthDot(ToStart(lines[i], side_dots[i]), side_dots[i],
              expansion_point_num + Shift(lines)),
       NthDot(ToEnd(lines[i], side_dots[i]), side_dots[i],
              expansion_point_num - Shift(lines))>>]

\* The outer lines of this pass: in the second the end points of the first
\* line have changed places.
SideLines ==
  <<[closestLines[2] EXCEPT !.swapped = IF retry = 1 THEN ~@ ELSE @], closestLines[3]>>

\* Mistake: a pass without corners is not counted.
PassesForEver == retry

NextPass == retry + 1

\* findwarpPerspectiveCornerPoint, one pass.
findwarpPerspectiveCornerPoint ==
  /\ stage = "corners"
  /\ IF CornersFound(SideLines)
     THEN /\ corners' = CornersOn(SideLines)
          /\ stage' = "adjust"
          /\ UNCHANGED <<retry, clustered_lines, dotNearCentre, closestLines, side_dots, viewVars>>
     ELSE IF retry = 1 THEN Reject
     ELSE retry' = NextPass /\ UNCHANGED <<stage, lineVars, viewVars>>

-----------------------------------------------------------------------------
(* The quadrilateral *)

\* A dot of a line: the row of a standing line is how far down it is, that of a
\* lying one how far to the right.
DotAt(line, row) == IF line.lying THEN <<row, line.at>> ELSE <<line.at, row>>

\* The corners on the one outer line and those on the other.
CornerDots ==
  <<DotAt(closestLines[2], corners[1][1]), DotAt(closestLines[2], corners[1][2]),
    DotAt(closestLines[3], corners[2][1]), DotAt(closestLines[3], corners[2][2])>>

\* From a dot to another.
Vector(a, b) == <<b[1] - a[1], b[2] - a[2]>>
Scalar(u, v) == u[1] * v[1] + u[2] * v[2]
Cross(u, v) == u[1] * v[2] - u[2] * v[1]
Squared(u) == Scalar(u, u)

\* How far the middle of the first two corners is beyond that of the others, to
\* the right (1) or down (2), twice.
Beyond(c, k) == c[1][k] + c[2][k] - c[3][k] - c[4][k]

\* The left corners: those of the left line, or the lower ones when neither line
\* is.  Where dots in the same row or column are compared, parts of a pixel
\* decide: for these corners and their order all outcomes are possible.
LeftCorners(c) ==
  IF Beyond(c, 1) < 0 THEN {{1, 2}}
  ELSE IF Beyond(c, 1) > 0 THEN {{3, 4}}
  ELSE LET Lowness(i) == 4 * c[i][2] - (c[1][2] + c[2][2] + c[3][2] + c[4][2])
       IN {left \in SUBSET (1 .. 4) : /\ \A i \in left : Lowness(i) >= 0
                                     /\ \A i \in (1 .. 4) \ left : Lowness(i) <= 0}

\* Whether dot a may be the upper left corner and b the lower one.
TopLeft(c, a, b) ==
  IF Beyond(c, 1) = 0 THEN a[1] <= b[1]
  ELSE a[2] <= b[2] \/ (Beyond(c, 2) = 0 /\ a[1] >= b[1])

\* The upper and the lower left corner, the right corner nearer to the lower left
\* one, and the other.  If not two corners are left ones a list is read past its
\* end: any dot may stand for any corner.
arrangeDstQuad(c) ==
  UNION {
    IF Cardinality(left) # 2 THEN [1 .. 4 -> ToSet(c)]
    ELSE {<<c[o[1]], c[o[2]], c[o[3]], c[o[4]]>> :
            o \in {p \in SetToSeqs(1 .. 4) :
                    /\ {p[1], p[2]} = left
                    /\ TopLeft(c, c[p[1]], c[p[2]])
                    /\ Squared(Vector(c[p[2]], c[p[3]])) <= Squared(Vector(c[p[2]], c[p[4]]))}}
    : left \in LeftCorners(c)}

\* Two opposite sides differ by at most 0.3 of the first.
LengthCheck(u, v) ==
  49 * Squared(u) <= 100 * Squared(v) /\ 100 * Squared(v) <= 169 * Squared(u)

\* Directions as atan2 tells them: from 0 to half a turn, or below 0; no direction
\* is one to the right.
Pointing(u) == IF u = <<0, 0>> THEN <<1, 0>> ELSE u
NotBelow(u) == u[2] >= 0

\* The angle of u exceeds that of v by more than half a turn.
BeyondHalfTurn(u, v) == NotBelow(u) /\ ~NotBelow(v) /\ Cross(v, u) < 0

\* Two opposite sides are parallel to within 0.3 of a right angle.  A difference
\* of more than half a turn passes too.
AngleCheck(u, v) ==
  \/ BeyondHalfTurn(u, v)
  \/ BeyondHalfTurn(v, u)
  \/ 100 * Distance(Cross(u, v), 0) <= 51 * Distance(Scalar(u, v), 0)

isRectangleWithMargin(q) ==
  \A i \in 1 .. 2 :
    LET u == Vector(q[i], q[i + 1])
        v == Vector(q[i + 2], q[((i + 2) % 4) + 1])
    IN LengthCheck(u, v) /\ AngleCheck(Pointing(u), Pointing(v))

\* The corners cut out a view of the right size, not a mirror image of it, and
\* the middle line lies halfway.
OnGrid(q) ==
  LET down == Vector(q[1], q[2])
      right == Vector(q[2], q[3])
  IN /\ Vector(q[4], q[3]) = down /\ Scalar(down, right) = 0 /\ Cross(down, right) < 0
     /\ Squared(down) = (ROI_height_dots - 1) * (ROI_height_dots - 1)
     /\ Squared(right) = (ROI_width_dots - 1) * (ROI_width_dots - 1)
     /\ \A i \in 2 .. 3 : closestLines[i].lying = closestLines[1].lying
     /\ closestLines[2].at + closestLines[3].at = 2 * closestLines[1].at

\* Of the lines only the quadrilateral is used from here on.  A view from other
\* corners is sheared, stretched or mirrored; what is read in it is left open.
adjustCornersToPredefinedArea ==
  /\ stage = "adjust"
  /\ \E quad \in arrangeDstQuad(CornerDots) :
       IF ~isRectangleWithMargin(quad) THEN Reject
       ELSE /\ stage' = IF OnGrid(quad) THEN "warp" ELSE "sheared"
            /\ ForgetLines
            /\ UNCHANGED viewVars

-----------------------------------------------------------------------------
(* The view *)

\* DASHLINES_LOSS_DOTS_NUM and the two margin columns and rows are not required.
required_minimal_dot ==
  (ROI_width_dots - 2) * (ROI_height_dots - 2) - ((ROI_height_dots - 1) \div 3) * 2

\* preprocessPointData: the dots in the quadrilateral, the middle baseline's
\* among them, and the centre, warped to the view.  Those around it that are in
\* the box drawn about its corners are counted with them; excludeMarginDots, which
\* comes next, drops them with the margin.
preprocessPointData(points, around, middle, CP, angle, lengths) ==
  /\ stage = "warp"
  /\ UNCHANGED <<retry, lineVars>>
  /\ IF required_minimal_dot > Cardinality(points) + around \/ middle = {}
     THEN stage' = "rejected" /\ UNCHANGED viewVars
     ELSE /\ stage' = "trim"
          /\ transformed_points' = points
          /\ middle_dots' = middle
          /\ transformed_CP' = CP
          /\ camera_up_angle' = angle
          /\ dashes' = lengths

InMargin(dot) ==
  \/ dot[1] <= Margin \/ ROI_width_size - Margin <= dot[1]
  \/ dot[2] <= Margin \/ ROI_height_size - Margin <= dot[2]

excludeMarginDots ==
  /\ stage = "trim"
  /\ transformed_points' = {dot \in transformed_points : ~InMargin(dot)}
  /\ middle_dots' = {dot \in middle_dots : ~InMargin(dot)}
  /\ stage' = IF Cardinality(middle_dots') > 10 THEN "rejected" ELSE "orient"
  /\ UNCHANGED <<retry, lineVars, transformed_CP, dashes, camera_up_angle>>

\* Four dashes, of which the first three can be told apart by their lengths.
DashesTell ==
  /\ Len(dashes) = 4
  /\ \A i, j \in 1 .. 3 :
       /\ 10 * dashes[i] < 18 * dashes[j]
       /\ i # j => Distance(dashes[i], dashes[j]) >= 6

\* Upright, the second longest of the three follows the longest, the first
\* following the last.
IsFlipped ==
  ~ \E top \in 1 .. 3 :
      LET mid == (top % 3) + 1
          bot == (mid % 3) + 1
      IN dashes[top] > dashes[mid] /\ dashes[mid] > dashes[bot]

Turned(dot) == <<ROI_width_size - dot[1], ROI_height_size - dot[2]>>

\* Mistake: the centre stays where it was.
CentreKept(dot) == dot

TurnedCentre(dot) == Turned(dot)

\* The dots, the centre and the angle are turned; the dots of the middle
\* baseline are not.
checkAndCorrectOrientation ==
  /\ stage = "orient"
  /\ IF ~DashesTell THEN Reject
     ELSE /\ stage' = "digitize"
          /\ IF IsFlipped
             THEN /\ transformed_points' = {Turned(dot) : dot \in transformed_points}
                  /\ transformed_CP' = TurnedCentre(transformed_CP)
                  /\ camera_up_angle' = Distance(camera_up_angle + 180, 0)
             ELSE UNCHANGED <<transformed_points, transformed_CP, camera_up_angle>>
          /\ UNCHANGED <<retry, lineVars, middle_dots, dashes>>
=============================================================================
