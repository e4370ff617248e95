--------------------------- MODULE MCLCodeDecoder ---------------------------
(* Small instances of LCodeDecoder: words of three symbols. *)
EXTENDS LCodeDecoder

MCFarCorner == -100

-----------------------------------------------------------------------------
(* Lines *)

Line(at, lying, swapped, dots) ==
  [at |-> at, lying |-> lying, swapped |-> swapped, dots |-> dots]

Rows == {-6, -3, 0, 3, 6}
Edges == -6 .. 6       \* an edge has a dot in every row

Standing(at) == Line(at, FALSE, FALSE, Rows)
False(at) == Line(at, FALSE, FALSE, Edges)
Lying(at) == Line(at, TRUE, FALSE, {0})

\* The baselines that begin with a column, in any order of detection.
Baselines(first, count) == {Standing(first + 4 * i) : i \in 0 .. count - 1}

Orders(lines) == SetToSeqs(lines)

LineSets ==
  {Baselines(first, count) : first \in -9 .. 1, count \in 2 .. 4}
    \cup {Baselines(first, 3) \cup {odd} :
            first \in -6 .. -2, odd \in {False(1), False(15), Lying(2), Standing(0)}}

LineScenes ==
  {[lines |-> lines, near |-> TRUE] :
     lines \in UNION {Orders(s) : s \in LineSets}}
    \cup {[lines |-> <<Standing(-4), Standing(0), Standing(4)>>, near |-> FALSE],
          [lines |-> [i \in 1 .. 5 |-> Standing(4 * i - 12)], near |-> TRUE]}

\* The baseline at -4 is missed, and a false line is found at 6.
GapScenes ==
  {[lines |-> lines, near |-> TRUE] :
     lines \in Orders({Standing(0), Standing(4), False(6), Standing(-8)})}

-----------------------------------------------------------------------------
(* Rows of dots *)

RowSets == {Rows, {-9, -6, -3, 0, 3}, {-6, -3, 0, 3, 6, 9}, {-6, 0, 3, 6, 9},
            {-8, -5, -2, 1, 4, 7, 10}}

CornerScenes ==
  {[lines |-> <<Line(0, FALSE, FALSE, middle), Line(-4, FALSE, s, left),
                Line(4, FALSE, t, right)>>, near |-> TRUE] :
     middle \in {Rows, {-5, -2, 1, 4}}, left \in RowSets, right \in RowSets,
     s \in BOOLEAN, t \in BOOLEAN}

\* The camera a quarter turn aside; and a lying line taken with two standing ones.
TurnedScenes ==
  {[lines |-> <<Line(0, TRUE, FALSE, Rows), Line(-4, TRUE, FALSE, left),
                Line(4, TRUE, FALSE, right)>>, near |-> TRUE] :
     left \in RowSets, right \in RowSets}
    \cup {[lines |-> <<Standing(0), Standing(2), Line(3, TRUE, FALSE, Rows),
                       Standing(8), Standing(-8)>>, near |-> TRUE]}

MCScenes == LineScenes \cup CornerScenes \cup TurnedScenes

-----------------------------------------------------------------------------
(* Views *)

View(x0, y0, upside, CP, off, turn) ==
  [x0 |-> x0, y0 |-> y0, upside |-> upside, CP |-> CP, off |-> off, turn |-> turn,
   around |-> 0, lost |-> {}, skewed |-> {}, misread |-> {}, errors |-> <<0, 0, 0, 0>>]

\* Some centres are halfway between dots, some at the edge of the view.
Centres == {2, 6, 11, 16, 19, 28, 31} \X {1, 6, 17, 24, 38, 47}

CleanViews ==
  {View(x0, y0, upside, CP, 0, -90) :
     x0 \in {0, 4, 12}, y0 \in {0, 24, 48}, upside \in BOOLEAN, CP \in Centres}

Somewhere == {View(4, y0, upside, CP, 0, 80) :
                y0 \in {3, 27}, upside \in BOOLEAN, CP \in {<<16, 24>>, <<6, 6>>}}

DisturbedViews ==
  {[v EXCEPT !.lost = lost] :
     v \in Somewhere, lost \in {{<<4, 6>>}, {<<3, 6>>}, {<<2, 2>>, <<1, 1>>},
                                (0 .. 8) \X (0 .. 3)}}
    \cup {[v EXCEPT !.skewed = {<<2, 2>>}] : v \in Somewhere}
    \cup {[v EXCEPT !.misread = {c}] : v \in Somewhere, c \in {<<3, 6>>, <<2, 1>>, <<1, 1>>}}
    \cup {[v EXCEPT !.lost = (0 .. 8) \X (0 .. 3), !.around = 40] : v \in Somewhere}
    \cup {[v EXCEPT !.off = 1] : v \in Somewhere}
    \cup {[v EXCEPT !.lost = {<<4, 3>>, <<4, 6>>, <<4, 9>>}, !.off = 1] : v \in Somewhere}
    \cup {[v EXCEPT !.errors = errors] :
            v \in {w \in Somewhere : w.CP = <<16, 24>> /\ w.y0 = 3},
            errors \in [1 .. 4 -> {-6, 0, 6}] \cup {<<0, 0, 0>>, <<0, 0, 0, 0, 0>>}}

MCViews == CleanViews \cup DisturbedViews
=============================================================================
