------------------------- MODULE LCodeDecoderProofs -------------------------
(***************************************************************************)
(* Proofs about LCodeDecoder, for every size of the floor, the view and    *)
(* the piece, and whatever the camera sees.                                *)
(***************************************************************************)
EXTENDS LCodeDecoder, DeBruijnSeqProofs, FiniteSetTheorems, TLAPS

-----------------------------------------------------------------------------
(* Numbers *)

LEMMA MinIs ==
  ASSUME NEW S \in SUBSET Nat, NEW least \in S, \A i \in S : least <= i
  PROVE  Min(S) = least
<1>1. Min(S) \in S /\ \A i \in S : Min(S) <= i
  BY DEF Min
<1>2. PICK m \in S : m = Min(S)
  BY <1>1
<1>3. m \in Nat /\ least \in Nat /\ m <= least /\ least <= m
  BY <1>1, <1>2
<1> QED BY <1>2, <1>3

-----------------------------------------------------------------------------
(* The de Bruijn sequences *)

\* The word of the de Bruijn sequence is read and written within its bounds,
\* for every alphabet and every length of a word: dfsIterative in a buffer of
\* order + 1 symbols.
THEOREM SequenceInBounds == Spec => []SequenceInv
<1>1. Init => SequenceInv
  BY AlphabetAssumption, ArrayAssumption
  DEF Init, ArrayInit, Begins, SequenceInv, SequenceTypeOK, ReadsInsideWord, Symbols
<1>2. SequenceInv /\ [Next]_vars => SequenceInv'
  <2> SUFFICES ASSUME SequenceInv, [Next]_vars PROVE SequenceInv'
    OBVIOUS
  <2>1. CASE BuildFloor
    <3>1. CASE dfsIterative
      BY <3>1, LoopInBounds
    <3>2. CASE KeepSSequence
      <4>1. k2 - 1 \in Nat \ {0}
        BY ArrayAssumption
      <4> QED BY <3>2, <4>1, BeginInBounds DEF KeepSSequence
    <3>3. CASE initMemberVars
      BY <3>3 DEF initMemberVars, sequenceVars, SequenceInv, SequenceTypeOK, ReadsInsideWord
    <3> QED BY <2>1, <3>1, <3>2, <3>3 DEF BuildFloor, BuildArray
  <2>2. CASE UNCHANGED sequenceVars
    BY <2>2 DEF sequenceVars, SequenceInv, SequenceTypeOK, ReadsInsideWord
  <2>3. CASE TakeImage \/ image_callback \/ NextImage \/ UNCHANGED vars
    <3>1. UNCHANGED sequenceVars
      BY <2>3 DEF TakeImage, image_callback, PreprocessLines, CutOut, PreprocessView,
                  Digitize, Publish, NextImage, IdleElse, floorVars, vars
    <3> QED BY <3>1, <2>2
  <2> QED BY <2>1, <2>3 DEF Next
<1> QED BY <1>1, <1>2, PTL DEF Spec

-----------------------------------------------------------------------------
(* The piece *)

\* A piece that is placed around any cell, even one that is no cell of the view,
\* lies within the cells, and the movement leads from it to the centre.
LEMMA PieceFits ==
  ASSUME NEW centre \in Int, NEW size \in Nat \ {0}, NEW entire \in Nat,
         size <= entire - 2
  PROVE  LET first == FirstOfPiece(centre, size, entire)
         IN /\ first \in Int
            /\ 1 <= first /\ first + size - 1 <= entire - 2
            /\ centre = first + Movement(centre, size, entire)
            /\ centre \in 1 .. entire - 2 => centre \in first .. first + size - 1
<1> DEFINE half == size \div 2
<1>1. half \in Nat /\ half <= size /\ half < size
  OBVIOUS
<1> HIDE DEF half
<1> QED BY <1>1 DEF FirstOfPiece, Movement, half

\* The column that is put back lies within the cells.
LEMMA InterpolatedInCells ==
  ASSUME NEW dots, DOMAIN dots \subseteq Cells, NEW at
  PROVE  DOMAIN InterpolatingDashArea(dots, at) \subseteq Cells
<1>1. CASE CellsOn(dots, at) = {}
  BY <1>1 DEF InterpolatingDashArea
<1>2. CASE CellsOn(dots, at) # {}
  <2> DEFINE known == CHOOSE c \in CellsOn(dots, at) : TRUE
             column == {known[1]} \X (1 .. entireRow - 2)
  <2>1. known \in CellsOn(dots, at)
    BY <1>2
  <2>2. known \in Cells
    BY <2>1 DEF CellsOn
  <2>3. DOMAIN InterpolatingDashArea(dots, at) = DOMAIN dots \cup column
    BY <1>2 DEF InterpolatingDashArea
  <2> HIDE DEF known
  <2>4. known[1] \in 1 .. entireCol - 2
    BY <2>2 DEF Cells
  <2>5. column \subseteq Cells
    BY <2>4 DEF Cells
  <2> QED BY <2>3, <2>5
<1> QED BY <1>1, <1>2

\* The cells of the sorted and interpolated dots are cells of the view.
LEMMA DotsInCells ==
  ASSUME NEW points, NEW at
  PROVE  DOMAIN InterpolatingDashArea(Sort2DdotArr(points), at) \subseteq Cells
<1>1. DOMAIN Sort2DdotArr(points) \subseteq Cells
  BY DEF Sort2DdotArr
<1> QED BY <1>1, InterpolatedInCells

\* The dot that is nearest the centre has a cell, unless there are no dots.
LEMMA CentreIsCell ==
  ASSUME NEW dots, DOMAIN dots \subseteq Cells, NEW CP, NEW centre \in FindCP_Index(dots, CP)
  PROVE  /\ centre[1] \in Int /\ centre[2] \in Int
         /\ DOMAIN dots # {} => centre[1] \in 1 .. entireCol - 2 /\ centre[2] \in 1 .. entireRow - 2
<1>1. CASE dots = <<>>
  BY <1>1 DEF FindCP_Index
<1>2. CASE dots # <<>>
  <2>1. centre \in DOMAIN dots
    BY <1>2 DEF FindCP_Index
  <2>2. centre \in Cells
    BY <2>1
  <2> QED BY <2>2, ViewAssumption DEF Cells, entireCol, entireRow
<1> QED BY <1>1, <1>2

\* What is kept besides WindowInside: no piece is digitized before the digitizer
\* has run on the image.
Ahead == stage \notin Ended \cup {"digitized"}

PieceInv ==
  /\ WindowInside
  /\ Ahead => digitizied_array = <<>>

LEMMA DigitizeKeepsPiece ==
  ASSUME PieceInv, runDigitize PROVE PieceInv'
<1>1. CASE UNCHANGED digitizerVars
  BY <1>1 DEF runDigitize, PieceInv, WindowInside, Ahead, Ended, digitizerVars
<1>2. CASE ~TooFew
  <2>a. PICK at : DigitizePiece(InterpolatingDashArea(Sort2DdotArr(transformed_points), at), at)
    BY <1>2 DEF runDigitize
  <2> DEFINE dots == InterpolatingDashArea(Sort2DdotArr(transformed_points), at)
  <2>1. DOMAIN dots \subseteq Cells
    BY DotsInCells
  <2> HIDE DEF dots
  <2>2. PICK centre \in FindCP_Index(dots, transformed_CP) :
          LET rect == RectAround(centre)
              baseline == BaselineColumns(dots, rect, at)
          IN /\ CP_dotIndex' = centre
             /\ movementIndex' = <<Movement(centre[1], subCol, entireCol),
                                   Movement(centre[2], subRow, entireRow)>>
             /\ subRect' = rect
             /\ IF CellsOf(rect) \subseteq DOMAIN dots /\ AnglesHold(dots, rect, baseline)
                THEN digitizied_array' = Digits(dots, rect, baseline) /\ stage' = "digitized"
                ELSE stage' = "rejected" /\ UNCHANGED digitizied_array
    BY <2>a DEF DigitizePiece, dots
  <2>3. ~Ahead'
    BY <2>2 DEF Ahead, Ended
  <2>4. digitizied_array = <<>>
    BY DEF PieceInv, runDigitize, Ahead, Ended
  <2>5. /\ centre[1] \in Int /\ centre[2] \in Int
        /\ DOMAIN dots # {} => centre[1] \in 1 .. entireCol - 2 /\ centre[2] \in 1 .. entireRow - 2
    BY <2>1, CentreIsCell
  <2> DEFINE rect == RectAround(centre)
  <2>6. /\ rect.left \in Int /\ 1 <= rect.left /\ rect.right <= entireCol - 2
        /\ rect.right = rect.left + subCol - 1
        /\ centre[1] = rect.left + Movement(centre[1], subCol, entireCol)
        /\ centre[1] \in 1 .. entireCol - 2 => centre[1] \in rect.left .. rect.right
    BY <2>5, PieceFits, DigitizerAssumption, ViewAssumption DEF RectAround, entireCol, entireRow
  <2>7. /\ rect.top \in Int /\ 1 <= rect.top /\ rect.bottom <= entireRow - 2
        /\ rect.bottom = rect.top + subRow - 1
        /\ centre[2] = rect.top + Movement(centre[2], subRow, entireRow)
        /\ centre[2] \in 1 .. entireRow - 2 => centre[2] \in rect.top .. rect.bottom
    BY <2>5, PieceFits, DigitizerAssumption, ViewAssumption DEF RectAround, entireCol, entireRow
  <2>8. centre = <<centre[1], centre[2]>>
    <3>1. CASE dots = <<>>
      BY <3>1 DEF FindCP_Index
    <3>2. CASE dots # <<>>
      BY <2>1, <3>2 DEF FindCP_Index, Cells
    <3> QED BY <3>1, <3>2
  <2>9. subRect' = rect /\ CP_dotIndex' = centre
    BY <2>2
  <2>10. CP_dotIndex' = <<subRect'.left + movementIndex'[1], subRect'.top + movementIndex'[2]>>
    <3>1. movementIndex'[1] = Movement(centre[1], subCol, entireCol)
          /\ movementIndex'[2] = Movement(centre[2], subRow, entireRow)
      BY <2>2
    <3> HIDE DEF rect
    <3> QED BY <2>6, <2>7, <2>8, <2>9, <3>1
  <2>11. digitizied_array' # <<>> => CP_dotIndex' \in CellsOf(subRect')
    <3> SUFFICES ASSUME digitizied_array' # <<>> PROVE centre \in CellsOf(rect)
      BY <2>9
    <3>1. CellsOf(rect) \subseteq DOMAIN dots
      BY <2>2, <2>4
    <3> HIDE DEF rect
    <3>2. <<rect.left, rect.top>> \in CellsOf(rect)
      BY <2>6, <2>7, DigitizerAssumption DEF CellsOf
    <3>3. DOMAIN dots # {}
      BY <3>1, <3>2
    <3> QED BY <2>5, <2>6, <2>7, <2>8, <3>3 DEF CellsOf
  <2>12. WindowInside'
    <3> HIDE DEF rect
    <3> QED BY <2>6, <2>7, <2>9, <2>10, <2>11 DEF WindowInside, entireCol, entireRow
  <2> QED BY <2>3, <2>12 DEF PieceInv
<1> QED BY <1>1, <1>2 DEF runDigitize

\* The digitizer never looks outside the view, and the cell it reports for the
\* centre is that of the centre, for every size of the view and of the piece.
THEOREM PieceStaysInside == Spec => []WindowInside
<1>1. Init => PieceInv
  BY DEF Init, NothingDigitized, PieceInv, WindowInside
<1>2. PieceInv /\ [Next]_vars => PieceInv'
  <2> SUFFICES ASSUME PieceInv, [Next]_vars PROVE PieceInv'
    OBVIOUS
  <2>1. ASSUME UNCHANGED digitizerVars, Ahead' => Ahead PROVE PieceInv'
    BY <2>1 DEF PieceInv, WindowInside, digitizerVars
  <2>2. CASE BuildFloor
    BY <2>1, <2>2 DEF BuildFloor, Ahead, Ended
  <2>3. CASE TakeImage
    BY <2>1, <2>3 DEF TakeImage, DetectBaseLines, IdleElse, Ahead, Ended
  <2>4. CASE PreprocessLines
    <3>1. stage \in {"order", "count", "sides", "dots", "corners", "adjust"}
      BY <2>4
      DEF PreprocessLines, orderBaseLinesByClosestDot, findValidLinesByDotsNum,
          validateClosestBaseLinesByDirection, FindSideDots,
          findwarpPerspectiveCornerPoint, adjustCornersToPredefinedArea
    <3> QED BY <2>1, <2>4, <3>1 DEF PreprocessLines, IdleElse, Ahead, Ended
  <2>5. CASE CutOut
    BY <2>1, <2>5 DEF CutOut, Ahead, Ended
  <2>6. CASE PreprocessView
    <3>1. stage \in {"trim", "orient"}
      BY <2>6 DEF PreprocessView, excludeMarginDots, checkAndCorrectOrientation
    <3> QED BY <2>1, <2>6, <3>1 DEF PreprocessView, IdleElse, Ahead, Ended
  <2>7. CASE Digitize
    BY <2>7, DigitizeKeepsPiece DEF Digitize
  <2>8. CASE Publish
    <3>1. ~Ahead' /\ UNCHANGED digitizerVars
      BY <2>8 DEF Publish, Ahead, Ended
    <3> QED BY <2>1, <3>1
  <2>9. CASE NextImage
    BY <2>9 DEF NextImage, ForgetPiece, PieceInv, WindowInside
  <2>10. CASE UNCHANGED vars
    BY <2>1, <2>10 DEF vars, preprocessorVars, Ahead
  <2> QED BY <2>2, <2>3, <2>4, <2>5, <2>6, <2>7, <2>8, <2>9, <2>10 DEF Next, image_callback
<1>3. PieceInv => WindowInside
  BY DEF PieceInv
<1> QED BY <1>1, <1>2, <1>3, PTL DEF Spec

-----------------------------------------------------------------------------
(* The floor *)

\* Of the columns from 0 to n, the first of m and every m-th after it is a
\* multiple of m.
LEMMA MultiplesUpTo ==
  ASSUME NEW m \in Nat \ {0}, NEW n \in Nat
  PROVE  /\ IsFiniteSet({b \in 0 .. n : b % m = 0})
         /\ Cardinality({b \in 0 .. n : b % m = 0}) = n \div m + 1
<1> DEFINE multiples == {b \in 0 .. n : b % m = 0}
<1>1. PICK quotient \in Nat : quotient = n \div m
  OBVIOUS
<1>2. m * quotient <= n /\ n < m * (quotient + 1)
  BY <1>1
<1> DEFINE multiple == [i \in 0 .. quotient |-> m * i]
<1>3. \A i \in 0 .. quotient : m * i \in 0 .. n /\ (m * i) % m = 0
  <2> SUFFICES ASSUME NEW i \in 0 .. quotient
               PROVE  m * i \in 0 .. n /\ (m * i) % m = 0
    OBVIOUS
  <2>1. m * i <= m * quotient /\ m * i >= 0 /\ m * i \in Int
    BY Z3
  <2>2. (m * i) % m = 0
    OBVIOUS
  <2> QED BY <1>2, <2>1, <2>2
<1>4. \A b \in multiples : \E i \in 0 .. quotient : b = m * i
  <2> SUFFICES ASSUME NEW b \in multiples
               PROVE  \E i \in 0 .. quotient : b = m * i
    OBVIOUS
  <2>1. PICK i \in Nat : i = b \div m
    OBVIOUS
  <2>2. b = m * i
    BY <2>1
  <2>3. i <= quotient
    BY <2>2, <1>2
  <2> QED BY <2>1, <2>2, <2>3
<1>5. \A i, j \in 0 .. quotient : m * i = m * j => i = j
  OBVIOUS
<1>6. multiple \in Bijection(0 .. quotient, multiples)
  BY <1>3, <1>4, <1>5 DEF Bijection, Injection, Surjection, IsInjective
<1>7. IsFiniteSet(0 .. quotient) /\ Cardinality(0 .. quotient) = quotient + 1
  BY FS_Interval
<1>8. ExistsBijection(0 .. quotient, multiples)
  BY <1>6 DEF ExistsBijection
<1> QED BY <1>1, <1>7, <1>8, FS_Bijection

\* printSpecificRange and getSubset count the baselines before their first
\* column with a division: what they take off a column is what printBGArr does,
\* the baselines from the left edge of the floor.
LEMMA CorrectionCountsBaselines ==
  ASSUME NEW from \in Nat, NEW x \in Nat, from <= x
  PROVE  colCorrection(from, x) = Cardinality({b \in 0 .. x : IsBaseline(b)})
<1> DEFINE m == lineInterval + 1
           upTo(n) == {b \in 0 .. n : b % m = 0}
           after == {b \in from .. x : b % m = 0}
<1>1. m \in Nat \ {0}
  BY ArrayAssumption
<1>2. IsFiniteSet(after) /\ Cardinality(after) \in Nat
  <2>1. after \in SUBSET (from .. x) /\ IsFiniteSet(from .. x)
    BY FS_Interval
  <2> QED BY <2>1, FS_Subset, FS_CardinalityType
<1>3. CASE from = 0
  <2>1. from % m = 0 /\ from \div m = 0
    BY <1>1, <1>3
  <2> HIDE DEF m
  <2>2. from \div m + 0 + Cardinality(after) = Cardinality(upTo(x))
    BY <1>2, <1>3, <2>1
  <2> QED BY <2>1, <2>2 DEF colCorrection, IsBaseline, m
<1>4. CASE from > 0
  <2> DEFINE before == upTo(from - 1)
  <2>1. upTo(x) = before \cup after /\ before \cap after = {}
    <3> HIDE DEF m
    <3> QED BY <1>4
  <2>2. IsFiniteSet(before) /\ Cardinality(before) = (from - 1) \div m + 1
    <3> HIDE DEF m
    <3>1. from - 1 \in Nat
      BY <1>4
    <3> QED BY <1>1, <3>1, MultiplesUpTo
  <2>3. (from - 1) \div m + 1 = from \div m + (IF from % m = 0 THEN 0 ELSE 1)
    <3> HIDE DEF m
    <3>1. PICK q \in Nat, r \in 0 .. m - 1 :
            /\ q = from \div m /\ r = from % m /\ from = m * q + r
      BY <1>1
    <3>2. CASE r = 0
      <4>1. from - 1 = m * (q - 1) + (m - 1) /\ q - 1 \in Int /\ m - 1 \in 0 .. m - 1
        BY <1>1, <1>4, <3>1, <3>2
      <4>2. (from - 1) \div m = q - 1
        BY <1>1, <1>4, <4>1
      <4> QED BY <3>1, <3>2, <4>2
    <3>3. CASE r > 0
      <4>1. from - 1 = m * q + (r - 1) /\ r - 1 \in 0 .. m - 1
        BY <1>1, <3>1, <3>3
      <4>2. (from - 1) \div m = q
        BY <1>1, <1>4, <3>1, <4>1
      <4> QED BY <3>1, <3>3, <4>2
    <3> QED BY <3>1, <3>2, <3>3
  <2>4. Cardinality(upTo(x)) = Cardinality(before) + Cardinality(after)
    <3> HIDE DEF m, before, after, upTo
    <3>1. Cardinality(before \cap after) = 0
      BY <2>1, FS_EmptySet
    <3>2. Cardinality(before) \in Nat
      BY <2>2, FS_CardinalityType
    <3>3. Cardinality(before \cup after)
            = Cardinality(before) + Cardinality(after) - Cardinality(before \cap after)
      BY <1>2, <2>2, FS_Union
    <3> QED BY <1>2, <2>1, <3>1, <3>2, <3>3
  <2> HIDE DEF before
  <2> QED BY <1>1, <1>2, <2>2, <2>3, <2>4 DEF colCorrection, IsBaseline
<1> QED BY <1>3, <1>4

\* The sequences are written before the floor is put together from them.
FloorInv == SequenceInv /\ deSeqK1 \in Seq(Symbols)

LEMMA NextKeepsFloor == FloorInv /\ SequenceInv' /\ [Next]_vars => FloorInv'
<1> SUFFICES ASSUME FloorInv, SequenceInv', [Next]_vars PROVE FloorInv'
  OBVIOUS
<1>1. CASE BuildFloor
  BY <1>1 DEF BuildFloor, BuildArray, KeepSSequence, initMemberVars, arrayVars,
              SequenceInv, SequenceTypeOK, FloorInv
<1>2. CASE UNCHANGED floorVars
  BY <1>2 DEF floorVars, arrayVars, FloorInv
<1> QED
  BY <1>1, <1>2
  DEF Next, vars, floorVars, TakeImage, image_callback, PreprocessLines, CutOut,
      PreprocessView, Digitize, Publish, NextImage, IdleElse

LEMMA FloorHolds == Spec => []FloorInv
<1>1. Init => deSeqK1 \in Seq(Symbols)
  BY DEF Init, ArrayInit
<1>2. Init /\ SequenceInv => FloorInv
  BY <1>1 DEF FloorInv
<1> QED BY <1>2, NextKeepsFloor, SequenceInBounds, PTL DEF Spec

CountStep(count, t, i) == IF i = 1 THEN 0 ELSE count[i - 1] + t[i - 1]

LEMMA ShiftsDefined ==
  ASSUME NEW t \in Seq(Nat)
  PROVE  /\ Len(ShiftsOf(t)) = Len(t) + 1
         /\ ShiftsOf(t)[1] = 0
         /\ \A i \in 1 .. Len(t) : ShiftsOf(t)[i + 1] = ShiftsOf(t)[i] + t[i]
         /\ \A i \in 1 .. Len(t) + 1 : ShiftsOf(t)[i] \in Nat
<1> DEFINE Defined(k) == \E f : f = [i \in 1 .. k + 1 |-> CountStep(f, t, i)]
           S == {k \in Nat : Defined(k)}
<1>1. 0 \in S
  <2> DEFINE f == [i \in 1 .. 0 + 1 |-> 0]
  <2>1. f = [i \in 1 .. 0 + 1 |-> CountStep(f, t, i)]
    BY DEF CountStep
  <2> HIDE DEF f
  <2> QED BY <2>1
<1>2. ASSUME NEW k \in Nat, k \in S PROVE k + 1 \in S
  <2>1. PICK f : f = [i \in 1 .. k + 1 |-> CountStep(f, t, i)]
    BY <1>2
  <2> DEFINE g == [i \in 1 .. k + 1 + 1 |-> CountStep(f, t, i)]
  <2>2. \A i \in 1 .. k + 1 : g[i] = f[i]
    <3>1. \A i \in 1 .. k + 1 : f[i] = CountStep(f, t, i)
      BY <2>1
    <3>2. \A i \in 1 .. k + 1 : g[i] = CountStep(f, t, i)
      OBVIOUS
    <3> HIDE DEF g
    <3> QED BY <3>1, <3>2
  <2>3. ASSUME NEW i \in 1 .. k + 1 + 1 PROVE g[i] = CountStep(g, t, i)
    <3>1. i # 1 => i - 1 \in 1 .. k + 1
      OBVIOUS
    <3>2. i # 1 => g[i - 1] = f[i - 1]
      BY <2>2, <3>1
    <3>3. g[i] = CountStep(f, t, i)
      OBVIOUS
    <3> HIDE DEF g
    <3> QED BY <3>2, <3>3 DEF CountStep
  <2>4. g = [i \in 1 .. k + 1 + 1 |-> CountStep(g, t, i)]
    BY <2>3
  <2> HIDE DEF g
  <2> QED BY <2>4
<1> HIDE DEF Defined
<1>3. Nat \subseteq S
  BY <1>1, <1>2, EveryNumber
<1>4. Len(t) \in Nat /\ \A i \in 1 .. Len(t) : t[i] \in Nat
  OBVIOUS
<1> DEFINE f == ShiftsOf(t)
<1>5. \E g : g = [i \in 1 .. Len(t) + 1 |-> CountStep(g, t, i)]
  BY <1>3, <1>4 DEF Defined
<1>6. f = CHOOSE g : g = [i \in 1 .. Len(t) + 1 |-> CountStep(g, t, i)]
  BY DEF ShiftsOf, CountStep
<1> HIDE DEF f
<1>7. f = [i \in 1 .. Len(t) + 1 |-> CountStep(f, t, i)]
  BY <1>5, <1>6
<1>8. Len(f) = Len(t) + 1 /\ f[1] = 0
  BY <1>4, <1>7 DEF CountStep
<1>9. ASSUME NEW i \in 1 .. Len(t) PROVE f[i + 1] = f[i] + t[i]
  <2>1. i + 1 \in 1 .. Len(t) + 1 /\ i + 1 # 1 /\ i + 1 - 1 = i
    BY <1>4
  <2>2. f[i + 1] = CountStep(f, t, i + 1)
    BY <1>7, <2>1
  <2> QED BY <2>1, <2>2 DEF CountStep
<1> DEFINE T == {k \in Nat : k + 1 <= Len(t) + 1 => f[k + 1] \in Nat}
<1>10. 0 \in T
  BY <1>8
<1>11. ASSUME NEW k \in Nat, k \in T PROVE k + 1 \in T
  <2> SUFFICES ASSUME k + 1 + 1 <= Len(t) + 1 PROVE f[k + 1 + 1] \in Nat
    OBVIOUS
  <2>1. k + 1 \in 1 .. Len(t)
    BY <1>4
  <2>2. f[k + 1] \in Nat /\ t[k + 1] \in Nat
    BY <1>4, <1>11, <2>1
  <2> QED BY <1>9, <2>1, <2>2
<1> HIDE DEF T
<1>12. Nat \subseteq T
  BY <1>10, <1>11, EveryNumber
<1>13. ASSUME NEW i \in 1 .. Len(t) + 1 PROVE f[i] \in Nat
  <2>1. i - 1 \in T /\ i - 1 + 1 = i
    BY <1>4, <1>12
  <2> QED BY <1>4, <2>1 DEF T
<1> QED BY <1>8, <1>9, <1>13 DEF f

LEMMA FrontOfSymbols ==
  ASSUME NEW s \in Seq(Symbols) PROVE Front(s) \in Seq(Nat)
<1>1. Len(s) \in Nat /\ \A i \in 1 .. Len(s) : s[i] \in Nat
  <2>1. \A n \in Symbols : n \in Nat
    BY AlphabetAssumption DEF Symbols
  <2> HIDE DEF Symbols
  <2> QED BY <2>1
<1>2. Front(s) = [i \in 1 .. Len(s) - 1 |-> s[i]]
  BY <1>1 DEF Front
<1>3. CASE Len(s) = 0
  <2>1. 1 .. Len(s) - 1 = 1 .. 0
    BY <1>3
  <2>2. Front(s) = [i \in 1 .. 0 |-> s[i]]
    BY <1>2, <2>1
  <2>3. [i \in 1 .. 0 |-> s[i]] \in Seq(Nat)
    OBVIOUS
  <2> QED BY <2>2, <2>3
<1>4. CASE Len(s) # 0
  <2>1. Len(s) - 1 \in Nat
    BY <1>1, <1>4
  <2> QED BY <1>1, <1>2, <2>1
<1> QED BY <1>3, <1>4

\* The floor has a row for every symbol of the s-sequence.
LEMMA FloorSizes ==
  ASSUME FloorInv, initMemberVars
  PROVE  BGRows' \in Int /\ BGCols' \in Int
<1>1. dBSeq \in Seq(Symbols)
  BY DEF FloorInv, SequenceInv, SequenceTypeOK
<1>2. Len(Front(deSeqK1)) \in Int /\ Front(dBSeq) \in Seq(Nat)
  <2>1. Len(Front(deSeqK1)) \in Int
    <3> HIDE DEF Symbols
    <3> QED BY DEF Front, FloorInv
  <2>2. Front(dBSeq) \in Seq(Nat)
    BY <1>1, FrontOfSymbols
  <2> QED BY <2>1, <2>2
<1>3. Len(countShift') \in Nat
  BY <1>2, ShiftsDefined DEF initMemberVars
<1>4. Len(sSeq') \in Int
  BY <1>2 DEF initMemberVars
<1> QED BY <1>3, <1>4, ArrayAssumption DEF BGRows, BGCols

\* A piece begins before the last column and row.
LEMMA InsideFloor ==
  ASSUME NEW n \in Int, NEW m \in Int PROVE
  /\ \A x \in 0 .. n - k2 - 1 : ~(x > n - 1)
  /\ \A y \in 0 .. m - k1 : ~(y > m - 1)
<1>1. k1 \in Nat \ {0} /\ k2 \in Nat \ {0}
  BY ArrayAssumption
<1> QED BY <1>1

\* The whole floor, as it is printed in parts and as it is searched agree, for
\* every alphabet, size of a piece and interval of the baselines.
THEOREM FloorsPrintedAlike == Spec => PiecesArePrinted
<1>1. FloorInv /\ [Next]_vars => (~built /\ built' => FloorsAgree')
  <2> SUFFICES ASSUME FloorInv, [Next]_vars, ~built, built' PROVE FloorsAgree'
    OBVIOUS
  <2>1. initMemberVars
    BY DEF Next, vars, floorVars, arrayVars, BuildFloor, BuildArray, KeepSSequence,
        TakeImage, image_callback, PreprocessLines, CutOut, PreprocessView, Digitize,
        Publish, NextImage, IdleElse
  <2>2. BGRows' \in Int /\ BGCols' \in Int
    BY <2>1, FloorSizes
  <2> SUFFICES ASSUME NEW x \in 0 .. BGCols' - k2 - 1,
                      NEW y \in 0 .. BGRows' - k1
               PROVE  getSubset(x, y, k2 + 1, k1)' =
                        [i \in 1 .. k1 |-> [j \in 1 .. k2 + 1 |->
                           PrintedCell(x + j - 1, y + i - 1)]]'
    BY DEF FloorsAgree
  <2>3. ~(x > BGCols' - 1 \/ y > BGRows' - 1)
    BY <2>2, InsideFloor
  <2>4. \A j \in 1 .. k2 + 1 :
          colCorrection(x, x + j - 1) = Cardinality({b \in 0 .. x + j - 1 : IsBaseline(b)})
    BY CorrectionCountsBaselines, ArrayAssumption
  <2> QED BY <2>3, <2>4 DEF getSubset, RangeCell, PrintedCell
<1> QED BY <1>1, FloorHolds, PTL DEF Spec, PiecesArePrinted

-----------------------------------------------------------------------------
(* The search *)

Occurs(text, pattern, i) == \A j \in 1 .. Len(pattern) : text[i + j] = pattern[j]

\* The search finds the first occurrence.
LEMMA SearchFinds ==
  ASSUME NEW text, NEW pattern, Len(text) \in Nat, Len(pattern) \in Nat,
         NEW at \in 0 .. Len(text) - Len(pattern),
         Occurs(text, pattern, at), \A i \in 0 .. at - 1 : ~Occurs(text, pattern, i)
  PROVE  Search(text, pattern) = at
<1> DEFINE places == {i \in 0 .. Len(text) - Len(pattern) :
                        \A j \in 1 .. Len(pattern) : text[i + j] = pattern[j]}
<1> USE DEF Occurs
<1>1. at \in places /\ places \subseteq Nat
  OBVIOUS
<1>2. ASSUME NEW i \in places PROVE ~(i < at)
  <2> SUFFICES ASSUME i < at PROVE FALSE
    OBVIOUS
  <2>1. i \in 0 .. at - 1
    BY <1>1
  <2> QED BY <2>1
<1> HIDE DEF places
<1>3. \A i \in places : at <= i
  BY <1>1, <1>2
<1>4. Min(places) = at
  BY <1>1, <1>3, MinIs
<1> QED BY <1>1, <1>4 DEF Search, places

-----------------------------------------------------------------------------
(* Rings *)

\* The symbols of a ring from one on.
OnRing(s, n) == s[(n % Len(s)) + 1]
RingWord(s, m, n) == [i \in 1 .. m |-> OnRing(s, n + i - 1)]

LEMMA WordOnRing ==
  ASSUME NEW s, Len(s) \in Nat \ {0}, NEW m \in Nat, NEW n \in Int
  PROVE  /\ WordAt(s, m, (n % Len(s)) + 1) = RingWord(s, m, n)
         /\ (n % Len(s)) + 1 \in 1 .. Len(s)
<1> DEFINE L == Len(s)
<1>1. n % L \in 0 .. L - 1
  BY Modulo
<1>2. \A i \in 1 .. m : ((n % L) + 1 + i - 2) % L = (n + i - 1) % L
  <2> TAKE i \in 1 .. m
  <2>0. i - 1 \in Int /\ L \in Nat \ {0}
    OBVIOUS
  <2> HIDE DEF L
  <2>1. ((n % L) + (i - 1)) % L = (n + (i - 1)) % L
    BY <2>0, ModuloTwice
  <2>2. (n % L) + (i - 1) = (n % L) + 1 + i - 2 /\ n + (i - 1) = n + i - 1
    BY <1>1
  <2> QED BY <2>1, <2>2
<1> HIDE DEF L
<1>3. WordAt(s, m, (n % L) + 1) = [i \in 1 .. m |-> s[(((n % L) + 1 + i - 2) % L) + 1]]
  BY DEF WordAt, L
<1>4. \A i \in 1 .. m : s[(((n % L) + 1 + i - 2) % L) + 1] = OnRing(s, n + i - 1)
  BY <1>2 DEF OnRing, L
<1>5. (n % L) + 1 \in 1 .. L
  BY <1>1 DEF L
<1> QED BY <1>3, <1>4, <1>5 DEF RingWord, L

\* A stretch of a ring is searched for a word of the ring: it is found where it
\* is, unless the stretch passes there before.
LEMMA StretchSearched ==
  ASSUME NEW s, Len(s) \in Nat \ {0}, NEW m \in Nat, NoWordTwice(s, m),
         NEW text, Len(text) \in Nat, NEW begin \in Int,
         \A n \in 1 .. Len(text) : text[n] = OnRing(s, begin + n - 1),
         NEW at \in 0 .. Len(text) - m, at < Len(s)
  PROVE  Search(text, RingWord(s, m, begin + at)) = at
<1> DEFINE wordAt(h) == RingWord(s, m, begin + h)
<1> DEFINE L == Len(s)
<1>0. L \in Nat \ {0} /\ at < L
  OBVIOUS
<1>a. /\ \A a, b \in Int : a < b /\ b - a < L => a % L # b % L
      /\ \A a \in Int : a % L \in 0 .. L - 1
  BY <1>0, Modulo, ModuloApart
<1>b. \A a \in Int : WordAt(s, m, (a % L) + 1) = RingWord(s, m, a)
  BY WordOnRing
<1> HIDE DEF L
<1>1. ASSUME NEW h \in 0 .. at - 1 PROVE wordAt(h) # wordAt(at)
  <2>1. begin + h \in Int /\ begin + at \in Int
        /\ begin + h < begin + at /\ begin + at - (begin + h) < L
    BY <1>0
  <2>2. (begin + h) % L # (begin + at) % L
    BY <1>a, <2>1
  <2>3. /\ (begin + h) % L \in 0 .. L - 1
        /\ (begin + at) % L \in 0 .. L - 1
    BY <1>a, <2>1
  <2>a. /\ ((begin + h) % L) + 1 \in 1 .. L
        /\ ((begin + at) % L) + 1 \in 1 .. L
    BY <1>0, <2>3
  <2>b. /\ wordAt(h) = WordAt(s, m, ((begin + h) % L) + 1)
        /\ wordAt(at) = WordAt(s, m, ((begin + at) % L) + 1)
    BY <1>b, <2>1
  <2>4. ((begin + h) % L) + 1 # ((begin + at) % L) + 1
    BY <2>2, <2>3
  <2> HIDE DEF wordAt
  <2> QED BY <2>a, <2>b, <2>4 DEF NoWordTwice, L
<1>2. ASSUME NEW h \in 0 .. at, NEW j \in 1 .. m PROVE text[h + j] = wordAt(h)[j]
  <2>1. h + j \in 1 .. Len(text) /\ begin + (h + j) - 1 = begin + h + j - 1
    OBVIOUS
  <2> QED BY <2>1 DEF RingWord
<1>3. \A j \in 1 .. m : text[at + j] = wordAt(at)[j]
  BY <1>2
<1>4. ASSUME NEW h \in 0 .. at - 1 PROVE \E j \in 1 .. m : text[h + j] # wordAt(at)[j]
  <2>1. \E j \in 1 .. m : wordAt(h)[j] # wordAt(at)[j]
    BY <1>1 DEF RingWord
  <2>2. h \in 0 .. at
    OBVIOUS
  <2> QED BY <1>2, <2>1, <2>2
<1>5. Len(wordAt(at)) = m
  BY DEF RingWord
<1> DEFINE pattern == wordAt(at)
<1> HIDE DEF wordAt, pattern
<1>6. Search(text, wordAt(at)) = at
  <2>1. Len(pattern) = m
    BY <1>5 DEF pattern
  <2>2. at \in 0 .. Len(text) - Len(pattern)
    BY <2>1
  <2>3. Occurs(text, pattern, at)
    BY <1>3, <2>1 DEF pattern, Occurs
  <2>4. \A h \in 0 .. at - 1 : ~Occurs(text, pattern, h)
    BY <1>4, <2>1 DEF pattern, Occurs
  <2>5. Len(pattern) \in Nat
    BY <2>1
  <2>6. Search(text, pattern) = at
    BY <2>2, <2>3, <2>4, <2>5, SearchFinds
  <2> QED BY <2>6 DEF pattern
<1> QED BY <1>6 DEF wordAt

\* The last symbol is one of n equal ones: without it the ring has lost one word
\* of n symbols, and gained none.
LEMMA RingWithoutLast ==
  ASSUME NEW s \in Seq(Symbols), NEW m \in Nat \ {0}, m < Len(s),
         NoWordTwice(s, m), GreatestAtEnd(s, m)
  PROVE  NoWordTwice(Front(s), m)
<1> DEFINE L == Len(s)
           front == Front(s)
           place(i) == IF i <= L - m THEN i ELSE i + 1
<1>1. L \in Nat /\ m < L /\ \A i \in 1 .. L : s[i] \in Symbols
  OBVIOUS
<1>2. Len(front) = L - 1 /\ \A i \in 1 .. L - 1 : front[i] = s[i]
  BY <1>1 DEF Front
<1>3. \A i \in L - m + 1 .. L : s[i] = K_LIMIT
  BY DEF GreatestAtEnd
<1> HIDE DEF L, front
<1>a. L \in Nat \ {0} /\ L - 1 \in Nat \ {0}
  BY <1>1
<1>b. /\ \A n \in Int : 0 <= n /\ n < L => n % L = n
      /\ \A n \in Int : L <= n /\ n < 2 * L => n % L = n - L
  BY <1>a, Modulo
<1>c. /\ \A n \in Int : 0 <= n /\ n < L - 1 => n % (L - 1) = n
      /\ \A n \in Int : L - 1 <= n /\ n < 2 * (L - 1) => n % (L - 1) = n - (L - 1)
  BY <1>a, Modulo
<1>4. ASSUME NEW i \in 1 .. L - 1, NEW h \in 1 .. m
      PROVE  front[((i + h - 2) % (L - 1)) + 1] = s[((place(i) + h - 2) % L) + 1]
  <2>1. PICK n \in Nat : n = i + h - 2
    OBVIOUS
  <2> SUFFICES front[(n % (L - 1)) + 1] = s[((place(i) + h - 2) % L) + 1]
    BY <2>1
  <2>2. CASE i <= L - m
    <3>1. place(i) + h - 2 = n /\ n < L - 1 /\ n + 1 \in 1 .. L - 1
      BY <1>1, <2>1, <2>2
    <3>2. n % (L - 1) = n /\ n % L = n
      <4>1. n \in Int /\ 0 <= n /\ n < L - 1 /\ n < L
        BY <1>1, <3>1
      <4>2. n % L = n
        BY <1>b, <4>1
      <4>3. n % (L - 1) = n
        BY <1>c, <4>1
      <4> QED BY <4>2, <4>3
    <3>3. front[n + 1] = s[n + 1]
      BY <1>2, <3>1
    <3> QED BY <3>1, <3>2, <3>3
  <2>3. CASE i > L - m
    <3>1. PICK k \in Nat : k = n + 1
      OBVIOUS
    <3>2. place(i) + h - 2 = k /\ L - m < k /\ n < 2 * (L - 1) /\ k < 2 * L
      BY <1>1, <2>1, <2>3, <3>1
    <3>3. CASE n < L - 1
      <4>1. n % (L - 1) = n /\ k % L = k
        <5>1. n \in Int /\ 0 <= n /\ n < L - 1 /\ k \in Int /\ 0 <= k /\ k < L
          BY <1>1, <3>1, <3>3
        <5>2. k % L = k
          BY <1>b, <5>1
        <5>3. n % (L - 1) = n
          BY <1>c, <5>1
        <5> QED BY <5>2, <5>3
      <4>2. k \in 1 .. L - 1 /\ k \in L - m + 1 .. L /\ k + 1 \in L - m + 1 .. L
        BY <1>1, <3>1, <3>2, <3>3
      <4>3. front[k] = s[k + 1]
        BY <1>2, <1>3, <4>2
      <4> QED BY <3>1, <3>2, <4>1, <4>3
    <3>4. CASE n >= L - 1
      <4>1. n % (L - 1) = n - (L - 1) /\ k % L = k - L
        <5>1. n \in Int /\ L - 1 <= n /\ n < 2 * (L - 1) /\ k \in Int /\ L <= k /\ k < 2 * L
          BY <1>1, <3>1, <3>2, <3>4
        <5>2. k % L = k - L
          BY <1>b, <5>1
        <5>3. n % (L - 1) = n - (L - 1)
          BY <1>c, <5>1
        <5> QED BY <5>2, <5>3
      <4>2. n - (L - 1) = k - L /\ k - L + 1 \in 1 .. L - 1
        BY <1>1, <2>1, <3>1, <3>2, <3>4
      <4>3. front[k - L + 1] = s[k - L + 1]
        BY <1>2, <4>2
      <4> QED BY <3>2, <4>1, <4>2, <4>3
    <3> QED BY <1>1, <3>3, <3>4
  <2> QED BY <1>1, <2>2, <2>3
<1>5. ASSUME NEW i \in 1 .. L - 1
      PROVE  WordAt(front, m, i) = WordAt(s, m, place(i)) /\ place(i) \in 1 .. L
  <2>1. WordAt(front, m, i) = [h \in 1 .. m |-> front[((i + h - 2) % (L - 1)) + 1]]
    BY <1>2 DEF WordAt
  <2>2. WordAt(s, m, place(i)) = [h \in 1 .. m |-> s[((place(i) + h - 2) % L) + 1]]
    BY DEF WordAt, L
  <2>3. place(i) \in 1 .. L
    BY <1>1
  <2> HIDE DEF place
  <2> QED BY <1>4, <2>1, <2>2, <2>3
<1>6. ASSUME NEW i \in 1 .. L - 1, NEW j \in 1 .. L - 1, place(i) = place(j) PROVE i = j
  BY <1>1, <1>6
<1> HIDE DEF place
<1>7. ASSUME NEW i \in 1 .. L - 1, NEW j \in 1 .. L - 1,
             WordAt(front, m, i) = WordAt(front, m, j)
      PROVE  i = j
  BY <1>5, <1>6, <1>7 DEF NoWordTwice, L
<1> QED BY <1>2, <1>7 DEF NoWordTwice, front

-----------------------------------------------------------------------------
(* The sequences of the floor *)

\* What the floor is made of: both sequences are as the loop leaves them, and each
\* is kept without its last symbol.
RingInv ==
  /\ TailInv /\ LoopInv
  /\ deSeqK1 = <<>> => order = k1
  /\ deSeqK1 # <<>> =>
       /\ order = k2 - 1
       /\ Len(deSeqK1) = total_elements[k1]
       /\ NoWordTwice(deSeqK1, k1) /\ GreatestAtEnd(deSeqK1, k1)
  /\ built =>
       /\ Written /\ deSeqK1 # <<>>
       /\ sSeq = Front(deSeqK1) /\ tSeq = Front(dBSeq) /\ countShift = ShiftsOf(tSeq)

LEMMA NextKeepsRings ==
  FloorInv /\ RingInv /\ [Next]_vars => RingInv'
<1> SUFFICES ASSUME FloorInv, RingInv, [Next]_vars PROVE RingInv'
  OBVIOUS
<1>0. EveryWordOnce
  BY WordsOnce DEF FloorInv, RingInv
<1>1. CASE UNCHANGED floorVars
  BY <1>1 DEF floorVars, arrayVars, sequenceVars, RingInv, TailInv, LoopInv, Written
<1>2. CASE ~built /\ dfsIterative /\ UNCHANGED arrayVars
  <2>1. TailInv' /\ LoopInv'
    BY <1>2, LoopKeepsTail, LoopKeepsWords DEF RingInv, FloorInv
  <2>2. order' = order
    BY <1>2 DEF dfsIterative, Extend, NextWord
  <2> QED BY <1>2, <2>1, <2>2 DEF arrayVars, RingInv
<1>3. CASE KeepSSequence
  <2>1. k1 \in Nat \ {0, 1} /\ k2 - 1 \in Nat \ {0}
    BY ArrayAssumption
  <2>2. TailInv' /\ LoopInv'
    BY <1>3, <2>1, BeginKeepsTail, BeginKeepsWords DEF KeepSSequence
  <2>3. /\ Written /\ deSeqK1 = <<>> /\ deSeqK1' = dBSeq /\ order' = k2 - 1
        /\ built' = built /\ ~built
    BY <1>3 DEF KeepSSequence, StartSequence
  <2>4. Len(dBSeq) = total_elements[k1] /\ NoWordTwice(dBSeq, k1) /\ GreatestAtEnd(dBSeq, k1)
    BY <1>0, <2>3 DEF RingInv, TailInv, EveryWordOnce
  <2>5. dBSeq # <<>>
    <3>1. k1 <= Len(dBSeq)
      BY <2>4 DEF GreatestAtEnd
    <3> QED BY <2>1, <3>1
  <2> QED BY <2>2, <2>3, <2>4, <2>5 DEF RingInv
<1>4. CASE initMemberVars
  <2>1. TailInv' /\ LoopInv' /\ Written'
    BY <1>4 DEF initMemberVars, sequenceVars, RingInv, TailInv, LoopInv, Written
  <2>2. /\ deSeqK1' = deSeqK1 /\ deSeqK1 # <<>> /\ order' = order
        /\ sSeq' = Front(deSeqK1') /\ tSeq' = Front(dBSeq') /\ countShift' = ShiftsOf(tSeq')
    BY <1>4 DEF initMemberVars, sequenceVars
  <2> QED BY <2>1, <2>2 DEF RingInv
<1> QED
  BY <1>1, <1>2, <1>3, <1>4
  DEF Next, vars, floorVars, BuildFloor, BuildArray, TakeImage, image_callback,
      PreprocessLines, CutOut, PreprocessView, Digitize, Publish, NextImage, IdleElse

LEMMA RingsHold == Spec => []RingInv
<1>1. ASSUME Init PROVE TailInv /\ deSeqK1 = <<>> /\ order = k1 /\ ~built /\ ~Written
  BY <1>1, AlphabetAssumption, ArrayAssumption
  DEF Init, ArrayInit, Begins, TailInv, Written, K_LIMIT
<1>2. ASSUME Init PROVE LoopInv
  <2>1. /\ order = k1 /\ k1 \in Nat \ {0} /\ pos = 1 /\ period = 1
        /\ (\A i \in 0 .. k1 : word[i] = 0) /\ Len(dBSeq) = 0
    BY <1>2, ArrayAssumption DEF Init, ArrayInit, Begins
  <2>2. WordInv(k1, word, 1, dBSeq) /\ word[1] = word[0]
    BY <2>1, WordOfZeros
  <2> QED BY <2>1, <2>2 DEF LoopInv, Written
<1>3. Init => RingInv
  BY <1>1, <1>2 DEF RingInv
<1> QED BY <1>3, NextKeepsRings, FloorHolds, PTL DEF Spec

\* The buffer of a sequence is never written past its end, and when the loop ends
\* every word of the order stands in it once, for every alphabet and every length
\* of a word.
THEOREM EveryWordIsOnce == Spec => []EveryWordOnce
<1>1. FloorInv /\ RingInv => EveryWordOnce
  BY WordsOnce DEF FloorInv, RingInv
<1> QED BY <1>1, FloorHolds, RingsHold, PTL

-----------------------------------------------------------------------------
(* The columns of a piece *)

\* The cells of x and of the columns after it, when one of m columns is a baseline:
\* how many dots come before it.
LEMMA OneBaseline ==
  ASSUME NEW n \in Nat, NEW b \in 1 .. n + 1
  PROVE  LET at == {j \in 1 .. n + 1 : j # b}
         IN /\ Cardinality(at) = n
            /\ \A k \in 1 .. n :
                 NthOf(at, k) = (IF k < b THEN k ELSE k + 1)
<1> DEFINE at == {j \in 1 .. n + 1 : j # b}
           upTo(j) == {i \in at : i <= j}
<1>1. ASSUME NEW j \in 1 .. n + 1
      PROVE  Cardinality(upTo(j)) = (IF j < b THEN j ELSE j - 1)
  <2>1. IsFiniteSet(1 .. j) /\ Cardinality(1 .. j) = j
    BY FS_Interval
  <2>2. CASE j < b
    <3>1. upTo(j) = 1 .. j
      BY <2>2
    <3> QED BY <2>1, <2>2, <3>1
  <2>3. CASE ~(j < b)
    <3>1. upTo(j) = (1 .. j) \ {b} /\ b \in 1 .. j
      BY <2>3
    <3>2. Cardinality((1 .. j) \ {b}) = j - 1
      BY <2>1, <3>1, FS_RemoveElement
    <3> QED BY <2>3, <3>1, <3>2
  <2> QED BY <2>2, <2>3
<1>2. Cardinality(at) = n
  <2>1. n + 1 \in 1 .. n + 1 /\ at = upTo(n + 1)
    OBVIOUS
  <2>2. CASE b = n + 1
    <3>1. Cardinality(upTo(n + 1)) = n + 1 - 1
      BY <1>1, <2>1, <2>2
    <3> QED BY <2>1, <3>1
  <2>3. CASE b < n + 1
    <3>1. Cardinality(upTo(n + 1)) = n + 1 - 1
      BY <1>1, <2>1, <2>3
    <3> QED BY <2>1, <3>1
  <2> QED BY <2>2, <2>3
<1>3. ASSUME NEW k \in 1 .. n
      PROVE  NthOf(at, k) = (IF k < b THEN k ELSE k + 1)
  <2> DEFINE nth == IF k < b THEN k ELSE k + 1
  <2>1. nth \in at /\ nth \in 1 .. n + 1 /\ (IF nth < b THEN nth ELSE nth - 1) = k
    OBVIOUS
  <2>2. Cardinality(upTo(nth)) = k
    BY <1>1, <2>1
  <2>3. ASSUME NEW j \in at, Cardinality(upTo(j)) = k PROVE j = nth
    <3>1. j \in 1 .. n + 1 /\ j # b
      OBVIOUS
    <3>2. (IF j < b THEN j ELSE j - 1) = k
      BY <1>1, <2>3, <3>1
    <3> QED BY <3>1, <3>2
  <2>4. NthOf(at, k) = CHOOSE j \in at : Cardinality(upTo(j)) = k
    BY DEF NthOf
  <2> HIDE DEF nth, upTo, at
  <2>5. NthOf(at, k) = nth
    BY <2>1, <2>2, <2>3, <2>4
  <2> QED BY <2>5 DEF nth
<1> QED BY <1>2, <1>3

\* Where a piece begins that begins with column x: its first column of dots, and
\* its baseline.
FirstColumn(x) == x - x \div (lineInterval + 1) - (IF IsBaseline(x) THEN 0 ELSE 1)
BaselineOf(x) == IF IsBaseline(x) THEN 1 ELSE lineInterval + 2 - (x % (lineInterval + 1))

\* With m = lineInterval + 1, x = m * q + r.
LEMMA ColumnNumbers ==
  ASSUME NEW x \in Nat
  PROVE  /\ FirstColumn(x) \in Nat
         /\ LocationCol(FirstColumn(x), IsBaseline(x)) = x
         /\ BaselineOf(x) \in 1 .. lineInterval + 1
         /\ \A j \in 1 .. lineInterval + 1 : IsBaseline(x + j - 1) <=> j = BaselineOf(x)
<1> DEFINE m == lineInterval + 1
<1>1. lineInterval \in Nat \ {0} /\ m \in Nat \ {0, 1} /\ m = lineInterval + 1
  BY ArrayAssumption
<1> HIDE DEF m
<1>2. PICK q \in Int, r \in 0 .. m - 1 : r = x % m /\ x = m * q + r
  BY <1>1, Divided
<1>3. q \in Nat
  <2>1. q >= 0 \/ q <= -1
    OBVIOUS
  <2>2. q <= -1 => m * q <= -m
    BY <1>1, Z3
  <2> QED BY <1>1, <1>2, <2>1, <2>2
<1>4. x \div m = q
  BY <1>1, <1>2
<1>5. m * q = lineInterval * q + q /\ lineInterval * q \in Nat /\ m * q \in Nat
  BY <1>1, <1>3, Z3
<1>6. IsBaseline(x) <=> r = 0
  BY <1>2 DEF IsBaseline, m
<1>7. FirstColumn(x) = lineInterval * q + (IF r = 0 THEN 0 ELSE r - 1)
  BY <1>1, <1>2, <1>3, <1>4, <1>5, <1>6 DEF FirstColumn, m
<1>8. FirstColumn(x) \div lineInterval = q
  <2>1. \A s \in 0 .. lineInterval - 1 : (lineInterval * q + s) \div lineInterval = q
    BY <1>1, <1>3
  <2>2. (IF r = 0 THEN 0 ELSE r - 1) \in 0 .. lineInterval - 1
    BY <1>1, <1>2
  <2> QED BY <1>7, <2>1, <2>2
<1>9. LocationCol(FirstColumn(x), IsBaseline(x)) = x
  BY <1>1, <1>2, <1>3, <1>5, <1>6, <1>7, <1>8 DEF LocationCol
<1>10. FirstColumn(x) \in Nat
  BY <1>1, <1>2, <1>5, <1>7
<1>11. BaselineOf(x) \in 1 .. lineInterval + 1
  BY <1>1, <1>2, <1>6 DEF BaselineOf, m
<1>12. ASSUME NEW j \in 1 .. lineInterval + 1
       PROVE  IsBaseline(x + j - 1) <=> j = BaselineOf(x)
  <2>1. PICK n \in Nat : n = r + j - 1
    BY <1>2
  <2>2. n < 2 * m
    BY <1>1, <1>2, <2>1
  <2>3. (x + j - 1) % m = n % m
    <3>1. ((x % m) + (j - 1)) % m = (x + (j - 1)) % m
      <4>1. x \in Int /\ j - 1 \in Int /\ m \in Nat \ {0}
        BY <1>1
      <4> QED BY <4>1, ModuloTwice
    <3>2. (x % m) + (j - 1) = n /\ x + (j - 1) = x + j - 1
      BY <1>2, <2>1
    <3> QED BY <3>1, <3>2
  <2>4. n % m = 0 <=> n = 0 \/ n = m
    <3>1. n < m => n % m = n
      BY <1>1, Modulo
    <3>2. n >= m => n % m = n - m
      <4>1. n \in Int /\ m \in Nat \ {0} /\ (n >= m => m <= n)
        BY <1>1
      <4> QED BY <2>2, <4>1, Modulo
    <3> QED BY <1>1, <2>1, <3>1, <3>2
  <2>5. IsBaseline(x + j - 1) <=> n = 0 \/ n = m
    BY <2>3, <2>4 DEF IsBaseline, m
  <2>6. BaselineOf(x) = (IF r = 0 THEN 1 ELSE m + 1 - r)
    BY <1>1, <1>2, <1>6 DEF BaselineOf, m
  <2>7. (n = 0 \/ n = m) <=> (j = (IF r = 0 THEN 1 ELSE m + 1 - r))
    BY <1>1, <1>2, <2>1
  <2> QED BY <2>5, <2>6, <2>7
<1> QED BY <1>9, <1>10, <1>11, <1>12

\* A piece that fits on the floor takes its dots from columns there are.
LEMMA ColumnsThere ==
  ASSUME NEW n \in Nat, NEW x \in 0 .. n + n \div lineInterval - lineInterval - 1
  PROVE  FirstColumn(x) + lineInterval <= n
<1> DEFINE k == lineInterval
           m == k + 1
<1>1. k \in Nat \ {0} /\ m \in Nat \ {0, 1} /\ m = k + 1
  BY ArrayAssumption
<1>2. PICK a \in Nat : a = n \div k
  BY <1>1
<1>3. k * a <= n /\ n < k * a + k /\ x + k + 1 <= n + a /\ x \in Nat
  BY <1>1, <1>2
<1> HIDE DEF k, m
<1>4. PICK q \in Int, r \in 0 .. m - 1 : r = x % m /\ x = m * q + r
  <2>1. x \in Int /\ m \in Nat \ {0}
    BY <1>1, <1>3
  <2> QED BY <2>1, Divided
<1>5. q \in Nat /\ x \div m = q
  <2>1. q >= 0 \/ q <= -1
    OBVIOUS
  <2>2. q <= -1 => m * q <= -m
    BY <1>1, Z3
  <2>3. q \in Nat
    BY <1>1, <1>3, <1>4, <2>1, <2>2
  <2> QED BY <1>1, <1>4, <2>3
<1>6. m * q = k * q + q /\ k * q \in Nat /\ k * a \in Nat
  BY <1>1, <1>2, <1>5, Z3
<1>7. FirstColumn(x) = k * q + (IF r = 0 THEN 0 ELSE r - 1)
  <2>1. IsBaseline(x) <=> r = 0
    BY <1>4 DEF IsBaseline, m, k
  <2> QED BY <1>1, <1>3, <1>4, <1>5, <1>6, <2>1 DEF FirstColumn, m, k
<1>8. q < a
  <2> SUFFICES ASSUME a <= q PROVE FALSE
    BY <1>2, <1>5
  <2>1. k * a <= k * q
    BY <1>1, <1>2, <1>5, Z3
  <2> QED BY <1>1, <1>2, <1>3, <1>4, <1>5, <1>6, <2>1
<1>9. CASE q + 1 = a
  <2>1. k * a = k * q + k
    BY <1>1, <1>5, <1>9, Z3
  <2> QED BY <1>1, <1>2, <1>3, <1>4, <1>5, <1>6, <1>7, <1>9, <2>1 DEF k
<1>10. CASE q + 2 <= a
  <2>1. k * a >= k * q + 2 * k
    BY <1>1, <1>2, <1>5, <1>10, Z3
  <2> QED BY <1>1, <1>2, <1>3, <1>4, <1>5, <1>6, <1>7, <2>1 DEF k
<1> QED BY <1>2, <1>5, <1>8, <1>9, <1>10

\* The column that getSubset takes the dots of a cell from.
LEMMA CorrectedColumn ==
  ASSUME NEW x \in Nat, NEW j \in 1 .. lineInterval + 1, j # BaselineOf(x),
         NEW col \in Int, col = x + j - 1
  PROVE  /\ ~IsBaseline(col)
         /\ col - colCorrection(x, col)
              = FirstColumn(x) + (IF j < BaselineOf(x) THEN j - 1 ELSE j - 2)
<1> DEFINE b == BaselineOf(x)
           baselines == {c \in x .. col : IsBaseline(c)}
           before == x \div (lineInterval + 1)
<1>1. /\ b \in 1 .. lineInterval + 1
      /\ \A i \in 1 .. lineInterval + 1 : IsBaseline(x + i - 1) <=> i = b
  BY ColumnNumbers
<1>2. lineInterval \in Nat \ {0} /\ before \in Int
  BY ArrayAssumption
<1>3. IsBaseline(x) <=> b = 1
  <2>1. IsBaseline(x + 1 - 1) <=> 1 = b
    BY <1>1, <1>2
  <2>2. x + 1 - 1 = x
    OBVIOUS
  <2> QED BY <2>1, <2>2
<1>4. ASSUME NEW c \in x .. col PROVE IsBaseline(c) <=> c = x + b - 1
  <2>1. PICK i \in 1 .. lineInterval + 1 : i = c - x + 1
    BY <1>2
  <2>2. c = x + i - 1
    BY <2>1
  <2>3. IsBaseline(c) <=> i = b
    BY <1>1, <2>2
  <2> HIDE DEF b
  <2>4. i = b <=> c = x + b - 1
    BY <1>1, <2>2
  <2> QED BY <2>3, <2>4
<1> HIDE DEF b
<1>5. Cardinality(baselines) = (IF j < b THEN 0 ELSE 1)
  <2>1. CASE j < b
    <3>1. baselines = {}
      BY <1>1, <1>4, <2>1
    <3> QED BY <2>1, <3>1, FS_EmptySet
  <2>2. CASE ~(j < b)
    <3>1. x + b - 1 \in x .. col
      BY <1>1, <2>2
    <3>2. baselines = {x + b - 1}
      BY <1>4, <3>1
    <3> QED BY <2>2, <3>2, FS_Singleton
  <2> QED BY <2>1, <2>2
<1>6. ~IsBaseline(col)
  BY <1>1 DEF b
<1>7. colCorrection(x, col)
        = before + (IF b = 1 THEN 0 ELSE 1) + (IF j < b THEN 0 ELSE 1)
  BY <1>3, <1>5 DEF colCorrection
<1>8. FirstColumn(x) = x - before - (IF b = 1 THEN 0 ELSE 1)
  BY <1>3 DEF FirstColumn
<1> HIDE DEF before
<1>9. col - (before + (IF b = 1 THEN 0 ELSE 1) + (IF j < b THEN 0 ELSE 1))
        = x - before - (IF b = 1 THEN 0 ELSE 1) + (IF j < b THEN j - 1 ELSE j - 2)
  BY <1>1, <1>2
<1> QED BY <1>6, <1>7, <1>8, <1>9 DEF b

LEMMA SameRingWord ==
  ASSUME NEW s, Len(s) \in Nat \ {0}, NEW m \in Nat, NEW a \in Int, NEW b \in Int,
         a % Len(s) = b % Len(s)
  PROVE  RingWord(s, m, a) = RingWord(s, m, b)
<1> DEFINE L == Len(s)
<1>1. ASSUME NEW i \in 1 .. m PROVE OnRing(s, a + i - 1) = OnRing(s, b + i - 1)
  <2>1. L \in Nat \ {0} /\ i - 1 \in Int
    OBVIOUS
  <2>2. \A n \in Int : ((n % L) + (i - 1)) % L = (n + (i - 1)) % L
    BY <2>1, ModuloTwice
  <2>3. a % L = b % L
    OBVIOUS
  <2> HIDE DEF L
  <2>4. (a + (i - 1)) % L = (b + (i - 1)) % L
    BY <2>2, <2>3
  <2>5. a + (i - 1) = a + i - 1 /\ b + (i - 1) = b + i - 1
    OBVIOUS
  <2> QED BY <2>4, <2>5 DEF OnRing, L
<1> QED BY <1>1 DEF RingWord

\* A sequence and itself again are the ring, gone round twice.
LEMMA TwiceRound ==
  ASSUME NEW T, NEW s \in Seq(T), s # <<>>
  PROVE  /\ Len(s \o s) = 2 * Len(s)
         /\ \A n \in 1 .. 2 * Len(s) : (s \o s)[n] = OnRing(s, n - 1)
<1> DEFINE L == Len(s)
<1>1. L \in Nat \ {0} /\ Len(s \o s) = 2 * L
  OBVIOUS
<1>2. ASSUME NEW n \in 1 .. 2 * L PROVE (s \o s)[n] = OnRing(s, n - 1)
  <2>1. CASE n <= L
    <3>1. (n - 1) % L = n - 1
      <4>1. n - 1 \in Int /\ 0 <= n - 1 /\ n - 1 < L
        BY <1>1, <2>1
      <4> HIDE DEF L
      <4> QED BY <1>1, <4>1, Modulo
    <3> QED BY <1>1, <2>1, <3>1 DEF OnRing
  <2>2. CASE n > L
    <3>1. (n - 1) % L = n - 1 - L
      <4>1. n - 1 \in Int /\ L <= n - 1 /\ n - 1 < 2 * L
        BY <1>1, <2>2
      <4> HIDE DEF L
      <4> QED BY <1>1, <4>1, Modulo
    <3>2. (s \o s)[n] = s[n - L]
      BY <1>1, <2>2
    <3>3. n - 1 - L + 1 = n - L
      BY <1>1
    <3> QED BY <3>1, <3>2, <3>3 DEF OnRing
  <2> QED BY <1>1, <2>1, <2>2
<1> QED BY <1>1, <1>2

\* Columns that are near each other are not shifted far.
LEMMA ShiftsBounded ==
  ASSUME NEW shift, NEW t, NEW n \in Nat, NEW most \in Nat,
         \A i \in 1 .. n : shift[i + 1] = shift[i] + t[i] /\ t[i] \in 0 .. most,
         \A i \in 1 .. n + 1 : shift[i] \in Nat,
         NEW d \in 1 .. n + 1, NEW l \in Nat, d + l <= n + 1
  PROVE  shift[d + l] - shift[d] \in 0 .. most * l
<1> DEFINE S == {k \in Nat : d + k <= n + 1 => shift[d + k] - shift[d] \in 0 .. most * k}
<1>1. 0 \in S
  OBVIOUS
<1>2. ASSUME NEW k \in Nat, k \in S PROVE k + 1 \in S
  <2> SUFFICES ASSUME d + (k + 1) <= n + 1
               PROVE  shift[d + (k + 1)] - shift[d] \in 0 .. most * (k + 1)
    OBVIOUS
  <2>1. d + k \in 1 .. n /\ d + (k + 1) = d + k + 1
    OBVIOUS
  <2>2. shift[d + k] - shift[d] \in 0 .. most * k
    BY <1>2, <2>1
  <2>3. shift[d + k + 1] = shift[d + k] + t[d + k] /\ t[d + k] \in 0 .. most
    BY <2>1
  <2>4. shift[d + k] \in Nat /\ shift[d] \in Nat
    BY <2>1
  <2>5. most * (k + 1) = most * k + most /\ most * k \in Nat
    BY Z3
  <2> QED BY <2>1, <2>2, <2>3, <2>4, <2>5
<1> HIDE DEF S
<1>3. l \in S
  BY <1>1, <1>2, EveryNumber
<1> QED BY <1>3 DEF S

\* The floor is built, of sequences in which no word stands twice.
FloorSearchable == built /\ FloorInv /\ RingInv /\ EveryWordOnce

LEMMA SequencesSearchable ==
  ASSUME FloorSearchable
  PROVE  /\ sSeq \in Seq(Symbols) /\ Len(sSeq) \in Nat \ {0}
         /\ aLen * k1 \in Nat /\ aLen * k1 + k1 <= Len(sSeq)
         /\ NoWordTwice(sSeq, k1) /\ total_elements[k1] = Len(sSeq) + 1
<1>1. deSeqK1 \in Seq(Symbols)
  BY DEF FloorSearchable, FloorInv
<1>2. /\ sSeq = Front(deSeqK1) /\ Len(deSeqK1) = total_elements[k1]
      /\ NoWordTwice(deSeqK1, k1) /\ GreatestAtEnd(deSeqK1, k1)
  BY DEF FloorSearchable, RingInv
<1>3. k1 \in Nat \ {0, 1} /\ aLen \in Nat \ {0, 1} /\ total_elements[k1] > aLen * k1 + k1
  BY ArrayAssumption, AlphabetAssumption
<1>4. PICK R \in Nat : R = aLen * k1
  BY <1>3, Z3
<1>5. PICK L \in Nat : L = Len(deSeqK1)
  BY <1>1
<1>6. L > R + k1
  BY <1>2, <1>3, <1>4, <1>5
<1>7. sSeq \in Seq(Symbols) /\ Len(sSeq) = L - 1
  <2> HIDE DEF Symbols
  <2>1. L - 1 \in 0 .. L
    BY <1>3, <1>6
  <2> QED BY <1>1, <1>2, <1>5, <2>1 DEF Front
<1>8. k1 < Len(deSeqK1)
  BY <1>3, <1>5, <1>6
<1>9. NoWordTwice(sSeq, k1)
  BY <1>1, <1>2, <1>3, <1>8, RingWithoutLast
<1>10. total_elements[k1] = Len(sSeq) + 1
  BY <1>2, <1>5, <1>7
<1> QED BY <1>3, <1>4, <1>5, <1>6, <1>7, <1>9, <1>10

LEMMA ShiftsSearchable ==
  ASSUME FloorSearchable
  PROVE  /\ Len(dBSeq) \in Nat \ {0} /\ NoWordTwice(dBSeq, k2 - 1)
         /\ Len(dBSeq) = total_elements[k2 - 1]
         /\ Len(tSeq) = Len(dBSeq) - 1 /\ Len(countShift) = Len(dBSeq)
         /\ \A i \in 1 .. Len(tSeq) : tSeq[i] = dBSeq[i] /\ tSeq[i] \in 0 .. aLen - 1
         /\ \A i \in 1 .. Len(tSeq) : countShift[i + 1] = countShift[i] + tSeq[i]
         /\ \A i \in 1 .. Len(dBSeq) : countShift[i] \in Nat
<1>1. dBSeq \in Seq(Symbols)
  BY DEF FloorSearchable, FloorInv, SequenceInv, SequenceTypeOK
<1>2. /\ tSeq = Front(dBSeq) /\ countShift = ShiftsOf(tSeq) /\ order = k2 - 1
      /\ NoWordTwice(dBSeq, k2 - 1) /\ GreatestAtEnd(dBSeq, k2 - 1)
      /\ Len(dBSeq) = total_elements[k2 - 1]
  BY DEF FloorSearchable, RingInv, TailInv, EveryWordOnce
<1>3. k2 \in Nat /\ k2 - 1 >= 1 /\ k2 - 1 \in Nat \ {0} /\ aLen \in Nat
  BY ArrayAssumption, AlphabetAssumption
<1>4. PICK L \in Nat \ {0} : L = Len(dBSeq)
  <2>1. Len(dBSeq) \in Nat
    BY <1>1
  <2>2. k2 - 1 <= Len(dBSeq)
    BY <1>2 DEF GreatestAtEnd
  <2>3. Len(dBSeq) \in Nat \ {0}
    BY <1>3, <2>1, <2>2
  <2> QED BY <2>3
<1>5. Len(tSeq) = L - 1 /\ \A i \in 1 .. L - 1 : tSeq[i] = dBSeq[i]
  BY <1>1, <1>2, <1>4 DEF Front
<1>6. \A i \in 1 .. L - 1 : tSeq[i] \in 0 .. aLen - 1
  <2>1. \A i \in 1 .. L - 1 : i \in 1 .. L
    OBVIOUS
  <2>2. \A i \in 1 .. L : dBSeq[i] \in Symbols
    <3> HIDE DEF Symbols
    <3> QED BY <1>1, <1>4
  <2> QED BY <1>5, <2>1, <2>2 DEF Symbols
<1>7. tSeq \in Seq(Nat)
  <2>1. tSeq = [i \in 1 .. L - 1 |-> tSeq[i]]
    BY <1>1, <1>2, <1>4 DEF Front
  <2>2. \A i \in 1 .. L - 1 : tSeq[i] \in Nat
    BY <1>3, <1>6
  <2> QED BY <1>4, <2>1, <2>2
<1>8. /\ Len(countShift) = Len(tSeq) + 1
      /\ \A i \in 1 .. Len(tSeq) : countShift[i + 1] = countShift[i] + tSeq[i]
      /\ \A i \in 1 .. Len(tSeq) + 1 : countShift[i] \in Nat
  BY <1>2, <1>7, ShiftsDefined
<1>9. Len(tSeq) + 1 = L
  BY <1>4, <1>5
<1> QED BY <1>2, <1>4, <1>5, <1>6, <1>8, <1>9

\* The columns of dots of a piece are words of the s-sequence, where they are
\* shifted to.
LEMMA PieceColumns ==
  ASSUME FloorSearchable,
         NEW x \in 0 .. BGCols - k2 - 1, NEW y \in 0 .. BGRows - 1
  PROVE  LET subset == getSubset(x, y, k2 + 1, k1)
         IN /\ ~WrongType(subset)
            /\ subset[1][1] = Baseline <=> IsBaseline(x)
            /\ DotColumns(subset) =
                 [n \in 1 .. k2 |-> RingWord(sSeq, k1, y - countShift[FirstColumn(x) + n])]
            /\ \A i \in 1 .. k1, j \in 1 .. k2 + 1 :
                 ~IsBaseline(x + j - 1) => RangeCell(x, x + j - 1, y + i - 1) \in Symbols
<1> DEFINE subset == getSubset(x, y, k2 + 1, k1)
           b == BaselineOf(x)
           first == FirstColumn(x)
           word_(n) == RingWord(sSeq, k1, y - countShift[first + n])
           cell(i, j) == OnRing(sSeq, y - countShift[first + (IF j < b THEN j ELSE j - 1)] + i - 1)
<1>0. k2 = lineInterval
  BY DecoderAssumption
<1> USE <1>0
<1>1. /\ sSeq \in Seq(Symbols) /\ Len(sSeq) \in Nat \ {0}
      /\ k1 \in Nat \ {0, 1} /\ k2 \in Nat \ {0, 1}
  BY SequencesSearchable, ArrayAssumption
<1>2. PICK N \in Nat \ {0} : /\ N = Len(countShift)
                             /\ \A i \in 1 .. N : countShift[i] \in Nat
  BY ShiftsSearchable
<1>3. x \in Nat /\ x \in 0 .. N + N \div lineInterval - lineInterval - 1
  <2>0. BGCols = N + N \div lineInterval
    BY <1>2 DEF BGCols
  <2>a. N \div lineInterval \in Int /\ lineInterval \in Int
    BY ArrayAssumption
  <2>1. BGCols - k2 - 1 = N + N \div lineInterval - lineInterval - 1
    BY <2>0, <2>a
  <2>2. x \in Nat
    OBVIOUS
  <2> QED BY <2>1, <2>2
<1>4. first \in Nat /\ first + k2 <= N
  BY <1>2, <1>3, ColumnNumbers, ColumnsThere
<1>5. b \in 1 .. k2 + 1 /\ \A j \in 1 .. k2 + 1 : IsBaseline(x + j - 1) <=> j = b
  BY <1>3, ColumnNumbers
<1>6. subset = [i \in 1 .. k1 |-> [j \in 1 .. k2 + 1 |-> RangeCell(x, x + j - 1, y + i - 1)]]
  <2>1. BGCols \in Int /\ BGRows \in Int
    BY <1>1, <1>2, ArrayAssumption DEF BGCols, BGRows
  <2>2. ~(x > BGCols - 1 \/ y > BGRows - 1)
    BY <1>1, <2>1
  <2> QED BY <2>2 DEF getSubset
<1>7. ASSUME NEW i \in 1 .. k1, NEW j \in 1 .. k2 + 1
      PROVE  subset[i][j] = (IF j = b THEN Baseline ELSE cell(i, j))
  <2>1. subset[i][j] = RangeCell(x, x + j - 1, y + i - 1)
    <3> HIDE DEF subset
    <3> QED BY <1>6
  <2>2. IsBaseline(x + j - 1) <=> j = b
    BY <1>5
  <2> HIDE DEF subset, b, first
  <2>3. CASE j = b
    BY <2>1, <2>2, <2>3 DEF RangeCell
  <2>4. CASE j # b
    <3>1. PICK d \in Int : d = first + (IF j < b THEN j - 1 ELSE j - 2)
      <4>1. first + (IF j < b THEN j - 1 ELSE j - 2) \in Int
        BY <1>4, <1>5
      <4> QED BY <4>1
    <3>2. PICK col, row \in Int : col = x + j - 1 /\ row = y + i - 1
      BY <1>3
    <3>3. col - colCorrection(x, col) = d
      BY <1>3, <2>4, <3>1, <3>2, CorrectedColumn DEF first, b
    <3>a. subset[i][j] = ShiftedSymbol(d, row)
      <4>1. subset[i][j] = RangeCell(x, col, row) /\ ~IsBaseline(col)
        BY <2>1, <2>2, <2>4, <3>2
      <4> QED BY <3>3, <4>1 DEF RangeCell
    <3>4. /\ d + 1 \in 1 .. N
          /\ d + 1 = first + (IF j < b THEN j ELSE j - 1)
      BY <1>1, <1>4, <1>5, <2>4, <3>1
    <3>5. ShiftedSymbol(d, row) = OnRing(sSeq, row - countShift[d + 1])
      BY DEF ShiftedSymbol, OnRing
    <3>6. row - countShift[d + 1] = y - countShift[d + 1] + i - 1
      BY <1>2, <3>2, <3>4
    <3>7. subset[i][j] = cell(i, j)
      BY <3>a, <3>4, <3>5, <3>6
    <3> HIDE DEF cell
    <3> QED BY <2>4, <3>7
  <2> QED BY <2>3, <2>4
<1>8. DOMAIN subset = 1 .. k1 /\ \A i \in 1 .. k1 : DOMAIN subset[i] = 1 .. k2 + 1
  BY <1>6
<1>9. ASSUME NEW i \in 1 .. k1, NEW j \in 1 .. k2 + 1, j # b
      PROVE  cell(i, j) \in Symbols /\ cell(i, j) # Baseline
  <2>1. first + (IF j < b THEN j ELSE j - 1) \in 1 .. N
    <3> HIDE DEF first, b
    <3> QED BY <1>1, <1>4, <1>5, <1>9
  <2>2. PICK n \in Int : n = y - countShift[first + (IF j < b THEN j ELSE j - 1)] + i - 1
    <3> HIDE DEF first, b
    <3> QED BY <1>2, <2>1
  <2>3. (n % Len(sSeq)) + 1 \in 1 .. Len(sSeq)
    <3>1. n % Len(sSeq) \in 0 .. Len(sSeq) - 1
      BY <1>1, Modulo
    <3> QED BY <1>1, <3>1
  <2>4. OnRing(sSeq, n) \in Symbols
    BY <1>1, <2>3 DEF OnRing
  <2> QED BY <2>2, <2>4, AlphabetAssumption DEF Symbols, Baseline
<1> HIDE DEF subset, cell, b
<1>10. \A i \in 1 .. k1, j \in 1 .. k2 + 1 : subset[i][j] = Baseline <=> j = b
  BY <1>7, <1>9
<1>11. ~WrongType(subset)
  <2>1. ASSUME NEW i \in 1 .. k1, NEW j \in 1 .. k2 + 1
        PROVE  subset[i][j] \in Symbols \cup {Baseline}
    BY <1>7, <1>9
  <2> HIDE DEF Symbols
  <2> QED BY <1>8, <2>1 DEF WrongType, ToSet
<1>12. subset[1][1] = Baseline <=> IsBaseline(x)
  <2>1. 1 \in 1 .. k1 /\ 1 \in 1 .. k2 + 1 /\ x + 1 - 1 = x
    BY <1>1
  <2> QED BY <1>5, <1>10, <2>1
<1>13. DotColumns(subset) = [n \in 1 .. k2 |-> word_(n)]
  <2> DEFINE at == {j \in 1 .. k2 + 1 : j # b}
             nth(n) == NthOf(at, n)
  <2>1. DotPlaces(subset) = at
    <3>1. 1 \in 1 .. k1
      BY <1>1
    <3> QED BY <1>8, <1>10, <3>1 DEF DotPlaces
  <2>2. /\ Cardinality(at) = k2
        /\ \A n \in 1 .. k2 : nth(n) = (IF n < b THEN n ELSE n + 1)
    <3>1. k2 \in Nat /\ b \in 1 .. k2 + 1
      BY <1>1, <1>5
    <3> QED BY <3>1, OneBaseline
  <2> HIDE DEF at
  <2>4. DotColumns(subset) = [n \in 1 .. k2 |-> [i \in 1 .. k1 |-> subset[i][nth(n)]]]
    BY <2>1, <2>2 DEF DotColumns
  <2> HIDE DEF nth
  <2>5. ASSUME NEW n \in 1 .. k2 PROVE [i \in 1 .. k1 |-> subset[i][nth(n)]] = word_(n)
    <3>1. PICK j \in 1 .. k2 + 1 : /\ j = nth(n) /\ j # b
                                   /\ (IF j < b THEN j ELSE j - 1) = n
      BY <1>1, <1>5, <2>2
    <3>2. ASSUME NEW i \in 1 .. k1
          PROVE  subset[i][j] = OnRing(sSeq, y - countShift[first + n] + i - 1)
      BY <1>7, <3>1 DEF cell
    <3> QED BY <3>1, <3>2 DEF RingWord
  <2> QED BY <2>4, <2>5
<1>14. ASSUME NEW i \in 1 .. k1, NEW j \in 1 .. k2 + 1, ~IsBaseline(x + j - 1)
       PROVE  RangeCell(x, x + j - 1, y + i - 1) \in Symbols
  <2>1. j # b
    BY <1>5, <1>14
  <2>2. subset[i][j] = RangeCell(x, x + j - 1, y + i - 1)
    BY <1>6
  <2>3. subset[i][j] = cell(i, j) /\ cell(i, j) \in Symbols
    BY <1>7, <1>9, <2>1
  <2> QED BY <2>2, <2>3
<1> QED BY <1>11, <1>12, <1>13, <1>14 DEF subset

\* A word of the ring is found on it, gone round twice, where it is.
LEMMA RingSearched ==
  ASSUME NEW T, NEW s \in Seq(T), NEW m \in Nat, NoWordTwice(s, m), m <= Len(s), s # <<>>,
         NEW a \in Int
  PROVE  Search(s \o s, RingWord(s, m, a)) = a % Len(s)
<1> DEFINE text == s \o s
<1>1. Len(s) \in Nat \ {0}
  OBVIOUS
<1>2. Len(text) = 2 * Len(s) /\ \A n \in 1 .. 2 * Len(s) : text[n] = OnRing(s, n - 1)
  BY TwiceRound
<1>3. PICK p \in 0 .. Len(s) - 1 : p = a % Len(s)
  BY <1>1, Modulo
<1>4. p % Len(s) = p
  <2>1. PICK L \in Nat \ {0} : L = Len(s)
    BY <1>1
  <2>2. p \in Int /\ 0 <= p /\ p < L
    BY <1>3, <2>1
  <2>3. p % L = p
    BY <2>2, Modulo
  <2> QED BY <2>1, <2>3
<1>5. RingWord(s, m, a) = RingWord(s, m, p)
  <2>1. a % Len(s) = p % Len(s)
    BY <1>3, <1>4
  <2> QED BY <1>1, <2>1, SameRingWord
<1> HIDE DEF text
<1>0. PICK begin \in Int : begin = 0
  OBVIOUS
<1>6. \A n \in 1 .. Len(text) : text[n] = OnRing(s, begin + n - 1)
  <2> TAKE n \in 1 .. Len(text)
  <2>1. n - 1 = begin + n - 1 /\ n \in 1 .. 2 * Len(s)
    BY <1>0, <1>2
  <2> QED BY <1>2, <2>1
<1>7. p \in 0 .. Len(text) - m /\ p < Len(s) /\ Len(text) \in Nat
  BY <1>1, <1>2
<1>8. Search(text, RingWord(s, m, begin + p)) = p
  BY <1>1, <1>6, <1>7, StretchSearched
<1>9. begin + p = p
  BY <1>0, <1>1, <1>3
<1> QED BY <1>3, <1>5, <1>8, <1>9 DEF text

\* A column of dots that is shifted by d more than the first one is found d symbols
\* before it in the range.
LEMMA RangeSearched ==
  ASSUME sSeq \in Seq(Symbols), Len(sSeq) \in Nat \ {0}, k1 \in Nat \ {0},
         NEW R \in Nat, R = aLen * k1, R + k1 <= Len(sSeq), NoWordTwice(sSeq, k1),
         NEW p \in 0 .. Len(sSeq) - 1, NEW d \in 0 .. R
  PROVE  Search(rangeForFindSeq(p), RingWord(sSeq, k1, p - d)) = R - d
<1> DEFINE L == Len(sSeq)
           twice == sSeq \o sSeq
           begin == (IF p > R THEN p ELSE L + p) - R
           text == SubSeq(twice, begin + 1, begin + R + k1)
<1>1. rangeForFindSeq(p) = text
  BY DEF rangeForFindSeq
<1>2. Len(twice) = 2 * L /\ \A n \in 1 .. 2 * L : twice[n] = OnRing(sSeq, n - 1)
  <2> HIDE DEF Symbols
  <2>1. sSeq # <<>>
    OBVIOUS
  <2> QED BY <2>1, TwiceRound
<1>3. twice \in Seq(Symbols)
  <2> HIDE DEF Symbols
  <2> QED OBVIOUS
<1>4. begin \in Nat /\ begin + R + k1 <= 2 * L /\ L \in Nat \ {0}
  OBVIOUS
<1>a. begin = p - R \/ begin = p - R + L
  OBVIOUS
<1> HIDE DEF twice, begin, L
<1>5. Len(text) = R + k1 /\ \A n \in 1 .. R + k1 : text[n] = twice[begin + n]
  <2> HIDE DEF Symbols
  <2>1. Len(text) = R + k1
    BY <1>2, <1>3, <1>4
  <2>2. ASSUME NEW n \in 1 .. R + k1 PROVE text[n] = twice[begin + n]
    <3>0. begin + 1 \in Nat /\ begin + R + k1 \in Nat
      BY <1>4
    <3>1. PICK i, j \in Nat : i = begin + 1 /\ j = begin + R + k1
      BY <3>0
    <3>2. 1 <= i /\ j <= Len(twice) /\ n \in 1 .. j - i + 1 /\ i + n - 1 = begin + n
      BY <1>2, <1>4, <3>1
    <3>3. SubSeq(twice, i, j)[n] = twice[i + n - 1]
      BY <1>3, <3>2
    <3> QED BY <3>1, <3>2, <3>3
  <2> QED BY <2>1, <2>2
<1> HIDE DEF text
<1>6. \A n \in 1 .. Len(text) : text[n] = OnRing(sSeq, begin + n - 1)
  <2> TAKE n \in 1 .. Len(text)
  <2>1. begin + n \in 1 .. 2 * L /\ n \in 1 .. R + k1
    BY <1>4, <1>5
  <2>2. OnRing(sSeq, (begin + n) - 1) = twice[begin + n]
    BY <1>2, <2>1
  <2>3. (begin + n) - 1 = begin + n - 1
    BY <1>4
  <2> QED BY <1>5, <2>1, <2>2, <2>3
<1>7. PICK at \in Nat : at = R - d
  OBVIOUS
<1>8. Search(text, RingWord(sSeq, k1, begin + at)) = at
  <2>1. at \in 0 .. Len(text) - k1 /\ at < Len(sSeq) /\ Len(text) \in Nat /\ begin \in Int
    <3>1. R < Len(sSeq) /\ at <= R
      BY <1>7
    <3> QED BY <1>4, <1>5, <1>7, <3>1
  <2> QED BY <1>4, <1>6, <2>1, StretchSearched
<1>9. RingWord(sSeq, k1, begin + at) = RingWord(sSeq, k1, p - d)
  <2>1. begin + at = p - d \/ begin + at = p - d + L
    <3>1. CASE begin = p - R
      BY <1>7, <3>1
    <3>2. CASE begin = p - R + L
      <4>1. begin + at = p - R + L + (R - d)
        BY <1>7, <3>2
      <4>2. p - R + L + (R - d) = p - d + L
        BY <1>4
      <4> QED BY <4>1, <4>2
    <3> QED BY <1>a, <3>1, <3>2
  <2>2. PICK c \in Int : c = p - d
    OBVIOUS
  <2>3. (c + L) % L = c % L
    BY <1>4, <2>2, Modulo
  <2>4. (begin + at) % L = c % L
    BY <2>1, <2>2, <2>3
  <2>5. begin + at \in Int
    BY <1>4
  <2> QED BY <2>2, <2>4, <2>5, SameRingWord DEF L
<1> QED BY <1>1, <1>7, <1>8, <1>9

\* PieceFound, for a piece and a centre.
LEMMA PieceSearched ==
  ASSUME FloorSearchable,
         NEW x \in 0 .. BGCols - k2 - 1, NEW y \in 0 .. BGRows - 1, NEW centre,
         NEW dx \in Int, NEW dy \in Int, centre = <<dx, dy>>
  PROVE  getPos(getSubset(x, y, k2 + 1, k1), centre) = <<x + dx, y + dy>>
<1> DEFINE subset == getSubset(x, y, k2 + 1, k1)
           first == FirstColumn(x)
           shift(n) == countShift[first + n]
           columns == DotColumns(subset)
           distFirstColPos == Search(sSeq \o sSeq, columns[1])
           range == rangeForFindSeq(distFirstColPos)
           dist == [j \in 1 .. k2 |-> Search(range, columns[j])]
           subsetTSeq == [j \in 1 .. k2 - 1 |->
                            IF dist[j + 1] >= dist[j] THEN dist[j + 1] - dist[j]
                            ELSE dist[j] - dist[j + 1]]
           posCol == Search(tSeq, subsetTSeq)
<1>0. k2 = lineInterval
  BY DecoderAssumption
<1> USE <1>0
<1>1. getPos(subset, centre) =
        IF \/ WrongType(subset)
           \/ distFirstColPos = -1
           \/ \E j \in 1 .. k2 : dist[j] = -1
           \/ posCol = -1
        THEN NotFound
        ELSE <<LocationCol(posCol, subset[1][1] = Baseline) + centre[1],
               ((distFirstColPos + countShift[posCol + 1]) % Len(sSeq)) + centre[2]>>
  BY DEF getPos
<1>2. /\ ~WrongType(subset)
      /\ subset[1][1] = Baseline <=> IsBaseline(x)
      /\ columns = [n \in 1 .. k2 |-> RingWord(sSeq, k1, y - shift(n))]
  BY PieceColumns
<1> HIDE DEF subset, columns, distFirstColPos, range, dist, subsetTSeq, posCol
<1>3. /\ k1 \in Nat \ {0, 1} /\ k2 \in Nat \ {0, 1} /\ aLen \in Nat \ {0, 1}
      /\ sSeq \in Seq(Symbols) /\ NoWordTwice(sSeq, k1)
  BY SequencesSearchable, ArrayAssumption, AlphabetAssumption
<1>4. PICK L \in Nat \ {0}, R \in Nat : L = Len(sSeq) /\ R = aLen * k1 /\ R + k1 <= L
  BY SequencesSearchable
<1>5. PICK N \in Nat \ {0} :
        /\ N = Len(dBSeq) /\ N = Len(countShift) /\ Len(tSeq) = N - 1
        /\ \A i \in 1 .. N - 1 : tSeq[i] = dBSeq[i] /\ tSeq[i] \in 0 .. aLen - 1
        /\ \A i \in 1 .. N - 1 : countShift[i + 1] = countShift[i] + tSeq[i]
        /\ \A i \in 1 .. N : countShift[i] \in Nat
  BY ShiftsSearchable
<1>6. x \in Nat /\ x \in 0 .. N + N \div lineInterval - lineInterval - 1 /\ y \in 0 .. L - 1
  <2>0. BGCols = N + N \div lineInterval /\ BGRows = L
    BY <1>4, <1>5 DEF BGCols, BGRows
  <2>1. N \div lineInterval \in Int /\ lineInterval \in Int
    BY ArrayAssumption
  <2>2. BGCols - k2 - 1 = N + N \div lineInterval - lineInterval - 1
    BY <2>0, <2>1
  <2>3. x \in Nat
    OBVIOUS
  <2> QED BY <2>0, <2>2, <2>3
<1>7. first \in Nat /\ first + k2 <= N /\ LocationCol(first, IsBaseline(x)) = x
  BY <1>5, <1>6, ColumnNumbers, ColumnsThere
<1> HIDE DEF first
<1>8. \A n \in 1 .. k2 : first + n \in 1 .. N /\ shift(n) \in Nat
  BY <1>3, <1>5, <1>7
<1>9. ASSUME NEW n \in 1 .. k2 PROVE shift(n) - shift(1) \in 0 .. R
  <2> DEFINE most == aLen - 1
  <2>1. PICK l \in Nat : l = n - 1
    BY <1>3
  <2>0. PICK last \in Nat : last = N - 1 /\ last + 1 = N
    <3>1. N - 1 \in Nat /\ N - 1 + 1 = N
      OBVIOUS
    <3> QED BY <3>1
  <2>2. PICK d \in 1 .. last + 1 : d = first + 1
    BY <1>3, <1>7, <2>0
  <2>3. most \in Nat /\ d + l <= last + 1
    BY <1>3, <1>7, <2>0, <2>1, <2>2
  <2>a. /\ \A i \in 1 .. last : countShift[i + 1] = countShift[i] + tSeq[i] /\ tSeq[i] \in 0 .. most
        /\ \A i \in 1 .. last + 1 : countShift[i] \in Nat
    BY <1>5, <2>0
  <2>4. countShift[d + l] - countShift[d] \in 0 .. most * l
    <3> HIDE DEF most
    <3> QED BY <2>3, <2>a, ShiftsBounded
  <2>5. most * l <= (k2 - 1) * (aLen - 1) /\ most * l \in Nat
    <3>1. PICK h \in Nat : h = k2 - 1
      BY <1>3
    <3>2. l <= h
      BY <1>3, <2>1, <3>1
    <3> HIDE DEF most
    <3>3. most * l <= h * most /\ most * l \in Nat
      BY <2>3, <3>2, Z3
    <3> QED BY <3>1, <3>3 DEF most
  <2>6. most * l <= R
    <3>1. (k2 - 1) * (aLen - 1) \in Int
      BY <1>3
    <3> HIDE DEF most
    <3> QED BY <1>4, <2>5, <3>1, ShiftsAssumption
  <2>7. d + l = first + n
    BY <1>7, <2>1, <2>2
  <2>8. countShift[first + n] - countShift[first + 1] \in 0 .. most * l
    BY <2>2, <2>4, <2>7
  <2> HIDE DEF most
  <2> QED BY <2>5, <2>6, <2>8
<1> HIDE DEF shift
<1>10. PICK p \in 0 .. L - 1 : p = (y - shift(1)) % L
  <2>1. 1 \in 1 .. k2
    BY <1>3
  <2>2. y - shift(1) \in Int
    BY <1>6, <1>8, <2>1
  <2> QED BY <1>4, <2>2, Modulo
<1>11. distFirstColPos = p
  <2>1. 1 \in 1 .. k2
    BY <1>3
  <2>2. columns[1] = RingWord(sSeq, k1, y - shift(1))
    BY <1>2, <2>1
  <2>3. y - shift(1) \in Int /\ sSeq # <<>> /\ k1 <= Len(sSeq)
    <3>1. shift(1) \in Nat
      BY <1>8, <2>1
    <3>2. k1 <= Len(sSeq) /\ Len(sSeq) # 0
      <4>1. k1 <= L
        BY <1>3, <1>4
      <4> QED BY <1>4, <4>1
    <3>3. y - shift(1) \in Int
      BY <1>6, <3>1
    <3> HIDE DEF Symbols
    <3> QED BY <3>2, <3>3
  <2> HIDE DEF Symbols
  <2>4. Search(sSeq \o sSeq, RingWord(sSeq, k1, y - shift(1))) = (y - shift(1)) % Len(sSeq)
    BY <1>3, <2>3, RingSearched
  <2> QED BY <1>4, <1>10, <2>2, <2>4 DEF distFirstColPos
<1>12. ASSUME NEW n \in 1 .. k2 PROVE dist[n] = R - (shift(n) - shift(1))
  <2>1. PICK d \in 0 .. R : d = shift(n) - shift(1)
    BY <1>9
  <2>2. 1 \in 1 .. k2 /\ shift(1) \in Nat /\ shift(n) \in Nat
    BY <1>3, <1>8
  <2>3. PICK a \in Int : a = y - shift(1)
    BY <1>6, <2>2
  <2>4. y - shift(n) = a - d
    BY <1>6, <2>1, <2>2, <2>3
  <2>5. (a - d) % L = (p - d) % L
    <3>1. PICK c \in Int : c = -d
      OBVIOUS
    <3>2. ((a % L) + c) % L = (a + c) % L
      BY ModuloTwice
    <3>3. (a % L) + c = p - d /\ a + c = a - d
      BY <1>10, <2>3, <3>1
    <3> QED BY <3>2, <3>3
  <2>6. RingWord(sSeq, k1, a - d) = RingWord(sSeq, k1, p - d)
    <3>1. a - d \in Int /\ p - d \in Int /\ Len(sSeq) \in Nat \ {0} /\ k1 \in Nat
      BY <1>3, <1>4
    <3> QED BY <1>4, <2>5, <3>1, SameRingWord
  <2>7. Search(range, RingWord(sSeq, k1, p - d)) = R - d
    <3>1. range = rangeForFindSeq(p)
      BY <1>11 DEF range
    <3>2. k1 \in Nat \ {0}
      BY <1>3
    <3> HIDE DEF Symbols
    <3> QED BY <1>3, <1>4, <3>1, <3>2, RangeSearched
  <2>8. dist[n] = Search(range, columns[n])
    BY DEF dist
  <2>9. columns[n] = RingWord(sSeq, k1, y - shift(n))
    BY <1>2
  <2> QED BY <2>1, <2>4, <2>6, <2>7, <2>8, <2>9
<1>13. ASSUME NEW j \in 1 .. k2 - 1 PROVE subsetTSeq[j] = dBSeq[first + j]
  <2>1. j \in 1 .. k2 /\ j + 1 \in 1 .. k2 /\ first + j \in 1 .. N - 1
        /\ 1 \in 1 .. k2 /\ first + j + 1 = first + (j + 1)
    BY <1>3, <1>5, <1>7
  <2>2. PICK t \in 0 .. aLen - 1 : t = tSeq[first + j]
    BY <1>5, <2>1
  <2>3. shift(j + 1) = shift(j) + t /\ t = dBSeq[first + j]
    BY <1>5, <2>1, <2>2 DEF shift
  <2>4. dist[j] = R - (shift(j) - shift(1)) /\ dist[j + 1] = R - (shift(j + 1) - shift(1))
    BY <1>12, <2>1
  <2>5. shift(j) \in Nat /\ shift(1) \in Nat
    BY <1>8, <2>1
  <2>6. (IF dist[j + 1] >= dist[j] THEN dist[j + 1] - dist[j] ELSE dist[j] - dist[j + 1]) = t
    <3>1. PICK u \in Int : u = shift(j) - shift(1)
      BY <2>5
    <3>2. shift(j + 1) - shift(1) = u + t
      BY <2>3, <2>5, <3>1
    <3>3. dist[j] = R - u /\ dist[j + 1] = R - (u + t)
      BY <2>4, <3>1, <3>2
    <3> QED BY <3>3
  <2> QED BY <2>3, <2>6 DEF subsetTSeq
<1>14. posCol = first
  <2> DEFINE m == k2 - 1
  <2>1. m \in Nat /\ subsetTSeq = [j \in 1 .. m |-> subsetTSeq[j]]
    BY <1>3 DEF subsetTSeq
  <2>2. ASSUME NEW j \in 1 .. m PROVE OnRing(dBSeq, first + j - 1) = dBSeq[first + j]
    <3>1. PICK n \in Int : n = first + j - 1
      BY <1>3, <1>7
    <3>2. 0 <= n /\ n < N /\ n + 1 = first + j
      BY <1>3, <1>7, <3>1
    <3>3. n % N = n
      BY <3>2, Modulo
    <3> QED BY <1>5, <3>1, <3>2, <3>3 DEF OnRing
  <2>3. subsetTSeq = RingWord(dBSeq, m, first)
    BY <1>13, <2>1, <2>2 DEF RingWord
  <2> HIDE DEF m
  <2>4. PICK begin \in Int : begin = 0
    OBVIOUS
  <2>5. ASSUME NEW n \in 1 .. Len(tSeq) PROVE tSeq[n] = OnRing(dBSeq, begin + n - 1)
    <3>1. PICK h \in Int : h = begin + n - 1
      BY <1>5, <2>4
    <3>2. 0 <= h /\ h < N /\ h + 1 = n /\ n \in 1 .. N - 1
      BY <1>5, <2>4, <3>1
    <3>3. h % N = h
      BY <3>2, Modulo
    <3> QED BY <1>5, <3>1, <3>2, <3>3 DEF OnRing
  <2>6. /\ Len(dBSeq) \in Nat \ {0} /\ NoWordTwice(dBSeq, m) /\ Len(tSeq) \in Nat
        /\ first \in 0 .. Len(tSeq) - m /\ first < Len(dBSeq)
    <3>1. NoWordTwice(dBSeq, m)
      BY ShiftsSearchable DEF m
    <3> QED BY <1>3, <1>5, <1>7, <3>1 DEF m
  <2>7. Search(tSeq, RingWord(dBSeq, m, begin + first)) = first
    BY <2>1, <2>5, <2>6, StretchSearched
  <2>8. begin + first = first
    BY <1>7, <2>4
  <2> QED BY <2>3, <2>7, <2>8 DEF posCol
<1>15. (distFirstColPos + countShift[posCol + 1]) % Len(sSeq) = y
  <2>1. PICK c \in Int : c = shift(1)
    <3>1. 1 \in 1 .. k2
      BY <1>3
    <3> QED BY <1>8, <3>1
  <2>2. PICK a \in Int : a = y - c
    BY <1>6
  <2>3. ((a % L) + c) % L = (a + c) % L
    BY ModuloTwice
  <2>4. y % L = y
    <3>1. y \in Int /\ 0 <= y /\ y < L
      BY <1>6
    <3> QED BY <3>1, Modulo
  <2>5. countShift[posCol + 1] = c /\ distFirstColPos = a % L /\ a + c = y
    BY <1>6, <1>10, <1>11, <1>14, <2>1, <2>2 DEF shift
  <2> QED BY <1>4, <2>3, <2>4, <2>5
<1>16. \A j \in 1 .. k2 : dist[j] # -1
  <2> TAKE j \in 1 .. k2
  <2>1. dist[j] = R - (shift(j) - shift(1)) /\ shift(j) - shift(1) \in 0 .. R
    BY <1>9, <1>12
  <2> QED BY <2>1
<1>17. distFirstColPos # -1 /\ posCol # -1
  BY <1>7, <1>11, <1>14
<1>18. centre[1] = dx /\ centre[2] = dy
  OBVIOUS
<1>19. LocationCol(posCol, subset[1][1] = Baseline) = x
  <2>1. CASE IsBaseline(x)
    BY <1>2, <1>7, <1>14, <2>1 DEF LocationCol
  <2>2. CASE ~IsBaseline(x)
    BY <1>2, <1>7, <1>14, <2>2 DEF LocationCol
  <2> QED BY <2>1, <2>2
<1>20. getPos(subset, centre) = <<x + dx, y + dy>>
  BY <1>1, <1>2, <1>15, <1>16, <1>17, <1>18, <1>19
<1> QED BY <1>20 DEF subset

\* A piece as it is printed, taken anywhere on the floor, is found in its place.
PieceFound ==
  built =>
    \A x \in 0 .. BGCols - k2 - 1, y \in 0 .. BGRows - 1, dx, dy \in Int :
      getPos(getSubset(x, y, k2 + 1, k1), <<dx, dy>>) = <<x + dx, y + dy>>

\* getPos finds every piece of the floor where it was printed, the piece that is
\* cut by a baseline anywhere and the one that begins on it, for every alphabet,
\* size of a piece and floor.
THEOREM PieceIsFound == Spec => []PieceFound
<1>1. FloorInv /\ RingInv /\ EveryWordOnce => PieceFound
  BY PieceSearched DEF PieceFound, FloorSearchable
<1> QED BY <1>1, FloorHolds, RingsHold, EveryWordIsOnce, PTL

-----------------------------------------------------------------------------
(* The dots of a view *)

\* The floor is not built again while an image is read.
LEMMA DotStays ==
  ASSUME UNCHANGED floorVars, NEW v, NEW c
  PROVE  DotOf(v, c)' = DotOf(v, c)
<1>1. \A d, y : ShiftedSymbol(d, y)' = ShiftedSymbol(d, y)
  BY DEF ShiftedSymbol, floorVars, arrayVars
<1>2. \A x, y : PrintedCell(x, y)' = PrintedCell(x, y)
  BY <1>1 DEF PrintedCell
<1>3. OffsetOf(v, c)' = OffsetOf(v, c)
  BY <1>2 DEF OffsetOf
<1> QED BY <1>3 DEF DotOf

\* The dashes tell which way up a view was taken: they are measured well enough.
LEMMA DashesTellWay ==
  ASSUME NEW v \in Views, dashes = DashesIn(v), DashesTell
  PROVE  IsFlipped <=> v.upside
<1> DEFINE e == v.errors
           upright == [i \in DOMAIN e |-> DashLengths[((v.y0 \div DotRows + i - 1) % 3) + 1] + e[i]]
           d(i) == dashes[i]
<1>1. e \in Seq(-6 .. 6) /\ v.y0 \in Nat /\ v.upside \in BOOLEAN
  BY SceneryAssumption
<1>2. dashes = (IF v.upside THEN Reverse(upright) ELSE upright)
  BY DEF DashesIn
<1>3. DOMAIN upright = DOMAIN e /\ DOMAIN e = 1 .. Len(e) /\ Len(e) \in Nat /\ Len(upright) = Len(e)
  BY <1>1
<1>4. Len(e) = 4 /\ DOMAIN e = 1 .. 4
  <2> HIDE DEF upright
  <2>1. Len(Reverse(upright)) = Len(upright)
    BY <1>3 DEF Reverse
  <2>2. Len(e) = 4
    BY <1>2, <1>3, <2>1 DEF DashesTell
  <2> QED BY <1>3, <2>2
<1>5. \A i \in 1 .. 4 : d(i) = upright[IF v.upside THEN 5 - i ELSE i]
  <2> HIDE DEF upright
  <2>1. \A i \in 1 .. 4 : Reverse(upright)[i] = upright[5 - i]
    BY <1>3, <1>4 DEF Reverse
  <2> QED BY <1>1, <1>2, <2>1
<1>6. PICK t \in Nat : t = v.y0 \div DotRows
  BY <1>1 DEF DotRows
<1>7. PICK s \in 0 .. 2 : s = t % 3
  OBVIOUS
<1>8. \A i \in 1 .. 4 : upright[i] = DashLengths[((s + i - 1) % 3) + 1] + e[i] /\ e[i] \in -6 .. 6
  <2> TAKE i \in 1 .. 4
  <2>1. ((t % 3) + (i - 1)) % 3 = (t + (i - 1)) % 3
    BY ModuloTwice
  <2>2. (t % 3) + (i - 1) = s + i - 1 /\ t + (i - 1) = t + i - 1
    BY <1>7
  <2>3. upright[i] = DashLengths[((t + i - 1) % 3) + 1] + e[i]
    BY <1>4, <1>6
  <2>4. e[i] \in -6 .. 6
    BY <1>1, <1>4
  <2> HIDE DEF upright, e
  <2>5. (t + i - 1) % 3 = (s + i - 1) % 3
    BY <2>1, <2>2
  <2> QED BY <2>3, <2>4, <2>5
<1>9. IsFlipped <=> ~ \/ d(1) > d(2) /\ d(2) > d(3)
                      \/ d(2) > d(3) /\ d(3) > d(1)
                      \/ d(3) > d(1) /\ d(1) > d(2)
  <2>1. 1 % 3 = 1 /\ 2 % 3 = 2 /\ 3 % 3 = 0
    OBVIOUS
  <2>2. (1 % 3) + 1 = 2 /\ (2 % 3) + 1 = 3 /\ (3 % 3) + 1 = 1
    BY <2>1
  <2> QED BY <2>2 DEF IsFlipped
<1>10. \A i, j \in 1 .. 3 : i # j => Distance(d(i), d(j)) >= 6
  BY DEF DashesTell
<1> HIDE DEF d, upright, e
<1>11. DashLengths[1] = 40 /\ DashLengths[2] = 32 /\ DashLengths[3] = 24
  BY DEF DashLengths
<1>12. /\ d(1) \in Int /\ d(2) \in Int /\ d(3) \in Int
       /\ d(1) - d(2) >= 6 \/ d(2) - d(1) >= 6
       /\ d(1) - d(3) >= 6 \/ d(3) - d(1) >= 6
       /\ d(2) - d(3) >= 6 \/ d(3) - d(2) >= 6
  <2>1. \A i \in 1 .. 4 : upright[i] \in Int
    <3> TAKE i \in 1 .. 4
    <3>1. (s + i - 1) % 3 \in 0 .. 2
      OBVIOUS
    <3>2. DashLengths[((s + i - 1) % 3) + 1] \in Int
      BY <1>11, <3>1
    <3> QED BY <1>8, <3>2
  <2>2. \A i \in 1 .. 3 : d(i) \in Int
    BY <1>5, <2>1
  <2> QED BY <1>10, <2>2 DEF Distance
<1>13. CASE s = 0
  <2>1. upright[1] = 40 + e[1] /\ upright[2] = 32 + e[2]
        /\ upright[3] = 24 + e[3] /\ upright[4] = 40 + e[4]
    BY <1>8, <1>11, <1>13
  <2>2. \A i \in 1 .. 4 : e[i] \in -6 .. 6
    BY <1>8
  <2>3. CASE ~v.upside
    <3>1. d(1) = 40 + e[1] /\ d(2) = 32 + e[2] /\ d(3) = 24 + e[3]
      BY <1>5, <2>1, <2>3
    <3>2. d(1) \in 34 .. 46 /\ d(2) \in 26 .. 38 /\ d(3) \in 18 .. 30
      BY <2>2, <3>1
    <3>a. d(1) > d(2) /\ d(2) > d(3) /\ ~(d(3) > d(1))
      BY <1>12, <3>2
    <3>3. ~IsFlipped
      BY <1>9, <3>a
    <3> QED BY <2>3, <3>3
  <2>4. CASE v.upside
    <3>1. d(1) = 40 + e[4] /\ d(2) = 24 + e[3] /\ d(3) = 32 + e[2]
      BY <1>5, <2>1, <2>4
    <3>2. d(1) \in 34 .. 46 /\ d(2) \in 18 .. 30 /\ d(3) \in 26 .. 38
      BY <2>2, <3>1
    <3>a. d(1) > d(2) /\ ~(d(2) > d(3)) /\ ~(d(3) > d(1))
      BY <1>12, <3>2
    <3>3. IsFlipped
      BY <1>9, <3>a
    <3> QED BY <2>4, <3>3
  <2> QED BY <1>1, <2>3, <2>4
<1>14. CASE s = 1
  <2>1. upright[1] = 32 + e[1] /\ upright[2] = 24 + e[2]
        /\ upright[3] = 40 + e[3] /\ upright[4] = 32 + e[4]
    BY <1>8, <1>11, <1>14
  <2>2. \A i \in 1 .. 4 : e[i] \in -6 .. 6
    BY <1>8
  <2>3. CASE ~v.upside
    <3>1. d(1) = 32 + e[1] /\ d(2) = 24 + e[2] /\ d(3) = 40 + e[3]
      BY <1>5, <2>1, <2>3
    <3>2. d(1) \in 26 .. 38 /\ d(2) \in 18 .. 30 /\ d(3) \in 34 .. 46
      BY <2>2, <3>1
    <3>a. d(1) > d(2) /\ ~(d(2) > d(3)) /\ d(3) > d(1)
      BY <1>12, <3>2
    <3>3. ~IsFlipped
      BY <1>9, <3>a
    <3> QED BY <2>3, <3>3
  <2>4. CASE v.upside
    <3>1. d(1) = 32 + e[4] /\ d(2) = 40 + e[3] /\ d(3) = 24 + e[2]
      BY <1>5, <2>1, <2>4
    <3>2. d(1) \in 26 .. 38 /\ d(2) \in 34 .. 46 /\ d(3) \in 18 .. 30
      BY <2>2, <3>1
    <3>a. ~(d(1) > d(2)) /\ d(2) > d(3) /\ ~(d(3) > d(1))
      BY <1>12, <3>2
    <3>3. IsFlipped
      BY <1>9, <3>a
    <3> QED BY <2>4, <3>3
  <2> QED BY <1>1, <2>3, <2>4
<1>15. CASE s = 2
  <2>1. upright[1] = 24 + e[1] /\ upright[2] = 40 + e[2]
        /\ upright[3] = 32 + e[3] /\ upright[4] = 24 + e[4]
    BY <1>8, <1>11, <1>15
  <2>2. \A i \in 1 .. 4 : e[i] \in -6 .. 6
    BY <1>8
  <2>3. CASE ~v.upside
    <3>1. d(1) = 24 + e[1] /\ d(2) = 40 + e[2] /\ d(3) = 32 + e[3]
      BY <1>5, <2>1, <2>3
    <3>2. d(1) \in 18 .. 30 /\ d(2) \in 34 .. 46 /\ d(3) \in 26 .. 38
      BY <2>2, <3>1
    <3>a. ~(d(1) > d(2)) /\ d(2) > d(3) /\ d(3) > d(1)
      BY <1>12, <3>2
    <3>3. ~IsFlipped
      BY <1>9, <3>a
    <3> QED BY <2>3, <3>3
  <2>4. CASE v.upside
    <3>1. d(1) = 24 + e[4] /\ d(2) = 32 + e[3] /\ d(3) = 40 + e[2]
      BY <1>5, <2>1, <2>4
    <3>2. d(1) \in 18 .. 30 /\ d(2) \in 26 .. 38 /\ d(3) \in 34 .. 46
      BY <2>2, <3>1
    <3>a. ~(d(1) > d(2)) /\ ~(d(2) > d(3)) /\ d(3) > d(1)
      BY <1>12, <3>2
    <3>3. IsFlipped
      BY <1>9, <3>a
    <3> QED BY <2>4, <3>3
  <2> QED BY <1>1, <2>3, <2>4
<1> QED BY <1>13, <1>14, <1>15

LEMMA TurnedTwice ==
  ASSUME NEW a \in Int, NEW b \in Int PROVE Turned(Turned(<<a, b>>)) = <<a, b>>
<1>1. ROI_width_size \in Int /\ ROI_height_size \in Int
  BY ViewAssumption, Z3 DEF ROI_width_size, ROI_height_size
<1> QED BY <1>1 DEF Turned

\* The margin is the same on both sides.
LEMMA MarginTurned ==
  ASSUME NEW a \in Int, NEW b \in Int PROVE InMargin(Turned(<<a, b>>)) <=> InMargin(<<a, b>>)
<1>1. ROI_width_size \in Int /\ ROI_height_size \in Int /\ Margin \in Int
  BY ViewAssumption, Z3 DEF ROI_width_size, ROI_height_size
<1> QED BY <1>1 DEF Turned, InMargin

LEMMA Sizes ==
  /\ subCol = k2 + 1 /\ subCol = lineInterval + 1 /\ subCol \in Nat \ {0, 1, 2}
  /\ subRow = k1 /\ subRow \in Nat \ {0, 1}
  /\ entireCol = 2 * subCol + 1 /\ entireRow \in Nat /\ subRow <= entireRow - 2
  /\ Spacing \in Nat \ {0} /\ Margin \in Nat /\ EPS \in Nat /\ aLen = 4
  /\ k2 \in Nat \ {0, 1} /\ k1 \in Nat \ {0, 1}
  BY DecoderAssumption, ArrayAssumption, ViewAssumption, DigitizerAssumption
  DEF entireCol, entireRow

\* Of the columns within a view one is a baseline.
LEMMA MiddleIsBaseline ==
  ASSUME NEW v \in Views, NEW a \in 0 .. entireCol - 1
  PROVE  IsBaseline(v.x0 + a) <=> a \in {0, subCol, 2 * subCol}
<1> DEFINE m == subCol
<1>1. /\ m \in Nat \ {0} /\ lineInterval + 1 = m /\ entireCol = 2 * m + 1
      /\ a \in Int /\ 0 <= a /\ a <= 2 * m
  BY Sizes
<1>2. v.x0 \in Nat /\ v.x0 % m = 0
  BY SceneryAssumption
<1>3. PICK x \in Nat : x = v.x0
  BY <1>2
<1> HIDE DEF m
<1>4. ((x % m) + a) % m = (x + a) % m
  <2>1. \A n \in Nat \ {0} : \A y, c \in Int : ((y % n) + c) % n = (y + c) % n
    BY ModuloTwice
  <2>2. m \in Nat \ {0} /\ x \in Int /\ a \in Int
    BY <1>1, <1>3
  <2> QED BY <2>1, <2>2
<1>5. (x + a) % m = a % m
  BY <1>1, <1>2, <1>3, <1>4
<1>6. a % m = 0 <=> a \in {0, m, 2 * m}
  <2>1. a < m => a % m = a
    BY <1>1, Modulo
  <2>2. m <= a /\ a < 2 * m => a % m = a - m
    BY <1>1, Modulo
  <2>3. a = 2 * m => a % m = 0
    BY <1>1
  <2> QED BY <1>1, <2>1, <2>2, <2>3
<1> QED BY <1>1, <1>3, <1>5, <1>6 DEF IsBaseline, m

\* A view is on the floor.
LEMMA ViewOnFloor ==
  ASSUME FloorSearchable, NEW v \in Views
  PROVE  /\ v.x0 \in Nat /\ v.y0 \in Nat /\ BGCols \in Int /\ BGRows \in Int
         /\ v.x0 + entireCol <= BGCols /\ v.y0 + entireRow <= BGRows
<1>1. Len(countShift) = total_elements[k2 - 1] /\ total_elements[k1] = Len(sSeq) + 1
      /\ Len(countShift) \in Nat /\ Len(sSeq) \in Nat
  BY SequencesSearchable, ShiftsSearchable
<1>2. PICK n \in Nat, l \in Nat : n = Len(countShift) /\ l = Len(sSeq)
  BY <1>1
<1>3. BGCols = n + n \div lineInterval /\ BGRows = l
  BY <1>2 DEF BGCols, BGRows
<1>4. n \div lineInterval \in Int
  BY ArrayAssumption
<1>5. v.x0 \in Nat /\ v.y0 \in Nat /\ v.x0 + entireCol <= n + n \div lineInterval
      /\ v.y0 + entireRow < total_elements[k1]
  BY <1>1, <1>2, SceneryAssumption
<1>6. total_elements[k1] = l + 1
  BY <1>1, <1>2
<1> QED BY <1>3, <1>4, <1>5, <1>6, Sizes

\* Every cell of a view that is on no baseline has a symbol.
LEMMA SymbolSeen ==
  ASSUME FloorSearchable, NEW v \in Views,
         NEW a \in 0 .. entireCol - 1, NEW b \in 0 .. entireRow - 1, ~IsBaseline(v.x0 + a)
  PROVE  PrintedCell(v.x0 + a, v.y0 + b) \in Symbols
<1> DEFINE first == IF a < subCol THEN v.x0 ELSE v.x0 + subCol
           j == IF a < subCol THEN a + 1 ELSE a - subCol + 1
           row == v.y0 + b
<1>0. a # 2 * subCol
  BY MiddleIsBaseline
<1>1. /\ first \in 0 .. BGCols - k2 - 1 /\ first \in Nat /\ row \in 0 .. BGRows - 1
      /\ j \in 1 .. k2 + 1 /\ 1 \in 1 .. k1
      /\ first + j - 1 = v.x0 + a /\ row + 1 - 1 = v.y0 + b
  BY <1>0, ViewOnFloor, Sizes
<1> HIDE DEF first, j, row
<1>2. RangeCell(first, first + j - 1, row + 1 - 1) \in Symbols
  BY <1>0, <1>1, PieceColumns
<1>3. PICK x, y \in Nat : x = v.x0 + a /\ y = v.y0 + b
  BY ViewOnFloor
<1>4. RangeCell(first, x, y) \in Symbols
  BY <1>1, <1>2, <1>3
<1>5. colCorrection(first, x) = Cardinality({c \in 0 .. x : IsBaseline(c)})
  <2>1. first <= x
    BY <1>1, <1>3
  <2> QED BY <1>1, <2>1, CorrectionCountsBaselines
<1>6. RangeCell(first, x, y) = PrintedCell(x, y)
  BY <1>3, <1>5 DEF RangeCell, PrintedCell
<1> QED BY <1>3, <1>4, <1>6

\* A number that is less than half a pitch from one crossing is more than half a
\* pitch from every other.
LEMMA OneCrossing ==
  ASSUME NEW S \in Nat \ {0}, NEW a \in Int, NEW b \in Int, NEW p \in Int,
         2 * p < S, 2 * (-p) < S
  PROVE  2 * Distance(S * a + p, S * b) <= S <=> a = b
<1>1. PICK d \in Int : d = a - b
  OBVIOUS
<1>2. PICK m \in Int, n \in Int, e \in Int : m = S * a /\ n = S * b /\ e = S * d
  BY Z3
<1>3. m - n = e
  BY <1>1, <1>2, Z3
<1>4. /\ d = 0 => e = 0
      /\ d >= 1 => e >= S
      /\ d <= -1 => e <= -S
  BY <1>2, Z3
<1>5. 2 * Distance(m + p, n) <= S <=> d = 0
  <2>1. CASE d = 0
    BY <1>3, <1>4, <2>1 DEF Distance
  <2>2. CASE d >= 1
    BY <1>3, <1>4, <2>2 DEF Distance
  <2>3. CASE d <= -1
    BY <1>3, <1>4, <2>3 DEF Distance
  <2> QED BY <2>1, <2>2, <2>3
<1> QED BY <1>1, <1>2, <1>5

LEMMA CellPlaces ==
  /\ \A c \in Cells : /\ c = <<c[1], c[2]>> /\ c \in ViewCells
                      /\ c[1] \in 1 .. 2 * subCol - 1 /\ c[2] \in 1 .. entireRow - 2
  /\ \A c \in ViewCells : /\ c = <<c[1], c[2]>>
                          /\ c[1] \in 0 .. entireCol - 1 /\ c[2] \in 0 .. entireRow - 1
  BY Sizes DEF Cells, ViewCells

LEMMA ColumnOfBaseline ==
  ASSUME NEW v \in Views, NEW c \in Cells
  PROVE  OnBaseline(v, c) <=> c[1] = subCol
<1>1. c[1] \in 0 .. entireCol - 1 /\ c[1] \in 1 .. 2 * subCol - 1
  BY CellPlaces
<1>2. IsBaseline(v.x0 + c[1]) <=> c[1] \in {0, subCol, 2 * subCol}
  BY <1>1, MiddleIsBaseline
<1> QED BY <1>1, <1>2, Sizes DEF OnBaseline

\* The dots of a baseline lie beside it, every other a unit from its crossing,
\* on the side its symbol says.
LEMMA OffsetPlaced ==
  ASSUME FloorSearchable, NEW v \in Views, NEW c \in ViewCells
  PROVE  /\ OnBaseline(v, c) => OffsetOf(v, c) = <<v.off, 0>>
         /\ ~OnBaseline(v, c) =>
              /\ PrintedCell(v.x0 + c[1], v.y0 + c[2]) \in Symbols
              /\ OffsetOf(v, c) \in (-1 .. 1) \X (-1 .. 1)
<1>1. CASE OnBaseline(v, c)
  BY <1>1 DEF OffsetOf
<1>2. CASE ~OnBaseline(v, c)
  <2> DEFINE symbol == PrintedCell(v.x0 + c[1], v.y0 + c[2])
  <2>1. symbol \in Symbols
    <3>1. c[1] \in 0 .. entireCol - 1 /\ c[2] \in 0 .. entireRow - 1
      BY CellPlaces
    <3> QED BY <1>2, <3>1, SymbolSeen DEF OnBaseline
  <2> HIDE DEF symbol
  <2>2. Symbols = {0, 1, 2, 3} /\ aLen = 4
    BY Sizes DEF Symbols
  <2>3. (symbol + 1) % aLen \in Symbols
    BY <2>1, <2>2
  <2>4. \A s \in Symbols : SymbolOffset[s] \in (-1 .. 1) \X (-1 .. 1)
    BY <2>2 DEF SymbolOffset, LEFT, TOP, RIGHT, BOTTOM
  <2>5. CASE c \in v.skewed
    BY <1>2, <2>1, <2>5 DEF OffsetOf, symbol
  <2>6. CASE c \notin v.skewed /\ c \in v.misread
    <3>1. OffsetOf(v, c) = SymbolOffset[(symbol + 1) % aLen]
      BY <1>2, <2>6 DEF OffsetOf, symbol
    <3> QED BY <1>2, <2>1, <2>3, <2>4, <3>1 DEF symbol
  <2>7. CASE c \notin v.skewed /\ c \notin v.misread
    <3>1. OffsetOf(v, c) = SymbolOffset[symbol]
      BY <1>2, <2>7 DEF OffsetOf, symbol
    <3> QED BY <1>2, <2>1, <2>4, <3>1 DEF symbol
  <2> QED BY <2>5, <2>6, <2>7
<1> QED BY <1>1, <1>2

\* A dot lies nearer to its own crossing than to another.
LEMMA OffsetSmall ==
  ASSUME FloorSearchable, NEW v \in Views, NEW c \in ViewCells
  PROVE  /\ OffsetOf(v, c)[1] \in Int /\ OffsetOf(v, c)[2] \in Int
         /\ \A i \in 1 .. 2 : LET d == OffsetOf(v, c)[i]
                              IN /\ 2 * d < Spacing /\ 2 * (-d) < Spacing
                                 /\ d + Margin < Spacing /\ (-d) + Margin < Spacing
<1>1. /\ v.off \in Int
      /\ \A d \in {1, v.off, -v.off} : 2 * d < Spacing /\ d + Margin < Spacing
  BY SceneryAssumption
<1>2. PICK o \in Int : o = v.off
  BY <1>1
<1>3. 2 * 1 < Spacing /\ 1 + Margin < Spacing /\ 2 * o < Spacing /\ o + Margin < Spacing
      /\ 2 * (-o) < Spacing /\ (-o) + Margin < Spacing
  BY <1>1, <1>2
<1>4. Spacing \in Nat /\ Margin \in Nat
  BY Sizes
<1>5. CASE OnBaseline(v, c)
  <2>1. OffsetOf(v, c) = <<o, 0>>
    BY <1>2, <1>5, OffsetPlaced
  <2>2. OffsetOf(v, c)[1] = o /\ OffsetOf(v, c)[2] = 0
    BY <2>1
  <2> QED BY <1>3, <1>4, <2>2
<1>6. CASE ~OnBaseline(v, c)
  <2>1. OffsetOf(v, c) \in (-1 .. 1) \X (-1 .. 1)
    BY <1>6, OffsetPlaced
  <2>2. OffsetOf(v, c)[1] \in -1 .. 1 /\ OffsetOf(v, c)[2] \in -1 .. 1
    BY <2>1
  <2> QED BY <1>3, <1>4, <2>2
<1> QED BY <1>5, <1>6

\* A dot lies in the cell of its own crossing and in no other.
LEMMA InItsCell ==
  ASSUME FloorSearchable, NEW v \in Views, NEW c \in ViewCells, NEW b \in ViewCells
  PROVE  InCell(DotOf(v, c), b) <=> b = c
<1>1. PICK p \in Int, q \in Int : OffsetOf(v, c)[1] = p /\ OffsetOf(v, c)[2] = q
  BY OffsetSmall
<1>2. 2 * p < Spacing /\ 2 * (-p) < Spacing /\ 2 * q < Spacing /\ 2 * (-q) < Spacing
  BY <1>1, OffsetSmall
<1>3. /\ c = <<c[1], c[2]>> /\ c[1] \in Int /\ c[2] \in Int
      /\ b = <<b[1], b[2]>> /\ b[1] \in Int /\ b[2] \in Int
  BY CellPlaces
<1>4. DotOf(v, c)[1] = Spacing * c[1] + p /\ DotOf(v, c)[2] = Spacing * c[2] + q
  BY <1>1 DEF DotOf
<1>5. Spacing \in Nat \ {0}
  BY Sizes
<1>6. 2 * Distance(Spacing * c[1] + p, Spacing * b[1]) <= Spacing <=> c[1] = b[1]
  BY <1>2, <1>3, <1>5, OneCrossing
<1>7. 2 * Distance(Spacing * c[2] + q, Spacing * b[2]) <= Spacing <=> c[2] = b[2]
  BY <1>2, <1>3, <1>5, OneCrossing
<1>8. InCell(DotOf(v, c), b) <=> c[1] = b[1] /\ c[2] = b[2]
  BY <1>4, <1>6, <1>7 DEF InCell
<1> QED BY <1>3, <1>8

\* A number more than a margin from both ends.
LEMMA InsideMargin ==
  ASSUME NEW S \in Nat \ {0}, NEW n \in Int, NEW last \in Int, NEW p \in Int, NEW m \in Nat,
         1 <= n, n <= last - 1, p + m < S, (-p) + m < S
  PROVE  m < S * n + p /\ S * n + p < S * last - m
<1>1. PICK k \in Int, l \in Int, e \in Int : k = S * n /\ l = S * last /\ e = S * (last - n)
  BY Z3
<1>2. l - k = e /\ k >= S /\ e >= S
  BY <1>1, Z3
<1> QED BY <1>1, <1>2

\* No dot of a cell is in the margin.
LEMMA CellOutOfMargin ==
  ASSUME FloorSearchable, NEW v \in Views, NEW c \in Cells
  PROVE  ~InMargin(DotOf(v, c))
<1>1. c \in ViewCells /\ c[1] \in 1 .. 2 * subCol - 1 /\ c[2] \in 1 .. entireRow - 2
  BY CellPlaces
<1>2. PICK p \in Int, q \in Int : OffsetOf(v, c)[1] = p /\ OffsetOf(v, c)[2] = q
  BY <1>1, OffsetSmall
<1>3. /\ p + Margin < Spacing /\ (-p) + Margin < Spacing
      /\ q + Margin < Spacing /\ (-q) + Margin < Spacing
  BY <1>1, <1>2, OffsetSmall
<1>4. DotOf(v, c)[1] = Spacing * c[1] + p /\ DotOf(v, c)[2] = Spacing * c[2] + q
  BY <1>2 DEF DotOf
<1>5. PICK w \in Int, h \in Int : w = entireCol - 1 /\ h = entireRow - 1
  BY Sizes
<1>6. PICK a \in Int, b \in Int : a = c[1] /\ b = c[2]
  BY <1>1
<1>7. 1 <= a /\ a <= w - 1 /\ 1 <= b /\ b <= h - 1
  BY <1>1, <1>5, <1>6, Sizes
<1>8. Spacing \in Nat \ {0} /\ Margin \in Nat
  BY Sizes
<1>9. Margin < Spacing * a + p /\ Spacing * a + p < Spacing * w - Margin
  BY <1>3, <1>7, <1>8, InsideMargin
<1>10. Margin < Spacing * b + q /\ Spacing * b + q < Spacing * h - Margin
  BY <1>3, <1>7, <1>8, InsideMargin
<1>11. ROI_width_size = Spacing * w /\ ROI_height_size = Spacing * h
  BY <1>5 DEF ROI_width_size, ROI_height_size, entireCol, entireRow
<1>12. PICK x \in Int, y \in Int, W \in Int, H \in Int :
         x = Spacing * a + p /\ y = Spacing * b + q /\ W = Spacing * w /\ H = Spacing * h
  BY <1>8, Z3
<1>13. DotOf(v, c)[1] = x /\ DotOf(v, c)[2] = y /\ ROI_width_size = W /\ ROI_height_size = H
  BY <1>4, <1>6, <1>11, <1>12
<1>14. Margin < x /\ x < W - Margin /\ Margin < y /\ y < H - Margin
  BY <1>9, <1>10, <1>12
<1> QED BY <1>8, <1>13, <1>14 DEF InMargin

-----------------------------------------------------------------------------
(* The digitizer *)

\* The cells of a view whose dot is left when the margin is trimmed.
KeptCells(v) == {c \in DotCells(v) : ~InMargin(DotOf(v, c))}

KeptPoints(v) == {DotOf(v, c) : c \in KeptCells(v)}

DotsAt(v, cells) == [c \in cells |-> DotOf(v, c)]

MiddlePlace(v) == Spacing * subCol + v.off

\* Where the middle baseline may be taken to be: its dots are not turned.
MiddlePlaces(v) == {Spacing * subCol + v.off, Spacing * subCol - v.off}

\* The dots that are kept are sorted into the cells they were printed in.
LEMMA SortedDots ==
  ASSUME FloorSearchable, NEW v \in Views
  PROVE  Sort2DdotArr(KeptPoints(v)) = DotsAt(v, Cells \cap DotCells(v))
<1>1. KeptCells(v) \subseteq ViewCells
  BY DEF KeptCells, DotCells
<1>2. \A c \in KeptCells(v), b \in Cells : InCell(DotOf(v, c), b) <=> b = c
  BY <1>1, InItsCell, CellPlaces
<1>3. Cells \cap DotCells(v) = Cells \cap KeptCells(v)
  BY CellOutOfMargin DEF KeptCells
<1>4. {b \in Cells : \E dot \in KeptPoints(v) : InCell(dot, b)} = Cells \cap KeptCells(v)
  BY <1>2 DEF KeptPoints
<1>5. ASSUME NEW b \in Cells \cap KeptCells(v)
      PROVE  (CHOOSE dot \in KeptPoints(v) : InCell(dot, b)) = DotOf(v, b)
  <2>1. DotOf(v, b) \in KeptPoints(v) /\ InCell(DotOf(v, b), b)
    BY <1>2 DEF KeptPoints
  <2>2. \A dot \in KeptPoints(v) : InCell(dot, b) => dot = DotOf(v, b)
    BY <1>2 DEF KeptPoints
  <2> QED BY <2>1, <2>2
<1>6. Sort2DdotArr(KeptPoints(v))
        = [b \in Cells \cap KeptCells(v) |-> CHOOSE dot \in KeptPoints(v) : InCell(dot, b)]
  BY <1>4 DEF Sort2DdotArr
<1> QED BY <1>3, <1>5, <1>6 DEF DotsAt

\* No other column is as near to the middle baseline as its own dots may be.
LEMMA OnlyMiddleColumn ==
  ASSUME FloorSearchable, NEW v \in Views, NEW cells \in SUBSET Cells, NEW at \in MiddlePlaces(v)
  PROVE  CellsOn(DotsAt(v, cells), at)
           = {c \in cells : c[1] = subCol /\ Distance(MiddlePlace(v), at) < EPS}
<1>1. CellsOn(DotsAt(v, cells), at) = {c \in cells : Distance(DotOf(v, c)[1], at) < EPS}
  BY DEF CellsOn, DotsAt
<1>2. ASSUME NEW c \in Cells, c[1] = subCol
      PROVE  DotOf(v, c)[1] = MiddlePlace(v)
  <2>1. OnBaseline(v, c) /\ c \in ViewCells
    BY <1>2, ColumnOfBaseline, CellPlaces
  <2>2. OffsetOf(v, c) = <<v.off, 0>>
    BY <2>1, OffsetPlaced
  <2> QED BY <1>2, <2>2 DEF DotOf, MiddlePlace
<1>3. ASSUME NEW c \in Cells, c[1] # subCol
      PROVE  ~(Distance(DotOf(v, c)[1], at) < EPS)
  <2>1. ~OnBaseline(v, c) /\ c \in ViewCells /\ c[1] \in Int
    BY <1>3, ColumnOfBaseline, CellPlaces
  <2>2. OffsetOf(v, c) \in (-1 .. 1) \X (-1 .. 1)
    BY <2>1, OffsetPlaced
  <2>3. PICK p \in -1 .. 1 : p = OffsetOf(v, c)[1]
    BY <2>2
  <2>4. PICK a \in Int, m \in Int : a = c[1] /\ m = subCol
    BY <2>1, Sizes
  <2>5. PICK S \in Nat \ {0}, e \in Nat : S = Spacing /\ e = EPS
    BY Sizes
  <2>6. PICK k \in Int, l \in Int, n \in Int : k = S * a /\ l = S * m /\ n = S * (a - m)
    BY Z3
  <2>7. k - l = n /\ (n >= S \/ n <= -S)
    <3>1. a - m >= 1 \/ a - m <= -1
      BY <1>3, <2>4
    <3> QED BY <2>6, <3>1, Z3
  <2>8. PICK o \in Int : o = v.off
    BY SceneryAssumption
  <2>9. o + 1 + e <= S /\ (-o) + 1 + e <= S
    BY <2>5, <2>8, SceneryAssumption
  <2>10. DotOf(v, c)[1] = k + p
    BY <2>3, <2>4, <2>5, <2>6 DEF DotOf
  <2>11. at = l + o \/ at = l - o
    BY <2>4, <2>5, <2>6, <2>8 DEF MiddlePlaces
  <2>12. ~(Distance(k + p, l + o) < e) /\ ~(Distance(k + p, l - o) < e)
    BY <2>7, <2>9 DEF Distance
  <2> QED BY <2>5, <2>10, <2>11, <2>12
<1> QED BY <1>1, <1>2, <1>3

\* From any dot of the middle baseline its whole column is put back where it was.
LEMMA ColumnPutBack ==
  ASSUME FloorSearchable, NEW v \in Views, NEW at \in MiddlePlaces(v),
         CellsOn(DotsAt(v, Cells \cap DotCells(v)), at) # {}
  PROVE  InterpolatingDashArea(DotsAt(v, Cells \cap DotCells(v)), at)
           = DotsAt(v, ReadableCells(v))
<1> DEFINE cells == Cells \cap DotCells(v)
           dots == DotsAt(v, cells)
           known == CHOOSE c \in CellsOn(dots, at) : TRUE
           column == {known[1]} \X (1 .. entireRow - 2)
<1>1. known \in CellsOn(dots, at)
  OBVIOUS
<1>2. known \in cells /\ known[1] = subCol
  BY <1>1, OnlyMiddleColumn
<1>3. InterpolatingDashArea(dots, at)
        = [c \in cells \cup column |->
             IF c \in column
             THEN <<dots[known][1], dots[known][2] + (c[2] - known[2]) * Spacing>>
             ELSE dots[c]]
  BY DEF InterpolatingDashArea, DotsAt
<1> HIDE DEF known
<1>4. column = {c \in Cells : c[1] = subCol}
  <2>1. subCol \in 1 .. entireCol - 2
    BY Sizes
  <2> QED BY <1>2, <2>1 DEF Cells
<1>5. cells \cup column = ReadableCells(v)
  <2>1. ASSUME NEW c \in Cells, c[1] # subCol PROVE c \in DotCells(v) <=> c \notin v.lost
    BY <2>1, ColumnOfBaseline, CellPlaces DEF DotCells
  <2> QED BY <1>4, <2>1 DEF ReadableCells
<1>6. ASSUME NEW c \in column
      PROVE  <<dots[known][1], dots[known][2] + (c[2] - known[2]) * Spacing>> = DotOf(v, c)
  <2>1. c \in Cells /\ c[1] = subCol /\ known \in Cells
    BY <1>2, <1>4, <1>6
  <2>2. OffsetOf(v, c) = <<v.off, 0>> /\ OffsetOf(v, known) = <<v.off, 0>>
    BY <1>2, <2>1, ColumnOfBaseline, CellPlaces, OffsetPlaced
  <2>3. dots[known] = DotOf(v, known)
    BY <1>2 DEF DotsAt
  <2>4. PICK a \in Int, b \in Int : a = c[2] /\ b = known[2]
    BY <2>1, CellPlaces
  <2>5. dots[known][1] = Spacing * subCol + v.off /\ dots[known][2] = Spacing * b + 0
    <3> HIDE DEF dots
    <3>1. DotOf(v, known) = <<Spacing * subCol + v.off, Spacing * b + 0>>
      BY <1>2, <2>2, <2>4 DEF DotOf
    <3> QED BY <2>3, <3>1
  <2>6. DotOf(v, c) = <<Spacing * subCol + v.off, Spacing * a + 0>>
    BY <2>1, <2>2, <2>4 DEF DotOf
  <2>7. Spacing * b + 0 + (a - b) * Spacing = Spacing * a + 0
    <3>1. Spacing \in Int
      BY Sizes
    <3> QED BY <3>1, Z3
  <2> QED BY <2>4, <2>5, <2>6, <2>7
<1>7. \A c \in cells \ column : dots[c] = DotOf(v, c)
  BY DEF DotsAt
<1> HIDE DEF cells, dots, column
<1>8. InterpolatingDashArea(dots, at) = [c \in cells \cup column |-> DotOf(v, c)]
  BY <1>3, <1>6, <1>7
<1> QED BY <1>5, <1>8 DEF DotsAt, dots, cells

\* A symbol is read from where its dot lies; no dot that lies aslant passes.
LEMMA SymbolRead ==
  /\ \A s \in Symbols : Direction(SymbolOffset[s][1], SymbolOffset[s][2]) = s
  /\ ~WithinMaxAngle(1, 1)
<1>1. Symbols = {0, 1, 2, 3}
  BY Sizes DEF Symbols
<1>2. ASSUME NEW s \in Symbols
      PROVE  Direction(SymbolOffset[s][1], SymbolOffset[s][2]) = s
  BY <1>1 DEF Direction, SymbolOffset, LEFT, TOP, RIGHT, BOTTOM
<1>3. Direction(1, 1) = BOTTOM
  BY DEF Direction, BOTTOM
<1>4. ~WithinMaxAngle(1, 1)
  BY <1>3 DEF WithinMaxAngle, Distance, LEFT, RIGHT, BOTTOM
<1> QED BY <1>2, <1>4

\* Where the rectangle of a piece may be.
Inside(rect) ==
  /\ rect.left \in Int /\ rect.top \in Int
  /\ 1 <= rect.left /\ rect.right = rect.left + subCol - 1 /\ rect.right <= entireCol - 2
  /\ 1 <= rect.top /\ rect.bottom = rect.top + subRow - 1 /\ rect.bottom <= entireRow - 2

\* The middle baseline passes through every piece.
LEMMA MiddleInPiece ==
  ASSUME NEW rect, Inside(rect)
  PROVE  /\ CellsOf(rect) \subseteq Cells
         /\ \A r \in rect.top .. rect.bottom : <<subCol, r>> \in CellsOf(rect)
         /\ rect.top \in rect.top .. rect.bottom /\ rect.top + 1 \in rect.top .. rect.bottom
  BY Sizes DEF Inside, CellsOf, Cells

\* A piece of which the middle baseline was not put back is incomplete.
LEMMA BaselineNeeded ==
  ASSUME FloorSearchable, NEW v \in Views, NEW rect, Inside(rect)
  PROVE  ~(CellsOf(rect) \subseteq DotCells(v))
<1> SUFFICES ASSUME CellsOf(rect) \subseteq DotCells(v) PROVE FALSE
  OBVIOUS
<1>1. PICK n \in Int : n = v.y0 + rect.top
  BY SceneryAssumption DEF Inside
<1>2. ASSUME NEW r \in rect.top .. rect.bottom PROVE (v.y0 + r) % 3 = 0
  <2>1. <<subCol, r>> \in Cells /\ <<subCol, r>> \in DotCells(v)
    BY MiddleInPiece
  <2>2. OnBaseline(v, <<subCol, r>>)
    BY <2>1, ColumnOfBaseline
  <2> QED BY <2>1, <2>2 DEF DotCells, DotRows
<1>3. (v.y0 + rect.top) % 3 = 0 /\ (v.y0 + (rect.top + 1)) % 3 = 0
  BY <1>2, MiddleInPiece
<1>4. v.y0 + (rect.top + 1) = n + 1
  <2>1. PICK y \in Int, t \in Int : y = v.y0 /\ t = rect.top
    <3>1. v.y0 \in Int
      BY SceneryAssumption
    <3>2. rect.top \in Int
      BY DEF Inside
    <3> QED BY <3>1, <3>2
  <2>2. n = y + t
    BY <1>1, <2>1
  <2> QED BY <2>1, <2>2
<1>5. n % 3 = 0 /\ (n + 1) % 3 = 0
  BY <1>1, <1>3, <1>4
<1> QED BY <1>5

\* A dot of the middle baseline is where it was printed, or mirrored with its view.
LEMMA MiddleSeen ==
  ASSUME FloorSearchable, NEW v \in Views, NEW dot \in MiddleIn(v)
  PROVE  dot[1] \in MiddlePlaces(v)
<1>1. PICK c \in DotCells(v) : c[1] = subCol /\ dot = AsSeen(v, DotOf(v, c))
  BY DEF MiddleIn
<1>2. c \in ViewCells
  BY DEF DotCells
<1>3. OnBaseline(v, c)
  <2>1. c[1] \in 0 .. entireCol - 1
    BY <1>2, CellPlaces
  <2> QED BY <1>1, <2>1, MiddleIsBaseline DEF OnBaseline
<1>4. OffsetOf(v, c) = <<v.off, 0>>
  BY <1>2, <1>3, OffsetPlaced
<1>5. DotOf(v, c)[1] = Spacing * subCol + v.off
  BY <1>1, <1>4 DEF DotOf
<1>6. Turned(DotOf(v, c))[1] = Spacing * subCol - v.off
  <2>1. Turned(DotOf(v, c))[1] = Spacing * (entireCol - 1) - (Spacing * subCol + v.off)
    BY <1>5 DEF Turned, ROI_width_size, entireCol
  <2>2. PICK m \in Int, S \in Int, o \in Int : m = subCol /\ S = Spacing /\ o = v.off
    BY Sizes, SceneryAssumption
  <2>3. entireCol - 1 = 2 * m
    BY <2>2, Sizes
  <2>4. S * (2 * m) - (S * m + o) = S * m - o
    BY Z3
  <2> QED BY <2>1, <2>2, <2>3, <2>4
<1>7. dot = DotOf(v, c) \/ dot = Turned(DotOf(v, c))
  BY <1>1 DEF AsSeen
<1> QED BY <1>5, <1>6, <1>7 DEF MiddlePlaces

\* A complete piece of which every dot lies as a symbol has it is read as it was
\* printed.
LEMMA PieceRead ==
  ASSUME FloorSearchable, NEW v \in Views, v.misread = {}, NEW rect, Inside(rect),
         CellsOf(rect) \subseteq ReadableCells(v),
         AnglesHold(DotsAt(v, ReadableCells(v)), rect, {subCol})
  PROVE  Digits(DotsAt(v, ReadableCells(v)), rect, {subCol})
           = getSubset(v.x0 + rect.left, v.y0 + rect.top, k2 + 1, k1)
<1> DEFINE dots == DotsAt(v, ReadableCells(v))
<1>1. PICK l \in Int, t \in Int : l = rect.left /\ t = rect.top
  BY DEF Inside
<1>2. PICK x \in Nat, y \in Nat : x = v.x0 + l /\ y = v.y0 + t
  <2>1. v.x0 \in Nat /\ v.y0 \in Nat
    BY SceneryAssumption
  <2>2. l \in Nat /\ t \in Nat
    BY <1>1 DEF Inside
  <2> QED BY <2>1, <2>2
<1>3. ~(x > BGCols - 1 \/ y > BGRows - 1)
  BY <1>1, <1>2, Sizes, ViewOnFloor DEF Inside
<1>4. getSubset(x, y, k2 + 1, k1)
        = [i \in 1 .. k1 |-> [j \in 1 .. k2 + 1 |-> RangeCell(x, x + j - 1, y + i - 1)]]
  BY <1>3 DEF getSubset
<1>5. ASSUME NEW i \in 1 .. subRow, NEW j \in 1 .. subCol
      PROVE  LET c == <<rect.left + j - 1, rect.top + i - 1>>
             IN (IF c[1] \in {subCol} THEN CENTER
                 ELSE Direction(OffsetX(dots, c), OffsetY(dots, c)))
                  = RangeCell(x, x + j - 1, y + i - 1)
  <2>1. PICK a \in Int, b \in Int : a = l + j - 1 /\ b = t + i - 1
    BY Sizes
  <2> DEFINE c == <<a, b>>
  <2>2. c \in CellsOf(rect)
    BY <1>1, <2>1, Sizes DEF Inside, CellsOf
  <2>3. c \in Cells /\ c \in ViewCells /\ c \in ReadableCells(v)
    BY <2>2, MiddleInPiece, CellPlaces
  <2>4. v.x0 + a = x + j - 1 /\ v.y0 + b = y + i - 1
    <3>1. PICK x0 \in Int, y0 \in Int : x0 = v.x0 /\ y0 = v.y0
      BY SceneryAssumption
    <3>2. x = x0 + l /\ y = y0 + t /\ i \in Int /\ j \in Int
      BY <1>2, <3>1, Sizes
    <3> QED BY <2>1, <3>1, <3>2
  <2>5. IsBaseline(x + j - 1) <=> a = subCol
    BY <2>3, <2>4, ColumnOfBaseline DEF OnBaseline
  <2>6. CASE a = subCol
    <3>1. RangeCell(x, x + j - 1, y + i - 1) = CENTER
      BY <2>5, <2>6 DEF RangeCell, Baseline, CENTER
    <3> QED BY <1>1, <2>1, <2>6, <3>1
  <2>7. CASE a # subCol
    <3> DEFINE symbol == PrintedCell(v.x0 + c[1], v.y0 + c[2])
    <3>1. ~OnBaseline(v, c)
      BY <2>3, <2>7, ColumnOfBaseline
    <3>2. symbol \in Symbols
      BY <2>3, <3>1, OffsetPlaced
    <3>3. dots[c] = DotOf(v, c)
      BY <2>3 DEF DotsAt
    <3>4. PICK p \in Int, q \in Int : p = OffsetOf(v, c)[1] /\ q = OffsetOf(v, c)[2]
      BY <2>3, OffsetSmall
    <3>5. OffsetX(dots, c) = p /\ OffsetY(dots, c) = q
      <4>1. dots[c][1] = Spacing * a + p /\ dots[c][2] = Spacing * b + q
        BY <3>3, <3>4 DEF DotOf
      <4>2. OffsetX(dots, c) = Spacing * a + p - Spacing * a
            /\ OffsetY(dots, c) = Spacing * b + q - Spacing * b
        <5>1. /\ OffsetX(dots, c) = dots[c][1] - Spacing * a
              /\ OffsetY(dots, c) = dots[c][2] - Spacing * b
          BY DEF OffsetX, OffsetY
        <5> HIDE DEF dots, c
        <5>2. Spacing \in Int
          BY Sizes
        <5> QED BY <4>1, <5>1, <5>2
      <4>3. PICK m \in Int, n \in Int : m = Spacing * a /\ n = Spacing * b
        BY Sizes, Z3
      <4> QED BY <4>2, <4>3
    <3>6. WithinMaxAngle(p, q)
      <4>1. WithinMaxAngle(OffsetX(dots, c), OffsetY(dots, c))
        BY <2>2, <2>7 DEF AnglesHold
      <4> QED BY <3>5, <4>1
    <3>7. c \notin v.skewed
      <4> SUFFICES ASSUME c \in v.skewed PROVE FALSE
        OBVIOUS
      <4>1. OffsetOf(v, c) = <<1, 1>>
        BY <3>1 DEF OffsetOf
      <4>2. p = 1 /\ q = 1
        BY <3>4, <4>1
      <4> QED BY <3>6, <4>2, SymbolRead
    <3>8. OffsetOf(v, c) = SymbolOffset[symbol]
      BY <3>1, <3>7 DEF OffsetOf
    <3> HIDE DEF symbol
    <3>9. Direction(p, q) = symbol
      BY <3>2, <3>4, <3>8, SymbolRead
    <3>10. symbol = PrintedCell(x + j - 1, y + i - 1)
      BY <2>4 DEF symbol
    <3>11. PICK u \in Nat, w \in Nat : u = x + j - 1 /\ w = y + i - 1
      BY Sizes
    <3>12. x <= u
      BY <3>11, Sizes
    <3>13. colCorrection(x, u) = Cardinality({n \in 0 .. u : IsBaseline(n)})
      BY <3>12, CorrectionCountsBaselines
    <3>14. RangeCell(x, u, w) = PrintedCell(u, w)
      BY <3>13 DEF RangeCell, PrintedCell
    <3>15. c = <<rect.left + j - 1, rect.top + i - 1>> /\ c[1] # subCol
      BY <1>1, <2>1, <2>7
    <3> HIDE DEF c, dots
    <3> QED BY <3>5, <3>9, <3>10, <3>11, <3>14, <3>15
  <2> QED BY <2>6, <2>7
<1> HIDE DEF dots
<1>6. Digits(dots, rect, {subCol})
        = [i \in 1 .. subRow |-> [j \in 1 .. subCol |-> RangeCell(x, x + j - 1, y + i - 1)]]
  BY <1>5 DEF Digits
<1>7. subRow = k1 /\ subCol = k2 + 1
  BY Sizes
<1>8. Digits(dots, rect, {subCol}) = getSubset(x, y, k2 + 1, k1)
  BY <1>4, <1>6, <1>7
<1> QED BY <1>1, <1>2, <1>8 DEF dots

\* What the digitizer has found in a view: a piece of the floor as it was printed,
\* around the dot that is nearest the centre.
Found(v) ==
  /\ CP_dotIndex \in ReadableCells(v)
  /\ \A c \in ReadableCells(v) :
       SquaredDistance(DotOf(v, CP_dotIndex), v.CP) <= SquaredDistance(DotOf(v, c), v.CP)
  /\ Inside(subRect)
  /\ CP_dotIndex = <<subRect.left + movementIndex[1], subRect.top + movementIndex[2]>>
  /\ movementIndex \in Int \X Int
  /\ v.misread = {} =>
       digitizied_array = getSubset(v.x0 + subRect.left, v.y0 + subRect.top, k2 + 1, k1)

\* A rectangle around a cell of the view is inside it.
LEMMA RectInside ==
  ASSUME NEW centre, centre[1] \in Int, centre[2] \in Int
  PROVE  LET rect == RectAround(centre)
         IN /\ Inside(rect)
            /\ Movement(centre[1], subCol, entireCol) \in Int
            /\ Movement(centre[2], subRow, entireRow) \in Int
            /\ centre[1] = rect.left + Movement(centre[1], subCol, entireCol)
            /\ centre[2] = rect.top + Movement(centre[2], subRow, entireRow)
<1>1. ASSUME NEW n \in Int, NEW size \in Nat \ {0}, NEW entire \in Nat
      PROVE  Movement(n, size, entire) \in Int
  BY <1>1 DEF Movement
<1>2. subCol \in Nat \ {0} /\ subRow \in Nat \ {0} /\ entireCol \in Nat /\ entireRow \in Nat
      /\ subCol <= entireCol - 2 /\ subRow <= entireRow - 2
  BY Sizes
<1>3. LET first == FirstOfPiece(centre[1], subCol, entireCol)
      IN /\ first \in Int /\ 1 <= first /\ first + subCol - 1 <= entireCol - 2
         /\ centre[1] = first + Movement(centre[1], subCol, entireCol)
  BY <1>2, PieceFits
<1>4. LET first == FirstOfPiece(centre[2], subRow, entireRow)
      IN /\ first \in Int /\ 1 <= first /\ first + subRow - 1 <= entireRow - 2
         /\ centre[2] = first + Movement(centre[2], subRow, entireRow)
  BY <1>2, PieceFits
<1> QED BY <1>1, <1>2, <1>3, <1>4 DEF RectAround, Inside

\* A view that is digitized has the readable dot nearest the centre found, and the piece
\* read is the one it shows.
LEMMA ViewDigitized ==
  ASSUME FloorSearchable, NEW v \in Views, transformed_points = KeptPoints(v),
         transformed_CP = v.CP, middle_dots \subseteq MiddleIn(v), runDigitize,
         UNCHANGED floorVars
  PROVE  /\ stage' \in {"rejected", "digitized"}
         /\ stage' = "digitized" => Found(v)'
<1>1. CASE stage' = "rejected"
  BY <1>1
<1>2. CASE stage' # "rejected"
  <2>1. PICK at \in {dot[1] : dot \in middle_dots} :
          DigitizePiece(InterpolatingDashArea(Sort2DdotArr(transformed_points), at), at)
    BY <1>2 DEF runDigitize
  <2>2. at \in MiddlePlaces(v)
    BY <2>1, MiddleSeen
  <2> DEFINE cells == Cells \cap DotCells(v)
             dots0 == DotsAt(v, cells)
             dots == InterpolatingDashArea(dots0, at)
  <2>3. Sort2DdotArr(transformed_points) = dots0
    BY SortedDots
  <2>4. PICK centre \in FindCP_Index(dots, transformed_CP) :
          LET rect == RectAround(centre)
              baseline == BaselineColumns(dots, rect, at)
          IN /\ CP_dotIndex' = centre
             /\ movementIndex' = <<Movement(centre[1], subCol, entireCol),
                                   Movement(centre[2], subRow, entireRow)>>
             /\ subRect' = rect
             /\ CellsOf(rect) \subseteq DOMAIN dots /\ AnglesHold(dots, rect, baseline)
             /\ digitizied_array' = Digits(dots, rect, baseline) /\ stage' = "digitized"
    <3> HIDE DEF dots0
    <3>1. DigitizePiece(dots, at)
      BY <2>1, <2>3
    <3> HIDE DEF dots
    <3> QED BY <1>2, <3>1 DEF DigitizePiece
  <2> DEFINE rect == RectAround(centre)
  <2>5. DOMAIN dots \subseteq Cells
    <3>1. DOMAIN dots0 \subseteq Cells
      BY DEF DotsAt
    <3> HIDE DEF dots0
    <3> QED BY <3>1, InterpolatedInCells
  <2>6. centre[1] \in Int /\ centre[2] \in Int
    <3> HIDE DEF dots
    <3> QED BY <2>5, CentreIsCell
  <2>7. /\ Inside(rect)
        /\ Movement(centre[1], subCol, entireCol) \in Int
        /\ Movement(centre[2], subRow, entireRow) \in Int
        /\ centre[1] = rect.left + Movement(centre[1], subCol, entireCol)
        /\ centre[2] = rect.top + Movement(centre[2], subRow, entireRow)
    BY <2>6, RectInside
  <2>8. CellsOf(rect) \subseteq DOMAIN dots
    BY <2>4
  <2>9. CellsOn(dots0, at) # {}
    <3> SUFFICES ASSUME CellsOn(dots0, at) = {} PROVE FALSE
      OBVIOUS
    <3>1. dots = dots0
      BY DEF InterpolatingDashArea
    <3>2. DOMAIN dots0 = cells
      BY DEF DotsAt
    <3> HIDE DEF dots0, dots, rect
    <3>3. CellsOf(rect) \subseteq DotCells(v)
      BY <2>8, <3>1, <3>2
    <3> QED BY <2>7, <3>3, BaselineNeeded
  <2>10. dots = DotsAt(v, ReadableCells(v))
    BY <2>2, <2>9, ColumnPutBack
  <2>11. Distance(MiddlePlace(v), at) < EPS
    <3>1. CellsOn(dots0, at) = {c \in cells : c[1] = subCol /\ Distance(MiddlePlace(v), at) < EPS}
      BY <2>2, OnlyMiddleColumn
    <3> QED BY <2>9, <3>1
  <2>12. BaselineColumns(dots, rect, at) = {subCol}
    <3> HIDE DEF rect
    <3>1. ReadableCells(v) \subseteq Cells
      BY DEF ReadableCells
    <3>2. CellsOn(dots, at) = {c \in ReadableCells(v) : c[1] = subCol}
      BY <2>2, <2>10, <2>11, <3>1, OnlyMiddleColumn
    <3>3. <<subCol, rect.top>> \in Cells /\ <<subCol, rect.top>> \in CellsOf(rect)
      BY <2>7, MiddleInPiece
    <3>4. <<subCol, rect.top>> \in CellsOn(dots, at) \cap CellsOf(rect)
      BY <3>2, <3>3 DEF ReadableCells
    <3>5. \A c \in CellsOn(dots, at) \cap CellsOf(rect) : c[1] = subCol
      BY <3>2
    <3> HIDE DEF dots
    <3> QED BY <3>4, <3>5 DEF BaselineColumns
  <2> HIDE DEF dots0, cells
  <2>13. DOMAIN dots = ReadableCells(v) /\ \A c \in ReadableCells(v) : dots[c] = DotOf(v, c)
    BY <2>10 DEF DotsAt
  <2> HIDE DEF dots, rect
  <2>14. dots # <<>>
    <3>1. <<subCol, rect.top>> \in CellsOf(rect)
      BY <2>7, MiddleInPiece
    <3> QED BY <2>8, <3>1
  <2>15. /\ centre \in ReadableCells(v)
         /\ \A c \in ReadableCells(v) :
              SquaredDistance(DotOf(v, centre), v.CP) <= SquaredDistance(DotOf(v, c), v.CP)
    BY <2>4, <2>13, <2>14 DEF FindCP_Index
  <2>16. centre = <<centre[1], centre[2]>>
    BY <2>15, CellPlaces DEF ReadableCells
  <2>17. ASSUME v.misread = {}
         PROVE  digitizied_array' = getSubset(v.x0 + rect.left, v.y0 + rect.top, k2 + 1, k1)
    <3>1. digitizied_array' = Digits(dots, rect, {subCol}) /\ AnglesHold(dots, rect, {subCol})
      BY <2>4, <2>12 DEF rect
    <3>2. CellsOf(rect) \subseteq ReadableCells(v)
      BY <2>8, <2>13
    <3> QED BY <2>7, <2>10, <2>17, <3>1, <3>2, PieceRead
  <2> DEFINE mx == Movement(centre[1], subCol, entireCol)
             my == Movement(centre[2], subRow, entireRow)
  <2>18. /\ CP_dotIndex' = centre /\ movementIndex' = <<mx, my>>
         /\ subRect' = rect /\ stage' = "digitized"
    BY <2>4 DEF rect
  <2>19. \A c : DotOf(v, c)' = DotOf(v, c)
    BY DotStays
  <2>20. getSubset(v.x0 + rect.left, v.y0 + rect.top, k2 + 1, k1)'
           = getSubset(v.x0 + rect.left, v.y0 + rect.top, k2 + 1, k1)
    BY DEF floorVars, arrayVars, getSubset, RangeCell, ShiftedSymbol, BGCols, BGRows
  <2>21. Found(v)'
    <3>1. /\ CP_dotIndex' \in ReadableCells(v)
          /\ \A c \in ReadableCells(v) :
               SquaredDistance(DotOf(v, CP_dotIndex)', v.CP) <= SquaredDistance(DotOf(v, c)', v.CP)
      BY <2>15, <2>18, <2>19
    <3> QED BY <2>7, <2>16, <2>17, <2>18, <2>20, <3>1 DEF Found
  <2> QED BY <2>18, <2>21
<1> QED BY <1>1, <1>2

-----------------------------------------------------------------------------
(* The reading *)

\* The angle of the camera once the view is upright.
UprightAngle(v) == IF v.upside THEN v.turn + 180 ELSE v.turn

\* What ReadingIsRight says of a view.
ReadRight(v) ==
  LET cell == <<reading[1] - v.x0, reading[2] - v.y0>>
  IN /\ cell \in ReadableCells(v)
     /\ \A c \in ReadableCells(v) :
          SquaredDistance(DotOf(v, cell), v.CP) <= SquaredDistance(DotOf(v, c), v.CP)
     /\ reading[3] = (IF v.upside THEN 180 - v.turn ELSE -v.turn) % 360

\* What is known of the view at each stage.
SeenAs(v) ==
  /\ stage \in {"trim", "orient"} =>
       /\ transformed_points =
            (IF stage = "trim" THEN PointsIn(v) ELSE {AsSeen(v, dot) : dot \in KeptPoints(v)})
       /\ middle_dots \subseteq MiddleIn(v)
       /\ transformed_CP = AsSeen(v, v.CP) /\ camera_up_angle = v.turn /\ dashes = DashesIn(v)
  /\ stage = "digitize" =>
       /\ transformed_points = KeptPoints(v) /\ transformed_CP = v.CP
       /\ middle_dots \subseteq MiddleIn(v)
  /\ stage \in {"digitize", "digitized"} => camera_up_angle = UprightAngle(v)
  /\ stage = "digitized" => Found(v)
  /\ stage = "published" /\ v.misread = {} => ReadRight(v)

AfterCut == {"trim", "orient", "digitize", "digitized", "published"}

\* From where a view is cut out to where its piece is looked up, what is kept of
\* the image stays tied to the one view that was seen.
ViewInv ==
  /\ stage # "build" => built
  /\ stage \in AfterCut => \E v \in Views : seen = {v} /\ SeenAs(v)

\* The heading of the node is the angle of the image, the other way round.
LEMMA HeadingRight ==
  ASSUME NEW v \in Views
  PROVE  (-UprightAngle(v)) % 360 = (IF v.upside THEN 180 - v.turn ELSE -v.turn) % 360
<1>1. v.turn \in -180 .. 180 /\ v.upside \in BOOLEAN
  BY SceneryAssumption
<1>2. PICK t \in -180 .. 180 : t = v.turn
  BY <1>1
<1>3. (-(t + 180)) % 360 = (180 - t) % 360
  OBVIOUS
<1>4. CASE v.upside
  BY <1>2, <1>3, <1>4 DEF UprightAngle
<1>5. CASE ~v.upside
  BY <1>2, <1>5 DEF UprightAngle
<1> QED BY <1>1, <1>4, <1>5

\* A piece that was found is looked up where it was printed.
LEMMA FoundLookedUp ==
  ASSUME FloorSearchable, NEW v \in Views, v.misread = {}, Found(v)
  PROVE  /\ CP_dotIndex \in Cells /\ CP_dotIndex = <<CP_dotIndex[1], CP_dotIndex[2]>>
         /\ getPos(digitizied_array, movementIndex)
              = <<v.x0 + CP_dotIndex[1], v.y0 + CP_dotIndex[2]>>
<1>1. PICK dx \in Int, dy \in Int : movementIndex = <<dx, dy>>
  BY DEF Found
<1>2. PICK l \in Int, t \in Int : l = subRect.left /\ t = subRect.top
  BY DEF Found, Inside
<1>3. PICK x0 \in Nat, y0 \in Nat : x0 = v.x0 /\ y0 = v.y0
  BY SceneryAssumption
<1>4. /\ 1 <= l /\ l + subCol - 1 <= entireCol - 2
      /\ 1 <= t /\ t + subRow - 1 <= entireRow - 2
  BY <1>2 DEF Found, Inside
<1>5. x0 + l \in 0 .. BGCols - k2 - 1 /\ y0 + t \in 0 .. BGRows - 1
  BY <1>3, <1>4, ViewOnFloor, Sizes
<1>6. digitizied_array = getSubset(x0 + l, y0 + t, k2 + 1, k1)
  BY <1>2, <1>3 DEF Found
<1>7. getPos(digitizied_array, movementIndex) = <<x0 + l + dx, y0 + t + dy>>
  <2>1. PICK x \in Int, y \in Int : x = x0 + l /\ y = y0 + t
    OBVIOUS
  <2>2. getPos(getSubset(x, y, k2 + 1, k1), movementIndex) = <<x + dx, y + dy>>
    BY <1>1, <1>5, <2>1, PieceSearched
  <2> QED BY <1>6, <2>1, <2>2
<1>8. CP_dotIndex = <<l + dx, t + dy>>
  BY <1>1, <1>2 DEF Found
<1>9. x0 + l + dx = x0 + (l + dx) /\ y0 + t + dy = y0 + (t + dy)
  OBVIOUS
<1>10. CP_dotIndex \in Cells
  BY DEF Found, ReadableCells
<1> QED BY <1>3, <1>7, <1>8, <1>9, <1>10

\* What is published of a view whose dots were read as printed is its place and heading.
LEMMA PublishedRight ==
  ASSUME FloorSearchable, NEW v \in Views, v.misread = {}, Found(v),
         camera_up_angle = UprightAngle(v), Publish, stage' = "published"
  PROVE  ReadRight(v)'
<1>1. PICK a \in Int, b \in Int : CP_dotIndex = <<a, b>>
  BY FoundLookedUp, CellPlaces
<1>2. PICK x0 \in Nat, y0 \in Nat : x0 = v.x0 /\ y0 = v.y0
  BY SceneryAssumption
<1>3. getPos(digitizied_array, movementIndex) = <<x0 + a, y0 + b>>
  BY <1>1, <1>2, FoundLookedUp
<1>4. reading' = <<x0 + a, y0 + b, (-camera_up_angle) % 360>>
  <2>1. getPos(digitizied_array, movementIndex)[1] = x0 + a
        /\ getPos(digitizied_array, movementIndex)[2] = y0 + b
    BY <1>3
  <2>2. LET raw == getPos(digitizied_array, movementIndex)
        IN reading' = <<raw[1], raw[2], (-camera_up_angle) % 360>>
    BY DEF Publish
  <2> QED BY <2>1, <2>2
<1>5. <<reading'[1] - v.x0, reading'[2] - v.y0>> = CP_dotIndex
  <2>1. reading'[1] - v.x0 = a /\ reading'[2] - v.y0 = b
    BY <1>2, <1>4
  <2> QED BY <1>1, <2>1
<1>6. reading'[3] = (IF v.upside THEN 180 - v.turn ELSE -v.turn) % 360
  BY <1>4, HeadingRight
<1>7. \A c : DotOf(v, c)' = DotOf(v, c)
  BY DotStays DEF Publish
<1>8. PICK p : p = CP_dotIndex
  OBVIOUS
<1>9. /\ p \in ReadableCells(v)
       /\ \A c \in ReadableCells(v) :
            SquaredDistance(DotOf(v, p), v.CP) <= SquaredDistance(DotOf(v, c), v.CP)
  BY <1>8 DEF Found
<1> DEFINE cell == <<reading[1] - v.x0, reading[2] - v.y0>>
<1>10. cell' = p
  BY <1>5, <1>8
<1>11. DotOf(v, cell)' = DotOf(v, p)
  <2>1. \A c : c = cell' => DotOf(v, cell)' = DotOf(v, c)
    BY <1>5, DotStays DEF Publish, DotOf
  <2> QED BY <1>10, <2>1
<1>12. /\ cell' \in ReadableCells(v)
       /\ \A c \in ReadableCells(v) :
            SquaredDistance(DotOf(v, cell)', v.CP) <= SquaredDistance(DotOf(v, c)', v.CP)
  BY <1>7, <1>9, <1>10, <1>11
<1> QED BY <1>6, <1>12 DEF ReadRight

\* What is printed in a view stays while an image is read.
LEMMA ViewStays ==
  ASSUME UNCHANGED floorVars, NEW v
  PROVE  /\ PointsIn(v)' = PointsIn(v) /\ MiddleIn(v)' = MiddleIn(v)
         /\ KeptPoints(v)' = KeptPoints(v)
<1>1. \A c : DotOf(v, c)' = DotOf(v, c)
  BY DotStays
<1> QED BY <1>1 DEF PointsIn, MiddleIn, KeptPoints, KeptCells, InMargin

LEMMA DotsArePlaces ==
  ASSUME FloorSearchable, NEW v \in Views, NEW c \in DotCells(v)
  PROVE  DotOf(v, c) \in Int \X Int
<1>1. c \in ViewCells
  BY DEF DotCells
<1>2. PICK p \in Int, q \in Int : p = OffsetOf(v, c)[1] /\ q = OffsetOf(v, c)[2]
  BY <1>1, OffsetSmall
<1>3. c[1] \in Int /\ c[2] \in Int /\ Spacing \in Int
  BY <1>1, CellPlaces, Sizes
<1>4. Spacing * c[1] + p \in Int /\ Spacing * c[2] + q \in Int
  BY <1>2, <1>3, Z3
<1> QED BY <1>2, <1>4 DEF DotOf

\* The margin that is trimmed is that of the view, either way up.
LEMMA TrimmedView ==
  ASSUME FloorSearchable, NEW v \in Views
  PROVE  {dot \in PointsIn(v) : ~InMargin(dot)} = {AsSeen(v, dot) : dot \in KeptPoints(v)}
<1>1. ASSUME NEW c \in DotCells(v)
      PROVE  InMargin(AsSeen(v, DotOf(v, c))) <=> InMargin(DotOf(v, c))
  <2>1. PICK a \in Int, b \in Int : DotOf(v, c) = <<a, b>>
    BY DotsArePlaces
  <2> QED BY <2>1, MarginTurned DEF AsSeen
<1> QED BY <1>1 DEF PointsIn, KeptPoints, KeptCells

\* Turned upright, the dots are where they were printed.
LEMMA TurnedUpright ==
  ASSUME FloorSearchable, NEW v \in Views, v.upside
  PROVE  /\ {Turned(dot) : dot \in {AsSeen(v, d) : d \in KeptPoints(v)}} = KeptPoints(v)
         /\ TurnedCentre(AsSeen(v, v.CP)) = v.CP
<1>1. ASSUME NEW d \in Int \X Int PROVE Turned(AsSeen(v, d)) = d
  <2>1. PICK a \in Int, b \in Int : d = <<a, b>>
    OBVIOUS
  <2> QED BY <2>1, TurnedTwice DEF AsSeen
<1>2. KeptPoints(v) \subseteq Int \X Int
  BY DotsArePlaces DEF KeptPoints, KeptCells
<1>3. {Turned(dot) : dot \in {AsSeen(v, d) : d \in KeptPoints(v)}}
        = {Turned(AsSeen(v, d)) : d \in KeptPoints(v)}
  OBVIOUS
<1>4. v.CP \in Int \X Int
  BY SceneryAssumption
<1>5. {Turned(AsSeen(v, d)) : d \in KeptPoints(v)} = KeptPoints(v)
  BY <1>1, <1>2
<1> QED BY <1>1, <1>3, <1>4, <1>5 DEF TurnedCentre

LEMMA CutOutKeepsView ==
  ASSUME ViewInv, CutOut PROVE ViewInv'
<1>1. UNCHANGED floorVars /\ built' = built /\ stage = "warp" /\ built
  BY DEF CutOut, floorVars, arrayVars, ViewInv
<1>2. CASE stage' = "rejected"
  BY <1>1, <1>2 DEF ViewInv, AfterCut
<1>3. CASE stage' # "rejected"
  <2>1. PICK v \in Views :
          /\ seen' = {v}
          /\ preprocessPointData(PointsIn(v), v.around, MiddleIn(v), AsSeen(v, v.CP), v.turn,
                                 DashesIn(v))
    BY DEF CutOut
  <2>2. /\ stage' = "trim" /\ transformed_points' = PointsIn(v) /\ middle_dots' = MiddleIn(v)
        /\ transformed_CP' = AsSeen(v, v.CP) /\ camera_up_angle' = v.turn
        /\ dashes' = DashesIn(v)
    BY <1>3, <2>1 DEF preprocessPointData
  <2>3. PointsIn(v)' = PointsIn(v) /\ MiddleIn(v)' = MiddleIn(v)
    BY <1>1, ViewStays
  <2>4. SeenAs(v)'
    BY <2>2, <2>3 DEF SeenAs, AsSeen, DashesIn, Turned
  <2> QED BY <1>1, <2>1, <2>4 DEF ViewInv
<1> QED BY <1>2, <1>3

LEMMA TrimKeepsView ==
  ASSUME FloorSearchable, ViewInv, excludeMarginDots, UNCHANGED IdleElse PROVE ViewInv'
<1>1. /\ UNCHANGED floorVars /\ built' = built /\ stage = "trim" /\ built /\ seen' = seen
      /\ stage' \in {"rejected", "orient"}
  BY DEF excludeMarginDots, IdleElse, floorVars, arrayVars, ViewInv
<1>2. CASE stage' = "rejected"
  BY <1>1, <1>2 DEF ViewInv, AfterCut
<1>3. CASE stage' = "orient"
  <2>1. PICK v \in Views : seen = {v} /\ SeenAs(v)
    BY <1>1 DEF ViewInv, AfterCut
  <2>2. /\ transformed_points = PointsIn(v) /\ middle_dots \subseteq MiddleIn(v)
        /\ transformed_CP = AsSeen(v, v.CP) /\ camera_up_angle = v.turn /\ dashes = DashesIn(v)
    BY <1>1, <2>1 DEF SeenAs
  <2>3. /\ transformed_points' = {AsSeen(v, dot) : dot \in KeptPoints(v)}
        /\ middle_dots' \subseteq MiddleIn(v)
        /\ transformed_CP' = transformed_CP /\ camera_up_angle' = camera_up_angle
        /\ dashes' = dashes
    BY <2>2, TrimmedView DEF excludeMarginDots
  <2>4. KeptPoints(v)' = KeptPoints(v) /\ MiddleIn(v)' = MiddleIn(v)
    BY <1>1, ViewStays
  <2>5. SeenAs(v)'
    BY <1>3, <2>2, <2>3, <2>4 DEF SeenAs, AsSeen, DashesIn, Turned
  <2> QED BY <1>1, <2>1, <2>5 DEF ViewInv
<1> QED BY <1>1, <1>2, <1>3

LEMMA OrientKeepsView ==
  ASSUME FloorSearchable, ViewInv, checkAndCorrectOrientation, UNCHANGED IdleElse
  PROVE  ViewInv'
<1>1. /\ UNCHANGED floorVars /\ built' = built /\ stage = "orient" /\ built /\ seen' = seen
      /\ stage' \in {"rejected", "digitize"}
  BY DEF checkAndCorrectOrientation, Reject, IdleElse, floorVars, arrayVars, ViewInv
<1>2. CASE stage' = "rejected"
  BY <1>1, <1>2 DEF ViewInv, AfterCut
<1>3. CASE stage' = "digitize"
  <2>1. PICK v \in Views : seen = {v} /\ SeenAs(v)
    BY <1>1 DEF ViewInv, AfterCut
  <2>2. /\ transformed_points = {AsSeen(v, dot) : dot \in KeptPoints(v)}
        /\ middle_dots \subseteq MiddleIn(v)
        /\ transformed_CP = AsSeen(v, v.CP) /\ camera_up_angle = v.turn /\ dashes = DashesIn(v)
    BY <1>1, <2>1 DEF SeenAs
  <2>3. DashesTell /\ middle_dots' = middle_dots
    BY <1>3 DEF checkAndCorrectOrientation, Reject
  <2>4. IsFlipped <=> v.upside
    BY <2>2, <2>3, DashesTellWay
  <2>5. v.upside \in BOOLEAN /\ v.turn \in -180 .. 180
    BY SceneryAssumption
  <2>6. /\ transformed_points' = KeptPoints(v) /\ transformed_CP' = v.CP
        /\ camera_up_angle' = UprightAngle(v)
    <3>1. CASE v.upside
      <4>1. /\ transformed_points' = {Turned(dot) : dot \in transformed_points}
            /\ transformed_CP' = TurnedCentre(transformed_CP)
            /\ camera_up_angle' = Distance(camera_up_angle + 180, 0)
        BY <2>3, <2>4, <3>1 DEF checkAndCorrectOrientation
      <4>2. Distance(camera_up_angle + 180, 0) = v.turn + 180
        <5>1. PICK t \in -180 .. 180 : t = v.turn
          BY <2>5
        <5>2. Distance(t + 180, 0) = t + 180
          BY DEF Distance
        <5> QED BY <2>2, <5>1, <5>2
      <4> QED BY <2>2, <3>1, <4>1, <4>2, TurnedUpright DEF UprightAngle
    <3>2. CASE ~v.upside
      <4>1. UNCHANGED <<transformed_points, transformed_CP, camera_up_angle>>
        BY <2>3, <2>4, <3>2 DEF checkAndCorrectOrientation
      <4> QED BY <2>2, <3>2, <4>1 DEF UprightAngle, AsSeen
    <3> QED BY <2>5, <3>1, <3>2
  <2>7. KeptPoints(v)' = KeptPoints(v) /\ MiddleIn(v)' = MiddleIn(v)
    BY <1>1, ViewStays
  <2>8. SeenAs(v)'
    BY <1>3, <2>2, <2>3, <2>6, <2>7 DEF SeenAs, UprightAngle
  <2> QED BY <1>1, <2>1, <2>8 DEF ViewInv
<1> QED BY <1>1, <1>2, <1>3

LEMMA DigitizeKeepsView ==
  ASSUME FloorSearchable, ViewInv, Digitize PROVE ViewInv'
<1>1. /\ UNCHANGED floorVars /\ built' = built /\ stage = "digitize" /\ built /\ seen' = seen
      /\ runDigitize /\ UNCHANGED viewVars
  BY DEF Digitize, runDigitize, floorVars, arrayVars, ViewInv
<1>2. PICK v \in Views : seen = {v} /\ SeenAs(v)
  BY <1>1 DEF ViewInv, AfterCut
<1>3. /\ transformed_points = KeptPoints(v) /\ transformed_CP = v.CP
      /\ middle_dots \subseteq MiddleIn(v) /\ camera_up_angle = UprightAngle(v)
  BY <1>1, <1>2 DEF SeenAs
<1>4. stage' \in {"rejected", "digitized"} /\ (stage' = "digitized" => Found(v)')
  BY <1>1, <1>3, ViewDigitized
<1>5. CASE stage' = "rejected"
  BY <1>1, <1>5 DEF ViewInv, AfterCut
<1>6. CASE stage' = "digitized"
  <2>1. camera_up_angle' = UprightAngle(v)
    BY <1>1, <1>3 DEF viewVars
  <2>2. SeenAs(v)'
    BY <1>4, <1>6, <2>1 DEF SeenAs, UprightAngle
  <2> QED BY <1>1, <1>2, <2>2 DEF ViewInv
<1> QED BY <1>4, <1>5, <1>6

LEMMA PublishKeepsView ==
  ASSUME FloorSearchable, ViewInv, Publish PROVE ViewInv'
<1>1. /\ built' = built /\ stage = "digitized" /\ built /\ seen' = seen
      /\ stage' \in {"rejected", "published"}
  BY DEF Publish, floorVars, arrayVars, ViewInv
<1>2. CASE stage' = "rejected"
  BY <1>1, <1>2 DEF ViewInv, AfterCut
<1>3. CASE stage' = "published"
  <2>1. PICK v \in Views : seen = {v} /\ SeenAs(v)
    BY <1>1 DEF ViewInv, AfterCut
  <2>2. Found(v) /\ camera_up_angle = UprightAngle(v)
    BY <1>1, <2>1 DEF SeenAs
  <2>3. v.misread = {} => ReadRight(v)'
    BY <1>3, <2>2, PublishedRight
  <2>4. SeenAs(v)'
    BY <1>3, <2>3 DEF SeenAs
  <2> QED BY <1>1, <2>1, <2>4 DEF ViewInv
<1> QED BY <1>1, <1>2, <1>3

\* The rest of the steps are taken before the view is cut out.
LEMMA ElseKeepsView ==
  ASSUME ViewInv, BuildFloor \/ TakeImage \/ PreprocessLines \/ NextImage PROVE ViewInv'
<1>1. CASE BuildFloor
  BY <1>1 DEF BuildFloor, ViewInv, AfterCut
<1>2. CASE TakeImage
  <2>1. stage = "idle" /\ stage' \in {"rejected", "order"} /\ UNCHANGED built
    BY <1>2 DEF TakeImage, Reject, DetectBaseLines, IdleElse, floorVars, arrayVars
  <2> QED BY <2>1 DEF ViewInv, AfterCut
<1>3. CASE PreprocessLines
  <2>1. stage # "build" /\ stage' \notin AfterCut /\ UNCHANGED built
    BY <1>3
    DEF PreprocessLines, orderBaseLinesByClosestDot, findValidLinesByDotsNum,
        validateClosestBaseLinesByDirection, FindSideDots, findwarpPerspectiveCornerPoint,
        adjustCornersToPredefinedArea, Reject, IdleElse, floorVars, arrayVars, AfterCut
  <2> QED BY <2>1 DEF ViewInv
<1>4. CASE NextImage
  BY <1>4 DEF NextImage, floorVars, arrayVars, ViewInv, AfterCut, Ended
<1> QED BY <1>1, <1>2, <1>3, <1>4

\* No step loses the view.
LEMMA NextKeepsView ==
  FloorInv /\ RingInv /\ EveryWordOnce /\ ViewInv /\ [Next]_vars => ViewInv'
<1> SUFFICES ASSUME FloorInv, RingInv, EveryWordOnce, ViewInv, [Next]_vars PROVE ViewInv'
  OBVIOUS
<1>1. stage # "build" => FloorSearchable
  BY DEF ViewInv, FloorSearchable
<1>2. CASE BuildFloor \/ TakeImage \/ PreprocessLines \/ NextImage
  BY <1>2, ElseKeepsView
<1>3. CASE CutOut
  BY <1>3, CutOutKeepsView
<1>4. CASE excludeMarginDots /\ UNCHANGED IdleElse
  <2>1. FloorSearchable
    BY <1>1, <1>4 DEF excludeMarginDots
  <2> QED BY <1>4, <2>1, TrimKeepsView
<1>5. CASE checkAndCorrectOrientation /\ UNCHANGED IdleElse
  <2>1. FloorSearchable
    BY <1>1, <1>5 DEF checkAndCorrectOrientation
  <2> QED BY <1>5, <2>1, OrientKeepsView
<1>6. CASE Digitize
  <2>1. FloorSearchable
    BY <1>1, <1>6 DEF Digitize, runDigitize
  <2> QED BY <1>6, <2>1, DigitizeKeepsView
<1>7. CASE Publish
  <2>1. FloorSearchable
    BY <1>1, <1>7 DEF Publish
  <2> QED BY <1>7, <2>1, PublishKeepsView
<1>8. CASE UNCHANGED vars
  <2>1. UNCHANGED floorVars /\ UNCHANGED <<stage, built, seen, reading>>
        /\ UNCHANGED viewVars /\ UNCHANGED digitizerVars
    BY <1>8 DEF vars, floorVars, arrayVars, preprocessorVars
  <2>2. CASE stage \notin AfterCut
    BY <2>1, <2>2 DEF ViewInv
  <2>3. CASE stage \in AfterCut
    <3>1. PICK v \in Views : seen = {v} /\ SeenAs(v)
      BY <2>3 DEF ViewInv
    <3>2. PointsIn(v)' = PointsIn(v) /\ MiddleIn(v)' = MiddleIn(v) /\ KeptPoints(v)' = KeptPoints(v)
      BY <2>1, ViewStays
    <3>3. (Found(v) <=> Found(v)') /\ (ReadRight(v) <=> ReadRight(v)')
      BY <2>1 DEF Found, ReadRight, digitizerVars, Inside, getSubset, RangeCell,
                  ShiftedSymbol, BGCols, BGRows, floorVars, arrayVars, DotOf, OffsetOf,
                  PrintedCell
    <3>4. SeenAs(v)'
      BY <2>1, <3>1, <3>2, <3>3 DEF SeenAs, viewVars, UprightAngle, DashesIn, AsSeen, Turned
    <3> QED BY <2>1, <3>1, <3>4 DEF ViewInv
  <2> QED BY <2>2, <2>3
<1> QED BY <1>2, <1>3, <1>4, <1>5, <1>6, <1>7, <1>8 DEF Next, image_callback, PreprocessView

\* What is published is where the camera is and where it looks, for every view of
\* the floor, taken either way up, with dots lost or aslant and dashes measured
\* badly, and for every size of the floor, the view and the piece.
THEOREM PublishedWhereItIs == Spec => []ReadingIsRight
<1>1. Init => ViewInv
  BY DEF Init, ViewInv, AfterCut
<1>2. ViewInv => ReadingIsRight
  <2> SUFFICES ASSUME ViewInv, stage = "published", NEW v \in seen, v.misread = {}
               PROVE  ReadRight(v)
    BY DEF ReadingIsRight, ReadRight
  <2>1. PICK w \in Views : seen = {w} /\ SeenAs(w)
    BY DEF ViewInv, AfterCut
  <2> QED BY <2>1 DEF SeenAs
<1> QED BY <1>1, <1>2, NextKeepsView, FloorHolds, RingsHold, EveryWordIsOnce, PTL DEF Spec

-----------------------------------------------------------------------------
(* The clean view: nothing on the way to its reading refuses it.             *)

\* Cells have dots of their own, seen either way up: as many dots as cells.
LEMMA DotsCounted ==
  ASSUME FloorSearchable, NEW v \in Views, NEW S \in SUBSET DotCells(v)
  PROVE  LET T == {AsSeen(v, DotOf(v, c)) : c \in S}
             U == {DotOf(v, c) : c \in S}
         IN /\ IsFiniteSet(S) /\ IsFiniteSet(T) /\ IsFiniteSet(U)
            /\ Cardinality(T) = Cardinality(S) /\ Cardinality(U) = Cardinality(S)
<1> DEFINE T == {AsSeen(v, DotOf(v, c)) : c \in S}
           U == {DotOf(v, c) : c \in S}
           f == [c \in S |-> AsSeen(v, DotOf(v, c))]
           g == [c \in S |-> DotOf(v, c)]
<1>1. S \subseteq ViewCells
  BY DEF DotCells
<1>2. IsFiniteSet(ViewCells)
  <2>1. IsFiniteSet(0 .. entireCol - 1) /\ IsFiniteSet(0 .. entireRow - 1)
    BY FS_Interval, Sizes
  <2> QED BY <2>1, FS_Product DEF ViewCells
<1>3. IsFiniteSet(S)
  BY <1>1, <1>2, FS_Subset
<1>4. ASSUME NEW c \in S, NEW d \in S, f[c] = f[d] \/ g[c] = g[d] PROVE c = d
  <2>1. PICK a \in Int, b \in Int : DotOf(v, c) = <<a, b>>
    BY DotsArePlaces
  <2>2. PICK p \in Int, q \in Int : DotOf(v, d) = <<p, q>>
    BY DotsArePlaces
  <2>3. Turned(Turned(<<a, b>>)) = <<a, b>> /\ Turned(Turned(<<p, q>>)) = <<p, q>>
    BY TurnedTwice
  <2>4. DotOf(v, c) = DotOf(v, d)
    BY <1>4, <2>1, <2>2, <2>3 DEF AsSeen
  <2>5. InCell(DotOf(v, c), c) /\ (InCell(DotOf(v, d), c) <=> c = d)
    BY <1>1, InItsCell
  <2> QED BY <2>4, <2>5
<1>5. f \in Bijection(S, T) /\ g \in Bijection(S, U)
  BY <1>4 DEF Bijection, Injection, Surjection, IsInjective
<1>6. ExistsBijection(S, T) /\ ExistsBijection(S, U)
  BY <1>5 DEF ExistsBijection
<1> HIDE DEF T, U
<1>7. /\ IsFiniteSet(T) /\ Cardinality(T) = Cardinality(S)
      /\ IsFiniteSet(U) /\ Cardinality(U) = Cardinality(S)
  BY <1>3, <1>6, FS_Bijection
<1> QED BY <1>3, <1>7 DEF T, U

\* The columns between the baselines, and their cells in some rows.
SymbolColumns == (1 .. subCol - 1) \cup (subCol + 1 .. 2 * subCol - 1)

\* They have as many cells as columns times rows.
LEMMA SymbolCellsCounted ==
  ASSUME NEW a \in Int, NEW b \in Int, a <= b
  PROVE  /\ IsFiniteSet(SymbolColumns \X (a .. b))
         /\ Cardinality(SymbolColumns \X (a .. b)) = (2 * subCol - 2) * (b - a + 1)
<1>1. PICK m \in Nat \ {0, 1, 2} : m = subCol
  BY Sizes
<1>2. /\ IsFiniteSet(1 .. m - 1) /\ Cardinality(1 .. m - 1) = m - 1
      /\ IsFiniteSet(m + 1 .. 2 * m - 1) /\ Cardinality(m + 1 .. 2 * m - 1) = m - 1
  <2>1. Cardinality(1 .. m - 1) = m - 1 - 1 + 1 /\ IsFiniteSet(1 .. m - 1)
    BY FS_Interval
  <2>2. /\ IsFiniteSet(m + 1 .. 2 * m - 1)
        /\ Cardinality(m + 1 .. 2 * m - 1) = 2 * m - 1 - (m + 1) + 1
    BY FS_Interval
  <2> QED BY <2>1, <2>2
<1>3. (1 .. m - 1) \cap (m + 1 .. 2 * m - 1) = {}
  OBVIOUS
<1>4. IsFiniteSet(SymbolColumns) /\ Cardinality(SymbolColumns) = 2 * m - 2
  <2> DEFINE A == 1 .. m - 1
             B == m + 1 .. 2 * m - 1
  <2>1. SymbolColumns = A \cup B
    BY <1>1 DEF SymbolColumns
  <2>2. IsFiniteSet(A) /\ Cardinality(A) = m - 1 /\ IsFiniteSet(B) /\ Cardinality(B) = m - 1
    BY <1>2
  <2>3. A \cap B = {}
    BY <1>3
  <2> HIDE DEF A, B
  <2>4. /\ IsFiniteSet(A \cup B)
        /\ Cardinality(A \cup B) = Cardinality(A) + Cardinality(B) - Cardinality(A \cap B)
    BY <2>2, FS_Union
  <2>5. Cardinality(A \cap B) = 0
    BY <2>3, FS_EmptySet
  <2> QED BY <2>1, <2>2, <2>4, <2>5
<1>5. IsFiniteSet(a .. b) /\ Cardinality(a .. b) = b - a + 1
  BY FS_Interval
<1> QED BY <1>1, <1>4, <1>5, FS_Product

\* Every third row, counted from one of the first three.
LEMMA ThirdRow ==
  ASSUME NEW y \in Nat, NEW first \in Int
  PROVE  \E r \in first .. first + 2 : \A i \in Int : (y + (r + 3 * i)) % 3 = 0
<1>1. PICK n \in Int : n = y + first
  OBVIOUS
<1>2. PICK r \in {first, first + 1, first + 2} : (y + r) % 3 = 0
  <2>1. n % 3 = 0 \/ (n + 1) % 3 = 0 \/ (n + 2) % 3 = 0
    OBVIOUS
  <2>2. n = y + first /\ n + 1 = y + (first + 1) /\ n + 2 = y + (first + 2)
    BY <1>1
  <2> QED BY <2>1, <2>2
<1>3. ASSUME NEW i \in Int PROVE (y + (r + 3 * i)) % 3 = 0
  <2>1. PICK k \in Int : k = y + r
    BY <1>2
  <2>2. k % 3 = 0
    BY <1>2, <2>1
  <2>3. (k + 3 * i) % 3 = 0
    BY <2>2
  <2>4. y + (r + 3 * i) = k + 3 * i
    BY <1>2, <2>1
  <2> QED BY <2>3, <2>4
<1> QED BY <1>2, <1>3

\* The dots between the baselines are all seen when none is lost.
LEMMA SymbolsSeen ==
  ASSUME NEW v \in Views, v.lost = {}
  PROVE  /\ SymbolColumns \X (0 .. entireRow - 1) \subseteq DotCells(v)
         /\ SymbolColumns \X (1 .. entireRow - 2) \subseteq DotCells(v) \cap Cells
<1>1. ASSUME NEW c \in SymbolColumns \X (0 .. entireRow - 1) PROVE c \in DotCells(v)
  <2>1. c \in ViewCells /\ c[1] \in 0 .. entireCol - 1 /\ c[1] \notin {0, subCol, 2 * subCol}
    BY Sizes DEF SymbolColumns, ViewCells
  <2>2. ~OnBaseline(v, c)
    BY <2>1, MiddleIsBaseline DEF OnBaseline
  <2> QED BY <2>1, <2>2 DEF DotCells
<1>2. SymbolColumns \X (1 .. entireRow - 2) \subseteq SymbolColumns \X (0 .. entireRow - 1)
  BY Sizes
<1>3. SymbolColumns \X (1 .. entireRow - 2) \subseteq Cells
  BY Sizes DEF SymbolColumns, Cells
<1> QED BY <1>1, <1>2, <1>3

\* A clean view has enough dots, already with those of the first of its baselines.
LEMMA CleanHasDots ==
  ASSUME FloorSearchable, NEW v \in Views, v.lost = {}
  PROVE  required_minimal_dot <= Cardinality(PointsIn(v))
<1>1. PICK m \in Nat \ {0, 1, 2}, h \in 5 .. 32 : m = subCol /\ h = entireRow
  BY Sizes, RowsAssumption
<1>2. PICK r \in 0 .. 2 : \A i \in Int : (v.y0 + (r + 3 * i)) % 3 = 0
  <2>1. PICK y \in Nat, z \in Int : y = v.y0 /\ z = 0
    BY SceneryAssumption
  <2>2. \E r \in z .. z + 2 : \A i \in Int : (y + (r + 3 * i)) % 3 = 0
    BY ThirdRow
  <2> QED BY <2>1, <2>2
<1>3. PICK n \in Nat : n = h \div 3 /\ 3 * n <= h /\ h <= 3 * n + 2
  OBVIOUS
<1> DEFINE S == SymbolColumns \X (0 .. h - 1)
           D == {<<0, r + 3 * i>> : i \in 0 .. n - 1}
           f == [i \in 0 .. n - 1 |-> <<0, r + 3 * i>>]
<1>4. IsFiniteSet(S) /\ Cardinality(S) = (2 * m - 2) * h
  <2>1. IsFiniteSet(S) /\ Cardinality(S) = (2 * subCol - 2) * (h - 1 - 0 + 1)
    BY SymbolCellsCounted
  <2> QED BY <1>1, <2>1
<1>5. IsFiniteSet(D) /\ Cardinality(D) = n
  <2>1. f \in Bijection(0 .. n - 1, D)
    <3>1. \A i, j \in 0 .. n - 1 : f[i] = f[j] => i = j
      OBVIOUS
    <3> QED BY <3>1 DEF Bijection, Injection, Surjection, IsInjective
  <2>2. ExistsBijection(0 .. n - 1, D)
    BY <2>1 DEF ExistsBijection
  <2>3. IsFiniteSet(0 .. n - 1) /\ Cardinality(0 .. n - 1) = n
    <3>1. PICK a \in Int, b \in Int : a = 0 /\ b = n - 1
      OBVIOUS
    <3>2. IsFiniteSet(a .. b) /\ Cardinality(a .. b) = IF a > b THEN 0 ELSE b - a + 1
      BY FS_Interval
    <3> QED BY <3>1, <3>2
  <2> HIDE DEF D
  <2> QED BY <2>2, <2>3, FS_Bijection
<1>6. S \subseteq DotCells(v)
  BY <1>1, SymbolsSeen
<1>7. D \subseteq DotCells(v)
  <2> SUFFICES ASSUME NEW i \in 0 .. n - 1 PROVE <<0, r + 3 * i>> \in DotCells(v)
    OBVIOUS
  <2>1. <<0, r + 3 * i>> \in ViewCells
    BY <1>1, <1>3, Sizes DEF ViewCells
  <2>2. (v.y0 + (r + 3 * i)) % 3 = 0
    BY <1>2
  <2> QED BY <2>1, <2>2 DEF DotCells, DotRows
<1>8. S \cap D = {}
  BY Sizes DEF SymbolColumns
<1>9. Cardinality(PointsIn(v)) = Cardinality(DotCells(v)) /\ IsFiniteSet(DotCells(v))
  BY DotsCounted DEF PointsIn
<1> HIDE DEF S, D
<1>10. /\ IsFiniteSet(S \cup D)
       /\ Cardinality(S \cup D) = Cardinality(S) + Cardinality(D) - Cardinality(S \cap D)
  BY <1>4, <1>5, FS_Union
<1>11. Cardinality(S \cap D) = 0
  BY <1>8, FS_EmptySet
<1>12. Cardinality(S \cup D) <= Cardinality(DotCells(v))
  BY <1>6, <1>7, <1>9, FS_Subset
<1>13. PICK k \in Int : k = m * h
  BY Z3
<1>14. (2 * m - 2) * h = 2 * k - 2 * h /\ (2 * m - 1) * (h - 2) = 2 * k - h - 4 * m + 2
  BY <1>13, Z3
<1>15. required_minimal_dot = (2 * m - 1) * (h - 2) - ((h - 1) \div 3) * 2
  <2>1. ROI_width_dots - 2 = 2 * m - 1 /\ ROI_height_dots = h
    BY <1>1, Sizes DEF entireCol, entireRow
  <2> QED BY <2>1 DEF required_minimal_dot
<1>16. PICK q \in Nat : q = (h - 1) \div 3 /\ h - 1 <= 3 * q + 2
  OBVIOUS
<1>17. required_minimal_dot \in Int /\ required_minimal_dot <= 2 * k - 2 * h + n
  BY <1>3, <1>14, <1>15, <1>16
<1>18. Cardinality(S \cup D) = 2 * k - 2 * h + n
  BY <1>4, <1>5, <1>10, <1>11, <1>14
<1>19. Cardinality(DotCells(v)) \in Nat
  BY <1>9, FS_CardinalityType
<1> QED BY <1>9, <1>12, <1>17, <1>18, <1>19

\* Enough of them are left to digitize a piece.
LEMMA CleanKeepsDots ==
  ASSUME FloorSearchable, NEW v \in Views, v.lost = {}
  PROVE  ~(Cardinality(KeptPoints(v)) < subRow * subCol)
<1>1. PICK m \in Nat \ {0, 1, 2}, h \in 5 .. 32, w \in Nat : m = subCol /\ h = entireRow /\ w = subRow
  BY Sizes, RowsAssumption
<1>2. w <= h - 2
  BY <1>1, Sizes
<1> DEFINE S == SymbolColumns \X (1 .. h - 2)
<1>3. IsFiniteSet(S) /\ Cardinality(S) = (2 * m - 2) * (h - 2)
  <2>1. PICK a \in Int, b \in Int : a = 1 /\ b = h - 2 /\ a <= b
    OBVIOUS
  <2> HIDE DEF S
  <2>2. /\ IsFiniteSet(SymbolColumns \X (a .. b))
        /\ Cardinality(SymbolColumns \X (a .. b)) = (2 * subCol - 2) * (b - a + 1)
    BY <2>1, SymbolCellsCounted
  <2>3. b - a + 1 = h - 2
    BY <2>1
  <2> QED BY <1>1, <2>1, <2>2, <2>3 DEF S
<1>4. S \subseteq KeptCells(v)
  BY <1>1, SymbolsSeen, CellOutOfMargin DEF KeptCells
<1>5. KeptCells(v) \subseteq DotCells(v)
  BY DEF KeptCells
<1>6. Cardinality(KeptPoints(v)) = Cardinality(KeptCells(v)) /\ IsFiniteSet(KeptCells(v))
  BY <1>5, DotsCounted DEF KeptPoints
<1> HIDE DEF S
<1>7. Cardinality(S) <= Cardinality(KeptCells(v)) /\ Cardinality(KeptCells(v)) \in Nat
  BY <1>4, <1>6, FS_Subset, FS_CardinalityType
<1>8. w * m <= (2 * m - 2) * (h - 2)
  <2>1. PICK x \in Nat : x = h - 2
    OBVIOUS
  <2>2. PICK a \in Int, b \in Int : a = w * m /\ b = x * m
    BY Z3
  <2>3. a <= b
    BY <1>2, <2>1, <2>2, Z3
  <2>4. (2 * m - 2) * x = 2 * b - 2 * x
    BY <2>2, Z3
  <2>5. b >= 2 * x
    BY <2>2, Z3
  <2> QED BY <2>1, <2>2, <2>3, <2>4, <2>5
<1>9. PICK a \in Int, b \in Int : a = w * m /\ b = (2 * m - 2) * (h - 2)
  BY Z3
<1> QED BY <1>1, <1>3, <1>6, <1>7, <1>8, <1>9

MiddleKept(v) == {c \in DotCells(v) : c[1] = subCol /\ c[2] \in 1 .. entireRow - 2}

\* The dots at the ends of the middle baseline are in the margin.
LEMMA MiddleTrimmed ==
  ASSUME FloorSearchable, NEW v \in Views
  PROVE  {dot \in MiddleIn(v) : ~InMargin(dot)} = {AsSeen(v, DotOf(v, c)) : c \in MiddleKept(v)}
<1>1. ASSUME NEW c \in DotCells(v)
      PROVE  InMargin(AsSeen(v, DotOf(v, c))) <=> InMargin(DotOf(v, c))
  <2>1. PICK a \in Int, b \in Int : DotOf(v, c) = <<a, b>>
    BY DotsArePlaces
  <2> QED BY <2>1, MarginTurned DEF AsSeen
<1>2. ASSUME NEW c \in DotCells(v), c[1] = subCol
      PROVE  InMargin(DotOf(v, c)) <=> c[2] \notin 1 .. entireRow - 2
  <2>1. /\ c \in ViewCells /\ c[1] \in 0 .. entireCol - 1 /\ c[2] \in 0 .. entireRow - 1
        /\ c = <<c[1], c[2]>>
    BY CellPlaces DEF DotCells
  <2>2. CASE c[2] \in 1 .. entireRow - 2
    <3>1. c \in Cells
      BY <1>2, <2>1, <2>2, Sizes DEF Cells
    <3> QED BY <2>2, <3>1, CellOutOfMargin
  <2>3. CASE c[2] \notin 1 .. entireRow - 2
    <3>1. c[2] = 0 \/ c[2] = entireRow - 1
      BY <2>1, <2>3, Sizes
    <3>2. OnBaseline(v, c)
      BY <1>2, <2>1, MiddleIsBaseline DEF OnBaseline
    <3>3. OffsetOf(v, c) = <<v.off, 0>>
      BY <2>1, <3>2, OffsetPlaced
    <3>4. DotOf(v, c)[2] = Spacing * c[2] + 0
      BY <3>3 DEF DotOf
    <3>5. Spacing \in Nat /\ Margin \in Nat /\ entireRow \in Nat
      BY Sizes
    <3>6. CASE c[2] = 0
      BY <3>4, <3>5, <3>6 DEF InMargin
    <3>7. CASE c[2] = entireRow - 1
      <4>1. PICK n \in Int : n = Spacing * (entireRow - 1)
        BY <3>5, Z3
      <4>2. DotOf(v, c)[2] = n /\ ROI_height_size = n
        BY <3>4, <3>7, <4>1 DEF ROI_height_size, entireRow
      <4>3. ROI_height_size - Margin <= DotOf(v, c)[2]
        BY <3>5, <4>2
      <4>4. InMargin(DotOf(v, c))
        BY <4>3 DEF InMargin
      <4> QED BY <2>3, <4>4
    <3> QED BY <2>3, <3>1, <3>6, <3>7
  <2> QED BY <2>2, <2>3
<1> QED BY <1>1, <1>2 DEF MiddleIn, MiddleKept

\* Of the dots of the middle baseline some are left, and not too many.
LEMMA CleanMiddle ==
  ASSUME FloorSearchable, NEW v \in Views, v.lost = {}
  PROVE  LET middle == {dot \in MiddleIn(v) : ~InMargin(dot)}
         IN middle # {} /\ ~(Cardinality(middle) > 10)
<1> DEFINE middle == {dot \in MiddleIn(v) : ~InMargin(dot)}
           C == MiddleKept(v)
           f == [c \in C |-> (c[2] - 1) \div 3]
<1>1. entireRow \in 5 .. 32
  BY RowsAssumption
<1>2. C \subseteq DotCells(v)
  BY DEF MiddleKept
<1>3. IsFiniteSet(C) /\ Cardinality(middle) = Cardinality(C)
  BY <1>2, DotsCounted, MiddleTrimmed
<1>4. C # {}
  <2>1. PICK y \in Nat, z \in Int : y = v.y0 /\ z = 1
    BY SceneryAssumption
  <2>2. PICK r \in z .. z + 2 : \A i \in Int : (y + (r + 3 * i)) % 3 = 0
    BY ThirdRow
  <2>3. r \in 1 .. 3 /\ r + 3 * 0 = r
    BY <2>1
  <2>4. (y + r) % 3 = 0
    BY <2>2, <2>3
  <2>5. <<subCol, r>> \in ViewCells
    BY <1>1, <2>3, Sizes DEF ViewCells
  <2>6. <<subCol, r>> \in DotCells(v)
    BY <2>1, <2>4, <2>5 DEF DotCells, DotRows
  <2>7. <<subCol, r>> \in C
    BY <1>1, <2>3, <2>6 DEF MiddleKept
  <2> QED BY <2>7
<1>5. \A c \in C : c = <<subCol, c[2]>> /\ c[2] \in 1 .. 30 /\ (v.y0 + c[2]) % 3 = 0
  <2> TAKE c \in C
  <2>1. c \in DotCells(v) /\ c \in ViewCells /\ c[1] = subCol /\ c[2] \in 1 .. entireRow - 2
    BY DEF MiddleKept, DotCells
  <2>2. OnBaseline(v, c)
    <3>1. c[1] \in 0 .. entireCol - 1
      BY <2>1, CellPlaces
    <3> QED BY <2>1, <3>1, MiddleIsBaseline DEF OnBaseline
  <2>3. (v.y0 + c[2]) % 3 = 0
    BY <2>1, <2>2 DEF DotCells, DotRows
  <2>4. c = <<c[1], c[2]>>
    BY <2>1, CellPlaces
  <2> QED BY <1>1, <2>1, <2>3, <2>4
<1>6. f \in Injection(C, 0 .. 9)
  <2>1. \A n \in 1 .. 30 : (n - 1) \div 3 \in 0 .. 9
    OBVIOUS
  <2>2. ASSUME NEW c \in C, NEW d \in C, f[c] = f[d] PROVE c = d
    <3>1. PICK y \in Nat, m \in 1 .. 30, n \in 1 .. 30 : y = v.y0 /\ m = c[2] /\ n = d[2]
      BY <1>5, SceneryAssumption
    <3>2. (y + m) % 3 = 0 /\ (y + n) % 3 = 0 /\ (m - 1) \div 3 = (n - 1) \div 3
      BY <1>5, <2>2, <3>1
    <3>3. m = n
      BY <3>2
    <3> QED BY <1>5, <3>1, <3>3
  <2> HIDE DEF C
  <2>3. f \in [C -> 0 .. 9]
    BY <1>5, <2>1
  <2> QED BY <2>2, <2>3 DEF Injection, IsInjective
<1>7. IsFiniteSet(0 .. 9) /\ Cardinality(0 .. 9) = 10
  <2>1. PICK a \in Int, b \in Int : a = 0 /\ b = 9
    OBVIOUS
  <2>2. IsFiniteSet(a .. b) /\ Cardinality(a .. b) = IF a > b THEN 0 ELSE b - a + 1
    BY FS_Interval
  <2> QED BY <2>1, <2>2
<1> HIDE DEF C, f
<1>8. Cardinality(C) <= 10 /\ Cardinality(C) \in Nat
  BY <1>3, <1>6, <1>7, FS_Injection, FS_CardinalityType
<1>9. middle # {}
  BY <1>4, MiddleTrimmed DEF C
<1> HIDE DEF middle
<1>10. middle # {} /\ ~(Cardinality(middle) > 10)
  BY <1>3, <1>8, <1>9
<1> QED BY <1>10 DEF middle

\* Dashes that are measured right are told apart.
LEMMA CleanDashes ==
  ASSUME NEW v \in Views, v.errors = <<0, 0, 0, 0>>, dashes = DashesIn(v)
  PROVE  DashesTell
<1> DEFINE e == v.errors
           upright == [i \in DOMAIN e |-> DashLengths[((v.y0 \div DotRows + i - 1) % 3) + 1] + e[i]]
<1>1. PICK t \in Nat : t = v.y0 \div DotRows
  BY SceneryAssumption DEF DotRows
<1>2. DOMAIN upright = 1 .. 4 /\ Len(upright) = 4 /\ v.upside \in BOOLEAN
  BY SceneryAssumption
<1>3. \A i \in 1 .. 4 : upright[i] = DashLengths[((t + i - 1) % 3) + 1] + 0
  BY <1>1
<1> HIDE DEF upright, e
<1>4. dashes = (IF v.upside THEN Reverse(upright) ELSE upright)
  BY DEF DashesIn, upright, e
<1>5. \A i \in 1 .. 4 : dashes[i] = upright[IF v.upside THEN 5 - i ELSE i]
  <2>1. \A i \in 1 .. 4 : Reverse(upright)[i] = upright[5 - i]
    BY <1>2 DEF Reverse
  <2> QED BY <1>2, <1>4, <2>1
<1>6. Len(dashes) = 4
  BY <1>2, <1>4 DEF Reverse
<1>7. DashLengths[1] = 40 /\ DashLengths[2] = 32 /\ DashLengths[3] = 24
  BY DEF DashLengths
<1>8. /\ \A i \in 1 .. 4 : upright[i] \in {24, 32, 40}
      /\ \A i, j \in 1 .. 3 : i # j => upright[i] # upright[j]
      /\ \A i, j \in 2 .. 4 : i # j => upright[i] # upright[j]
  <2>1. CASE t % 3 = 0
    <3>1. t % 3 = 0 /\ (t + 1) % 3 = 1 /\ (t + 2) % 3 = 2 /\ (t + 3) % 3 = 0
      BY <2>1
    <3>2. upright[1] = 40 /\ upright[2] = 32 /\ upright[3] = 24 /\ upright[4] = 40
      BY <1>3, <1>7, <3>1
    <3> QED BY <3>2
  <2>2. CASE t % 3 = 1
    <3>1. t % 3 = 1 /\ (t + 1) % 3 = 2 /\ (t + 2) % 3 = 0 /\ (t + 3) % 3 = 1
      BY <2>2
    <3>2. upright[1] = 32 /\ upright[2] = 24 /\ upright[3] = 40 /\ upright[4] = 32
      BY <1>3, <1>7, <3>1
    <3> QED BY <3>2
  <2>3. CASE t % 3 = 2
    <3>1. t % 3 = 2 /\ (t + 1) % 3 = 0 /\ (t + 2) % 3 = 1 /\ (t + 3) % 3 = 2
      BY <2>3
    <3>2. upright[1] = 24 /\ upright[2] = 40 /\ upright[3] = 32 /\ upright[4] = 24
      BY <1>3, <1>7, <3>1
    <3> QED BY <3>2
  <2>4. t % 3 \in {0, 1, 2}
    OBVIOUS
  <2> QED BY <2>1, <2>2, <2>3, <2>4
<1>9. /\ \A i \in 1 .. 3 : dashes[i] \in {24, 32, 40}
      /\ \A i, j \in 1 .. 3 : i # j => dashes[i] # dashes[j]
  <2>1. CASE v.upside
    <3>1. dashes[1] = upright[4] /\ dashes[2] = upright[3] /\ dashes[3] = upright[2]
      BY <1>5, <2>1
    <3> QED BY <1>8, <3>1
  <2>2. CASE ~v.upside
    <3>1. dashes[1] = upright[1] /\ dashes[2] = upright[2] /\ dashes[3] = upright[3]
      BY <1>5, <2>2
    <3> QED BY <1>8, <3>1
  <2> QED BY <1>2, <2>1, <2>2
<1>10. \A a, b \in {24, 32, 40} : 10 * a < 18 * b /\ (a # b => Distance(a, b) >= 6)
  BY DEF Distance
<1> QED BY <1>6, <1>9, <1>10 DEF DashesTell

\* The dots of a clean view lie where their symbols have them.
LEMMA CleanAngles ==
  ASSUME FloorSearchable, NEW v \in Views, v.skewed = {}, v.misread = {},
         NEW rect, Inside(rect), CellsOf(rect) \subseteq ReadableCells(v)
  PROVE  AnglesHold(DotsAt(v, ReadableCells(v)), rect, {subCol})
<1> DEFINE dots == DotsAt(v, ReadableCells(v))
<1>1. ASSUME NEW c \in CellsOf(rect), c[1] # subCol
      PROVE  WithinMaxAngle(OffsetX(dots, c), OffsetY(dots, c))
  <2> DEFINE symbol == PrintedCell(v.x0 + c[1], v.y0 + c[2])
  <2>1. c \in Cells /\ c \in ViewCells /\ c \in ReadableCells(v)
    BY MiddleInPiece, CellPlaces
  <2>2. ~OnBaseline(v, c)
    BY <1>1, <2>1, ColumnOfBaseline
  <2>3. symbol \in Symbols
    BY <2>1, <2>2, OffsetPlaced
  <2>4. OffsetOf(v, c) = SymbolOffset[symbol]
    BY <2>2 DEF OffsetOf
  <2> HIDE DEF symbol
  <2>5. Symbols = {0, 1, 2, 3}
    BY Sizes DEF Symbols
  <2>6. PICK p \in -1 .. 1, q \in -1 .. 1 :
          /\ OffsetOf(v, c)[1] = p /\ OffsetOf(v, c)[2] = q
          /\ \/ p = -1 /\ q = 0
             \/ p = 0 /\ q = -1
             \/ p = 1 /\ q = 0
             \/ p = 0 /\ q = 1
    <3>1. SymbolOffset[symbol] \in {<<-1, 0>>, <<0, -1>>, <<1, 0>>, <<0, 1>>}
      BY <2>3, <2>5 DEF SymbolOffset, LEFT, TOP, RIGHT, BOTTOM
    <3>2. PICK o : o = OffsetOf(v, c)
      OBVIOUS
    <3>3. o = <<-1, 0>> \/ o = <<0, -1>> \/ o = <<1, 0>> \/ o = <<0, 1>>
      BY <2>4, <3>1, <3>2
    <3>4. \/ o[1] = -1 /\ o[2] = 0
          \/ o[1] = 0 /\ o[2] = -1
          \/ o[1] = 1 /\ o[2] = 0
          \/ o[1] = 0 /\ o[2] = 1
      BY <3>3
    <3>5. o[1] \in -1 .. 1 /\ o[2] \in -1 .. 1
      BY <3>4
    <3> QED BY <3>2, <3>4, <3>5
  <2>7. OffsetX(dots, c) = p /\ OffsetY(dots, c) = q
    <3>1. dots[c] = DotOf(v, c)
      BY <2>1 DEF DotsAt
    <3>2. PICK a \in Int, b \in Int : a = c[1] /\ b = c[2]
      BY <2>1, CellPlaces
    <3>3. PICK m \in Int, n \in Int : m = Spacing * a /\ n = Spacing * b
      BY Sizes, Z3
    <3>4. dots[c][1] = m + p /\ dots[c][2] = n + q
      BY <2>6, <3>1, <3>2, <3>3 DEF DotOf
    <3>5. OffsetX(dots, c) = dots[c][1] - m /\ OffsetY(dots, c) = dots[c][2] - n
      BY <3>2, <3>3 DEF OffsetX, OffsetY
    <3> HIDE DEF dots
    <3> QED BY <3>4, <3>5
  <2>8. WithinMaxAngle(-1, 0) /\ WithinMaxAngle(0, -1) /\ WithinMaxAngle(1, 0) /\ WithinMaxAngle(0, 1)
    BY DEF WithinMaxAngle, Direction, Distance, LEFT, RIGHT, TOP, BOTTOM
  <2>9. WithinMaxAngle(p, q)
    <3>1. CASE p = -1 /\ q = 0
      BY <2>8, <3>1
    <3>2. CASE p = 0 /\ q = -1
      BY <2>8, <3>2
    <3>3. CASE p = 1 /\ q = 0
      BY <2>8, <3>3
    <3>4. CASE p = 0 /\ q = 1
      BY <2>8, <3>4
    <3> QED BY <2>6, <3>1, <3>2, <3>3, <3>4
  <2> QED BY <2>7, <2>9
<1> QED BY <1>1 DEF AnglesHold

\* On a clean view the middle baseline is found from any of its dots.
LEMMA CleanBaselineFound ==
  ASSUME FloorSearchable, NEW v \in Views, Clean(v), NEW dot \in MiddleIn(v)
  PROVE  Distance(MiddlePlace(v), dot[1]) < EPS
<1>1. PICK o \in Int, l \in Int : o = v.off /\ l = Spacing * subCol
  <2>1. v.off \in Int
    BY SceneryAssumption
  <2>2. Spacing * subCol \in Int
    BY Sizes, Z3
  <2> QED BY <2>1, <2>2
<1>2. EPS \in Nat \ {0}
  BY RowsAssumption, Sizes
<1>3. PICK c \in DotCells(v) : c[1] = subCol /\ dot = AsSeen(v, DotOf(v, c))
  BY DEF MiddleIn
<1>4. DotOf(v, c)[1] = l + o
  <2>1. c \in ViewCells /\ c[1] \in 0 .. entireCol - 1
    BY CellPlaces DEF DotCells
  <2>2. OnBaseline(v, c)
    BY <1>3, <2>1, MiddleIsBaseline DEF OnBaseline
  <2>3. OffsetOf(v, c) = <<v.off, 0>>
    BY <2>1, <2>2, OffsetPlaced
  <2> QED BY <1>1, <1>3, <2>3 DEF DotOf
<1>5. MiddlePlace(v) = l + o
  BY <1>1 DEF MiddlePlace
<1>6. CASE v.upside
  <2>1. Distance(o, -o) < EPS
    BY <1>1, <1>6 DEF Clean
  <2>2. Turned(DotOf(v, c))[1] = ROI_width_size - (l + o)
    BY <1>4 DEF Turned
  <2>3. ROI_width_size = 2 * l
    <3>1. PICK S \in Int, m \in Int : S = Spacing /\ m = subCol
      BY Sizes
    <3>2. ROI_width_dots - 1 = 2 * m
      BY <3>1, Sizes DEF entireCol
    <3>3. S * (2 * m) = 2 * (S * m)
      BY Z3
    <3> QED BY <1>1, <3>1, <3>2, <3>3 DEF ROI_width_size
  <2>4. dot[1] = l - o
    BY <1>3, <1>6, <2>2, <2>3 DEF AsSeen
  <2>5. Distance(l + o, l - o) = Distance(o, -o)
    BY DEF Distance
  <2> QED BY <1>5, <2>1, <2>4, <2>5
<1>7. CASE ~v.upside
  <2>1. dot[1] = l + o
    BY <1>3, <1>4, <1>7 DEF AsSeen
  <2>2. Distance(l + o, l + o) = 0
    BY DEF Distance
  <2> QED BY <1>2, <1>5, <2>1, <2>2
<1> QED BY <1>6, <1>7

\* A clean view is digitized.
LEMMA CleanDigitized ==
  ASSUME FloorSearchable, NEW v \in Views, Clean(v), transformed_points = KeptPoints(v),
         middle_dots \subseteq MiddleIn(v), middle_dots # {}, runDigitize
  PROVE  stage' = "digitized"
<1>1. v.lost = {} /\ v.skewed = {} /\ v.misread = {}
  BY DEF Clean
<1>2. ~TooFew
  BY <1>1, CleanKeepsDots DEF TooFew
<1>3. PICK dot \in middle_dots :
        DigitizePiece(InterpolatingDashArea(Sort2DdotArr(transformed_points), dot[1]), dot[1])
  BY <1>2 DEF runDigitize
<1> DEFINE at == dot[1]
           cells == Cells \cap DotCells(v)
           dots0 == DotsAt(v, cells)
           dots == InterpolatingDashArea(dots0, at)
<1>4. at \in MiddlePlaces(v) /\ Distance(MiddlePlace(v), at) < EPS
  BY MiddleSeen, CleanBaselineFound
<1>5. Sort2DdotArr(transformed_points) = dots0
  BY SortedDots
<1>6. CellsOn(dots0, at) # {}
  <2>1. CellsOn(dots0, at) = {c \in cells : c[1] = subCol /\ Distance(MiddlePlace(v), at) < EPS}
    BY <1>4, OnlyMiddleColumn
  <2>2. {AsSeen(v, DotOf(v, c)) : c \in MiddleKept(v)} # {}
    BY <1>1, CleanMiddle, MiddleTrimmed
  <2>3. PICK c \in MiddleKept(v) : TRUE
    BY <2>2
  <2>4. c \in cells /\ c[1] = subCol
    <3>1. c \in DotCells(v) /\ c \in ViewCells /\ c[1] = subCol /\ c[2] \in 1 .. entireRow - 2
      BY DEF MiddleKept, DotCells
    <3>2. c = <<c[1], c[2]>>
      BY <3>1, CellPlaces
    <3> QED BY <3>1, <3>2, Sizes DEF Cells
  <2> QED BY <1>4, <2>1, <2>4
<1>7. dots = DotsAt(v, ReadableCells(v))
  BY <1>4, <1>6, ColumnPutBack
<1>8. ReadableCells(v) = Cells
  BY <1>1 DEF ReadableCells
<1>9. PICK centre \in FindCP_Index(dots, transformed_CP) :
        LET rect == RectAround(centre)
            baseline == BaselineColumns(dots, rect, at)
        IN IF CellsOf(rect) \subseteq DOMAIN dots /\ AnglesHold(dots, rect, baseline)
           THEN digitizied_array' = Digits(dots, rect, baseline) /\ stage' = "digitized"
           ELSE stage' = "rejected" /\ UNCHANGED digitizied_array
  <2> HIDE DEF dots0
  <2>1. DigitizePiece(dots, at)
    BY <1>3, <1>5
  <2> HIDE DEF dots, at
  <2> QED BY <2>1 DEF DigitizePiece
<1> DEFINE rect == RectAround(centre)
<1>10. DOMAIN dots = Cells
  BY <1>7, <1>8 DEF DotsAt
<1> HIDE DEF dots
<1>11. Inside(rect)
  <2>1. centre[1] \in Int /\ centre[2] \in Int
    BY <1>10, CentreIsCell
  <2> QED BY <2>1, RectInside
<1> HIDE DEF rect
<1>12. CellsOf(rect) \subseteq Cells
  BY <1>11, MiddleInPiece
<1>13. BaselineColumns(dots, rect, at) = {subCol}
  <2>1. CellsOn(dots, at) = {c \in Cells : c[1] = subCol}
    BY <1>4, <1>7, <1>8, OnlyMiddleColumn
  <2>2. <<subCol, rect.top>> \in CellsOf(rect)
    BY <1>11, MiddleInPiece
  <2>3. <<subCol, rect.top>> \in CellsOn(dots, at) \cap CellsOf(rect)
    BY <1>12, <2>1, <2>2
  <2>4. \A c \in CellsOn(dots, at) \cap CellsOf(rect) : c[1] = subCol
    BY <2>1
  <2> QED BY <2>3, <2>4 DEF BaselineColumns
<1>14. AnglesHold(dots, rect, {subCol})
  BY <1>1, <1>7, <1>8, <1>11, <1>12, CleanAngles
<1> QED BY <1>9, <1>10, <1>12, <1>13, <1>14 DEF rect

\* No view is seen before it is cut out, and nothing that a clean view needs is
\* missing at any stage.
CleanInv ==
  /\ stage \notin AfterCut \cup {"rejected"} => seen = {}
  /\ \A v \in seen : Clean(v) =>
       /\ stage # "rejected"
       /\ stage = "trim" => middle_dots = MiddleIn(v)
       /\ stage \in {"orient", "digitize"} => middle_dots # {}

\* No step takes from a clean view what the next stage asks for, or refuses it.
LEMMA NextKeepsClean ==
  FloorInv /\ RingInv /\ EveryWordOnce /\ ViewInv /\ ViewInv' /\ CleanInv /\ [Next]_vars
    => CleanInv'
<1> SUFFICES ASSUME FloorInv, RingInv, EveryWordOnce, ViewInv, ViewInv', CleanInv, [Next]_vars
             PROVE  CleanInv'
  OBVIOUS
<1>1. stage # "build" => FloorSearchable
  BY DEF ViewInv, FloorSearchable
<1>2. CASE seen' = {}
  BY <1>2 DEF CleanInv
<1>3. CASE BuildFloor \/ TakeImage \/ PreprocessLines \/ NextImage
  <2>1. CASE NextImage
    BY <1>2, <2>1 DEF NextImage
  <2>2. CASE BuildFloor \/ TakeImage \/ PreprocessLines
    <3>1. seen' = seen
      BY <2>2 DEF BuildFloor, TakeImage, PreprocessLines, IdleElse
    <3>2. stage \notin AfterCut \cup {"rejected"}
      BY <2>2
      DEF BuildFloor, TakeImage, Reject, DetectBaseLines, PreprocessLines,
          orderBaseLinesByClosestDot, findValidLinesByDotsNum,
          validateClosestBaseLinesByDirection, FindSideDots, findwarpPerspectiveCornerPoint,
          adjustCornersToPredefinedArea, AfterCut
    <3> QED BY <1>2, <3>1, <3>2 DEF CleanInv
  <2> QED BY <1>3, <2>1, <2>2
<1>4. CASE CutOut
  <2>1. FloorSearchable /\ UNCHANGED floorVars
    BY <1>1, <1>4 DEF CutOut
  <2>2. PICK v \in Views :
          /\ seen' = {v}
          /\ preprocessPointData(PointsIn(v), v.around, MiddleIn(v), AsSeen(v, v.CP), v.turn,
                                 DashesIn(v))
    BY <1>4 DEF CutOut
  <2>3. stage' \in {"rejected", "trim"}
    BY <2>2 DEF preprocessPointData
  <2>4. ASSUME Clean(v) PROVE stage' = "trim" /\ middle_dots' = MiddleIn(v)
    <3>1. v.lost = {}
      BY <2>4 DEF Clean
    <3>2. required_minimal_dot <= Cardinality(PointsIn(v)) /\ MiddleIn(v) # {}
      BY <2>1, <3>1, CleanHasDots, CleanMiddle
    <3>3. ~(required_minimal_dot > Cardinality(PointsIn(v)) + v.around)
      <4>1. required_minimal_dot \in Int /\ Cardinality(PointsIn(v)) \in Int
        <5>1. Cardinality(PointsIn(v)) \in Nat
          BY <2>1, DotsCounted, FS_CardinalityType DEF PointsIn
        <5>2. PICK w \in Int, h \in Int : w = ROI_width_dots /\ h = ROI_height_dots
          BY ViewAssumption
        <5>3. PICK p \in Int : p = (w - 2) * (h - 2)
          BY Z3
        <5>4. required_minimal_dot = p - ((h - 1) \div 3) * 2
          BY <5>2, <5>3 DEF required_minimal_dot
        <5> QED BY <5>1, <5>4
      <4>2. v.around \in Nat
        BY SceneryAssumption
      <4> QED BY <3>2, <4>1, <4>2
    <3> QED BY <2>2, <3>2, <3>3 DEF preprocessPointData
  <2>5. MiddleIn(v)' = MiddleIn(v)
    BY <2>1, ViewStays
  <2>6. Clean(v)' <=> Clean(v)
    BY DEF Clean, Distance
  <2> QED BY <2>2, <2>3, <2>4, <2>5, <2>6 DEF CleanInv, AfterCut
<1>5. ASSUME stage \in AfterCut, seen' = seen, stage' \in AfterCut \cup {"rejected"},
             UNCHANGED floorVars,
             ASSUME NEW v \in Views, seen = {v}, SeenAs(v), Clean(v)
             PROVE  /\ stage' # "rejected" /\ stage' # "trim"
                    /\ stage' \in {"orient", "digitize"} => middle_dots' # {}
      PROVE  CleanInv'
  <2>1. PICK v \in Views : seen = {v} /\ SeenAs(v)
    BY <1>5 DEF ViewInv
  <2>2. Clean(v)' <=> Clean(v)
    BY DEF Clean, Distance
  <2>3. Clean(v) => /\ stage' # "rejected" /\ stage' # "trim"
                    /\ stage' \in {"orient", "digitize"} => middle_dots' # {}
    BY <1>5, <2>1
  <2> QED BY <1>5, <2>1, <2>2, <2>3 DEF CleanInv
<1>6. CASE excludeMarginDots /\ UNCHANGED IdleElse
  <2>1. /\ stage = "trim" /\ stage' \in {"rejected", "orient"} /\ seen' = seen
        /\ FloorSearchable /\ UNCHANGED floorVars
    BY <1>1, <1>6 DEF excludeMarginDots, IdleElse
  <2>2. ASSUME NEW v \in Views, seen = {v}, Clean(v)
        PROVE  stage' = "orient" /\ middle_dots' # {}
    <3>1. middle_dots = MiddleIn(v) /\ v.lost = {}
      BY <2>1, <2>2 DEF CleanInv, Clean
    <3>2. middle_dots' = {dot \in MiddleIn(v) : ~InMargin(dot)}
      BY <1>6, <3>1 DEF excludeMarginDots
    <3>3. middle_dots' # {} /\ ~(Cardinality(middle_dots') > 10)
      BY <2>1, <3>1, <3>2, CleanMiddle
    <3> QED BY <1>6, <3>3 DEF excludeMarginDots
  <2> QED BY <1>5, <2>1, <2>2 DEF AfterCut
<1>7. CASE checkAndCorrectOrientation /\ UNCHANGED IdleElse
  <2>1. /\ stage = "orient" /\ stage' \in {"rejected", "digitize"} /\ seen' = seen
        /\ UNCHANGED floorVars
    BY <1>7 DEF checkAndCorrectOrientation, Reject, IdleElse
  <2>2. ASSUME NEW v \in Views, seen = {v}, SeenAs(v), Clean(v)
        PROVE  stage' = "digitize" /\ middle_dots' # {}
    <3>1. middle_dots # {}
      BY <2>1, <2>2 DEF CleanInv
    <3>2. DashesTell
      BY <2>1, <2>2, CleanDashes DEF SeenAs, Clean
    <3> QED BY <1>7, <3>1, <3>2 DEF checkAndCorrectOrientation
  <2> QED BY <1>5, <2>1, <2>2 DEF AfterCut
<1>8. CASE Digitize
  <2>1. /\ stage = "digitize" /\ stage' \in {"rejected", "digitized"} /\ seen' = seen
        /\ FloorSearchable /\ UNCHANGED floorVars /\ runDigitize
    BY <1>1, <1>8 DEF Digitize, runDigitize, DigitizePiece
  <2>2. ASSUME NEW v \in Views, seen = {v}, SeenAs(v), Clean(v)
        PROVE  stage' = "digitized"
    <3>1. middle_dots # {}
      BY <2>1, <2>2 DEF CleanInv
    <3>2. transformed_points = KeptPoints(v) /\ middle_dots \subseteq MiddleIn(v)
      BY <2>1, <2>2 DEF SeenAs
    <3> QED BY <2>1, <2>2, <3>1, <3>2, CleanDigitized
  <2> QED BY <1>5, <2>1, <2>2 DEF AfterCut
<1>9. CASE Publish
  <2>1. /\ stage = "digitized" /\ stage' \in {"rejected", "published"} /\ seen' = seen
        /\ FloorSearchable /\ UNCHANGED floorVars
    BY <1>1, <1>9 DEF Publish
  <2>2. ASSUME NEW v \in Views, seen = {v}, SeenAs(v), Clean(v)
        PROVE  stage' = "published"
    <3>1. Found(v) /\ v.misread = {}
      BY <2>1, <2>2 DEF SeenAs, Clean
    <3>2. PICK a \in Int, b \in Int : CP_dotIndex = <<a, b>> /\ 1 <= a /\ 1 <= b
      <4>1. CP_dotIndex \in Cells
        BY <2>1, <3>1, FoundLookedUp
      <4> QED BY <4>1, Sizes DEF Cells
    <3>3. getPos(digitizied_array, movementIndex) = <<v.x0 + a, v.y0 + b>>
      BY <2>1, <3>1, <3>2, FoundLookedUp
    <3>4. PICK x0 \in Nat, y0 \in Nat : x0 = v.x0 /\ y0 = v.y0
      BY SceneryAssumption
    <3>5. x0 + a # -1 /\ y0 + b # -1
      BY <3>2
    <3>6. getPos(digitizied_array, movementIndex)[1] # -1
          /\ getPos(digitizied_array, movementIndex)[2] # -1
      BY <3>3, <3>4, <3>5
    <3> QED BY <1>9, <3>6 DEF Publish
  <2> QED BY <1>5, <2>1, <2>2 DEF AfterCut
<1>10. CASE UNCHANGED vars
  <2>1. UNCHANGED floorVars /\ UNCHANGED <<stage, seen, middle_dots>>
    BY <1>10 DEF vars, floorVars, preprocessorVars, viewVars
  <2>2. \A v : MiddleIn(v)' = MiddleIn(v) /\ (Clean(v)' <=> Clean(v))
    BY <2>1, ViewStays DEF Clean, Distance
  <2> QED BY <2>1, <2>2 DEF CleanInv
<1> QED BY <1>3, <1>4, <1>6, <1>7, <1>8, <1>9, <1>10 DEF Next, image_callback, PreprocessView

\* A clean view of the floor is refused by no stage, wherever it is, wherever the
\* centre is and either way up, for every size of the floor, the view and the
\* piece.
THEOREM CleanViewPublished == Spec => []CleanViewIsRead
<1>1. Init => CleanInv /\ ViewInv
  BY DEF Init, CleanInv, ViewInv, AfterCut
<1>2. CleanInv => CleanViewIsRead
  BY DEF CleanInv, CleanViewIsRead
<1> QED
  BY <1>1, <1>2, NextKeepsView, NextKeepsClean, FloorHolds, RingsHold, EveryWordIsOnce,
     PTL DEF Spec
=============================================================================
