----------------------------- MODULE GenBGArray -----------------------------
(***************************************************************************)
(* BGArray: the printed floor and the search for a piece of it.  Column    *)
(* after column is the s-sequence, shifted down by the next symbol of the  *)
(* t-sequence; every lineInterval columns a baseline comes between.        *)
(***************************************************************************)
EXTENDS DeBruijnSeq, SequencesExt

CONSTANTS
  k1,                  \* rows of a piece: subRow
  k2,                  \* columns of dots of a piece: subCol of the settings
  lineInterval         \* columns of dots between two baselines

ASSUME ArrayAssumption ==
  /\ k1 \in Nat \ {0, 1} /\ k2 \in Nat \ {0, 1} /\ lineInterval \in Nat \ {0}
  /\ total_elements[k1] > aLen * k1 + k1

\* The columns of a piece are shifted by less than the search goes back.
ASSUME ShiftsAssumption == (k2 - 1) * (aLen - 1) <= aLen * k1

VARIABLES
  deSeqK1,             \* the sequence of order k1, once it is there
  sSeq, tSeq,          \* the sequences without their last symbol
  countShift,          \* by how much each column of dots is shifted
  built                \* the constructor has returned

arrayVars == <<deSeqK1, sSeq, tSeq, countShift, built>>

Baseline == -1         \* a cell of a baseline: -1 in a subset, ' ' in getPos
NotFound == <<-1, -1>>

ArrayInit ==
  /\ Begins(k1)
  /\ deSeqK1 = <<>> /\ sSeq = <<>> /\ tSeq = <<>> /\ countShift = <<>>
  /\ built = FALSE

\* The first sequence of initMemberVars is written; the second begins.
KeepSSequence ==
  /\ ~built /\ Written /\ deSeqK1 = <<>>
  /\ deSeqK1' = dBSeq
  /\ StartSequence(k2 - 1)
  /\ UNCHANGED <<sSeq, tSeq, countShift, built>>

\* The running sums of the t-sequence, from 0.
ShiftsOf(t) ==
  LET count[i \in 1 .. Len(t) + 1] == IF i = 1 THEN 0 ELSE count[i - 1] + t[i - 1]
  IN count

\* The rest of initMemberVars.
initMemberVars ==
  /\ ~built /\ Written /\ deSeqK1 # <<>>
  /\ sSeq' = Front(deSeqK1)
  /\ tSeq' = Front(dBSeq)
  /\ countShift' = ShiftsOf(tSeq')
  /\ built' = TRUE
  /\ UNCHANGED <<deSeqK1, sequenceVars>>

BuildArray ==
  \/ ~built /\ dfsIterative /\ UNCHANGED arrayVars
  \/ KeepSSequence
  \/ initMemberVars

-----------------------------------------------------------------------------
(* The floor *)

BGRows == Len(sSeq)
BGCols == Len(countShift) + Len(countShift) \div lineInterval

IsBaseline(x) == x % (lineInterval + 1) = 0

\* The symbol of row y of a column of dots, counted from 0.
ShiftedSymbol(dotColumn, y) ==
  sSeq[((y - countShift[dotColumn + 1]) % Len(sSeq)) + 1]

\* printBGArr: the baselines up to a column are counted from the left edge.
PrintedCell(x, y) ==
  IF IsBaseline(x) THEN Baseline
  ELSE ShiftedSymbol(x - Cardinality({b \in 0 .. x : IsBaseline(b)}), y)

\* Mistake: a range that begins between baselines forgets the one before it.
ForgetsFirstBaseline(from, x) ==
  from \div (lineInterval + 1) + Cardinality({b \in from .. x : IsBaseline(b)})

\* printSpecificRange and getSubset: the baselines up to column x, from those
\* before the column the range begins with.
colCorrection(from, x) ==
  from \div (lineInterval + 1)
    + (IF IsBaseline(from) THEN 0 ELSE 1)
    + Cardinality({b \in from .. x : IsBaseline(b)})

RangeCell(from, x, y) ==
  IF IsBaseline(x) THEN Baseline ELSE ShiftedSymbol(x - colCorrection(from, x), y)

\* The cells of a range.  getSubset tests only its first cell against the size
\* of the array.
getSubset(x, y, cols, rows) ==
  IF x > BGCols - 1 \/ y > BGRows - 1 THEN <<>>
  ELSE [i \in 1 .. rows |-> [j \in 1 .. cols |-> RangeCell(x, x + j - 1, y + i - 1)]]

-----------------------------------------------------------------------------
(* The search *)

\* std::search: how many symbols precede the first occurrence, -1 for none.
Search(text, pattern) ==
  LET at == {i \in 0 .. Len(text) - Len(pattern) :
               \A j \in 1 .. Len(pattern) : text[i + j] = pattern[j]}
  IN IF at = {} THEN -1 ELSE Min(at)

WrongType(subset) ==
  \E i \in DOMAIN subset : ToSet(subset[i]) \ (Symbols \cup {Baseline}) # {}

DotPlaces(subset) == {j \in DOMAIN subset[1] : subset[1][j] # Baseline}

NthOf(places, n) == CHOOSE j \in places : Cardinality({i \in places : i <= j}) = n

\* The columns of dots of a subset, from the left, as words of k1 symbols.
DotColumns(subset) ==
  [n \in 1 .. Cardinality(DotPlaces(subset)) |->
     [i \in 1 .. k1 |-> subset[i][NthOf(DotPlaces(subset), n)]]]

\* Mistake: the columns are searched from the first one on, although they are
\* shifted back from it.
RangeAfter(dist) == SubSeq(sSeq \o sSeq, dist + 1, dist + aLen * k1 + k1)

\* Where the next columns are searched: up to aLen * k1 symbols before the
\* first one, taken from the second copy when there are not so many.
rangeForFindSeq(dist) ==
  LET begin == (IF dist > aLen * k1 THEN dist ELSE Len(sSeq) + dist) - aLen * k1
  IN SubSeq(sSeq \o sSeq, begin + 1, begin + aLen * k1 + k1)

\* The number of the column a piece begins with, from its place in the t-
\* sequence and from whether it begins with a baseline.
LocationCol(posCol, onBaseline) ==
  posCol + posCol \div lineInterval + 1 - (IF onBaseline THEN 1 ELSE 0)

\* The cell of the centre of a piece, by its columns and their shifts.
getPos(subset, center) ==
  LET columns == DotColumns(subset)
      distFirstColPos == Search(sSeq \o sSeq, columns[1])
      range == rangeForFindSeq(distFirstColPos)
      dist == [j \in 1 .. k2 |-> Search(range, columns[j])]
      subsetTSeq == [j \in 1 .. k2 - 1 |->
                       IF dist[j + 1] >= dist[j] THEN dist[j + 1] - dist[j]
                       ELSE dist[j] - dist[j + 1]]
      posCol == Search(tSeq, subsetTSeq)
  IN IF \/ WrongType(subset)
        \/ distFirstColPos = -1
        \/ \E j \in 1 .. k2 : dist[j] = -1
        \/ posCol = -1
     THEN NotFound
     ELSE <<LocationCol(posCol, subset[1][1] = Baseline) + center[1],
            ((distFirstColPos + countShift[posCol + 1]) % Len(sSeq)) + center[2]>>

-----------------------------------------------------------------------------

\* The whole floor and a piece of it are printed by code that counts the
\* baselines from another edge: they agree on every cell.
FloorsAgree ==
  \A x \in 0 .. BGCols - k2 - 1, y \in 0 .. BGRows - k1 :
    getSubset(x, y, k2 + 1, k1) =
      [i \in 1 .. k1 |-> [j \in 1 .. k2 + 1 |-> PrintedCell(x + j - 1, y + i - 1)]]
=============================================================================
