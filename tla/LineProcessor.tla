--------------------------- MODULE LineProcessor ---------------------------
(***************************************************************************)
(* LineProcessor: from the lines the Hough transform finds to one line for *)
(* each baseline.                                                          *)
(*                                                                         *)
(* The lines of one direction are taken as parallel.  A line is where it   *)
(* passes the centre of the image, in dot intervals; whether it is lying   *)
(* rather than standing; whether its end points come in the other order,   *)
(* as for standing lines on the other side of the vertical; and the rows,  *)
(* from that of the dot nearest the centre, in which it has dots.          *)
(***************************************************************************)
EXTENDS Integers, Sequences, FiniteSets, SequencesExt

CONSTANTS
  DIST_TOLERANCE,          \* lines nearer than this are one
  MAX_LINE_COUNT,          \* so many clusters are too many
  required_baseline_cnt    \* so many baselines are needed

ASSUME LineAssumption ==
  /\ DIST_TOLERANCE \in Nat \ {0}
  /\ required_baseline_cnt \in Nat \ {0, 1, 2}
  /\ MAX_LINE_COUNT \in Nat /\ required_baseline_cnt < MAX_LINE_COUNT

Lines == [at : Int, lying : BOOLEAN, swapped : BOOLEAN, dots : SUBSET Int]

Apart(l, m) == IF l.at >= m.at THEN l.at - m.at ELSE m.at - l.at

IsMatching(l, m) == l.lying = m.lying /\ Apart(l, m) < DIST_TOLERANCE

\* clusterLinesByDist for one line: it joins the first cluster whose first line
\* it matches.
JoinCluster(clusters, line) ==
  LET it == SelectInSeq(clusters, LAMBDA c : IsMatching(c[1], line))
  IN IF it = 0 THEN Append(clusters, <<line>>)
     ELSE [clusters EXCEPT ![it] = Append(@, line)]

clusterLinesByDist(lines) == FoldLeft(JoinCluster, <<>>, lines)

\* Lines of a cluster that overlap its ith line.
Overlap(cluster, i) ==
  Cardinality({j \in DOMAIN cluster \ {i} :
                 Apart(cluster[i], cluster[j]) <= DIST_TOLERANCE})

\* The first of the lines that most others overlap.
Representative(cluster) ==
  cluster[Min({i \in DOMAIN cluster : \A j \in DOMAIN cluster :
                 Overlap(cluster, j) <= Overlap(cluster, i)})]

\* clusterLinesBySlope and filterLargestCluster: the lines of the direction
\* that has most of them; of two, that of the first line.  Standing lines are
\* similar in either order of their end points, which is kept; that of the lines
\* is not, for they are ordered next.
LargestSlopeCluster(lines) ==
  LET Like(lying) ==
        LET found == SetToSeq({i \in DOMAIN lines : lines[i].lying = lying})
        IN [n \in DOMAIN found |-> lines[found[n]]]
      first == Like(Head(lines).lying)
      rest == Like(~Head(lines).lying)
  IN IF Len(rest) > Len(first) THEN rest ELSE first

ClusterSizeValid(clusters) ==
  Len(clusters) \in required_baseline_cnt .. MAX_LINE_COUNT - 1

\* detectBaseLines: the clusters that are left.  HoughLines is called with the
\* same threshold each time, so that a second pass over the image only repeats
\* the first; and what clusterLinesByDist found stays when its size was not
\* valid, when it is too large too.
detectBaseLines(lines) ==
  LET clusters == clusterLinesByDist(lines)
      candidates == [i \in DOMAIN clusters |-> Representative(clusters[i])]
      largest == LargestSlopeCluster(candidates)
  IN IF ClusterSizeValid(clusters)
     THEN [i \in DOMAIN largest |-> <<largest[i]>>]
     ELSE clusters
=============================================================================
