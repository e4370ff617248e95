--------------------------- MODULE LCodeLineProofs ---------------------------
(***************************************************************************)
(* Proofs about the lines of an image: what detectBaseLines finds in them, *)
(* which of them is taken for the middle one and where the corners come to *)
(* lie, for every set of lines and every size of the view.                 *)
(***************************************************************************)
EXTENDS LCodeDecoderProofs

-----------------------------------------------------------------------------
(* The clusters *)

FoundCluster == Seq(FoundLines) \ {<<>>}
FoundClusters == Seq(FoundCluster)

\* A line makes a cluster of its own or a cluster longer.
LEMMA JoinKeepsClusters ==
  ASSUME NEW clusters \in FoundClusters, NEW line \in FoundLines
  PROVE  JoinCluster(clusters, line) \in FoundClusters
<1> DEFINE matching == {i \in 1 .. Len(clusters) : IsMatching(clusters[i][1], line)}
           it == IF matching # {} THEN Min(matching) ELSE 0
<1>1. it \in 0 .. Len(clusters)
  <2>1. CASE matching # {}
    <3>1. matching \in SUBSET Nat
      OBVIOUS
    <3>2. \E x \in matching : \A y \in matching : x <= y
      BY <2>1, <3>1, LeastNumber
    <3>3. Min(matching) \in matching
      BY <3>2 DEF Min
    <3> QED BY <2>1, <3>3
  <2> QED BY <2>1 DEF FoundClusters
<1>2. JoinCluster(clusters, line)
        = IF it = 0 THEN Append(clusters, <<line>>)
          ELSE [clusters EXCEPT ![it] = Append(@, line)]
  BY DEF JoinCluster, SelectInSeq
<1> HIDE DEF it, matching
<1>3. <<line>> \in FoundCluster
  BY DEF FoundCluster
<1>4. CASE it = 0
  <2> HIDE DEF FoundCluster
  <2> QED BY <1>2, <1>3, <1>4 DEF FoundClusters
<1>5. CASE it # 0
  <2>1. it \in 1 .. Len(clusters) /\ clusters[it] \in FoundCluster
    BY <1>1, <1>5 DEF FoundClusters
  <2>2. Append(clusters[it], line) \in FoundCluster
    BY <2>1 DEF FoundCluster
  <2> HIDE DEF FoundCluster
  <2> QED BY <1>2, <1>5, <2>1, <2>2 DEF FoundClusters
<1> QED BY <1>4, <1>5

\* clusterLinesByDist as it is folded: the clusters of the lines in s, once
\* those before the last of them are known.
ClusterStep(clusters, lines, s) ==
  IF s = {} THEN <<>> ELSE JoinCluster(clusters[s \ {Max(s)}], lines[Max(s)])

LEMMA LastOf ==
  ASSUME NEW k \in Nat, NEW s \in SUBSET (1 .. k + 1), k + 1 \in s
  PROVE  Max(s) = k + 1 /\ s \ {Max(s)} \in SUBSET (1 .. k)
<1>1. \A x \in s : (\A y \in s : x >= y) <=> x = k + 1
  OBVIOUS
<1>2. Max(s) = k + 1
  BY <1>1 DEF Max
<1> QED BY <1>2

LEMMA ClusteringDefined ==
  ASSUME NEW lines, NEW n \in Nat
  PROVE  \E g : g = [s \in SUBSET (1 .. n) |-> ClusterStep(g, lines, s)]
<1> DEFINE Defined(k) ==
             \E g : g = [s \in SUBSET (1 .. k) |-> ClusterStep(g, lines, s)]
           S == {k \in Nat : Defined(k)}
<1>1. 0 \in S
  <2> DEFINE g == [s \in SUBSET (1 .. 0) |-> <<>>]
  <2>1. \A s \in SUBSET (1 .. 0) : s = {}
    OBVIOUS
  <2>2. g = [s \in SUBSET (1 .. 0) |-> ClusterStep(g, lines, s)]
    BY <2>1 DEF ClusterStep
  <2> HIDE DEF g
  <2> QED BY <2>2
<1>2. ASSUME NEW k \in Nat, k \in S PROVE k + 1 \in S
  <2>1. PICK g : g = [s \in SUBSET (1 .. k) |-> ClusterStep(g, lines, s)]
    BY <1>2
  <2> DEFINE h == [s \in SUBSET (1 .. k + 1) |->
                     IF k + 1 \in s THEN ClusterStep(g, lines, s) ELSE g[s]]
  <2>2. \A s \in SUBSET (1 .. k) : s \in SUBSET (1 .. k + 1) /\ h[s] = g[s]
    OBVIOUS
  <2>3. ASSUME NEW s \in SUBSET (1 .. k + 1) PROVE h[s] = ClusterStep(h, lines, s)
    <3>1. CASE k + 1 \in s
      <4>1. s \ {Max(s)} \in SUBSET (1 .. k)
        BY <3>1, LastOf
      <4>2. h[s \ {Max(s)}] = g[s \ {Max(s)}]
        BY <2>2, <4>1
      <4>3. h[s] = ClusterStep(g, lines, s)
        BY <3>1
      <4> HIDE DEF h
      <4> QED BY <4>2, <4>3 DEF ClusterStep
    <3>2. CASE k + 1 \notin s
      <4>1. s \in SUBSET (1 .. k)
        BY <3>2
      <4>2. h[s] = ClusterStep(g, lines, s)
        BY <2>1, <2>2, <4>1
      <4>3. s # {} => s \ {Max(s)} \in SUBSET (1 .. k)
        BY <4>1
      <4>4. s # {} => h[s \ {Max(s)}] = g[s \ {Max(s)}]
        BY <2>2, <4>3
      <4> HIDE DEF h
      <4> QED BY <4>2, <4>4 DEF ClusterStep
    <3> QED BY <3>1, <3>2
  <2>4. h = [s \in SUBSET (1 .. k + 1) |-> ClusterStep(h, lines, s)]
    BY <2>3
  <2> HIDE DEF h
  <2> QED BY <2>4
<1> HIDE DEF Defined
<1>3. Nat \subseteq S
  BY <1>1, <1>2, EveryNumber
<1> QED BY <1>3 DEF Defined

\* However the lines are clustered, the clusters are sequences of them.
LEMMA ClustersFound ==
  ASSUME NEW lines \in Seq(FoundLines)
  PROVE  clusterLinesByDist(lines) \in FoundClusters
<1> DEFINE n == Len(lines)
           g == CHOOSE g : g = [s \in SUBSET DOMAIN lines |-> ClusterStep(g, lines, s)]
           Typed(k) == \A s \in SUBSET (1 .. n) :
                         s \in SUBSET (1 .. k) => g[s] \in FoundClusters
           S == {k \in Nat : Typed(k)}
<1>1. DOMAIN lines = 1 .. n /\ n \in Nat
  OBVIOUS
<1>2. clusterLinesByDist(lines) = g[DOMAIN lines]
  BY DEF clusterLinesByDist, FoldLeft, MapThenFoldSet, ClusterStep
<1>3. g = [s \in SUBSET (1 .. n) |-> ClusterStep(g, lines, s)]
  BY <1>1, ClusteringDefined
<1> HIDE DEF g, n
<1>4. <<>> \in FoundClusters
  BY DEF FoundClusters
<1>5. 0 \in S
  <2>1. \A s \in SUBSET (1 .. n) : s \in SUBSET (1 .. 0) => g[s] = <<>>
    BY <1>3 DEF ClusterStep
  <2> QED BY <1>4, <2>1
<1>6. ASSUME NEW k \in Nat, k \in S PROVE k + 1 \in S
  <2> SUFFICES ASSUME NEW s \in SUBSET (1 .. n), s \in SUBSET (1 .. k + 1)
               PROVE  g[s] \in FoundClusters
    OBVIOUS
  <2>1. CASE k + 1 \in s
    <3>1. Max(s) = k + 1 /\ s \ {Max(s)} \in SUBSET (1 .. k)
      BY <2>1, LastOf
    <3>2. g[s \ {Max(s)}] \in FoundClusters
      BY <1>6, <3>1
    <3>3. lines[Max(s)] \in FoundLines
      BY <1>1, <2>1, <3>1
    <3>4. g[s] = JoinCluster(g[s \ {Max(s)}], lines[Max(s)])
      BY <1>3, <2>1 DEF ClusterStep
    <3> QED BY <3>2, <3>3, <3>4, JoinKeepsClusters
  <2>2. CASE k + 1 \notin s
    BY <1>6, <2>2
  <2> QED BY <2>1, <2>2
<1> HIDE DEF Typed
<1>7. n \in S
  BY <1>1, <1>5, <1>6, EveryNumber
<1> QED BY <1>1, <1>2, <1>7 DEF Typed

-----------------------------------------------------------------------------
(* The lines that stand for them *)

\* Some line of a cluster overlaps as many others as any does.
LEMMA RepresentativeFound ==
  ASSUME NEW cluster \in FoundCluster
  PROVE  Representative(cluster) \in FoundLines
<1> DEFINE n == Len(cluster)
           near(i) == {j \in DOMAIN cluster \ {i} :
                         Apart(cluster[i], cluster[j]) <= DIST_TOLERANCE}
           missed == {m \in Nat : \E i \in 1 .. n : m = n - Overlap(cluster, i)}
           best == {i \in DOMAIN cluster : \A j \in DOMAIN cluster :
                      Overlap(cluster, j) <= Overlap(cluster, i)}
<1>1. n \in Nat \ {0} /\ DOMAIN cluster = 1 .. n /\ \A i \in 1 .. n : cluster[i] \in FoundLines
  BY DEF FoundCluster
<1> HIDE DEF n
<1>2. \A i \in 1 .. n : Overlap(cluster, i) \in Nat /\ Overlap(cluster, i) <= n
  <2> SUFFICES ASSUME NEW i \in 1 .. n
               PROVE  Overlap(cluster, i) \in Nat /\ Overlap(cluster, i) <= n
    OBVIOUS
  <2>1. near(i) \in SUBSET (1 .. n)
    BY <1>1
  <2>2. IsFiniteSet(1 .. n) /\ Cardinality(1 .. n) = n
    BY <1>1, FS_Interval
  <2>3. Overlap(cluster, i) = Cardinality(near(i))
    BY DEF Overlap
  <2> HIDE DEF near
  <2>4. IsFiniteSet(near(i)) /\ Cardinality(near(i)) <= n
    BY <2>1, <2>2, FS_Subset
  <2>5. Cardinality(near(i)) \in Nat
    BY <2>4, FS_CardinalityType
  <2> QED BY <2>3, <2>4, <2>5
<1>3. missed # {}
  <2>1. 1 \in 1 .. n /\ n - Overlap(cluster, 1) \in Nat
    BY <1>1, <1>2
  <2> QED BY <2>1
<1>4. PICK m \in missed : \A k \in missed : m <= k
  BY <1>3, LeastNumber
<1>5. PICK i \in 1 .. n : m = n - Overlap(cluster, i)
  BY <1>4
<1>6. \A j \in 1 .. n : Overlap(cluster, j) <= Overlap(cluster, i)
  <2> TAKE j \in 1 .. n
  <2>1. n - Overlap(cluster, j) \in missed
    BY <1>1, <1>2
  <2>2. n - Overlap(cluster, i) <= n - Overlap(cluster, j)
    BY <1>4, <1>5, <2>1
  <2>3. Overlap(cluster, i) \in Nat /\ Overlap(cluster, j) \in Nat /\ n \in Nat
    BY <1>1, <1>2
  <2> QED BY <2>2, <2>3
<1>7. i \in best /\ best \in SUBSET Nat
  BY <1>1, <1>6
<1>8. Min(best) \in best
  <2> HIDE DEF best
  <2>1. \E x \in best : \A y \in best : x <= y
    BY <1>7, LeastNumber
  <2> QED BY <2>1 DEF Min
<1>9. Min(best) \in 1 .. n
  BY <1>1, <1>8
<1>10. Representative(cluster) = cluster[Min(best)]
  BY DEF Representative
<1> QED BY <1>1, <1>9, <1>10

\* SetToSeq lists a finite set.
LEMMA ListOf ==
  ASSUME NEW S, IsFiniteSet(S)
  PROVE  /\ SetToSeq(S) \in [1 .. Cardinality(S) -> S]
         /\ Cardinality(S) \in Nat
<1>1. Cardinality(S) \in Nat /\ ExistsBijection(1 .. Cardinality(S), S)
  BY FS_CardinalityType
<1>2. \E f \in [1 .. Cardinality(S) -> S] : IsInjective(f)
  BY <1>1 DEF ExistsBijection, Bijection, Injection
<1> QED BY <1>1, <1>2 DEF SetToSeq

\* The lines of one direction are some of the lines.
LEMMA SlopeClusterFound ==
  ASSUME NEW lines \in Seq(FoundLines)
  PROVE  LargestSlopeCluster(lines) \in Seq(FoundLines)
<1> DEFINE like(lying) == {i \in DOMAIN lines : lines[i].lying = lying}
           list(lying) == [n \in DOMAIN SetToSeq(like(lying)) |->
                             lines[SetToSeq(like(lying))[n]]]
<1>1. ASSUME NEW lying PROVE list(lying) \in Seq(FoundLines)
  <2>1. like(lying) \in SUBSET (1 .. Len(lines)) /\ IsFiniteSet(1 .. Len(lines))
    BY FS_Interval
  <2>2. IsFiniteSet(like(lying))
    BY <2>1, FS_Subset
  <2>3. SetToSeq(like(lying)) \in [1 .. Cardinality(like(lying)) -> like(lying)]
        /\ Cardinality(like(lying)) \in Nat
    BY <2>2, ListOf
  <2>4. \A i \in like(lying) : lines[i] \in FoundLines
    BY <2>1
  <2> HIDE DEF like
  <2> QED BY <2>3, <2>4
<1>2. LargestSlopeCluster(lines)
        \in {list(Head(lines).lying), list(~Head(lines).lying)}
  BY DEF LargestSlopeCluster
<1> HIDE DEF list
<1> QED BY <1>1, <1>2

\* What is left of the lines of an image is made of them.
LEMMA BaselinesTyped ==
  ASSUME NEW lines \in Seq(FoundLines)
  PROVE  detectBaseLines(lines) \in FoundClusters
<1> DEFINE clusters == clusterLinesByDist(lines)
           candidates == [i \in DOMAIN clusters |-> Representative(clusters[i])]
           largest == LargestSlopeCluster(candidates)
<1>1. clusters \in FoundClusters
  BY ClustersFound
<1>2. candidates \in Seq(FoundLines)
  <2> HIDE DEF clusters
  <2>1. \A i \in DOMAIN clusters : Representative(clusters[i]) \in FoundLines
    BY <1>1, RepresentativeFound DEF FoundClusters
  <2> QED BY <1>1, <2>1 DEF FoundClusters
<1>3. largest \in Seq(FoundLines)
  <2> HIDE DEF candidates
  <2> QED BY <1>2, SlopeClusterFound
<1>4. [i \in DOMAIN largest |-> <<largest[i]>>] \in FoundClusters
  <2> HIDE DEF largest
  <2>1. \A i \in DOMAIN largest : <<largest[i]>> \in FoundCluster
    BY <1>3 DEF FoundCluster
  <2> QED BY <1>3, <2>1 DEF FoundClusters
<1> QED BY <1>1, <1>4 DEF detectBaseLines

-----------------------------------------------------------------------------
(* The order of the lines *)

\* The places of the lines in their clusters, of which there are three or more.
LEMMA PlacesFinite ==
  ASSUME NEW clusters \in FoundClusters, Len(clusters) >= 3
  PROVE  LET places == UNION {{i} \X DOMAIN clusters[i] : i \in DOMAIN clusters}
         IN IsFiniteSet(places) /\ Cardinality(places) >= 3
<1> DEFINE n == Len(clusters)
           row(i) == {i} \X DOMAIN clusters[i]
           rows == {row(i) : i \in DOMAIN clusters}
           places == UNION rows
<1>1. n \in Nat /\ DOMAIN clusters = 1 .. n
  BY DEF FoundClusters
<1>2. \A i \in 1 .. n : DOMAIN clusters[i] = 1 .. Len(clusters[i])
                        /\ Len(clusters[i]) \in Nat \ {0}
  BY <1>1 DEF FoundClusters, FoundCluster
<1>3. \A T \in rows : IsFiniteSet(T)
  <2> SUFFICES ASSUME NEW i \in 1 .. n PROVE IsFiniteSet(row(i))
    BY <1>1
  <2>1. IsFiniteSet({i})
    BY FS_Singleton
  <2>2. PICK k \in Nat : DOMAIN clusters[i] = 1 .. k
    BY <1>2
  <2>3. IsFiniteSet(DOMAIN clusters[i])
    BY <2>2, FS_Interval
  <2> QED BY <2>1, <2>3, FS_Product
<1>4. IsFiniteSet(rows)
  <2> DEFINE f == [i \in 1 .. n |-> row(i)]
  <2>1. f \in Surjection(1 .. n, rows)
    <3> HIDE DEF row
    <3> QED BY <1>1 DEF Surjection
  <2>2. IsFiniteSet(1 .. n)
    BY <1>1, FS_Interval
  <2> HIDE DEF f, rows
  <2> QED BY <2>1, <2>2, FS_Surjection
<1>5. IsFiniteSet(places)
  <2> HIDE DEF rows
  <2> QED BY <1>3, <1>4, FS_UNION
<1>6. Cardinality(places) >= 3
  <2>1. PICK k \in Nat : k = 3
    OBVIOUS
  <2> DEFINE first == [i \in 1 .. k |-> <<i, 1>>]
  <2>2. \A i \in 1 .. k : <<i, 1>> \in places
    <3> TAKE i \in 1 .. k
    <3>1. i \in DOMAIN clusters /\ 1 \in DOMAIN clusters[i]
      BY <1>1, <1>2, <2>1
    <3>2. <<i, 1>> \in row(i) /\ row(i) \in rows
      BY <3>1
    <3> HIDE DEF row, rows
    <3> QED BY <3>2
  <2>3. first \in Injection(1 .. k, places)
    <3> HIDE DEF places
    <3> QED BY <2>2 DEF Injection, IsInjective
  <2>4. Cardinality(1 .. k) = k
    <3>1. Cardinality(1 .. k) = IF 1 > k THEN 0 ELSE k - 1 + 1
      BY FS_Interval
    <3> QED BY <2>1, <3>1
  <2> HIDE DEF first, places
  <2>5. k <= Cardinality(places)
    BY <1>5, <2>3, <2>4, FS_Injection
  <2> QED BY <2>1, <2>5
<1> QED BY <1>5, <1>6

\* The ordered lines are first lines of clusters, three of them or more.
LEMMA OrderedLines ==
  ASSUME NEW clusters \in FoundClusters, Len(clusters) >= 3,
         NEW lines \in OrdersByDistance(clusters)
  PROVE  /\ lines \in Seq(FoundLines) /\ Len(lines) >= 3
         /\ \A n \in 1 .. Len(lines) :
              \E i \in DOMAIN clusters : lines[n] = clusters[i][1]
<1> DEFINE places == UNION {{i} \X DOMAIN clusters[i] : i \in DOMAIN clusters}
           m == Cardinality(places)
<1>1. IsFiniteSet(places) /\ m >= 3
  BY PlacesFinite
<1>2. m \in Nat
  <2> HIDE DEF places
  <2> QED BY <1>1, FS_CardinalityType
<1>3. PICK turn \in SetToSeqs(places) :
        lines = [n \in DOMAIN turn |-> clusters[turn[n][1]][1]]
  BY DEF OrdersByDistance
<1>4. turn \in [1 .. m -> places]
  <2> HIDE DEF places
  <2> QED BY <1>3 DEF SetToSeqs
<1>5. \A place \in places : place[1] \in DOMAIN clusters
  OBVIOUS
<1> HIDE DEF m, places
<1>6. \A n \in 1 .. m : turn[n][1] \in DOMAIN clusters
  BY <1>4, <1>5
<1>7. \A i \in DOMAIN clusters : clusters[i][1] \in FoundLines
  BY DEF FoundClusters, FoundCluster
<1>8. lines = [n \in 1 .. m |-> clusters[turn[n][1]][1]]
  BY <1>3, <1>4
<1>9. \A n \in 1 .. m : lines[n] \in FoundLines
  BY <1>6, <1>7, <1>8
<1>10. lines \in Seq(FoundLines) /\ Len(lines) = m
  BY <1>2, <1>8, <1>9
<1> QED BY <1>1, <1>6, <1>8, <1>10

\* Each line is alone in its cluster and at a place of its own.
Apartly(clusters) ==
  /\ \A i \in DOMAIN clusters : Len(clusters[i]) = 1
  /\ \A i, j \in DOMAIN clusters : clusters[i][1].at = clusters[j][1].at => i = j

\* Then the first three lines are different, the nearest first.
LEMMA NearestThree ==
  ASSUME NEW clusters \in FoundClusters, Len(clusters) >= 3, Apartly(clusters),
         NEW lines \in OrdersByDistance(clusters)
  PROVE  /\ FromDot(lines[1]) <= FromDot(lines[2])
         /\ FromDot(lines[2]) <= FromDot(lines[3])
         /\ \A n, k \in 1 .. 3 : lines[n].at = lines[k].at => n = k
<1> DEFINE places == UNION {{i} \X DOMAIN clusters[i] : i \in DOMAIN clusters}
           m == Cardinality(places)
           far(ij) == FromDot(clusters[ij[1]][ij[2]])
<1>1. IsFiniteSet(places) /\ m >= 3
  BY PlacesFinite
<1>2. m \in Nat
  <2> HIDE DEF places
  <2> QED BY <1>1, FS_CardinalityType
<1>3. PICK turn \in SetToSeqs(places) :
        /\ lines = [n \in DOMAIN turn |-> clusters[turn[n][1]][1]]
        /\ \A k, n \in DOMAIN turn : k < n => far(turn[k]) <= far(turn[n])
  BY DEF OrdersByDistance
<1>4. turn \in [1 .. m -> places]
      /\ \A k, n \in 1 .. m : k # n => turn[k] # turn[n]
  <2> HIDE DEF places
  <2> QED BY <1>3 DEF SetToSeqs
<1>5. \A place \in places :
        /\ place[1] \in DOMAIN clusters /\ place[2] = 1
        /\ place = <<place[1], place[2]>>
  <2> SUFFICES ASSUME NEW i \in DOMAIN clusters, NEW place \in {i} \X DOMAIN clusters[i]
               PROVE  /\ place[1] \in DOMAIN clusters /\ place[2] = 1
                      /\ place = <<place[1], place[2]>>
    OBVIOUS
  <2>1. DOMAIN clusters[i] = {1}
    BY DEF Apartly, FoundClusters, FoundCluster
  <2> QED BY <2>1
<1> HIDE DEF m, places
<1>6. \A n \in 1 .. 3 : n \in 1 .. m /\ n \in DOMAIN turn
  BY <1>1, <1>2, <1>4
<1>7. \A n \in 1 .. 3 : /\ turn[n] \in places
                        /\ lines[n] = clusters[turn[n][1]][1]
                        /\ far(turn[n]) = FromDot(lines[n])
  BY <1>3, <1>4, <1>5, <1>6
<1>8. far(turn[1]) <= far(turn[2]) /\ far(turn[2]) <= far(turn[3])
  <2> HIDE DEF far
  <2> QED BY <1>3, <1>6
<1>9. ASSUME NEW n \in 1 .. 3, NEW k \in 1 .. 3, lines[n].at = lines[k].at PROVE n = k
  <2>1. turn[n][1] = turn[k][1]
    BY <1>5, <1>7, <1>9 DEF Apartly
  <2>2. turn[n] = turn[k]
    BY <1>5, <1>7, <2>1
  <2> QED BY <1>4, <1>6, <2>2
<1> QED BY <1>7, <1>8, <1>9

\* Of three places, the nearest to a fourth is between the others, or the
\* second is when the others lie on one side of it.
LEMMA NearestIsBetween ==
  ASSUME NEW a \in Int, NEW b \in Int, NEW c \in Int, NEW from \in Int,
         a # b, b # c, a # c,
         Distance(a, from) <= Distance(b, from), Distance(b, from) <= Distance(c, from)
  PROVE  IF (b - from) * (c - from) > 0 THEN (a - b) * (c - b) < 0
         ELSE (b - a) * (c - a) < 0
<1> DEFINE x == a - from
           y == b - from
           z == c - from
<1>1. x \in Int /\ y \in Int /\ z \in Int /\ x # y /\ y # z /\ x # z
  OBVIOUS
<1>2. (y >= 0 => x <= y /\ x >= -y) /\ (y < 0 => x <= -y /\ x >= y)
  BY DEF Distance
<1>3. (z >= 0 => y <= z /\ y >= -z) /\ (z < 0 => y <= -z /\ y >= z)
  BY DEF Distance
<1>4. /\ a - b = x - y /\ c - b = z - y /\ b - a = y - x /\ c - a = z - x
      /\ b - from = y /\ c - from = z
  OBVIOUS
<1> HIDE DEF x, y, z
<1>5. \A p, q \in Int : p > 0 /\ q < 0 => p * q < 0 /\ q * p < 0 /\ ~(p * q > 0) /\ ~(q * p > 0)
  OBVIOUS
<1>6. \A p, q \in Int : (p > 0 /\ q > 0) \/ (p < 0 /\ q < 0) => p * q > 0
  OBVIOUS
<1>7. CASE y > 0 /\ z > 0
  <2>1. y * z > 0
    BY <1>1, <1>6, <1>7
  <2>2. x - y < 0 /\ z - y > 0
    BY <1>1, <1>2, <1>3, <1>7
  <2>3. (x - y) * (z - y) < 0
    BY <1>1, <1>5, <2>2
  <2> QED BY <1>4, <2>1, <2>3
<1>8. CASE y < 0 /\ z < 0
  <2>1. y * z > 0
    BY <1>1, <1>6, <1>8
  <2>2. x - y > 0 /\ z - y < 0
    BY <1>1, <1>2, <1>3, <1>8
  <2>3. (x - y) * (z - y) < 0
    BY <1>1, <1>5, <2>2
  <2> QED BY <1>4, <2>1, <2>3
<1>9. y # 0 /\ z # 0
  BY <1>1, <1>2, <1>3
<1>10. CASE y > 0 /\ z < 0
  <2>1. ~(y * z > 0)
    BY <1>1, <1>5, <1>10
  <2>2. y - x > 0 /\ z - x < 0
    BY <1>1, <1>2, <1>3, <1>10
  <2>3. (y - x) * (z - x) < 0
    BY <1>1, <1>5, <2>2
  <2> QED BY <1>4, <2>1, <2>3
<1>11. CASE y < 0 /\ z > 0
  <2>1. ~(y * z > 0)
    BY <1>1, <1>5, <1>11
  <2>2. y - x < 0 /\ z - x > 0
    BY <1>1, <1>2, <1>3, <1>11
  <2>3. (y - x) * (z - x) < 0
    BY <1>1, <1>5, <2>2
  <2> QED BY <1>4, <2>1, <2>3
<1> QED BY <1>1, <1>7, <1>8, <1>9, <1>10, <1>11

\* Two lines may change places.
LEMMA SwappedLines ==
  ASSUME NEW lines \in Seq(FoundLines), Len(lines) >= 3
  PROVE  /\ MiddleFirst(lines) \in Seq(FoundLines)
         /\ Len(MiddleFirst(lines)) = Len(lines)
         /\ MiddleFirst(lines)[1] = lines[IF SameSide(lines[2], lines[3]) THEN 2 ELSE 1]
         /\ MiddleFirst(lines)[2] = lines[IF SameSide(lines[2], lines[3]) THEN 1 ELSE 2]
         /\ \A n \in 3 .. Len(lines) : MiddleFirst(lines)[n] = lines[n]
<1>1. CASE SameSide(lines[2], lines[3])
  <2> HIDE DEF FoundLines
  <2> QED BY <1>1 DEF MiddleFirst
<1>2. CASE ~SameSide(lines[2], lines[3])
  BY <1>2 DEF MiddleFirst
<1> QED BY <1>1, <1>2

\* An overfull line is one of the first three.
LEMMA OverfullOne ==
  ASSUME Overfull # {} PROVE Min(Overfull) \in 1 .. baseline_cnt
<1>1. Overfull \in SUBSET Nat /\ Overfull \in SUBSET (1 .. baseline_cnt)
  BY DEF Overfull, baseline_cnt
<1>2. \E x \in Overfull : \A y \in Overfull : x <= y
  BY <1>1, LeastNumber
<1>3. Min(Overfull) \in Overfull
  BY <1>2 DEF Min
<1> QED BY <1>1, <1>3

\* The lines that are left when one is erased were there before.
LEMMA ErasedLines ==
  ASSUME NEW lines \in Seq(FoundLines), NEW i \in 1 .. Len(lines)
  PROVE  /\ RemoveAt(lines, i) \in Seq(FoundLines)
         /\ \A n \in 1 .. Len(RemoveAt(lines, i)) :
              \E k \in 1 .. Len(lines) : RemoveAt(lines, i)[n] = lines[k]
<1> HIDE DEF FoundLines
<1> DEFINE before == SubSeq(lines, 1, i - 1)
           after == SubSeq(lines, i + 1, Len(lines))
<1>1. before \in Seq(FoundLines) /\ Len(before) = i - 1
      /\ \A n \in 1 .. i - 1 : before[n] = lines[n]
  OBVIOUS
<1>2. after \in Seq(FoundLines) /\ Len(after) = Len(lines) - i
      /\ \A n \in 1 .. Len(lines) - i : after[n] = lines[n + i]
  OBVIOUS
<1>3. RemoveAt(lines, i) = before \o after
  BY DEF RemoveAt
<1> HIDE DEF before, after
<1>4. before \o after \in Seq(FoundLines) /\ Len(before \o after) = Len(lines) - 1
  BY <1>1, <1>2
<1>5. ASSUME NEW n \in 1 .. Len(lines) - 1
      PROVE  \E k \in 1 .. Len(lines) : (before \o after)[n] = lines[k]
  <2>1. CASE n <= i - 1
    BY <1>1, <1>2, <2>1
  <2>2. CASE n > i - 1
    <3>1. (before \o after)[n] = after[n - (i - 1)]
      BY <1>1, <1>2, <2>2
    <3>2. n - (i - 1) \in 1 .. Len(lines) - i
      BY <2>2
    <3>3. (before \o after)[n] = lines[n - (i - 1) + i]
      BY <1>2, <3>1, <3>2
    <3>4. n - (i - 1) + i \in 1 .. Len(lines)
      BY <3>2
    <3> QED BY <3>3, <3>4
  <2>3. n <= i - 1 \/ n > i - 1
    <3>1. n \in Int /\ i \in Int
      OBVIOUS
    <3> QED BY <3>1
  <2> QED BY <2>1, <2>2, <2>3
<1> QED BY <1>3, <1>4, <1>5

-----------------------------------------------------------------------------
(* Types *)

LinesTyped ==
  /\ clustered_lines \in FoundClusters /\ closestLines \in Seq(FoundLines)
  /\ stage = "order" => Len(clustered_lines) >= baseline_cnt

ImageTyped ==
  /\ stage \in Stages
  /\ dotNearCentre \in BOOLEAN
  /\ retry \in 0 .. 2 /\ (stage = "corners" => retry \in 0 .. 1)
  /\ camera_up_angle \in -360 .. 360
  /\ stage \in {"trim", "orient"} => camera_up_angle \in -180 .. 180
  /\ seen \subseteq Views /\ Cardinality(seen) <= 1
  /\ Len(reading) \in {0, 3}

ImageInv ==
  /\ LinesTyped
  /\ ImageTyped
  /\ built \in BOOLEAN /\ built = (stage # "build")

LEMMA LinesStayTyped ==
  ASSUME LinesTyped, [Next]_vars PROVE LinesTyped'
<1>1. <<>> \in FoundClusters /\ <<>> \in Seq(FoundLines)
  BY DEF FoundClusters
<1>2. ASSUME UNCHANGED lineVars, stage' # "order" PROVE LinesTyped'
  BY <1>2 DEF LinesTyped, lineVars
<1>3. CASE BuildFloor
  BY <1>2, <1>3 DEF BuildFloor
<1>4. CASE TakeImage
  <2>1. CASE Reject
    BY <1>2, <2>1 DEF Reject
  <2>2. ASSUME NEW scene \in Scenes, DetectBaseLines(scene.lines, scene.near)
        PROVE  LinesTyped'
    <3>1. scene.lines \in Seq(FoundLines)
      BY DecoderAssumption
    <3>2. detectBaseLines(scene.lines) \in FoundClusters
      BY <3>1, BaselinesTyped
    <3>3. Len(detectBaseLines(scene.lines)) \in Nat
      BY <3>2 DEF FoundClusters
    <3> QED BY <2>2, <3>2, <3>3 DEF DetectBaseLines, LinesTyped, baseline_cnt
  <2> QED BY <1>4, <2>1, <2>2 DEF TakeImage
<1>5. CASE PreprocessLines
  <2>1. CASE orderBaseLinesByClosestDot
    <3>1. PICK lines \in OrdersByDistance(clustered_lines) :
            closestLines' = MiddleFirst(lines)
      BY <2>1 DEF orderBaseLinesByClosestDot
    <3>2. Len(clustered_lines) >= 3 /\ clustered_lines \in FoundClusters
      BY <2>1 DEF orderBaseLinesByClosestDot, LinesTyped, baseline_cnt
    <3>3. MiddleFirst(lines) \in Seq(FoundLines)
      BY <3>2, OrderedLines, SwappedLines
    <3> QED BY <2>1, <3>1, <3>3 DEF orderBaseLinesByClosestDot, LinesTyped
  <2>2. CASE findValidLinesByDotsNum
    <3>1. CASE UNCHANGED lineVars
      BY <1>2, <2>2, <3>1 DEF findValidLinesByDotsNum, Reject
    <3>2. CASE UNCHANGED closestLines
      BY <2>2, <3>2 DEF findValidLinesByDotsNum, Reject, LinesTyped, lineVars
    <3>3. CASE /\ Overfull # {} /\ ~(Len(closestLines) < baseline_cnt)
               /\ closestLines' = RemoveAt(closestLines, Min(Overfull))
               /\ stage' = "count" /\ UNCHANGED clustered_lines
      <4>1. Min(Overfull) \in 1 .. Len(closestLines)
        BY <3>3, OverfullOne DEF baseline_cnt, LinesTyped
      <4>2. RemoveAt(closestLines, Min(Overfull)) \in Seq(FoundLines)
        BY <4>1, ErasedLines DEF LinesTyped
      <4> QED BY <3>3, <4>2 DEF LinesTyped
    <3> QED BY <2>2, <3>1, <3>2, <3>3 DEF findValidLinesByDotsNum, Reject
  <2>3. CASE validateClosestBaseLinesByDirection
    BY <1>2, <2>3 DEF validateClosestBaseLinesByDirection, Reject
  <2>4. CASE FindSideDots
    BY <2>4 DEF FindSideDots, LinesTyped
  <2>5. CASE findwarpPerspectiveCornerPoint
    BY <2>5 DEF findwarpPerspectiveCornerPoint, Reject, LinesTyped, lineVars
  <2>6. CASE adjustCornersToPredefinedArea
    BY <1>1, <2>6
    DEF adjustCornersToPredefinedArea, Reject, ForgetLines, LinesTyped, lineVars
  <2> QED BY <1>5, <2>1, <2>2, <2>3, <2>4, <2>5, <2>6 DEF PreprocessLines
<1>6. CASE CutOut
  BY <1>2, <1>6 DEF CutOut, preprocessPointData
<1>7. CASE PreprocessView
  BY <1>2, <1>7
  DEF PreprocessView, excludeMarginDots, checkAndCorrectOrientation, Reject
<1>8. CASE Digitize
  BY <1>2, <1>8 DEF Digitize, runDigitize, DigitizePiece
<1>9. CASE Publish
  BY <1>2, <1>9 DEF Publish
<1>10. CASE NextImage
  BY <1>1, <1>10 DEF NextImage, ForgetLines, LinesTyped
<1>11. CASE UNCHANGED vars
  BY <1>11 DEF vars, preprocessorVars, lineVars, LinesTyped
<1> QED
  BY <1>3, <1>4, <1>5, <1>6, <1>7, <1>8, <1>9, <1>10, <1>11 DEF Next, image_callback

LEMMA StageStaysTyped ==
  ASSUME ImageInv, [Next]_vars PROVE ImageTyped' /\ built' \in BOOLEAN
                                     /\ built' = (stage' # "build")
<1>1. ASSUME UNCHANGED <<retry, dotNearCentre, camera_up_angle, seen, reading, built>>,
             stage' \in Stages \ {"build", "corners", "trim", "orient"}, stage # "build"
      PROVE  ImageTyped' /\ built' \in BOOLEAN /\ built' = (stage' # "build")
  BY <1>1 DEF ImageInv, ImageTyped
<1>2. CASE BuildFloor
  <2>1. built' \in BOOLEAN
    BY <1>2 DEF BuildFloor, BuildArray, KeepSSequence, initMemberVars, arrayVars, ImageInv
  <2>2. built' = (stage' # "build") /\ stage' \in {"build", "idle"}
    BY <1>2, <2>1 DEF BuildFloor
  <2>3. UNCHANGED <<retry, dotNearCentre, camera_up_angle, seen, reading>>
    BY <1>2 DEF BuildFloor, lineVars, viewVars
  <2> QED BY <2>1, <2>2, <2>3 DEF ImageInv, ImageTyped, Stages, Ended
<1>3. CASE TakeImage
  <2>1. UNCHANGED <<seen, reading, built>>
    BY <1>3 DEF TakeImage, IdleElse, floorVars, arrayVars
  <2>2. CASE stage = "idle" /\ Reject
    BY <1>1, <2>1, <2>2 DEF Reject, lineVars, viewVars, Stages, Ended
  <2>3. ASSUME NEW scene \in Scenes, DetectBaseLines(scene.lines, scene.near)
        PROVE  ImageTyped' /\ built' \in BOOLEAN /\ built' = (stage' # "build")
    <3>1. scene.near \in BOOLEAN
      BY DecoderAssumption
    <3>2. /\ stage = "idle" /\ stage' \in {"rejected", "order"} /\ dotNearCentre' = scene.near
          /\ UNCHANGED <<retry, camera_up_angle>>
      BY <2>3 DEF DetectBaseLines, viewVars
    <3> QED BY <2>1, <3>1, <3>2 DEF ImageInv, ImageTyped, Stages, Ended
  <2> QED BY <1>3, <2>2, <2>3 DEF TakeImage
<1>4. CASE PreprocessLines
  <2>1. UNCHANGED <<seen, reading, built>>
    BY <1>4 DEF PreprocessLines, IdleElse, floorVars, arrayVars
  <2>2. /\ dotNearCentre' \in BOOLEAN /\ UNCHANGED camera_up_angle /\ stage # "build"
        /\ retry' \in 0 .. 2 /\ (stage' = "corners" => retry' \in 0 .. 1)
        /\ stage' \in Stages \ {"build", "trim", "orient"}
    <3>1. CASE orderBaseLinesByClosestDot
      BY <3>1 DEF orderBaseLinesByClosestDot, viewVars, ImageInv, ImageTyped, Stages, Ended
    <3>2. CASE findValidLinesByDotsNum
      BY <3>2
      DEF findValidLinesByDotsNum, Reject, lineVars, viewVars, ImageInv, ImageTyped,
          Stages, Ended
    <3>3. CASE validateClosestBaseLinesByDirection
      BY <3>3
      DEF validateClosestBaseLinesByDirection, Reject, lineVars, viewVars, ImageInv,
          ImageTyped, Stages, Ended
    <3>4. CASE FindSideDots
      BY <3>4 DEF FindSideDots, viewVars, ImageInv, ImageTyped, Stages, Ended
    <3>5. CASE findwarpPerspectiveCornerPoint
      BY <3>5
      DEF findwarpPerspectiveCornerPoint, Reject, NextPass, lineVars, viewVars, ImageInv,
          ImageTyped, Stages, Ended
    <3>6. CASE adjustCornersToPredefinedArea
      <4>1. stage = "adjust" /\ stage' \in {"warp", "sheared", "rejected"}
        BY <3>6 DEF adjustCornersToPredefinedArea, Reject
      <4>2. /\ retry' \in {retry, 0} /\ dotNearCentre' \in {dotNearCentre, FALSE}
            /\ UNCHANGED camera_up_angle
        BY <3>6
        DEF adjustCornersToPredefinedArea, Reject, ForgetLines, lineVars, viewVars
      <4>3. retry' \in 0 .. 2
        BY <4>2 DEF ImageInv, ImageTyped
      <4>4. dotNearCentre' \in BOOLEAN
        BY <4>2 DEF ImageInv, ImageTyped
      <4> QED BY <4>1, <4>2, <4>3, <4>4 DEF Stages, Ended
    <3> QED BY <1>4, <3>1, <3>2, <3>3, <3>4, <3>5, <3>6 DEF PreprocessLines
  <2> QED BY <2>1, <2>2 DEF ImageInv, ImageTyped
<1>5. CASE CutOut
  <2>1. PICK v \in Views :
          /\ seen' = {v}
          /\ preprocessPointData(PointsIn(v), v.around, MiddleIn(v), AsSeen(v, v.CP), v.turn,
                                 DashesIn(v))
    BY <1>5 DEF CutOut
  <2>2. UNCHANGED <<reading, built, retry, dotNearCentre>>
    BY <1>5, <2>1 DEF CutOut, preprocessPointData, floorVars, arrayVars, lineVars
  <2>3. Cardinality({v}) = 1
    BY FS_Singleton
  <2>4. v.turn \in -180 .. 180
    BY SceneryAssumption
  <2>5. \/ stage' = "rejected" /\ UNCHANGED camera_up_angle
        \/ stage' = "trim" /\ camera_up_angle' = v.turn
    BY <2>1 DEF preprocessPointData, viewVars
  <2>6. stage = "warp"
    BY <1>5 DEF CutOut
  <2>7. seen' \subseteq Views /\ Cardinality(seen') <= 1
    BY <2>1, <2>3
  <2>8. camera_up_angle' \in -360 .. 360
    <3>1. camera_up_angle \in -360 .. 360
      BY DEF ImageInv, ImageTyped
    <3>2. v.turn \in -360 .. 360
      BY <2>4
    <3> QED BY <2>5, <3>1, <3>2
  <2>9. stage' \in {"trim", "orient"} => camera_up_angle' \in -180 .. 180
    BY <2>4, <2>5
  <2> QED BY <2>2, <2>5, <2>6, <2>7, <2>8, <2>9 DEF ImageInv, ImageTyped, Stages, Ended
<1>6. CASE PreprocessView
  <2>1. UNCHANGED <<seen, reading, built>>
    BY <1>6 DEF PreprocessView, IdleElse, floorVars, arrayVars
  <2>2. CASE excludeMarginDots
    BY <2>1, <2>2 DEF excludeMarginDots, lineVars, ImageInv, ImageTyped, Stages, Ended
  <2>3. CASE checkAndCorrectOrientation
    <3>1. UNCHANGED <<retry, dotNearCentre>> /\ stage = "orient"
          /\ stage' \in {"rejected", "digitize"}
      BY <2>3 DEF checkAndCorrectOrientation, Reject, lineVars
    <3>2. camera_up_angle' \in {camera_up_angle, Distance(camera_up_angle + 180, 0)}
      BY <2>3 DEF checkAndCorrectOrientation, Reject, viewVars
    <3>3. camera_up_angle \in -180 .. 180
      BY <3>1 DEF ImageInv, ImageTyped
    <3>4. camera_up_angle' \in -360 .. 360
      BY <3>2, <3>3 DEF Distance
    <3> QED BY <2>1, <3>1, <3>4 DEF ImageInv, ImageTyped, Stages, Ended
  <2> QED BY <1>6, <2>2, <2>3 DEF PreprocessView
<1>7. CASE Digitize
  <2>1. UNCHANGED <<retry, dotNearCentre, camera_up_angle, seen, reading, built>>
        /\ stage = "digitize" /\ stage' \in {"rejected", "digitized"}
    BY <1>7 DEF Digitize, runDigitize, DigitizePiece, floorVars, arrayVars, lineVars, viewVars
  <2> QED BY <1>1, <2>1 DEF Stages, Ended
<1>8. CASE Publish
  <2>1. UNCHANGED <<retry, dotNearCentre, camera_up_angle, seen, built>>
        /\ stage = "digitized" /\ stage' \in {"rejected", "published"}
    BY <1>8 DEF Publish, floorVars, arrayVars, lineVars, viewVars
  <2>2. UNCHANGED reading \/ \E x, y, z : reading' = <<x, y, z>>
    BY <1>8 DEF Publish
  <2>3. \A x, y, z : Len(<<x, y, z>>) = 3
    OBVIOUS
  <2>4. Len(reading') \in {0, 3}
    BY <2>2, <2>3 DEF ImageInv, ImageTyped
  <2> QED BY <2>1, <2>4 DEF ImageInv, ImageTyped, Stages, Ended
<1>9. CASE NextImage
  <2>1. Cardinality({}) = 0
    BY FS_EmptySet
  <2>2. UNCHANGED built /\ stage # "build"
    BY <1>9 DEF NextImage, floorVars, arrayVars, Ended
  <2>3. /\ stage' = "idle" /\ retry' = 0 /\ dotNearCentre' = FALSE /\ camera_up_angle' = 0
        /\ seen' = {} /\ reading' = <<>>
    BY <1>9 DEF NextImage, ForgetLines, ForgetView
  <2>4. Len(reading') \in {0, 3} /\ seen' \subseteq Views /\ Cardinality(seen') <= 1
    BY <2>1, <2>3
  <2>5. retry' \in 0 .. 2 /\ camera_up_angle' \in -360 .. 360
    BY <2>3
  <2>8. dotNearCentre' \in BOOLEAN
    BY <2>3
  <2>6. stage' = "idle" /\ built' \in BOOLEAN /\ built' = TRUE
    BY <2>2, <2>3 DEF ImageInv
  <2>7. stage' \in Stages /\ stage' \notin {"build", "corners", "trim", "orient"}
    BY <2>3 DEF Stages
  <2> QED BY <2>4, <2>5, <2>6, <2>7, <2>8 DEF ImageTyped
<1>10. CASE UNCHANGED vars
  BY <1>10 DEF vars, preprocessorVars, lineVars, viewVars, arrayVars, ImageInv, ImageTyped
<1> QED
  BY <1>2, <1>3, <1>4, <1>5, <1>6, <1>7, <1>8, <1>9, <1>10 DEF Next, image_callback

LEMMA ImageHolds == Spec => []ImageInv
<1>1. Init => ImageInv
  <2> SUFFICES ASSUME Init PROVE ImageInv
    OBVIOUS
  <2>1. Cardinality({}) = 0
    BY FS_EmptySet
  <2>2. /\ stage = "build" /\ retry = 0 /\ dotNearCentre = FALSE /\ camera_up_angle = 0
        /\ seen = {} /\ reading = <<>> /\ clustered_lines = <<>> /\ closestLines = <<>>
        /\ built = FALSE
    BY DEF Init, ArrayInit, NoLines, NoView
  <2>3. LinesTyped
    BY <2>2 DEF LinesTyped, FoundClusters
  <2>4. Len(reading) \in {0, 3} /\ seen \subseteq Views /\ Cardinality(seen) <= 1
    BY <2>1, <2>2
  <2>5. retry \in 0 .. 2 /\ camera_up_angle \in -360 .. 360
    BY <2>2
  <2>8. dotNearCentre \in BOOLEAN
    BY <2>2
  <2>6. stage \in Stages /\ stage \notin {"corners", "trim", "orient"}
    BY <2>2 DEF Stages
  <2>7. ImageTyped
    BY <2>4, <2>5, <2>6, <2>8 DEF ImageTyped
  <2> QED BY <2>2, <2>3, <2>7 DEF ImageInv
<1>2. ImageInv /\ [Next]_vars => ImageInv'
  <2> SUFFICES ASSUME ImageInv, [Next]_vars PROVE ImageInv'
    OBVIOUS
  <2>1. LinesTyped'
    BY LinesStayTyped DEF ImageInv
  <2> QED BY <2>1, StageStaysTyped DEF ImageInv
<1> QED BY <1>1, <1>2, PTL DEF Spec

\* Every variable of the decoder keeps its type, for every camera and every
\* arrangement of lines it may show.
THEOREM TypeCorrect == Spec => []TypeOK
<1>1. ImageInv /\ SequenceInv => TypeOK
  <2> SUFFICES ASSUME ImageInv, SequenceInv PROVE TypeOK
    OBVIOUS
  <2>1. Range(closestLines) \subseteq Lines
    BY DEF ImageInv, LinesTyped, FoundLines, Range
  <2> QED BY <2>1 DEF ImageInv, ImageTyped, SequenceInv, TypeOK
<1> QED BY <1>1, ImageHolds, SequenceInBounds, PTL
-----------------------------------------------------------------------------
(* The middle line *)

Chosen == {"count", "sides", "dots", "corners", "adjust"}

LinesKnown ==
  \A n \in DOMAIN closestLines : \E i \in DOMAIN clustered_lines :
    closestLines[n] = clustered_lines[i][1]

NoDots == Cardinality(DotsOn(clustered_lines[1][1])) = 0

\* Of lines with the same dots one is erased only when they have none; then no
\* line passes any more.
MiddleInv ==
  stage \in Chosen =>
    /\ LinesKnown
    /\ BaselinesFound =>
         IF stage = "count" /\ retry > 0 THEN NoDots ELSE MiddleIsBetween

\* Lines with the same dots are all overfull or none is.
LEMMA EvenDots ==
  ASSUME LinesTyped, LinesKnown, BaselinesFound, Len(closestLines) >= baseline_cnt
  PROVE  NoDots <=> Overfull # {}
<1> DEFINE dots == DotsOn(clustered_lines[1][1])
           C == Cardinality(dots)
<1>1. closestLines \in Seq(FoundLines) /\ clustered_lines \in FoundClusters
  BY DEF LinesTyped
<1>2. \A n \in 1 .. 3 : n \in DOMAIN closestLines
  BY <1>1 DEF baseline_cnt
<1>3. ASSUME NEW n \in 1 .. 3 PROVE DotsOn(closestLines[n]) = dots
  <2>1. PICK i \in DOMAIN clustered_lines : closestLines[n] = clustered_lines[i][1]
    BY <1>2 DEF LinesKnown
  <2>2. clustered_lines[i] \in Range(clustered_lines)
    BY DEF Range
  <2>3. clustered_lines[i][1].dots = clustered_lines[1][1].dots
    BY <2>2 DEF BaselinesFound
  <2> QED BY <2>1, <2>3 DEF DotsOn
<1>4. IsFiniteSet(dots)
  <2>1. 1 \in 1 .. 3
    OBVIOUS
  <2>2. closestLines[1] \in FoundLines
    BY <1>1, <1>2, <2>1
  <2>3. IsFiniteSet(closestLines[1].dots) /\ IsFiniteSet({})
    BY <2>2, FS_EmptySet DEF FoundLines
  <2>4. IsFiniteSet(DotsOn(closestLines[1]))
    BY <2>3 DEF DotsOn
  <2> QED BY <1>3, <2>1, <2>4
<1>5. C \in Nat
  BY <1>4, FS_CardinalityType
<1> HIDE DEF C
<1>6. \A n \in 1 .. 3 : Cardinality(DotsOn(closestLines[n])) = C
  <2> SUFFICES ASSUME NEW n \in 1 .. 3 PROVE Cardinality(DotsOn(closestLines[n])) = C
    OBVIOUS
  <2> QED BY <1>3 DEF C
<1>7. \A l \in 1 .. 3 : \A j \in 1 .. 3 \ {l} :
        2 * Cardinality(DotsOn(closestLines[l])) >= 5 * Cardinality(DotsOn(closestLines[j]))
          <=> 2 * C >= 5 * C
  BY <1>6
<1>8. 2 * C >= 5 * C <=> C = 0
  BY <1>5
<1>9. ASSUME C = 0 PROVE Overfull # {}
  <2>1. 2 \in 1 .. 3 \ {1} /\ 1 \in 1 .. 3
    OBVIOUS
  <2>2. 2 * Cardinality(DotsOn(closestLines[1])) >= 5 * Cardinality(DotsOn(closestLines[2]))
    BY <1>7, <1>8, <1>9, <2>1
  <2>3. 1 \in Overfull
    BY <2>1, <2>2 DEF Overfull, baseline_cnt
  <2> QED BY <2>3
<1>10. ASSUME Overfull # {} PROVE C = 0
  <2>1. PICK l \in 1 .. 3 : \E j \in 1 .. 3 \ {l} :
          2 * Cardinality(DotsOn(closestLines[l])) >= 5 * Cardinality(DotsOn(closestLines[j]))
    BY <1>10 DEF Overfull, baseline_cnt
  <2> QED BY <1>7, <1>8, <2>1
<1>11. NoDots <=> C = 0
  BY DEF NoDots, C
<1> QED BY <1>9, <1>10, <1>11

\* The line that is taken first lies between the next two.
LEMMA MiddleIsTaken ==
  ASSUME LinesTyped, stage = "order", orderBaseLinesByClosestDot,
         dotNearCentre \in BOOLEAN
  PROVE  LinesKnown' /\ (BaselinesFound => MiddleIsBetween')
<1>1. clustered_lines \in FoundClusters /\ Len(clustered_lines) >= 3
  BY DEF LinesTyped, baseline_cnt
<1>2. PICK lines \in OrdersByDistance(clustered_lines) : closestLines' = MiddleFirst(lines)
  BY DEF orderBaseLinesByClosestDot
<1>3. /\ lines \in Seq(FoundLines) /\ Len(lines) >= 3
      /\ \A n \in 1 .. Len(lines) :
           \E i \in DOMAIN clustered_lines : lines[n] = clustered_lines[i][1]
  BY <1>1, OrderedLines
<1> DEFINE taken == MiddleFirst(lines)
           second == IF SameSide(lines[2], lines[3]) THEN 2 ELSE 1
           first == IF SameSide(lines[2], lines[3]) THEN 1 ELSE 2
<1>4. /\ taken \in Seq(FoundLines) /\ Len(taken) = Len(lines)
      /\ taken[1] = lines[second] /\ taken[2] = lines[first]
      /\ \A n \in 3 .. Len(lines) : taken[n] = lines[n]
  BY <1>3, SwappedLines
<1>5. closestLines' = taken /\ UNCHANGED clustered_lines
  BY <1>2 DEF orderBaseLinesByClosestDot
<1> HIDE DEF taken
<1>6. ASSUME NEW n \in DOMAIN taken
      PROVE  \E i \in DOMAIN clustered_lines : taken[n] = clustered_lines[i][1]
  <2>1. n \in 1 .. Len(lines) /\ second \in 1 .. Len(lines) /\ first \in 1 .. Len(lines)
    BY <1>3, <1>4
  <2>2. \E k \in 1 .. Len(lines) : taken[n] = lines[k]
    BY <1>4, <2>1
  <2> QED BY <1>3, <2>2
<1>7. LinesKnown'
  BY <1>5, <1>6 DEF LinesKnown
<1>8. ASSUME BaselinesFound PROVE MiddleIsBetween'
  <2>1. Apartly(clustered_lines)
    BY <1>8 DEF Apartly, BaselinesFound, Range
  <2>2. /\ FromDot(lines[1]) <= FromDot(lines[2])
        /\ FromDot(lines[2]) <= FromDot(lines[3])
        /\ \A n, k \in 1 .. 3 : lines[n].at = lines[k].at => n = k
    BY <1>1, <2>1, NearestThree
  <2> DEFINE a == lines[1].at
             b == lines[2].at
             c == lines[3].at
             from == OrderedFrom
  <2>3. lines[1] \in FoundLines /\ lines[2] \in FoundLines /\ lines[3] \in FoundLines
    BY <1>3
  <2>4. a \in Int /\ b \in Int /\ c \in Int
    BY <2>3 DEF FoundLines, Lines
  <2>5. from \in Int
    BY ViewAssumption DEF OrderedFrom
  <2>6. a # b /\ b # c /\ a # c
    BY <2>2
  <2>7. Distance(a, from) <= Distance(b, from) /\ Distance(b, from) <= Distance(c, from)
    BY <2>2 DEF FromDot
  <2>8. SameSide(lines[2], lines[3]) <=> (b - from) * (c - from) > 0
    BY DEF SameSide
  <2>9. taken[3] = lines[3]
    BY <1>3, <1>4
  <2> HIDE DEF a, b, c, from
  <2>10. IF (b - from) * (c - from) > 0 THEN (a - b) * (c - b) < 0
         ELSE (b - a) * (c - a) < 0
    BY <2>4, <2>5, <2>6, <2>7, NearestIsBetween
  <2>11. (taken[2].at - taken[1].at) * (taken[3].at - taken[1].at) < 0
    <3>1. CASE SameSide(lines[2], lines[3])
      <4>1. taken[1].at = b /\ taken[2].at = a /\ taken[3].at = c
        BY <1>4, <2>9, <3>1 DEF a, b, c
      <4> QED BY <2>8, <2>10, <3>1, <4>1
    <3>2. CASE ~SameSide(lines[2], lines[3])
      <4>1. taken[1].at = a /\ taken[2].at = b /\ taken[3].at = c
        BY <1>4, <2>9, <3>2 DEF a, b, c
      <4> QED BY <2>8, <2>10, <3>2, <4>1
    <3> QED BY <3>1, <3>2
  <2> QED BY <1>5, <2>11 DEF MiddleIsBetween
<1> QED BY <1>7, <1>8

LEMMA MiddleStays ==
  ASSUME ImageInv, MiddleInv, [Next]_vars PROVE MiddleInv'
<1>1. ASSUME stage' \notin Chosen PROVE MiddleInv'
  BY <1>1 DEF MiddleInv
<1>2. ASSUME UNCHANGED <<clustered_lines, closestLines>>,
             stage \in Chosen, ~(stage = "count" /\ retry > 0), stage' # "count"
      PROVE  MiddleInv'
  BY <1>2 DEF MiddleInv, LinesKnown, BaselinesFound, MiddleIsBetween
<1>3. CASE PreprocessLines
  <2>1. CASE orderBaseLinesByClosestDot
    <3>1. /\ stage = "order" /\ stage' = "count" /\ retry' = 0
          /\ UNCHANGED clustered_lines
      BY <2>1 DEF orderBaseLinesByClosestDot
    <3>2. LinesKnown' /\ (BaselinesFound => MiddleIsBetween')
      BY <2>1, <3>1, MiddleIsTaken DEF ImageInv, ImageTyped
    <3>3. BaselinesFound' = BaselinesFound
      BY <3>1 DEF BaselinesFound
    <3> QED BY <3>1, <3>2, <3>3 DEF MiddleInv
  <2>2. CASE findValidLinesByDotsNum
    <3>1. stage = "count" /\ LinesKnown /\ LinesTyped /\ retry \in 0 .. 2
      BY <2>2 DEF findValidLinesByDotsNum, MiddleInv, Chosen, ImageInv, ImageTyped
    <3>2. CASE Reject
      BY <1>1, <3>2 DEF Reject, Chosen
    <3>3. CASE /\ ~(Len(closestLines) < baseline_cnt)
               /\ Overfull # {} /\ closestLines' = RemoveAt(closestLines, Min(Overfull))
               /\ retry' = retry + 1 /\ stage' = "count"
               /\ UNCHANGED <<clustered_lines, dotNearCentre>>
      <4>1. closestLines \in Seq(FoundLines) /\ Len(closestLines) \in Nat
        BY <3>1 DEF LinesTyped
      <4>2. Min(Overfull) \in 1 .. Len(closestLines) /\ Len(closestLines) >= baseline_cnt
        BY <3>3, <4>1, OverfullOne DEF baseline_cnt
      <4> DEFINE left == RemoveAt(closestLines, Min(Overfull))
      <4>3. /\ left \in Seq(FoundLines)
            /\ \A n \in 1 .. Len(left) :
                 \E k \in 1 .. Len(closestLines) : left[n] = closestLines[k]
        BY <4>1, <4>2, ErasedLines
      <4>4. closestLines' = left
        BY <3>3
      <4> HIDE DEF left
      <4>5. LinesKnown'
        BY <3>1, <3>3, <4>1, <4>3, <4>4 DEF LinesKnown
      <4>6. ASSUME BaselinesFound PROVE NoDots'
        <5>1. NoDots
          BY <3>1, <3>3, <4>2, <4>6, EvenDots
        <5> QED BY <3>3, <5>1 DEF NoDots, DotsOn
      <4>7. BaselinesFound' = BaselinesFound
        BY <3>3 DEF BaselinesFound
      <4>8. retry' > 0
        BY <3>1, <3>3
      <4> QED BY <3>3, <4>5, <4>6, <4>7, <4>8 DEF MiddleInv
    <3>4. CASE /\ ~(Len(closestLines) < baseline_cnt)
               /\ Overfull = {} /\ retry' = 0 /\ stage' = "sides"
               /\ UNCHANGED <<clustered_lines, closestLines>>
      <4>1. closestLines \in Seq(FoundLines) /\ Len(closestLines) \in Nat
        BY <3>1 DEF LinesTyped
      <4>2. Len(closestLines) >= baseline_cnt
        BY <3>4, <4>1 DEF baseline_cnt
      <4>3. BaselinesFound => ~NoDots
        BY <3>1, <3>4, <4>2, EvenDots
      <4>4. BaselinesFound => MiddleIsBetween
        BY <3>1, <4>3 DEF MiddleInv, Chosen
      <4>5. /\ LinesKnown' = LinesKnown /\ BaselinesFound' = BaselinesFound
            /\ MiddleIsBetween' = MiddleIsBetween
        BY <3>4 DEF LinesKnown, BaselinesFound, MiddleIsBetween
      <4> QED BY <3>1, <3>4, <4>4, <4>5 DEF MiddleInv
    <3> QED BY <2>2, <3>2, <3>3, <3>4 DEF findValidLinesByDotsNum
  <2>3. CASE validateClosestBaseLinesByDirection
    BY <1>2, <2>3 DEF validateClosestBaseLinesByDirection, Reject, lineVars, Chosen
  <2>4. CASE FindSideDots
    BY <1>2, <2>4 DEF FindSideDots, Chosen
  <2>5. CASE findwarpPerspectiveCornerPoint
    BY <1>2, <2>5 DEF findwarpPerspectiveCornerPoint, Reject, lineVars, Chosen
  <2>6. CASE adjustCornersToPredefinedArea
    BY <1>1, <2>6 DEF adjustCornersToPredefinedArea, Reject, Chosen
  <2> QED BY <1>3, <2>1, <2>2, <2>3, <2>4, <2>5, <2>6 DEF PreprocessLines
<1>4. CASE BuildFloor \/ TakeImage
  BY <1>1, <1>4 DEF BuildFloor, TakeImage, DetectBaseLines, Reject, Chosen
<1>5. CASE CutOut \/ PreprocessView
  BY <1>1, <1>5
  DEF CutOut, preprocessPointData, PreprocessView, excludeMarginDots,
      checkAndCorrectOrientation, Reject, Chosen
<1>6. CASE Digitize \/ Publish \/ NextImage
  BY <1>1, <1>6 DEF Digitize, runDigitize, DigitizePiece, Publish, NextImage, Chosen
<1>7. CASE UNCHANGED vars
  BY <1>7
  DEF vars, preprocessorVars, lineVars, MiddleInv, LinesKnown, BaselinesFound, NoDots,
      DotsOn, MiddleIsBetween
<1> QED BY <1>3, <1>4, <1>5, <1>6, <1>7 DEF Next, image_callback

\* The line taken for the middle one lies between the other two, when only
\* baselines are found: wherever the centre of the image is, whether or not a
\* dot is found near it, and whichever baselines are missed.
THEOREM MiddleLineHolds == Spec => []SidesFlankMiddle
<1>1. Init => MiddleInv
  BY DEF Init, MiddleInv, Chosen
<1>2. ImageInv /\ MiddleInv /\ [Next]_vars => MiddleInv'
  BY MiddleStays
<1>3. MiddleInv => SidesFlankMiddle
  BY DEF MiddleInv, SidesFlankMiddle, Validated, Chosen
<1> QED BY <1>1, <1>2, <1>3, ImageHolds, PTL DEF Spec
-----------------------------------------------------------------------------
(* The dots of a line *)

LEMMA LastNumber ==
  ASSUME NEW T \in SUBSET Int, T # {}, IsFiniteSet(T)
  PROVE  \E x \in T : \A y \in T : y <= x
<1> DEFINE Bounded(n) == \A U \in SUBSET Int :
             IsFiniteSet(U) /\ U # {} /\ Cardinality(U) = n
               => \E x \in U : \A y \in U : y <= x
           S == {n \in Nat : Bounded(n)}
<1>1. 0 \in S
  BY FS_EmptySet
<1>2. ASSUME NEW n \in Nat, n \in S PROVE n + 1 \in S
  <2> SUFFICES ASSUME NEW U \in SUBSET Int, IsFiniteSet(U), U # {},
                      Cardinality(U) = n + 1
               PROVE  \E x \in U : \A y \in U : y <= x
    OBVIOUS
  <2>1. PICK z \in U : TRUE
    OBVIOUS
  <2>2. IsFiniteSet(U \ {z}) /\ Cardinality(U \ {z}) = n
    <3>1. IsFiniteSet(U \ {z}) /\ Cardinality(U \ {z}) = Cardinality(U) - 1
      BY <2>1, FS_RemoveElement
    <3> QED BY <3>1
  <2>3. CASE U \ {z} = {}
    BY <2>1, <2>3
  <2>4. CASE U \ {z} # {}
    <3>1. PICK x \in U \ {z} : \A y \in U \ {z} : y <= x
      BY <1>2, <2>2, <2>4
    <3>2. CASE z <= x
      BY <3>1, <3>2
    <3>3. CASE ~(z <= x)
      <4>1. z \in Int /\ x \in Int /\ x <= z
        BY <3>3
      <4>2. \A y \in U : y <= z
        BY <3>1, <4>1
      <4> QED BY <4>2
    <3> QED BY <3>2, <3>3
  <2> QED BY <2>3, <2>4
<1> HIDE DEF S
<1>3. Nat \subseteq S
  BY <1>1, <1>2, EveryNumber
<1>4. Cardinality(T) \in Nat
  BY FS_CardinalityType
<1>5. Bounded(Cardinality(T))
  <2> HIDE DEF Bounded
  <2> QED BY <1>3, <1>4 DEF S
<1> QED BY <1>5

\* The other way about.
LEMMA FirstNumber ==
  ASSUME NEW T \in SUBSET Int, T # {}, IsFiniteSet(T)
  PROVE  \E x \in T : \A y \in T : x <= y
<1> DEFINE U == {-x : x \in T}
<1>1. U \in SUBSET Int /\ U # {}
  <2>1. \A x \in T : -x \in Int
    OBVIOUS
  <2>2. U # {}
    OBVIOUS
  <2> QED BY <2>1, <2>2
<1>2. IsFiniteSet(U)
  <2> DEFINE f == [x \in T |-> -x]
  <2>1. f \in Surjection(T, U)
    BY DEF Surjection
  <2> QED BY <2>1, FS_Surjection
<1>3. PICK z \in U : \A y \in U : y <= z
  BY <1>1, <1>2, LastNumber
<1>4. PICK x \in T : z = -x
  BY <1>3
<1>5. ASSUME NEW y \in T PROVE x <= y
  <2>1. -y <= z
    BY <1>3
  <2> QED BY <1>4, <2>1
<1> QED BY <1>5

Dotted(dots) ==
  /\ dots \in SUBSET Int
  /\ \E last \in dots : \A r \in dots :
       r <= last /\ (r = last \/ r + 3 \in dots)
  /\ \E first \in dots : \A r \in dots : first <= r

LEMMA WholeIsDotted ==
  ASSUME NEW line \in FoundLines, Whole(line), line.dots # {}
  PROVE  Dotted(line.dots)
<1>1. line.dots \in SUBSET Int /\ IsFiniteSet(line.dots)
  BY DEF FoundLines, Lines
<1>2. \E x \in line.dots : \A y \in line.dots : x >= y
  <2>1. PICK x \in line.dots : \A y \in line.dots : y <= x
    BY <1>1, LastNumber
  <2>2. \A y \in line.dots : x >= y
    BY <1>1, <2>1
  <2> QED BY <2>2
<1>3. Max(line.dots) \in line.dots /\ \A y \in line.dots : Max(line.dots) >= y
  BY <1>2 DEF Max
<1>4. \E x \in line.dots : \A y \in line.dots : x <= y
  BY <1>1, FirstNumber
<1> DEFINE last == Max(line.dots)
<1>5. \A r \in line.dots : r = last \/ r + 3 \in line.dots
  BY DEF Whole, DotRows
<1>6. \A r \in line.dots : r <= last
  BY <1>1, <1>3
<1> QED BY <1>1, <1>3, <1>4, <1>5, <1>6 DEF Dotted

\* From a dot there is one in every third row up to the last, and the last is in
\* one of those rows.
LEMMA DotsInEveryThirdRow ==
  ASSUME NEW dots, Dotted(dots), NEW r \in dots, NEW last \in dots,
         \A q \in dots : q <= last
  PROVE  /\ \A k \in Nat : r + 3 * k <= last => r + 3 * k \in dots
         /\ \E k \in Nat : last = r + 3 * k
<1>1. r \in Int /\ last \in Int /\ r <= last
  BY DEF Dotted
<1>2. \A q \in dots : q = last \/ q + 3 \in dots
  <2>1. PICK m \in dots : \A q \in dots : q <= m /\ (q = m \/ q + 3 \in dots)
    BY DEF Dotted
  <2>2. m = last
    BY <2>1 DEF Dotted
  <2> QED BY <2>1, <2>2
<1>3. \A k \in Nat : r + 3 * k <= last => r + 3 * k \in dots
  <2> DEFINE S == {k \in Nat : r + 3 * k <= last => r + 3 * k \in dots}
  <2>1. 0 \in S
    BY <1>1
  <2>2. ASSUME NEW k \in Nat, k \in S PROVE k + 1 \in S
    <3> SUFFICES ASSUME r + 3 * (k + 1) <= last PROVE r + 3 * (k + 1) \in dots
      OBVIOUS
    <3>1. r + 3 * k < last /\ r + 3 * k + 3 = r + 3 * (k + 1)
      BY <1>1
    <3>2. r + 3 * k \in dots
      BY <1>1, <2>2, <3>1
    <3> QED BY <1>1, <1>2, <3>1, <3>2
  <2> HIDE DEF S
  <2>3. Nat \subseteq S
    BY <2>1, <2>2, EveryNumber
  <2> QED BY <2>3 DEF S
<1>4. \E k \in Nat : last = r + 3 * k
  <2> SUFFICES ASSUME \A k \in Nat : last # r + 3 * k PROVE FALSE
    OBVIOUS
  <2> DEFINE S == {k \in Nat : r + 3 * k \in dots}
  <2>1. 0 \in S
    BY <1>1
  <2>2. ASSUME NEW k \in Nat, k \in S PROVE k + 1 \in S
    <3>1. r + 3 * k + 3 = r + 3 * (k + 1)
      BY <1>1
    <3> QED BY <1>2, <2>2, <3>1
  <2> HIDE DEF S
  <2>3. Nat \subseteq S
    BY <2>1, <2>2, EveryNumber
  <2>4. PICK k \in Nat : k = last - r + 1
    BY <1>1
  <2>5. r + 3 * k \in dots
    BY <2>3, <2>4 DEF S
  <2>6. r + 3 * k > last
    BY <1>1, <2>4
  <2> QED BY <1>1, <2>5, <2>6
<1> QED BY <1>3, <1>4

After(dots, r) == {q \in dots : q > r}
Before(dots, r) == {q \in dots : q < r}

\* The dots on one side of a row: c of them, each three rows beyond the last.
Outward(dots, r, d, c) == dots = {r + d * k : k \in 1 .. c}

\* Counted from one of its dots, a line has its dots 3, 6, ... rows away.
LEMMA DotsFromADot ==
  ASSUME NEW dots, Dotted(dots), NEW r \in dots
  PROVE  /\ \E b \in Nat : Outward(After(dots, r), r, 3, b)
         /\ \E a \in Nat : Outward(Before(dots, r), r, -3, a)
<1>1. dots \in SUBSET Int /\ r \in Int
  BY DEF Dotted
<1>2. PICK last \in dots : \A q \in dots : q <= last
  BY DEF Dotted
<1>3. PICK first \in dots : \A q \in dots : first <= q
  BY DEF Dotted
<1>4. \A q \in dots : /\ \A k \in Nat : q + 3 * k <= last => q + 3 * k \in dots
                      /\ \E k \in Nat : last = q + 3 * k
  BY <1>2, DotsInEveryThirdRow
<1>5. PICK b \in Nat : last = r + 3 * b
  BY <1>4
<1>6. PICK c \in Nat : last = first + 3 * c
  BY <1>4
<1>7. {q \in dots : q > r} = {r + 3 * k : k \in 1 .. b}
  <2>1. ASSUME NEW q \in dots, q > r PROVE \E k \in 1 .. b : q = r + 3 * k
    <3>1. PICK l \in Nat : last = q + 3 * l
      BY <1>4
    <3>2. q = r + 3 * (b - l) /\ b - l \in 1 .. b
      BY <1>1, <1>5, <2>1, <3>1
    <3> QED BY <3>2
  <2>2. ASSUME NEW k \in 1 .. b PROVE r + 3 * k \in dots /\ r + 3 * k > r
    <3>1. k \in Nat /\ r + 3 * k <= last /\ r + 3 * k > r
      BY <1>1, <1>5
    <3> QED BY <1>4, <3>1
  <2> QED BY <2>1, <2>2
<1>8. c - b \in Nat /\ r = first + 3 * (c - b)
  BY <1>1, <1>3, <1>5, <1>6
<1>9. {q \in dots : q < r} = {r + (-3) * k : k \in 1 .. (c - b)}
  <2>1. ASSUME NEW q \in dots, q < r PROVE \E k \in 1 .. (c - b) : q = r + (-3) * k
    <3>1. PICK l \in Nat : last = q + 3 * l
      BY <1>4
    <3>2. q = r + (-3) * (l - b) /\ l - b \in Int /\ l - b >= 1
      BY <1>1, <1>5, <2>1, <3>1
    <3>3. l - b <= c - b
      BY <1>1, <1>3, <1>6, <3>1
    <3>4. l - b \in 1 .. (c - b)
      BY <1>8, <3>2, <3>3
    <3> QED BY <3>2, <3>4
  <2>2. ASSUME NEW k \in 1 .. (c - b) PROVE r + (-3) * k \in dots /\ r + (-3) * k < r
    <3>1. c - b - k \in Nat /\ k \in Int
      BY <1>8
    <3>2. first \in Int /\ first + 3 * (c - b - k) = r + (-3) * k
      BY <1>1, <1>8, <3>1
    <3>3. r + (-3) * k <= last /\ r + (-3) * k < r
      BY <1>1, <1>2, <3>1
    <3> QED BY <1>4, <3>1, <3>2, <3>3
  <2> QED BY <2>1, <2>2
<1> QED BY <1>7, <1>8, <1>9 DEF Outward, After, Before

LEMMA OutwardCounted ==
  ASSUME NEW r \in Int, NEW d \in {3, -3}, NEW c \in Nat, NEW dots,
         Outward(dots, r, d, c)
  PROVE  Cardinality(dots) = c
<1> DEFINE S == 1 .. c
           T == {r + d * k : k \in 1 .. c}
           f == [k \in S |-> r + d * k]
<1>1. IsFiniteSet(S) /\ Cardinality(S) = c
  <2>1. Cardinality(S) = IF 1 > c THEN 0 ELSE c - 1 + 1
    BY FS_Interval
  <2> QED BY <2>1, FS_Interval
<1>2. \A k, l \in S : r + d * k = r + d * l => k = l
  <2>1. CASE d = 3
    BY <2>1
  <2>2. CASE d = -3
    BY <2>2
  <2> QED BY <2>1, <2>2
<1>3. f \in Bijection(S, T)
  <2>1. f \in [S -> T]
    OBVIOUS
  <2>2. f \in Injection(S, T)
    BY <1>2, <2>1 DEF Injection, IsInjective
  <2>3. f \in Surjection(S, T)
    BY <2>1 DEF Surjection
  <2> QED BY <2>2, <2>3 DEF Bijection
<1>4. ExistsBijection(S, T)
  BY <1>3 DEF ExistsBijection
<1> HIDE DEF S, T, f
<1>5. Cardinality(T) = c
  BY <1>1, <1>4, FS_Bijection
<1> QED BY <1>5 DEF T, Outward

\* The nth dot of them.
LEMMA NthDotOutward ==
  ASSUME NEW r \in Int, NEW d \in {3, -3}, NEW c \in Nat, NEW dots,
         Outward(dots, r, d, c), NEW n \in 0 .. c
  PROVE  NthDot(dots, r, n) = r + d * n
<1> DEFINE upto(x) == {q \in dots : Distance(q, r) <= Distance(x, r)}
<1>1. \A k \in Nat : Distance(r + d * k, r) = 3 * k
  <2>1. CASE d = 3
    BY <2>1 DEF Distance
  <2>2. CASE d = -3
    BY <2>2 DEF Distance
  <2> QED BY <2>1, <2>2
<1>2. ASSUME NEW m \in 0 .. c PROVE Cardinality(upto(r + d * m)) = m
  <2>1. upto(r + d * m) = {r + d * k : k \in 1 .. m}
    <3>1. ASSUME NEW q \in dots, Distance(q, r) <= Distance(r + d * m, r)
          PROVE  \E k \in 1 .. m : q = r + d * k
      <4>1. PICK k \in 1 .. c : q = r + d * k
        BY DEF Outward
      <4>2. k \in Nat /\ m \in Nat
        OBVIOUS
      <4>3. 3 * k <= 3 * m
        BY <1>1, <3>1, <4>1, <4>2
      <4>4. k \in 1 .. m
        BY <4>3
      <4> QED BY <4>1, <4>4
    <3>2. ASSUME NEW k \in 1 .. m
          PROVE  r + d * k \in dots /\ Distance(r + d * k, r) <= Distance(r + d * m, r)
      <4>1. k \in 1 .. c /\ k \in Nat /\ m \in Nat /\ k <= m
        OBVIOUS
      <4>2. 3 * k <= 3 * m
        BY <4>1
      <4> QED BY <1>1, <4>1, <4>2 DEF Outward
    <3> QED BY <3>1, <3>2
  <2>2. m \in Nat
    OBVIOUS
  <2>3. Outward(upto(r + d * m), r, d, m)
    BY <2>1 DEF Outward
  <2> HIDE DEF upto
  <2> QED BY <2>2, <2>3, OutwardCounted
<1> HIDE DEF upto
<1>3. dots \cup {r} = {r + d * m : m \in 0 .. c}
  <2>1. r = r + d * 0
    OBVIOUS
  <2>2. \A q \in dots : \E m \in 0 .. c : q = r + d * m
    BY DEF Outward
  <2>3. ASSUME NEW m \in 0 .. c PROVE r + d * m \in dots \cup {r}
    <3>1. CASE m = 0
      BY <2>1, <3>1
    <3>2. CASE m # 0
      <4>1. m \in 1 .. c
        BY <3>2
      <4> QED BY <4>1 DEF Outward
    <3> QED BY <3>1, <3>2
  <2>4. 0 \in 0 .. c
    OBVIOUS
  <2> QED BY <2>1, <2>2, <2>3, <2>4
<1>4. r + d * n \in dots \cup {r} /\ Cardinality(upto(r + d * n)) = n
  BY <1>2, <1>3
<1>5. ASSUME NEW x \in dots \cup {r}, Cardinality(upto(x)) = n PROVE x = r + d * n
  <2>1. PICK m \in 0 .. c : x = r + d * m
    BY <1>3
  <2> QED BY <1>2, <1>5, <2>1
<1>6. NthDot(dots, r, n) = CHOOSE x \in dots \cup {r} : Cardinality(upto(x)) = n
  BY DEF NthDot, upto
<1> QED BY <1>4, <1>5, <1>6
-----------------------------------------------------------------------------
(* The corners *)

LEMMA MaxOfTwo ==
  ASSUME NEW e \in Nat, NEW x \in 0 .. e, NEW y \in 0 .. e
  PROVE  Max({x, y}) \in 0 .. e
<1>1. \E m \in {x, y} : \A k \in {x, y} : m >= k
  <2>1. CASE x >= y
    BY <2>1
  <2>2. CASE y >= x
    BY <2>2
  <2> QED BY <2>1, <2>2
<1>2. Max({x, y}) \in {x, y}
  BY <1>1 DEF Max
<1> QED BY <1>2

LEMMA SomeRows == expansion_point_num \in Nat
<1>1. ROI_height_dots \in Nat /\ ROI_height_dots - 1 >= 0
  BY ViewAssumption, DigitizerAssumption DEF entireRow
<1> QED BY <1>1 DEF expansion_point_num

\* The corners are moved by no more than the dots that are counted to them.
LEMMA ShiftBounded ==
  ASSUME NEW lines,
         \A i \in 1 .. 2 : /\ Cardinality(ToStart(lines[i], side_dots[i])) \in Nat
                           /\ Cardinality(ToEnd(lines[i], side_dots[i])) \in Nat
  PROVE  Shift(lines) \in -expansion_point_num .. expansion_point_num
<1> DEFINE e == expansion_point_num
           towards(i) == Expansion(ToEnd(lines[i], side_dots[i]))
           back(i) == Expansion(ToStart(lines[i], side_dots[i]))
           most == Max({towards(i) : i \in 1 .. 2})
           least == Max({back(i) : i \in 1 .. 2})
<1>1. e \in Nat
  BY SomeRows
<1>2. \A i \in 1 .. 2 : towards(i) \in 0 .. e /\ back(i) \in 0 .. e
  <2> SUFFICES ASSUME NEW i \in 1 .. 2 PROVE towards(i) \in 0 .. e /\ back(i) \in 0 .. e
    OBVIOUS
  <2> DEFINE starts == ToStart(lines[i], side_dots[i])
             ends == ToEnd(lines[i], side_dots[i])
  <2>1. Cardinality(starts) \in Nat /\ Cardinality(ends) \in Nat
    OBVIOUS
  <2> HIDE DEF starts, ends
  <2>2. Expansion(starts) \in 0 .. e /\ Expansion(ends) \in 0 .. e
    BY <1>1, <2>1 DEF Expansion
  <2> QED BY <2>2 DEF starts, ends
<1>3. Shift(lines) = IF most # 0 THEN most ELSE -least
  BY DEF Shift
<1> HIDE DEF e, towards, back
<1>4. most \in 0 .. e /\ least \in 0 .. e
  <2>1. 1 \in 1 .. 2 /\ 2 \in 1 .. 2 /\ \A i \in 1 .. 2 : i = 1 \/ i = 2
    OBVIOUS
  <2>2. /\ {towards(i) : i \in 1 .. 2} = {towards(1), towards(2)}
        /\ {back(i) : i \in 1 .. 2} = {back(1), back(2)}
    BY <2>1
  <2> QED BY <1>1, <1>2, <2>1, <2>2, MaxOfTwo
<1> HIDE DEF most, least
<1>5. Shift(lines) \in -e .. e
  BY <1>1, <1>3, <1>4
<1> QED BY <1>5 DEF e

\* Of the dots of a whole line the one in a row next to the centre is nearest to
\* the centre, and to that row.
LEMMA NearestRow ==
  ASSUME NEW line, Dotted(line.dots), NEW r \in -1 .. 1, r \in line.dots,
         NEW row \in {0, r}, NEW x \in NearestTo(line, row)
  PROVE  x = r
<1>1. x \in line.dots /\ (x - row) * (x - row) <= (r - row) * (r - row)
  BY DEF NearestTo
<1>2. line.dots \in SUBSET Int /\ x \in Int /\ r \in Int /\ row \in Int
  BY <1>1 DEF Dotted
<1>3. (r - row) * (r - row) <= 1
  <2>1. r - row \in {-1, 0, 1}
    OBVIOUS
  <2> QED BY <2>1
<1>4. x = r \/ x >= r + 3 \/ x <= r - 3
  <2>1. CASE x > r
    <3>1. PICK b \in Nat : Outward(After(line.dots, r), r, 3, b)
      BY DotsFromADot
    <3>2. PICK k \in 1 .. b : x = r + 3 * k
      BY <1>1, <2>1, <3>1 DEF Outward, After
    <3> QED BY <1>2, <3>2
  <2>2. CASE x < r
    <3>1. PICK a \in Nat : Outward(Before(line.dots, r), r, -3, a)
      BY DotsFromADot
    <3>2. PICK k \in 1 .. a : x = r + (-3) * k
      BY <1>1, <2>2, <3>1 DEF Outward, Before
    <3> QED BY <1>2, <3>2
  <2> QED BY <1>2, <2>1, <2>2
<1>5. \A y \in Int : y >= 2 \/ y <= -2 => y * y >= 4
  <2>1. \A y \in Int : y >= 2 => y * y >= 2 * y
    OBVIOUS
  <2>2. \A y \in Int : y <= -2 => y * y >= (-2) * y
    OBVIOUS
  <2> QED BY <2>1, <2>2
<1> DEFINE y == x - row
<1>6. y \in Int /\ y * y <= 1
  <2>1. (x - row) * (x - row) \in Int /\ (r - row) * (r - row) \in Int
    BY <1>2
  <2> QED BY <1>1, <1>2, <1>3, <2>1
<1>7. x = r \/ y >= 2 \/ y <= -2
  BY <1>2, <1>4
<1> HIDE DEF y
<1> QED BY <1>5, <1>6, <1>7

SideDotsChosen ==
  \E middle \in NearestTo(closestLines[1], 0) :
  \E side1 \in NearestTo(closestLines[2], middle),
     side2 \in NearestTo(closestLines[3], middle) :
    side_dots = <<side1, side2>>

LEMMA CornersAgree ==
  ASSUME closestLines \in Seq(FoundLines), Len(closestLines) >= 3,
         SideDotsChosen, CornersFound(SideLines),
         \A i \in 1 .. 3 : Whole(closestLines[i]),
         NEW r \in -1 .. 1, \A i \in 1 .. 3 : r \in closestLines[i].dots,
         SideLines[1].swapped = SideLines[2].swapped
  PROVE  CornersOn(SideLines)[1] = CornersOn(SideLines)[2]
<1>1. \A i \in 1 .. 3 : closestLines[i] \in FoundLines
  <2>1. \A i \in 1 .. 3 : i \in 1 .. Len(closestLines)
    OBVIOUS
  <2> HIDE DEF FoundLines
  <2> QED BY <2>1
<1>2. \A i \in 1 .. 3 : Dotted(closestLines[i].dots)
  <2> SUFFICES ASSUME NEW i \in 1 .. 3 PROVE Dotted(closestLines[i].dots)
    OBVIOUS
  <2> QED BY <1>1, WholeIsDotted
<1>3. side_dots[1] = r /\ side_dots[2] = r
  <2>1. PICK middle \in NearestTo(closestLines[1], 0) :
          \E side1 \in NearestTo(closestLines[2], middle),
             side2 \in NearestTo(closestLines[3], middle) :
            side_dots = <<side1, side2>>
    BY DEF SideDotsChosen
  <2>2. middle = r
    BY <1>2, NearestRow
  <2>3. PICK side1 \in NearestTo(closestLines[2], middle),
             side2 \in NearestTo(closestLines[3], middle) :
          side_dots = <<side1, side2>>
    BY <2>1
  <2>4. side1 = r
    BY <1>2, <2>2, NearestRow
  <2>5. side2 = r
    BY <1>2, <2>2, NearestRow
  <2> QED BY <2>3, <2>4, <2>5
<1> DEFINE lines == SideLines
           w == lines[1].swapped
           d == IF w THEN 3 ELSE -3
           starts(i) == ToStart(lines[i], side_dots[i])
           ends(i) == ToEnd(lines[i], side_dots[i])
           e == expansion_point_num
           s == Shift(lines)
<1>4. \A i \in 1 .. 2 : /\ Dotted(lines[i].dots) /\ r \in lines[i].dots
                        /\ lines[i].swapped = w /\ side_dots[i] = r
  <2>1. lines[1].dots = closestLines[2].dots /\ lines[2].dots = closestLines[3].dots
    BY <1>1 DEF SideLines, FoundLines, Lines
  <2>2. \A i \in 1 .. 2 : i = 1 \/ i = 2
    OBVIOUS
  <2>3. 2 \in 1 .. 3 /\ 3 \in 1 .. 3
    OBVIOUS
  <2> HIDE DEF lines
  <2> QED BY <1>2, <1>3, <2>1, <2>2, <2>3 DEF lines
<1> HIDE DEF lines, w
<1>5. \A i \in 1 .. 2 : \E c \in Nat : Outward(starts(i), r, d, c)
  <2> SUFFICES ASSUME NEW i \in 1 .. 2 PROVE \E c \in Nat : Outward(starts(i), r, d, c)
    OBVIOUS
  <2>1. starts(i) = IF w THEN After(lines[i].dots, r) ELSE Before(lines[i].dots, r)
    BY <1>4 DEF ToStart, Above, Below, After, Before
  <2>2. /\ \E b \in Nat : Outward(After(lines[i].dots, r), r, 3, b)
        /\ \E a \in Nat : Outward(Before(lines[i].dots, r), r, -3, a)
    BY <1>4, DotsFromADot
  <2> HIDE DEF starts
  <2> QED BY <2>1, <2>2
<1>6. \A i \in 1 .. 2 : \E c \in Nat : Outward(ends(i), r, -d, c)
  <2> SUFFICES ASSUME NEW i \in 1 .. 2 PROVE \E c \in Nat : Outward(ends(i), r, -d, c)
    OBVIOUS
  <2>1. ends(i) = IF w THEN Before(lines[i].dots, r) ELSE After(lines[i].dots, r)
    BY <1>4 DEF ToEnd, Above, Below, After, Before
  <2>2. /\ \E b \in Nat : Outward(After(lines[i].dots, r), r, 3, b)
        /\ \E a \in Nat : Outward(Before(lines[i].dots, r), r, -3, a)
    BY <1>4, DotsFromADot
  <2>3. -d = IF w THEN -3 ELSE 3
    OBVIOUS
  <2> HIDE DEF ends
  <2> QED BY <2>1, <2>2, <2>3
<1>7. d \in {3, -3} /\ -d \in {3, -3} /\ r \in Int
  <2>1. \A n \in {3, -3} : -n \in {3, -3}
    OBVIOUS
  <2>2. d \in {3, -3} /\ r \in Int
    OBVIOUS
  <2> HIDE DEF d
  <2> QED BY <2>1, <2>2
<1> HIDE DEF d
<1>8. ASSUME NEW i \in 1 .. 2
      PROVE  Cardinality(starts(i)) \in Nat /\ Cardinality(ends(i)) \in Nat
  <2> HIDE DEF starts, ends
  <2>1. PICK a \in Nat : Outward(starts(i), r, d, a)
    BY <1>5
  <2>2. PICK b \in Nat : Outward(ends(i), r, -d, b)
    BY <1>6
  <2> QED BY <1>7, <2>1, <2>2, OutwardCounted
<1>9. e \in Nat /\ s \in -e .. e
  BY <1>8, SomeRows, ShiftBounded
<1>10. \A i \in 1 .. 2 : /\ Cardinality(starts(i)) >= e + s
                         /\ Cardinality(ends(i)) >= e - s
  BY DEF CornersFound, lines
<1>11. CornersOn(SideLines) =
         [i \in 1 .. 2 |-> <<NthDot(starts(i), side_dots[i], e + s),
                             NthDot(ends(i), side_dots[i], e - s)>>]
  BY DEF CornersOn, lines
<1> HIDE DEF e, s, starts, ends
<1>12. e + s \in Nat /\ e - s \in Nat
  BY <1>9
<1>13. ASSUME NEW i \in 1 .. 2
       PROVE  /\ NthDot(starts(i), r, e + s) = r + d * (e + s)
              /\ NthDot(ends(i), r, e - s) = r + (-d) * (e - s)
  <2>1. PICK a \in Nat : Outward(starts(i), r, d, a)
    BY <1>5
  <2>2. PICK b \in Nat : Outward(ends(i), r, -d, b)
    BY <1>6
  <2>3. Cardinality(starts(i)) = a
    BY <1>7, <2>1, OutwardCounted
  <2>4. Cardinality(ends(i)) = b
    BY <1>7, <2>2, OutwardCounted
  <2>5. e + s \in 0 .. a /\ e - s \in 0 .. b
    BY <1>10, <1>12, <2>3, <2>4
  <2> HIDE DEF Outward
  <2> QED BY <1>7, <2>1, <2>2, <2>5, NthDotOutward
<1>14. 1 \in 1 .. 2 /\ 2 \in 1 .. 2
  OBVIOUS
<1> QED BY <1>4, <1>11, <1>13, <1>14

\* Three lines are left when the corners are sought, and the corners are counted
\* on the outer two.
CornersInv ==
  /\ stage \in {"sides", "dots", "corners", "adjust"} => Len(closestLines) >= 3
  /\ stage = "corners" => SideDotsChosen
  /\ CornersOnTwoRows

LEMMA CornersStay ==
  ASSUME ImageInv, CornersInv, [Next]_vars PROVE CornersInv'
<1>1. ASSUME stage' \notin {"sides", "dots", "corners", "adjust"} PROVE CornersInv'
  BY <1>1 DEF CornersInv, CornersOnTwoRows
<1>2. CASE PreprocessLines
  <2>1. CASE orderBaseLinesByClosestDot
    BY <1>1, <2>1 DEF orderBaseLinesByClosestDot
  <2>2. CASE findValidLinesByDotsNum
    <3>1. CASE stage' = "sides"
      <4>1. ~(Len(closestLines) < baseline_cnt) /\ UNCHANGED closestLines
        BY <2>2, <3>1 DEF findValidLinesByDotsNum, Reject
      <4>2. Len(closestLines) \in Nat
        BY DEF ImageInv, LinesTyped
      <4>3. Len(closestLines') >= 3
        BY <4>1, <4>2 DEF baseline_cnt
      <4> QED BY <3>1, <4>3 DEF CornersInv, CornersOnTwoRows
    <3> QED BY <1>1, <2>2, <3>1 DEF findValidLinesByDotsNum, Reject
  <2>3. CASE validateClosestBaseLinesByDirection
    BY <1>1, <2>3
    DEF validateClosestBaseLinesByDirection, Reject, lineVars, CornersInv, CornersOnTwoRows
  <2>4. CASE FindSideDots
    <3>1. SideDotsChosen'
      BY <2>4 DEF FindSideDots, SideDotsChosen, NearestTo
    <3> QED BY <2>4, <3>1 DEF FindSideDots, CornersInv, CornersOnTwoRows
  <2>5. CASE findwarpPerspectiveCornerPoint
    <3>1. stage = "corners" /\ SideDotsChosen /\ Len(closestLines) >= 3
          /\ closestLines \in Seq(FoundLines)
      BY <2>5 DEF findwarpPerspectiveCornerPoint, CornersInv, ImageInv, LinesTyped
    <3>2. CASE Reject
      BY <1>1, <3>2 DEF Reject
    <3>3. CASE UNCHANGED <<stage, lineVars>>
      BY <3>1, <3>3 DEF lineVars, CornersInv, SideDotsChosen, NearestTo, CornersOnTwoRows
    <3>4. CASE /\ CornersFound(SideLines) /\ corners' = CornersOn(SideLines)
               /\ stage' = "adjust" /\ UNCHANGED <<retry, closestLines>>
      <4>1. SideLines' = SideLines
        BY <3>4 DEF SideLines
      <4>2. ASSUME \A i \in 1 .. 3 : Whole(closestLines[i]),
                   \E r \in -1 .. 1 : \A i \in 1 .. 3 : r \in closestLines[i].dots,
                   SideLines[1].swapped = SideLines[2].swapped
            PROVE  ToSet(corners'[1]) = ToSet(corners'[2])
        <5>1. PICK r \in -1 .. 1 : \A i \in 1 .. 3 : r \in closestLines[i].dots
          BY <4>2
        <5>2. CornersOn(SideLines)[1] = CornersOn(SideLines)[2]
          BY <3>1, <3>4, <4>2, <5>1, CornersAgree
        <5> QED BY <3>4, <5>2
      <4>3. CornersOnTwoRows'
        BY <3>4, <4>1, <4>2 DEF CornersOnTwoRows, Whole, ToSet
      <4> QED BY <3>1, <3>4, <4>3 DEF CornersInv
    <3> QED BY <2>5, <3>2, <3>3, <3>4 DEF findwarpPerspectiveCornerPoint
  <2>6. CASE adjustCornersToPredefinedArea
    BY <1>1, <2>6 DEF adjustCornersToPredefinedArea, Reject
  <2> QED BY <1>2, <2>1, <2>2, <2>3, <2>4, <2>5, <2>6 DEF PreprocessLines
<1>3. CASE BuildFloor \/ TakeImage
  BY <1>1, <1>3 DEF BuildFloor, TakeImage, DetectBaseLines, Reject
<1>4. CASE CutOut \/ PreprocessView
  BY <1>1, <1>4
  DEF CutOut, preprocessPointData, PreprocessView, excludeMarginDots,
      checkAndCorrectOrientation, Reject
<1>5. CASE Digitize \/ Publish \/ NextImage
  BY <1>1, <1>5 DEF Digitize, runDigitize, DigitizePiece, Publish, NextImage
<1>6. CASE UNCHANGED vars
  <2>1. UNCHANGED <<stage, retry, closestLines, side_dots, corners>>
    BY <1>6 DEF vars, preprocessorVars, lineVars
  <2>2. SideLines' = SideLines
    BY <2>1 DEF SideLines
  <2>3. SideDotsChosen' = SideDotsChosen
    BY <2>1 DEF SideDotsChosen, NearestTo
  <2>4. CornersOnTwoRows' = CornersOnTwoRows
    BY <2>1, <2>2 DEF CornersOnTwoRows, Whole, ToSet
  <2> QED BY <2>1, <2>3, <2>4 DEF CornersInv
<1> QED BY <1>2, <1>3, <1>4, <1>5, <1>6 DEF Next, image_callback

\* The corners of both outer lines are in the same two rows when no dot of a line
\* is missing, one row next to the centre has a dot on each of them and their end
\* points are in the same order, however many dots the two lines have.
THEOREM CornersHold == Spec => []CornersOnTwoRows
<1>1. Init => CornersInv
  BY DEF Init, CornersInv, CornersOnTwoRows
<1>2. ImageInv /\ CornersInv /\ [Next]_vars => CornersInv'
  BY CornersStay
<1>3. CornersInv => CornersOnTwoRows
  BY DEF CornersInv
<1> QED BY <1>1, <1>2, <1>3, ImageHolds, PTL DEF Spec
=============================================================================
