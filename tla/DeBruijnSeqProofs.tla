------------------------- MODULE DeBruijnSeqProofs -------------------------
(***************************************************************************)
(* Proofs about DeBruijnSeq, for every alphabet and every length of a      *)
(* word: the loop stays within its buffers, and what it writes has every   *)
(* word once.                                                              *)
(***************************************************************************)
EXTENDS DeBruijnSeq, FiniteSetTheorems, TLAPS

-----------------------------------------------------------------------------
(* Numbers *)

\* A set of numbers has a least one.
LEMMA LeastNumber ==
  ASSUME NEW T \in SUBSET Nat, T # {}
  PROVE  \E x \in T : \A y \in T : x <= y
<1>1. PICK x \in T : \A y \in T : <<y, x>> \notin OpToRel(<, Nat)
  BY NatLessThanWellFounded, WFMin
<1>2. \A y \in T : ~(y < x)
  BY <1>1 DEF OpToRel
<1> QED BY <1>2

\* Induction for a property that is the membership in a set.
LEMMA EveryNumber ==
  ASSUME NEW S, 0 \in S, \A n \in Nat : n \in S => n + 1 \in S
  PROVE  Nat \subseteq S
<1> SUFFICES ASSUME Nat \ S # {} PROVE FALSE
  OBVIOUS
<1>1. PICK x \in Nat \ S : \A y \in Nat \ S : x <= y
  BY LeastNumber
<1>2. x # 0 /\ x - 1 \in Nat
  BY <1>1
<1>3. x - 1 \in S
  BY <1>1, <1>2
<1>4. x - 1 + 1 = x
  OBVIOUS
<1> QED BY <1>1, <1>2, <1>3, <1>4

\* Quotient and remainder.
LEMMA Divided ==
  ASSUME NEW n \in Nat \ {0}, NEW a \in Int
  PROVE  \E q \in Int, r \in 0 .. n - 1 : r = a % n /\ a = n * q + r
<1>1. a \div n \in Int /\ a % n \in 0 .. n - 1 /\ a = n * (a \div n) + (a % n)
  OBVIOUS
<1> QED BY <1>1

LEMMA Remainder ==
  ASSUME NEW n \in Nat \ {0}, NEW q \in Int, NEW r \in 0 .. n - 1
  PROVE  (n * q + r) % n = r
  OBVIOUS

\* Places on a ring of n: a turn more or less makes no difference.
LEMMA Modulo ==
  ASSUME NEW n \in Nat \ {0}, NEW a \in Int
  PROVE  /\ a % n \in 0 .. n - 1
         /\ 0 <= a /\ a < n => a % n = a
         /\ n <= a /\ a < 2 * n => a % n = a - n
         /\ (a + n) % n = a % n
<1>1. PICK q \in Int, r \in 0 .. n - 1 : r = a % n /\ a = n * q + r
  BY Divided
<1>2. ASSUME 0 <= a, a < n PROVE a % n = a
  <2>1. (n * 0 + a) % n = a
    BY <1>2, Remainder
  <2> QED BY <2>1
<1>3. ASSUME n <= a, a < 2 * n PROVE a % n = a - n
  <2>1. (n * 1 + (a - n)) % n = a - n
    BY <1>3, Remainder
  <2>2. n * 1 + (a - n) = a
    OBVIOUS
  <2> QED BY <2>1, <2>2
<1>4. (a + n) % n = a % n
  <2>1. (n * (q + 1) + r) % n = r
    BY Remainder
  <2>2. n * (q + 1) + r = a + n
    BY <1>1
  <2> QED BY <2>1, <2>2, <1>1
<1> QED BY <1>1, <1>2, <1>3, <1>4

LEMMA ModuloTwice ==
  ASSUME NEW n \in Nat \ {0}, NEW a \in Int, NEW c \in Int
  PROVE  ((a % n) + c) % n = (a + c) % n
<1>1. PICK q \in Int, r \in 0 .. n - 1 : r = a % n /\ a = n * q + r
  BY Divided
<1>2. r + c \in Int
  OBVIOUS
<1>3. PICK p \in Int, s \in 0 .. n - 1 : s = (r + c) % n /\ r + c = n * p + s
  BY <1>2, Divided
<1>4. a + c = n * (q + p) + s /\ q + p \in Int
  <2>1. n * q \in Int /\ n * p \in Int /\ n * (q + p) = n * q + n * p
    BY Z3
  <2>2. a = n * q + r /\ r + c = n * p + s /\ r \in Int /\ s \in Int
    BY <1>1, <1>3
  <2> QED BY <2>1, <2>2
<1>5. (n * (q + p) + s) % n = s
  BY <1>4, Remainder
<1> QED BY <1>1, <1>3, <1>4, <1>5

\* Two places less than a turn apart differ.
LEMMA ModuloApart ==
  ASSUME NEW n \in Nat \ {0}, NEW a \in Int, NEW b \in Int, a < b, b - a < n
  PROVE  a % n # b % n
<1> SUFFICES ASSUME a % n = b % n PROVE FALSE
  OBVIOUS
<1>1. PICK q \in Int, r \in 0 .. n - 1 : r = a % n /\ a = n * q + r
  BY Divided
<1>2. PICK p \in Int, s \in 0 .. n - 1 : s = b % n /\ b = n * p + s
  BY Divided
<1>3. PICK d \in Int : d = p - q
  OBVIOUS
<1>4. b - a = n * d
  BY <1>1, <1>2, <1>3
<1>5. 0 < n * d /\ n * d < n
  BY <1>4
<1>6. d <= 0 \/ d >= 1
  OBVIOUS
<1> QED BY <1>5, <1>6

-----------------------------------------------------------------------------
(* The de Bruijn sequences *)

\* The word is read and written within its bounds.
SequenceInv == SequenceTypeOK /\ ReadsInsideWord

\* A run of dfsIterative for words of any length begins within its bounds.
LEMMA BeginInBounds ==
  ASSUME NEW m \in Nat \ {0}, StartSequence(m) PROVE SequenceInv'
  BY AlphabetAssumption
  DEF StartSequence, SequenceInv, SequenceTypeOK, ReadsInsideWord, Symbols

\* A step of the loop reads and writes the word within its bounds.
LEMMA LoopInBounds ==
  ASSUME SequenceInv, dfsIterative PROVE SequenceInv'
<1> USE AlphabetAssumption DEF SequenceInv, SequenceTypeOK, ReadsInsideWord, Symbols
<1>1. CASE Extend
  <2>1. pos - period \in 0 .. order
    BY <1>1 DEF Extend, RoomInWord
  <2>2. word[pos - period] \in Symbols
    BY <2>1
  <2> QED BY <1>1, <2>2 DEF Extend, RoomInWord
<1>2. CASE NextWord
  <2>1. [i \in 1 .. period |-> word[i]] \in Seq(Symbols)
    <3>1. \A i \in 1 .. period : word[i] \in Symbols
      OBVIOUS
    <3> QED BY <3>1
  <2>2. dBSeq' \in Seq(Symbols)
    <3> DEFINE written == [i \in 1 .. period |-> word[i]]
    <3> HIDE DEF written, Symbols
    <3>1. dBSeq \o written \in Seq(Symbols)
      BY <2>1 DEF written
    <3>2. dBSeq' = WithLyndonWord
      BY <1>2 DEF NextWord
    <3> QED BY <3>1, <3>2 DEF WithLyndonWord, written
  <2>3. PICK last \in 0 .. order :
          /\ LastRaisable(last)
          /\ IF last = 0
             THEN pos' = 0 /\ UNCHANGED <<word, period>>
             ELSE /\ word' = [word EXCEPT ![last] = @ + 1]
                  /\ period' = last
                  /\ pos' = last + 1
    BY <1>2 DEF NextWord
  <2>4. order' = order
    BY <1>2 DEF NextWord
  <2>5. CASE last = 0
    BY <2>2, <2>3, <2>4, <2>5
  <2>6. CASE last # 0
    <3>1. word[last] + 1 \in Symbols
      BY <2>3, <2>6 DEF LastRaisable, K_LIMIT
    <3>2. word' \in [0 .. order -> Symbols]
      BY <2>3, <2>6, <3>1
    <3>3. period' \in 1 .. order /\ pos' \in 0 .. order + 1 /\ period' <= pos'
      BY <2>3, <2>6
    <3> QED BY <2>2, <2>4, <3>2, <3>3
  <2> QED BY <2>5, <2>6
<1> QED BY <1>1, <1>2 DEF dfsIterative

-----------------------------------------------------------------------------
(* The end of a de Bruijn sequence *)

\* The last symbols are the greatest.
GreatestAtEnd(s, n) ==
  n <= Len(s) /\ \A i \in Len(s) - n + 1 .. Len(s) : s[i] = K_LIMIT

\* The word repeats its period as far as it is extended.  Once it begins with
\* the greatest symbol it is made of it, and so is what has been written last.
TailInv ==
  /\ word[0] # K_LIMIT
  /\ pos = 1 => word[1] # K_LIMIT
  /\ \A i \in period + 1 .. pos - 1 : word[i] = word[i - period]
  /\ pos > 0 /\ word[1] = K_LIMIT => period = 1 /\ GreatestAtEnd(dBSeq, order - 1)
  /\ Written => GreatestAtEnd(dBSeq, order)

\* A run begins with it.
LEMMA BeginKeepsTail ==
  ASSUME NEW m \in Nat \ {0}, StartSequence(m) PROVE TailInv'
  BY AlphabetAssumption DEF StartSequence, TailInv, Written, K_LIMIT

\* A word that repeats its first symbol is made of it.
LEMMA SamePeriod ==
  ASSUME NEW n \in Nat, NEW w, \A i \in 2 .. n : w[i] = w[i - 1]
  PROVE  \A i \in 1 .. n : w[i] = w[1]
<1> DEFINE S == {k \in Nat : k + 1 <= n => w[k + 1] = w[1]}
<1>1. 0 \in S
  OBVIOUS
<1>2. ASSUME NEW k \in Nat, k \in S PROVE k + 1 \in S
  <2> SUFFICES ASSUME k + 2 <= n PROVE w[k + 2] = w[1]
    OBVIOUS
  <2>1. k + 2 \in 2 .. n /\ k + 2 - 1 = k + 1
    OBVIOUS
  <2> QED BY <1>2, <2>1
<1> HIDE DEF S
<1>3. Nat \subseteq S
  BY <1>1, <1>2, EveryNumber
<1>4. ASSUME NEW i \in 1 .. n PROVE w[i] = w[1]
  <2>1. i - 1 \in S /\ i - 1 + 1 = i
    BY <1>3
  <2> QED BY <2>1 DEF S
<1> QED BY <1>4

\* Where a symbol is not the greatest the first one is not either.
LEMMA FirstIsNotGreatest ==
  ASSUME SequenceInv, TailInv, pos = order + 1, NEW i \in 1 .. order, word[i] # K_LIMIT
  PROVE  word[1] # K_LIMIT
<1> SUFFICES ASSUME word[1] = K_LIMIT PROVE FALSE
  OBVIOUS
<1>1. order \in Nat \ {0} /\ period \in 1 .. order
  BY DEF SequenceInv, SequenceTypeOK
<1>2. period = 1 /\ \A k \in 2 .. order : word[k] = word[k - 1]
  BY <1>1 DEF TailInv
<1>3. \A k \in 1 .. order : word[k] = word[1]
  BY <1>1, <1>2, SamePeriod
<1> QED BY <1>3

\* A step of the loop keeps it.
LEMMA LoopKeepsTail ==
  ASSUME SequenceInv, TailInv, dfsIterative PROVE TailInv'
<1> DEFINE K == K_LIMIT
<1>1. /\ order \in Nat \ {0} /\ word \in [0 .. order -> Symbols]
      /\ pos \in 0 .. order + 1 /\ period \in 1 .. order
      /\ dBSeq \in Seq(Symbols) /\ (pos > 0 => period <= pos)
  BY DEF SequenceInv, SequenceTypeOK, ReadsInsideWord
<1>2. CASE Extend
  <2>1. /\ pos \in 1 .. order /\ pos' = pos + 1 /\ period' = period /\ order' = order
        /\ dBSeq' = dBSeq /\ word' = [word EXCEPT ![pos] = word[pos - period]]
        /\ pos - period \in 0 .. order /\ pos - period < pos
    BY <1>1, <1>2 DEF Extend, RoomInWord
  <2>2. /\ word'[pos] = word[pos - period]
        /\ \A i \in 0 .. order : i # pos => word'[i] = word[i]
    BY <1>1, <2>1
  <2>3. word'[0] = word[0]
    BY <1>1, <2>1, <2>2
  <2>4. pos' # 1 /\ pos' # 0 /\ pos' > 0
    BY <2>1
  <2>5. ASSUME NEW i \in period' + 1 .. pos' - 1 PROVE word'[i] = word'[i - period']
    <3>1. i \in period + 1 .. pos /\ i \in 0 .. order
          /\ i - period \in 0 .. order /\ i - period # pos
      BY <1>1, <2>1
    <3>2. CASE i = pos
      BY <2>1, <2>2, <3>1, <3>2
    <3>3. CASE i # pos
      <4>1. i \in period + 1 .. pos - 1
        BY <1>1, <2>1, <3>1, <3>3
      <4> QED BY <2>1, <2>2, <3>1, <3>3, <4>1 DEF TailInv
    <3> QED BY <3>2, <3>3
  <2>6. ASSUME word'[1] = K PROVE period = 1 /\ GreatestAtEnd(dBSeq, order - 1)
    <3>1. CASE pos = 1
      <4>1. pos - period = 0
        BY <1>1, <2>1, <3>1
      <4> QED BY <2>2, <2>6, <3>1, <4>1 DEF TailInv
    <3>2. CASE pos # 1
      <4>1. word'[1] = word[1] /\ pos > 0
        BY <1>1, <2>1, <2>2, <3>2
      <4> QED BY <2>6, <4>1 DEF TailInv
    <3> QED BY <3>1, <3>2
  <2> QED BY <2>1, <2>3, <2>4, <2>5, <2>6 DEF TailInv, Written
<1>3. CASE NextWord
  <2>1. pos = order + 1 /\ order' = order /\ dBSeq' = WithLyndonWord
    BY <1>3 DEF NextWord
  <2>2. PICK last \in 0 .. order :
          /\ LastRaisable(last)
          /\ IF last = 0
             THEN pos' = 0 /\ UNCHANGED <<word, period>>
             ELSE /\ word' = [word EXCEPT ![last] = @ + 1]
                  /\ period' = last
                  /\ pos' = last + 1
    BY <1>3 DEF NextWord
  <2>3. \A i \in last + 1 .. order : word[i] = K
    BY <2>2 DEF LastRaisable
  <2>4. \A i \in period + 1 .. order : word[i] = word[i - period]
    BY <1>1, <2>1 DEF TailInv
  <2>5. CASE last = 0
    <3>1. pos' = 0 /\ word' = word /\ period' = period
      BY <2>2, <2>5
    <3>2. word[1] = K
      BY <1>1, <2>3, <2>5
    <3>3. period = 1 /\ GreatestAtEnd(dBSeq, order - 1)
      BY <1>1, <2>1, <3>2 DEF TailInv
    <3>4. dBSeq' = dBSeq \o [i \in 1 .. 1 |-> word[i]]
      BY <1>1, <2>1, <3>3 DEF WithLyndonWord
    <3>5. /\ Len(dBSeq') = Len(dBSeq) + 1 /\ dBSeq'[Len(dBSeq) + 1] = K
          /\ \A i \in 1 .. Len(dBSeq) : dBSeq'[i] = dBSeq[i]
          /\ Len(dBSeq) \in Nat
      <4> DEFINE tail == [i \in 1 .. 1 |-> word[i]]
      <4>1. Len(tail) = 1 /\ tail[1] = K /\ tail \in Seq(Symbols)
        BY <1>1, <3>2
      <4> HIDE DEF tail, Symbols
      <4> QED BY <1>1, <3>4, <4>1 DEF tail
    <3>6. GreatestAtEnd(dBSeq', order)
      <4>1. order - 1 <= Len(dBSeq)
            /\ \A i \in Len(dBSeq) - (order - 1) + 1 .. Len(dBSeq) : dBSeq[i] = K
        BY <3>3 DEF GreatestAtEnd
      <4>2. ASSUME NEW i \in Len(dBSeq') - order + 1 .. Len(dBSeq') PROVE dBSeq'[i] = K
        <5>1. CASE i = Len(dBSeq) + 1
          BY <3>5, <5>1
        <5>2. CASE i # Len(dBSeq) + 1
          <6>1. i \in Len(dBSeq) - (order - 1) + 1 .. Len(dBSeq) /\ i \in 1 .. Len(dBSeq)
            BY <1>1, <3>5, <4>1, <5>2
          <6> QED BY <3>5, <4>1, <6>1
        <5> QED BY <5>1, <5>2
      <4>3. order <= Len(dBSeq')
        BY <1>1, <3>5, <4>1
      <4> QED BY <4>2, <4>3 DEF GreatestAtEnd
    <3>7. word'[0] # K
      BY <3>1 DEF TailInv
    <3>8. \A i \in period' + 1 .. pos' - 1 : word'[i] = word'[i - period']
      BY <1>1, <3>1
    <3> QED BY <2>1, <3>1, <3>6, <3>7, <3>8 DEF TailInv
  <2>6. CASE last # 0
    <3>1. /\ word' = [word EXCEPT ![last] = @ + 1] /\ period' = last /\ pos' = last + 1
          /\ word[last] # K
      BY <2>2, <2>6 DEF LastRaisable
    <3>2. /\ word'[last] = word[last] + 1
          /\ \A i \in 0 .. order : i # last => word'[i] = word[i]
      BY <1>1, <3>1
    <3>3. word[1] # K
      BY <2>1, <2>2, <2>6, <3>1, FirstIsNotGreatest
    <3>4. word'[0] # K
      BY <1>1, <2>6, <3>2 DEF TailInv
    <3>5. pos' # 1 /\ pos' # 0
      BY <2>6, <3>1
    <3>6. \A i \in period' + 1 .. pos' - 1 : word'[i] = word'[i - period']
      BY <3>1
    <3>7. ASSUME word'[1] = K PROVE period' = 1 /\ GreatestAtEnd(dBSeq', order - 1)
      <4>1. last = 1
        BY <1>1, <3>2, <3>3, <3>7
      <4>2. \A i \in 2 .. order : word[i] = K
        BY <2>3, <4>1
      <4>3. period = order
        <5> SUFFICES ASSUME period # order PROVE FALSE
          OBVIOUS
        <5>1. period + 1 \in period + 1 .. order /\ period + 1 \in 2 .. order
          BY <1>1
        <5>2. word[period + 1] = word[1]
          BY <1>1, <2>4, <5>1
        <5> QED BY <3>3, <4>2, <5>1, <5>2
      <4>4. order % order = 0
        BY <1>1
      <4>5. dBSeq' = dBSeq \o [i \in 1 .. order |-> word[i]]
        BY <2>1, <4>3, <4>4 DEF WithLyndonWord
      <4>6. /\ Len(dBSeq') = Len(dBSeq) + order
            /\ \A i \in 1 .. order : dBSeq'[Len(dBSeq) + i] = word[i]
            /\ Len(dBSeq) \in Nat
        <5> DEFINE tail == [i \in 1 .. order |-> word[i]]
        <5>1. Len(tail) = order /\ tail \in Seq(Symbols)
          BY <1>1
        <5> HIDE DEF tail, Symbols
        <5>2. /\ Len(dBSeq') = Len(dBSeq) + order
              /\ \A i \in 1 .. order : dBSeq'[Len(dBSeq) + i] = tail[i]
          BY <1>1, <4>5, <5>1 DEF tail
        <5> QED BY <1>1, <5>2 DEF tail
      <4>7. ASSUME NEW i \in Len(dBSeq') - (order - 1) + 1 .. Len(dBSeq')
            PROVE  dBSeq'[i] = K
        <5>1. i - Len(dBSeq) \in 2 .. order
          BY <1>1, <4>6
        <5>2. PICK n \in 2 .. order : n = i - Len(dBSeq)
          BY <5>1
        <5>3. n \in 1 .. order /\ i = Len(dBSeq) + n
          BY <4>6, <5>2
        <5> QED BY <4>2, <4>6, <5>2, <5>3
      <4>8. order - 1 <= Len(dBSeq')
        BY <1>1, <4>6
      <4> QED BY <3>1, <4>1, <4>7, <4>8 DEF GreatestAtEnd
    <3> QED BY <2>1, <3>4, <3>5, <3>6, <3>7 DEF TailInv, Written
  <2> QED BY <2>5, <2>6
<1> QED BY <1>2, <1>3 DEF dfsIterative

-----------------------------------------------------------------------------
(* Words *)

Words(n) == [1 .. n -> Symbols]

\* The word read as a ring, from the symbol after the first r.
Rotated(c, n, r) ==
  [i \in 1 .. n |-> IF i + r <= n THEN c[i + r] ELSE c[i + r - n]]

\* The first symbol in which two words differ is one of the first m and is smaller in c.
Precedes(c, w, m) ==
  \E j \in 1 .. m : c[j] < w[j] /\ \A i \in 1 .. j - 1 : c[i] = w[i]

\* None of its rotations comes before the word.
Necklace(c, n) == \A r \in 1 .. n - 1 : ~Precedes(Rotated(c, n, r), c, n)

\* The symbols of a word are numbers up to the greatest.
LEMMA WordSymbols ==
  ASSUME NEW n \in Nat \ {0}, NEW c \in Words(n), NEW i \in 1 .. n
  PROVE  c[i] \in Symbols /\ c[i] \in Int /\ 0 <= c[i] /\ c[i] <= K_LIMIT /\ K_LIMIT \in Nat \ {0}
  BY AlphabetAssumption DEF Words, Symbols, K_LIMIT

\* A rotation of a word is a word.
LEMMA RotatedWord ==
  ASSUME NEW n \in Nat \ {0}, NEW c \in Words(n), NEW r \in 0 .. n - 1
  PROVE  Rotated(c, n, r) \in Words(n) /\ Rotated(c, n, 0) = c
<1>1. Rotated(c, n, r) \in Words(n)
  <2>1. ASSUME NEW i \in 1 .. n PROVE (IF i + r <= n THEN c[i + r] ELSE c[i + r - n]) \in Symbols
    <3>1. CASE i + r <= n
      BY <3>1, WordSymbols
    <3>2. CASE ~(i + r <= n)
      <4>1. i + r - n \in 1 .. n
        BY <3>2
      <4> QED BY <3>2, <4>1, WordSymbols
    <3> QED BY <3>1, <3>2
  <2> HIDE DEF Symbols
  <2> QED BY <2>1 DEF Rotated, Words
<1>2. Rotated(c, n, 0) = c
  <2>1. \A i \in 1 .. n : i + 0 = i /\ i + 0 <= n
    OBVIOUS
  <2>2. Rotated(c, n, 0) = [i \in 1 .. n |-> c[i]]
    BY <2>1 DEF Rotated
  <2> HIDE DEF Symbols
  <2> QED BY <2>2 DEF Words
<1> QED BY <1>1, <1>2

\* A rotation of a rotation is a rotation.
LEMMA RotatedTwice ==
  ASSUME NEW n \in Nat \ {0}, NEW c \in Words(n), NEW r \in 0 .. n - 1, NEW s \in 0 .. n - 1
  PROVE  LET t == IF r + s < n THEN r + s ELSE r + s - n
         IN t \in 0 .. n - 1 /\ Rotated(Rotated(c, n, r), n, s) = Rotated(c, n, t)
<1> DEFINE t == IF r + s < n THEN r + s ELSE r + s - n
           a == Rotated(c, n, r)
<1>1. t \in 0 .. n - 1
  OBVIOUS
<1>2. \A i \in 1 .. n : a[i] = IF i + r <= n THEN c[i + r] ELSE c[i + r - n]
  BY DEF Rotated
<1> HIDE DEF a
<1>3. ASSUME NEW i \in 1 .. n
      PROVE  (IF i + s <= n THEN a[i + s] ELSE a[i + s - n])
               = (IF i + t <= n THEN c[i + t] ELSE c[i + t - n])
  <2>1. CASE i + s <= n
    <3>1. a[i + s] = IF i + s + r <= n THEN c[i + s + r] ELSE c[i + s + r - n]
      BY <1>2, <2>1
    <3>2. CASE r + s < n
      <4>1. i + t = i + s + r /\ i + t - n = i + s + r - n
        BY <3>2
      <4> QED BY <2>1, <3>1, <4>1
    <3>3. CASE ~(r + s < n)
      <4>1. i + t = i + s + r - n /\ ~(i + s + r <= n) /\ i + t <= n
        BY <2>1, <3>3
      <4> QED BY <2>1, <3>1, <4>1
    <3> QED BY <3>2, <3>3
  <2>2. CASE ~(i + s <= n)
    <3>1. a[i + s - n] = IF i + s - n + r <= n THEN c[i + s - n + r] ELSE c[i + s - n + r - n]
      BY <1>2, <2>2
    <3>2. CASE r + s < n
      <4>1. i + t - n = i + s - n + r /\ ~(i + t <= n) /\ i + s - n + r <= n
        BY <2>2, <3>2
      <4> QED BY <2>2, <3>1, <4>1
    <3>3. CASE ~(r + s < n)
      <4>1. i + t = i + s - n + r /\ i + t - n = i + s - n + r - n
        BY <3>3
      <4> QED BY <2>2, <3>1, <4>1
    <3> QED BY <3>2, <3>3
  <2> QED BY <2>1, <2>2
<1>4. Rotated(a, n, s) = Rotated(c, n, t)
  <2> HIDE DEF t
  <2> QED BY <1>3 DEF Rotated
<1> QED BY <1>1, <1>4 DEF a

\* A word is a rotation of its rotations.
LEMMA RotatedBack ==
  ASSUME NEW n \in Nat \ {0}, NEW c \in Words(n), NEW r \in 0 .. n - 1
  PROVE  \E s \in 0 .. n - 1 : c = Rotated(Rotated(c, n, r), n, s)
<1> DEFINE s == IF r = 0 THEN 0 ELSE n - r
<1>1. s \in 0 .. n - 1 /\ (IF r + s < n THEN r + s ELSE r + s - n) = 0
  OBVIOUS
<1>2. Rotated(Rotated(c, n, r), n, s) = Rotated(c, n, 0)
  <2> HIDE DEF s
  <2> QED BY <1>1, RotatedTwice
<1> QED BY <1>1, <1>2, RotatedWord

\* Two words that differ come one before the other.
LEMMA OnePrecedes ==
  ASSUME NEW n \in Nat \ {0}, NEW a \in Words(n), NEW c \in Words(n), a # c
  PROVE  Precedes(a, c, n) \/ Precedes(c, a, n)
<1> DEFINE T == {i \in 1 .. n : a[i] # c[i]}
<1>1. T # {} /\ T \subseteq Nat
  <2>1. \E i \in 1 .. n : a[i] # c[i]
    BY DEF Words
  <2> QED BY <2>1
<1>2. PICK j \in T : \A i \in T : j <= i
  BY <1>1, LeastNumber
<1>3. \A i \in 1 .. j - 1 : a[i] = c[i]
  <2> TAKE i \in 1 .. j - 1
  <2>1. i \in 1 .. n /\ ~(j <= i)
    OBVIOUS
  <2> QED BY <1>2, <2>1
<1>4. a[j] < c[j] \/ c[j] < a[j]
  BY WordSymbols
<1> QED BY <1>3, <1>4 DEF Precedes

\* Words are ordered.
LEMMA PrecedesTransitive ==
  ASSUME NEW n \in Nat \ {0}, NEW a \in Words(n), NEW b \in Words(n), NEW c \in Words(n),
         Precedes(a, b, n), Precedes(b, c, n)
  PROVE  Precedes(a, c, n)
<1>1. PICK j \in 1 .. n : a[j] < b[j] /\ \A i \in 1 .. j - 1 : a[i] = b[i]
  BY DEF Precedes
<1>2. PICK k \in 1 .. n : b[k] < c[k] /\ \A i \in 1 .. k - 1 : b[i] = c[i]
  BY DEF Precedes
<1> DEFINE m == IF j < k THEN j ELSE k
<1>3. m \in 1 .. n /\ \A i \in 1 .. m - 1 : i \in 1 .. j - 1 /\ i \in 1 .. k - 1
  OBVIOUS
<1>4. a[m] < c[m]
  <2>1. a[m] \in Int /\ b[m] \in Int /\ c[m] \in Int
    BY <1>3, WordSymbols
  <2>2. a[m] <= b[m] /\ b[m] <= c[m]
    <3>1. m = j \/ m \in 1 .. j - 1
      OBVIOUS
    <3>2. m = k \/ m \in 1 .. k - 1
      OBVIOUS
    <3> HIDE DEF m
    <3> QED BY <1>1, <1>2, <2>1, <3>1, <3>2
  <2>3. m = j \/ m = k
    OBVIOUS
  <2> HIDE DEF m
  <2> QED BY <1>1, <1>2, <2>1, <2>2, <2>3
<1>5. \A i \in 1 .. m - 1 : a[i] = c[i]
  BY <1>1, <1>2, <1>3
<1> QED BY <1>3, <1>4, <1>5 DEF Precedes

\* Every word is a rotation of a necklace.
LEMMA NecklaceOfWord ==
  ASSUME NEW n \in Nat \ {0}, NEW x \in Words(n)
  PROVE  \E c \in Words(n), r \in 0 .. n - 1 : Necklace(c, n) /\ x = Rotated(c, n, r)
<1> DEFINE rot(r) == Rotated(x, n, r)
           S == {m \in Nat : m < n =>
                   \E r \in 0 .. m : \A s \in 0 .. m : ~Precedes(rot(s), rot(r), n)}
<1>1. \A r \in 0 .. n - 1 : rot(r) \in Words(n) /\ ~Precedes(rot(r), rot(r), n)
  <2> TAKE r \in 0 .. n - 1
  <2>1. rot(r) \in Words(n)
    BY RotatedWord
  <2> HIDE DEF rot
  <2>2. \A j \in 1 .. n : rot(r)[j] \in Int
    BY <2>1, WordSymbols
  <2> QED BY <2>1, <2>2 DEF Precedes
<1> HIDE DEF rot
<1>2. 0 \in S
  BY <1>1
<1>3. ASSUME NEW m \in Nat, m \in S PROVE m + 1 \in S
  <2> SUFFICES ASSUME m + 1 < n
               PROVE  \E r \in 0 .. m + 1 : \A s \in 0 .. m + 1 : ~Precedes(rot(s), rot(r), n)
    OBVIOUS
  <2>1. PICK r \in 0 .. m : \A s \in 0 .. m : ~Precedes(rot(s), rot(r), n)
    BY <1>3
  <2>2. CASE Precedes(rot(m + 1), rot(r), n)
    <3>1. ASSUME NEW s \in 0 .. m + 1 PROVE ~Precedes(rot(s), rot(m + 1), n)
      <4>1. CASE s = m + 1
        BY <1>1, <4>1
      <4>2. CASE s # m + 1
        <5>1. s \in 0 .. m /\ s \in 0 .. n - 1 /\ r \in 0 .. n - 1 /\ m + 1 \in 0 .. n - 1
          BY <4>2
        <5> QED BY <1>1, <2>1, <2>2, <5>1, PrecedesTransitive
      <4> QED BY <4>1, <4>2
    <3> QED BY <3>1
  <2>3. CASE ~Precedes(rot(m + 1), rot(r), n)
    <3>1. \A s \in 0 .. m + 1 : s \in 0 .. m \/ s = m + 1
      OBVIOUS
    <3>2. r \in 0 .. m + 1
      OBVIOUS
    <3> QED BY <2>1, <2>3, <3>1, <3>2
  <2> QED BY <2>2, <2>3
<1> HIDE DEF S
<1>4. Nat \subseteq S
  BY <1>2, <1>3, EveryNumber
<1>5. n - 1 \in S
  BY <1>4
<1>6. PICK r \in 0 .. n - 1 : \A s \in 0 .. n - 1 : ~Precedes(rot(s), rot(r), n)
  BY <1>5 DEF S
<1>7. Necklace(rot(r), n)
  <2> SUFFICES ASSUME NEW s \in 1 .. n - 1 PROVE ~Precedes(Rotated(rot(r), n, s), rot(r), n)
    BY DEF Necklace
  <2>1. s \in 0 .. n - 1
    OBVIOUS
  <2>2. PICK t \in 0 .. n - 1 : Rotated(rot(r), n, s) = rot(t)
    BY <2>1, RotatedTwice DEF rot
  <2> QED BY <1>6, <2>2
<1>8. \E s \in 0 .. n - 1 : x = Rotated(rot(r), n, s)
  BY RotatedBack DEF rot
<1> QED BY <1>1, <1>7, <1>8

\* Necklaces with a common rotation are the same.
LEMMA OneNecklace ==
  ASSUME NEW n \in Nat \ {0}, NEW a \in Words(n), NEW c \in Words(n),
         Necklace(a, n), Necklace(c, n),
         NEW r \in 0 .. n - 1, NEW s \in 0 .. n - 1, Rotated(a, n, r) = Rotated(c, n, s)
  PROVE  a = c
<1>1. ASSUME NEW b \in Words(n), NEW d \in Words(n), Necklace(d, n),
             NEW p \in 0 .. n - 1, NEW q \in 0 .. n - 1, Rotated(b, n, p) = Rotated(d, n, q)
      PROVE  ~Precedes(b, d, n)
  <2>1. PICK t \in 0 .. n - 1 : b = Rotated(Rotated(d, n, q), n, t)
    BY <1>1, RotatedBack
  <2>2. PICK u \in 0 .. n - 1 : b = Rotated(d, n, u)
    BY <2>1, RotatedTwice
  <2>3. CASE u = 0
    <3>1. b = d
      BY <2>2, <2>3, RotatedWord
    <3>2. \A j \in 1 .. n : d[j] \in Int
      BY WordSymbols
    <3> QED BY <3>1, <3>2 DEF Precedes
  <2>4. CASE u # 0
    BY <1>1, <2>2, <2>4 DEF Necklace
  <2> QED BY <2>3, <2>4
<1>2. ~Precedes(a, c, n) /\ ~Precedes(c, a, n)
  BY <1>1
<1> QED BY <1>2, OnePrecedes

-----------------------------------------------------------------------------
(* Lyndon words *)

\* Every proper suffix of the first p symbols comes after them.
Lyndon(w, p) ==
  \A r \in 1 .. p - 1 : \E j \in 1 .. p - r :
    w[j] < w[r + j] /\ \A i \in 1 .. j - 1 : w[i] = w[r + i]

\* From its first p symbols on the word repeats what stands p symbols before.
Periodic(w, p, n) == \A i \in p + 1 .. n : w[i] = w[i - p]

\* The array of the loop, from its first symbol on.
Prefix(w, n) == [i \in 1 .. n |-> w[i]]

\* A word repeats its period.
LEMMA PeriodRepeats ==
  ASSUME NEW n \in Nat \ {0}, NEW p \in 1 .. n, NEW w, Periodic(w, p, n), NEW q \in Nat
  PROVE  \A i \in 1 .. n : p * q + i <= n => w[p * q + i] = w[i]
<1> DEFINE S == {k \in Nat : \A i \in 1 .. n : p * k + i <= n => w[p * k + i] = w[i]}
<1>1. 0 \in S
  OBVIOUS
<1>2. ASSUME NEW k \in Nat, k \in S PROVE k + 1 \in S
  <2> SUFFICES ASSUME NEW i \in 1 .. n, p * (k + 1) + i <= n PROVE w[p * (k + 1) + i] = w[i]
    OBVIOUS
  <2>1. PICK m \in Nat : m = p * k
    BY Z3
  <2>2. p * (k + 1) = m + p
    BY <2>1, Z3
  <2>3. m + p + i <= n
    BY <2>2
  <2>4. m + p + i \in p + 1 .. n /\ m + p + i - p = m + i /\ m + i <= n
    BY <2>3
  <2>5. w[m + p + i] = w[m + i]
    BY <2>4 DEF Periodic
  <2>6. w[m + i] = w[i]
    BY <1>2, <2>1, <2>4
  <2> QED BY <2>2, <2>5, <2>6
<1> HIDE DEF S
<1>3. q \in S
  BY <1>1, <1>2, EveryNumber
<1> QED BY <1>3 DEF S

\* A word of whole periods ends with its period.
LEMMA PeriodAtEnd ==
  ASSUME NEW n \in Nat \ {0}, NEW p \in 1 .. n, NEW w, Periodic(w, p, n), n % p = 0
  PROVE  \A i \in 1 .. p : w[n - p + i] = w[i]
<1>0. p \in Nat \ {0}
  OBVIOUS
<1>1. PICK q \in Int, r \in 0 .. p - 1 : r = n % p /\ n = p * q + r
  BY <1>0, Divided
<1>2. n = p * q
  BY <1>1
<1>3. q >= 1
  <2> SUFFICES ASSUME q <= 0 PROVE FALSE
    BY <1>1
  <2>1. p * q <= 0
    BY Z3
  <2> QED BY <1>2, <2>1
<1>4. PICK k \in Nat : k = q - 1
  BY <1>1, <1>3
<1>5. p * k = n - p
  <2>1. p * (q - 1) = p * q - p
    BY Z3
  <2> QED BY <1>2, <1>4, <2>1
<1> TAKE i \in 1 .. p
<1>6. i \in 1 .. n /\ p * k + i <= n
  BY <1>5
<1>7. w[p * k + i] = w[i]
  BY <1>6, PeriodRepeats
<1> QED BY <1>5, <1>7

\* No suffix of a repeated Lyndon word comes before it.
LEMMA SuffixesFollow ==
  ASSUME NEW n \in Nat \ {0}, NEW p \in 1 .. n, NEW w, \A i \in 1 .. n : w[i] \in Int,
         Lyndon(w, p), Periodic(w, p, n),
         NEW r \in 1 .. n - 1, NEW j \in 1 .. n - r, \A i \in 1 .. j - 1 : w[i] = w[r + i]
  PROVE  w[j] <= w[r + j]
<1>0. p \in Nat \ {0} /\ r \in Int
  OBVIOUS
<1>1. PICK q \in Int, s \in 0 .. p - 1 : s = r % p /\ r = p * q + s
  BY <1>0, Divided
<1>2. q >= 0
  <2> SUFFICES ASSUME q <= -1 PROVE FALSE
    BY <1>1
  <2>1. p * q <= -p
    BY Z3
  <2> QED BY <1>1, <2>1
<1>3. PICK m \in Nat : m = p * q
  BY <1>2, Z3
<1>4. \A i \in 1 .. n : r + i <= n => w[r + i] = w[s + i]
  <2> TAKE i \in 1 .. n
  <2> HAVE r + i <= n
  <2>1. r + i = m + (s + i) /\ s + i \in 1 .. n /\ p * q + (s + i) <= n
    BY <1>1, <1>3
  <2>2. w[p * q + (s + i)] = w[s + i]
    BY <1>2, <2>1, PeriodRepeats
  <2> QED BY <1>3, <2>1, <2>2
<1>5. j \in 1 .. n /\ r + j <= n
  OBVIOUS
<1>6. CASE s = 0
  BY <1>4, <1>5, <1>6
<1>7. CASE s # 0
  <2>1. PICK k \in 1 .. p - s : w[k] < w[s + k] /\ \A i \in 1 .. k - 1 : w[i] = w[s + i]
    <3>1. s \in 1 .. p - 1
      BY <1>7
    <3> QED BY <3>1 DEF Lyndon
  <2>2. CASE j < k
    <3>1. w[j] = w[s + j]
      BY <2>1, <2>2
    <3> QED BY <1>4, <1>5, <3>1
  <2>3. CASE j = k
    <3>1. w[r + j] = w[s + j] /\ w[j] < w[s + j]
      BY <1>4, <1>5, <2>1, <2>3
    <3> QED BY <1>5, <3>1
  <2>4. CASE k < j
    <3>1. k \in 1 .. j - 1 /\ k \in 1 .. n /\ r + k <= n /\ s + k \in 1 .. n
      BY <2>4
    <3>2. w[k] = w[r + k] /\ w[r + k] = w[s + k]
      BY <1>4, <3>1
    <3>3. w[k] < w[s + k] /\ w[k] \in Int
      BY <2>1, <3>1
    <3> QED BY <3>2, <3>3
  <2> QED BY <2>2, <2>3, <2>4
<1> QED BY <1>6, <1>7

\* Up to a symbol that is raised a repeated Lyndon word becomes a Lyndon word.
LEMMA RaisedIsLyndon ==
  ASSUME NEW n \in Nat \ {0}, NEW p \in 1 .. n, NEW w, \A i \in 1 .. n : w[i] \in Int,
         Lyndon(w, p), Periodic(w, p, n),
         NEW l \in 1 .. n, NEW v, v[l] = w[l] + 1, \A i \in 1 .. l - 1 : v[i] = w[i]
  PROVE  Lyndon(v, l)
<1> SUFFICES ASSUME NEW r \in 1 .. l - 1
             PROVE  \E j \in 1 .. l - r :
                      v[j] < v[r + j] /\ \A i \in 1 .. j - 1 : v[i] = v[r + i]
  BY DEF Lyndon
<1> DEFINE T == {j \in 1 .. l - r - 1 : w[j] # w[r + j]}
<1>0. r \in 1 .. n - 1
  OBVIOUS
<1>1. CASE T = {}
  <2> DEFINE j == l - r
  <2>1. j \in 1 .. l - r /\ j \in 1 .. n - r /\ j \in 1 .. l - 1 /\ r + j = l
    OBVIOUS
  <2>2. \A i \in 1 .. j - 1 : w[i] = w[r + i] /\ v[i] = w[i] /\ v[r + i] = w[r + i]
    <3> TAKE i \in 1 .. j - 1
    <3>1. i \in 1 .. l - r - 1 /\ i \in 1 .. l - 1 /\ r + i \in 1 .. l - 1
      OBVIOUS
    <3> QED BY <1>1, <3>1
  <2> HIDE DEF j
  <2>3. w[j] <= w[r + j]
    BY <1>0, <2>1, <2>2, SuffixesFollow
  <2>4. v[j] = w[j] /\ w[j] \in Int /\ w[l] \in Int
    BY <2>1
  <2>5. v[j] < v[r + j]
    BY <2>1, <2>3, <2>4
  <2> QED BY <2>1, <2>2, <2>5
<1>2. CASE T # {}
  <2>1. T \subseteq Nat
    OBVIOUS
  <2>2. PICK j \in T : \A i \in T : j <= i
    BY <1>2, <2>1, LeastNumber
  <2>3. /\ j \in 1 .. l - r /\ j \in 1 .. n - r /\ j \in 1 .. l - 1 /\ r + j \in 1 .. l - 1
        /\ j \in 1 .. n /\ r + j \in 1 .. n
    OBVIOUS
  <2>4. \A i \in 1 .. j - 1 : w[i] = w[r + i] /\ v[i] = w[i] /\ v[r + i] = w[r + i]
    <3> TAKE i \in 1 .. j - 1
    <3>1. i \in 1 .. l - r - 1 /\ ~(j <= i) /\ i \in 1 .. l - 1 /\ r + i \in 1 .. l - 1
      OBVIOUS
    <3>2. i \notin T
      BY <2>2, <3>1
    <3> QED BY <3>1, <3>2
  <2>5. w[j] # w[r + j]
    BY <2>2
  <2> HIDE DEF T
  <2>6. w[j] <= w[r + j]
    BY <1>0, <2>3, <2>4, SuffixesFollow
  <2>7. v[j] < v[r + j]
    BY <2>3, <2>5, <2>6
  <2> QED BY <2>3, <2>4, <2>7
<1> QED BY <1>1, <1>2

\* A necklace that comes before a repeated word shows it within the period.
LEMMA PrecedesInPeriod ==
  ASSUME NEW n \in Nat \ {0}, NEW p \in 1 .. n, NEW w, Periodic(w, p, n),
         NEW c \in Words(n), Necklace(c, n), Precedes(c, w, n)
  PROVE  Precedes(c, w, p)
<1>1. PICK j \in 1 .. n : c[j] < w[j] /\ \A i \in 1 .. j - 1 : c[i] = w[i]
  BY DEF Precedes
<1>2. CASE j <= p
  BY <1>1, <1>2 DEF Precedes
<1>3. CASE ~(j <= p)
  <2> DEFINE k == j - p
             b == Rotated(c, n, p)
  <2>1. k \in 1 .. n /\ p \in 1 .. n - 1 /\ k \in 1 .. j - 1 /\ j \in p + 1 .. n
    BY <1>3
  <2>2. \A i \in 1 .. k : b[i] = c[i + p]
    <3> TAKE i \in 1 .. k
    <3>1. i \in 1 .. n /\ i + p <= n
      OBVIOUS
    <3> QED BY <3>1 DEF Rotated
  <2>3. \A i \in 1 .. k - 1 : c[i + p] = c[i]
    <3> TAKE i \in 1 .. k - 1
    <3>1. i + p \in p + 1 .. n /\ i + p \in 1 .. j - 1 /\ i \in 1 .. j - 1 /\ i + p - p = i
      OBVIOUS
    <3>2. c[i + p] = w[i + p] /\ w[i + p] = w[i] /\ c[i] = w[i]
      BY <1>1, <3>1 DEF Periodic
    <3> QED BY <3>2
  <2>4. c[k + p] < c[k]
    <3>1. w[j] = w[k] /\ c[k] = w[k] /\ k + p = j
      BY <1>1, <2>1 DEF Periodic
    <3> QED BY <1>1, <3>1
  <2>5. \A i \in 1 .. k - 1 : b[i] = c[i]
    BY <2>2, <2>3
  <2>6. b[k] < c[k]
    BY <2>1, <2>2, <2>4
  <2>7. Precedes(b, c, n)
    <3> HIDE DEF b, k
    <3> QED BY <2>1, <2>5, <2>6 DEF Precedes
  <2> QED BY <2>1, <2>7 DEF Necklace
<1> QED BY <1>2, <1>3

\* No necklace comes between a word and the next, which is raised at l.
LEMMA NoneBetween ==
  ASSUME NEW n \in Nat \ {0}, NEW p \in 1 .. n, NEW w, Prefix(w, n) \in Words(n),
         Periodic(w, p, n), NEW l \in 1 .. n, \A i \in l + 1 .. n : w[i] = K_LIMIT,
         NEW v, v[l] = w[l] + 1, \A i \in 1 .. l - 1 : v[i] = w[i],
         NEW c \in Words(n), Necklace(c, n), Precedes(c, v, l), c # Prefix(w, n)
  PROVE  Precedes(c, w, p)
<1> DEFINE a == Prefix(w, n)
<1>1. \A i \in 1 .. n :
        /\ a[i] = w[i] /\ a[i] \in Int
        /\ c[i] \in Int /\ c[i] <= K_LIMIT /\ K_LIMIT \in Int
  <2>1. \A i \in 1 .. n : a[i] = w[i]
    BY DEF Prefix
  <2> HIDE DEF a
  <2> QED BY <2>1, WordSymbols DEF a
<1> HIDE DEF a
<1>2. CASE Precedes(c, a, n)
  <2>1. Precedes(c, w, n)
    BY <1>1, <1>2 DEF Precedes
  <2> QED BY <2>1, PrecedesInPeriod
<1>3. CASE Precedes(a, c, n)
  <2>1. PICK j \in 1 .. n : a[j] < c[j] /\ \A i \in 1 .. j - 1 : a[i] = c[i]
    BY <1>3 DEF Precedes
  <2>2. PICK k \in 1 .. l : c[k] < v[k] /\ \A i \in 1 .. k - 1 : c[i] = v[i]
    BY DEF Precedes
  <2>3. j <= l
    <3> SUFFICES ASSUME j \in l + 1 .. n PROVE FALSE
      OBVIOUS
    <3>1. a[j] = K_LIMIT /\ c[j] <= K_LIMIT /\ a[j] \in Int /\ c[j] \in Int
      BY <1>1
    <3> QED BY <2>1, <3>1
  <2>4. j \in 1 .. n /\ k \in 1 .. n /\ l \in 1 .. n
    OBVIOUS
  <2>5. CASE j < k
    <3>1. j \in 1 .. k - 1 /\ j \in 1 .. l - 1
      BY <2>5
    <3>2. c[j] = a[j]
      BY <1>1, <2>2, <2>4, <3>1
    <3> QED BY <1>1, <2>1, <2>4, <3>2
  <2>6. CASE j = k
    <3>1. CASE j = l
      BY <1>1, <2>1, <2>2, <2>4, <2>6, <3>1
    <3>2. CASE j # l
      <4>1. j \in 1 .. l - 1
        BY <2>3, <3>2
      <4>2. v[k] = a[j]
        BY <1>1, <2>4, <2>6, <4>1
      <4> QED BY <1>1, <2>1, <2>2, <2>4, <2>6, <4>2
    <3> QED BY <3>1, <3>2
  <2>7. CASE k < j
    <3>1. k \in 1 .. j - 1 /\ k \in 1 .. l - 1
      BY <2>3, <2>7
    <3>2. c[k] = v[k]
      BY <1>1, <2>1, <2>4, <3>1
    <3> QED BY <1>1, <2>2, <2>4, <3>2
  <2> QED BY <2>5, <2>6, <2>7
<1> QED BY <1>2, <1>3, OnePrecedes DEF a

\* What comes before a word comes before the next one, and so does the word.
LEMMA PrecedesStays ==
  ASSUME NEW n \in Nat \ {0}, NEW w, \A i \in 1 .. n : w[i] \in Int, NEW l \in 1 .. n,
         NEW v, v[l] = w[l] + 1, \A i \in 1 .. l - 1 : v[i] = w[i]
  PROVE  /\ Precedes(Prefix(w, n), v, l)
         /\ \A c \in Words(n), p \in 1 .. n : Precedes(c, w, p) => Precedes(c, v, l)
<1>1. Precedes(Prefix(w, n), v, l)
  <2> DEFINE a == Prefix(w, n)
  <2>1. \A i \in 1 .. n : a[i] = w[i]
    BY DEF Prefix
  <2> HIDE DEF a
  <2>2. a[l] < v[l] /\ \A i \in 1 .. l - 1 : a[i] = v[i]
    BY <2>1
  <2> QED BY <2>2 DEF Precedes, a
<1>2. ASSUME NEW c \in Words(n), NEW p \in 1 .. n, Precedes(c, w, p) PROVE Precedes(c, v, l)
  <2>1. PICK j \in 1 .. p : c[j] < w[j] /\ \A i \in 1 .. j - 1 : c[i] = w[i]
    BY <1>2 DEF Precedes
  <2>2. \A i \in 1 .. n : c[i] \in Int
    BY WordSymbols
  <2>3. CASE j < l
    <3>1. j \in 1 .. l - 1 /\ \A i \in 1 .. j - 1 : i \in 1 .. l - 1
      BY <2>3
    <3>2. j \in 1 .. l /\ c[j] < v[j] /\ \A i \in 1 .. j - 1 : c[i] = v[i]
      BY <2>1, <3>1
    <3> QED BY <3>2 DEF Precedes
  <2>4. CASE ~(j < l)
    <3>1. j = l \/ l \in 1 .. j - 1
      BY <2>4
    <3>2. c[l] <= w[l]
      BY <2>1, <2>2, <3>1
    <3>3. c[l] < v[l] /\ \A i \in 1 .. l - 1 : c[i] = v[i]
      <4>1. \A i \in 1 .. l - 1 : i \in 1 .. j - 1
        BY <2>4
      <4> QED BY <2>1, <2>2, <3>2, <4>1
    <3> QED BY <3>3 DEF Precedes
  <2> QED BY <2>3, <2>4
<1> QED BY <1>1, <1>2

-----------------------------------------------------------------------------
(* Words of whole periods *)

\* A repeated Lyndon word that is a necklace has whole periods.
LEMMA WholePeriods ==
  ASSUME NEW n \in Nat \ {0}, NEW p \in 1 .. n, NEW w, Prefix(w, n) \in Words(n),
         Lyndon(w, p), Periodic(w, p, n), Necklace(Prefix(w, n), n)
  PROVE  n % p = 0
<1> DEFINE a == Prefix(w, n)
<1>0. p \in Nat \ {0} /\ n \in Int
  OBVIOUS
<1>1. PICK q \in Int, r \in 0 .. p - 1 : r = n % p /\ n = p * q + r
  BY <1>0, Divided
<1> SUFFICES ASSUME r # 0 PROVE FALSE
  BY <1>1
<1>2. q >= 1
  <2> SUFFICES ASSUME q <= 0 PROVE FALSE
    BY <1>1
  <2>1. p * q <= 0
    BY Z3
  <2>2. r < p
    OBVIOUS
  <2> QED BY <1>1, <2>1, <2>2
<1>3. PICK m \in Nat : m = p * q /\ m >= p
  <2>1. p * q \in Nat /\ p * q >= p
    BY <1>2, Z3
  <2> QED BY <2>1
<1>4. n = m + r /\ m \in 1 .. n - 1 /\ r \in 1 .. p - 1
  BY <1>1, <1>3
<1>5. \A i \in 1 .. r : w[m + i] = w[i]
  <2> TAKE i \in 1 .. r
  <2>1. i \in 1 .. n /\ p * q + i <= n
    BY <1>3, <1>4
  <2> QED BY <1>2, <1>3, <2>1, PeriodRepeats
<1>6. PICK j \in 1 .. p - r : w[j] < w[r + j] /\ \A i \in 1 .. j - 1 : w[i] = w[r + i]
  BY <1>4 DEF Lyndon
<1> DEFINE b == Rotated(a, n, m)
<1>7. \A i \in 1 .. n : a[i] = w[i]
  BY DEF Prefix
<1>8. /\ \A i \in 1 .. r : b[i] = a[m + i]
      /\ \A i \in 1 .. m : b[r + i] = a[i]
  <2>1. ASSUME NEW i \in 1 .. r PROVE b[i] = a[m + i]
    <3>1. i \in 1 .. n /\ i + m <= n /\ i + m = m + i
      BY <1>4
    <3> QED BY <3>1 DEF Rotated
  <2>2. ASSUME NEW i \in 1 .. m PROVE b[r + i] = a[i]
    <3>1. r + i \in 1 .. n /\ ~(r + i + m <= n) /\ r + i + m - n = i
      BY <1>4
    <3> QED BY <3>1 DEF Rotated
  <2> QED BY <2>1, <2>2
<1> HIDE DEF a, b
<1>9. r + j \in 1 .. n /\ j \in 1 .. m
  BY <1>3, <1>4
<1>10. b[r + j] < a[r + j]
  BY <1>4, <1>6, <1>7, <1>8, <1>9
<1>11. \A i \in 1 .. r + j - 1 : b[i] = a[i]
  <2> TAKE i \in 1 .. r + j - 1
  <2>1. CASE i <= r
    <3>1. i \in 1 .. r /\ i \in 1 .. n /\ m + i \in 1 .. n
      BY <1>4, <2>1
    <3> QED BY <1>5, <1>7, <1>8, <3>1
  <2>2. CASE ~(i <= r)
    <3>1. PICK k \in 1 .. j - 1 : i = r + k
      <4>1. i - r \in 1 .. j - 1 /\ i = r + (i - r)
        BY <1>4, <2>2
      <4> QED BY <4>1
    <3>2. k \in 1 .. m /\ k \in 1 .. n /\ r + k \in 1 .. n
      BY <1>3, <1>4
    <3> QED BY <1>6, <1>7, <1>8, <3>1, <3>2
  <2> QED BY <2>1, <2>2
<1>12. Precedes(b, a, n)
  BY <1>9, <1>10, <1>11 DEF Precedes
<1> QED BY <1>4, <1>12 DEF Necklace, a, b

\* To rotate a word of whole periods by one more period changes nothing.
LEMMA PeriodTurned ==
  ASSUME NEW n \in Nat \ {0}, NEW p \in 1 .. n, NEW w, Periodic(w, p, n), n % p = 0,
         NEW r \in 0 .. n - 1, r + p <= n - 1
  PROVE  Rotated(Prefix(w, n), n, r + p) = Rotated(Prefix(w, n), n, r)
<1> DEFINE a == Prefix(w, n)
<1>1. \A i \in 1 .. n : a[i] = w[i]
  BY DEF Prefix
<1>2. \A i \in 1 .. p : w[n - p + i] = w[i]
  BY PeriodAtEnd
<1> HIDE DEF a
<1>3. ASSUME NEW i \in 1 .. n
      PROVE  (IF i + (r + p) <= n THEN a[i + (r + p)] ELSE a[i + (r + p) - n])
               = (IF i + r <= n THEN a[i + r] ELSE a[i + r - n])
  <2>1. CASE i + (r + p) <= n
    <3>1. i + (r + p) \in p + 1 .. n /\ i + r \in 1 .. n /\ i + (r + p) - p = i + r
      BY <2>1
    <3>2. w[i + (r + p)] = w[i + r]
      BY <3>1 DEF Periodic
    <3> QED BY <1>1, <2>1, <3>1, <3>2
  <2>2. CASE i + r <= n /\ ~(i + (r + p) <= n)
    <3>1. PICK k \in 1 .. p : k = i + (r + p) - n
      BY <2>2
    <3>2. i + r = n - p + k /\ i + r \in 1 .. n /\ k \in 1 .. n
      BY <2>2, <3>1
    <3>3. w[i + r] = w[k]
      BY <1>2, <3>2
    <3> QED BY <1>1, <2>2, <3>1, <3>2, <3>3
  <2>3. CASE ~(i + r <= n)
    <3>1. i + (r + p) - n \in p + 1 .. n /\ i + r - n \in 1 .. n /\ i + (r + p) - n - p = i + r - n
      BY <2>3
    <3>2. w[i + (r + p) - n] = w[i + r - n]
      BY <3>1 DEF Periodic
    <3>3. ~(i + (r + p) <= n)
      BY <2>3
    <3> QED BY <1>1, <2>3, <3>1, <3>2, <3>3
  <2> QED BY <2>1, <2>2, <2>3
<1>4. Rotated(a, n, r + p) = Rotated(a, n, r)
  BY <1>3 DEF Rotated
<1> QED BY <1>4 DEF a

\* So a rotation is one by less than a period, and one to within the last period.
LEMMA TurnedInPeriod ==
  ASSUME NEW n \in Nat \ {0}, NEW p \in 1 .. n, NEW w, Periodic(w, p, n), n % p = 0,
         NEW r \in 0 .. n - 1
  PROVE  /\ \E s \in 0 .. p - 1 : Rotated(Prefix(w, n), n, r) = Rotated(Prefix(w, n), n, s)
         /\ \E s \in n - p .. n - 1 : Rotated(Prefix(w, n), n, r) = Rotated(Prefix(w, n), n, s)
<1> DEFINE rot(s) == Rotated(Prefix(w, n), n, s)
           T == {s \in 0 .. n - 1 : rot(s) = rot(r)}
           U == {n - 1 - s : s \in T}
<1>1. r \in T /\ T \subseteq Nat
  OBVIOUS
<1>2. PICK s \in T : \A u \in T : s <= u
  BY <1>1, LeastNumber
<1>3. s \in 0 .. p - 1
  <2> SUFFICES ASSUME p <= s PROVE FALSE
    OBVIOUS
  <2>1. s - p \in 0 .. n - 1 /\ s - p + p = s /\ s <= n - 1
    OBVIOUS
  <2>2. rot(s - p) = rot(s)
    BY <2>1, PeriodTurned
  <2>3. s - p \in T
    BY <2>1, <2>2
  <2>4. s <= s - p
    BY <1>2, <2>3
  <2> HIDE DEF T
  <2> QED BY <2>1, <2>4
<1>4. U \subseteq Nat /\ U # {}
  BY <1>1
<1>5. PICK u \in U : \A x \in U : u <= x
  BY <1>4, LeastNumber
<1>6. PICK t \in T : u = n - 1 - t
  BY <1>5
<1>7. t \in n - p .. n - 1
  <2> SUFFICES ASSUME t + p <= n - 1 PROVE FALSE
    OBVIOUS
  <2>1. t \in 0 .. n - 1 /\ t + p \in 0 .. n - 1
    OBVIOUS
  <2>2. rot(t + p) = rot(t)
    BY <2>1, PeriodTurned
  <2>3. t + p \in T
    BY <2>1, <2>2
  <2>4. n - 1 - (t + p) \in U
    BY <2>3
  <2>5. u <= n - 1 - (t + p)
    BY <1>5, <2>4
  <2> HIDE DEF T, U
  <2> QED BY <1>6, <2>1, <2>5
<1>8. rot(s) = rot(r) /\ rot(t) = rot(r)
  BY <1>2, <1>6
<1> QED BY <1>3, <1>7, <1>8

\* A Lyndon word, repeated, comes before its rotations by less than a period.
LEMMA TurnsFollow ==
  ASSUME NEW n \in Nat \ {0}, NEW p \in 1 .. n, NEW w, Prefix(w, n) \in Words(n),
         Lyndon(w, p), NEW s \in 1 .. p - 1
  PROVE  LET b == Rotated(Prefix(w, n), n, s)
         IN b # Prefix(w, n) /\ ~Precedes(b, Prefix(w, n), n)
<1> DEFINE a == Prefix(w, n)
           b == Rotated(a, n, s)
<1>1. \A i \in 1 .. n : a[i] = w[i]
  BY DEF Prefix
<1>2. PICK j \in 1 .. p - s : w[j] < w[s + j] /\ \A i \in 1 .. j - 1 : w[i] = w[s + i]
  BY DEF Lyndon
<1>3. \A i \in 1 .. j : b[i] = w[s + i]
  <2> TAKE i \in 1 .. j
  <2>1. i \in 1 .. n /\ i + s <= n /\ i + s \in 1 .. n /\ i + s = s + i
    OBVIOUS
  <2>2. b[i] = a[i + s]
    BY <2>1 DEF Rotated
  <2> HIDE DEF a, b
  <2> QED BY <1>1, <2>1, <2>2
<1>4. \A i \in 1 .. n : a[i] \in Int
  <2> HIDE DEF a
  <2> QED BY WordSymbols DEF a
<1> HIDE DEF a, b
<1>5. j \in 1 .. j /\ j \in 1 .. n
  OBVIOUS
<1>6. a[j] < b[j]
  BY <1>1, <1>2, <1>3, <1>5
<1>7. \A i \in 1 .. j - 1 : b[i] = a[i]
  <2> TAKE i \in 1 .. j - 1
  <2>1. i \in 1 .. j /\ i \in 1 .. n
    OBVIOUS
  <2> QED BY <1>1, <1>2, <1>3, <2>1
<1>8. b # a
  BY <1>4, <1>5, <1>6
<1>9. ASSUME Precedes(b, a, n) PROVE FALSE
  <2>1. PICK k \in 1 .. n : b[k] < a[k] /\ \A i \in 1 .. k - 1 : b[i] = a[i]
    BY <1>9 DEF Precedes
  <2>2. b[j] # a[j]
    BY <1>4, <1>5, <1>6
  <2>3. k = j \/ k \in 1 .. j - 1 \/ j \in 1 .. k - 1
    OBVIOUS
  <2>4. CASE k = j
    <3>1. b[j] \in Int
      <4>1. b[j] = w[s + j] /\ s + j \in 1 .. n
        BY <1>3, <1>5
      <4> QED BY <1>1, <1>4, <4>1
    <3> QED BY <1>4, <1>5, <1>6, <2>1, <2>4, <3>1
  <2>5. CASE k \in 1 .. j - 1
    <3>1. b[k] = a[k] /\ a[k] \in Int
      BY <1>4, <1>7, <2>5
    <3> QED BY <2>1, <3>1
  <2>6. CASE j \in 1 .. k - 1
    BY <2>1, <2>2, <2>6
  <2> QED BY <2>3, <2>4, <2>5, <2>6
<1> QED BY <1>8, <1>9 DEF a, b

\* A Lyndon word, repeated a whole number of times, is a necklace.
LEMMA WholeIsNecklace ==
  ASSUME NEW n \in Nat \ {0}, NEW p \in 1 .. n, NEW w, Prefix(w, n) \in Words(n),
         Lyndon(w, p), Periodic(w, p, n), n % p = 0
  PROVE  Necklace(Prefix(w, n), n)
<1> DEFINE a == Prefix(w, n)
<1> SUFFICES ASSUME NEW r \in 1 .. n - 1 PROVE ~Precedes(Rotated(a, n, r), a, n)
  BY DEF Necklace
<1>1. r \in 0 .. n - 1
  OBVIOUS
<1>2. PICK s \in 0 .. p - 1 : Rotated(a, n, r) = Rotated(a, n, s)
  BY <1>1, TurnedInPeriod
<1>3. CASE s = 0
  <2> HIDE DEF a
  <2>1. Rotated(a, n, r) = a
    BY <1>2, <1>3, RotatedWord DEF a
  <2>2. \A i \in 1 .. n : a[i] \in Int
    BY WordSymbols DEF a
  <2> QED BY <2>1, <2>2 DEF Precedes
<1>4. CASE s # 0
  <2>1. s \in 1 .. p - 1
    BY <1>4
  <2> QED BY <1>2, <2>1, TurnsFollow
<1> QED BY <1>3, <1>4

\* Its rotations by less than a period differ.
LEMMA TurnsDiffer ==
  ASSUME NEW n \in Nat \ {0}, NEW p \in 1 .. n, NEW w, Prefix(w, n) \in Words(n), Lyndon(w, p),
         NEW r \in 0 .. p - 1, NEW s \in 0 .. p - 1, r < s
  PROVE  Rotated(Prefix(w, n), n, r) # Rotated(Prefix(w, n), n, s)
<1> DEFINE a == Prefix(w, n)
<1> SUFFICES ASSUME Rotated(a, n, r) = Rotated(a, n, s) PROVE FALSE
  OBVIOUS
<1>1. s - r \in 1 .. p - 1 /\ r \in 0 .. n - 1 /\ s \in 0 .. n - 1
  OBVIOUS
<1>2. Rotated(a, n, s - r) # a
  BY <1>1, TurnsFollow
<1> HIDE DEF a
<1>3. CASE r = 0
  <2>1. Rotated(a, n, 0) = a
    BY RotatedWord DEF a
  <2>2. s - r = s
    BY <1>3
  <2> QED BY <1>2, <1>3, <2>1, <2>2
<1>4. CASE r # 0
  <2>1. PICK t \in 0 .. n - 1 : t = n - r
    BY <1>4
  <2>2. /\ (IF r + t < n THEN r + t ELSE r + t - n) = 0
        /\ (IF s + t < n THEN s + t ELSE s + t - n) = s - r
    BY <2>1
  <2>3. Rotated(Rotated(a, n, r), n, t) = Rotated(a, n, 0)
    BY <1>1, <2>2, RotatedTwice DEF a
  <2>4. Rotated(Rotated(a, n, s), n, t) = Rotated(a, n, s - r)
    <3>1. a \in Words(n)
      BY DEF a
    <3>2. Rotated(Rotated(a, n, s), n, t)
            = Rotated(a, n, IF s + t < n THEN s + t ELSE s + t - n)
      BY <1>1, <3>1, RotatedTwice
    <3> QED BY <2>2, <3>2
  <2>5. Rotated(a, n, 0) = a
    BY RotatedWord DEF a
  <2> QED BY <1>2, <2>3, <2>4, <2>5
<1> QED BY <1>3, <1>4

-----------------------------------------------------------------------------
(* The text *)

\* The symbol at q of what is written followed by the word; before it stand
\* greatest symbols, as they do where the ring is closed.
Text(d, w, q) ==
  IF q <= 0 THEN K_LIMIT ELSE IF q <= Len(d) THEN d[q] ELSE w[q - Len(d)]

\* The word x stands in the text, or begins before it, and ends at last.
Stands(x, n, d, w, last) ==
  \E h \in -n .. last - n : \A i \in 1 .. n : Text(d, w, h + i) = x[i]

\* The first j symbols of a word behind greatest symbols.
KThen(w, n, j) == [i \in 1 .. n |-> IF i <= n - j THEN K_LIMIT ELSE w[i - (n - j)]]

\* A word that stands in the text still stands in a longer text that is the same
\* up to where it stood.
LEMMA StandsStill ==
  ASSUME NEW n \in Nat \ {0}, NEW x, NEW d, NEW w, NEW last \in Int,
         NEW e, NEW v, NEW end \in Int, last <= end,
         \A q \in Int : q <= last => Text(d, w, q) = Text(e, v, q),
         Stands(x, n, d, w, last)
  PROVE  Stands(x, n, e, v, end)
<1>1. PICK h \in -n .. last - n : \A i \in 1 .. n : Text(d, w, h + i) = x[i]
  BY DEF Stands
<1>2. h \in -n .. end - n
  OBVIOUS
<1>3. ASSUME NEW i \in 1 .. n PROVE Text(e, v, h + i) = x[i]
  <2>1. h + i \in Int /\ h + i <= last
    OBVIOUS
  <2> QED BY <1>1, <2>1
<1> QED BY <1>2, <1>3 DEF Stands

\* What is written stays, and what is appended stands behind it.
LEMMA Appended ==
  ASSUME NEW S, NEW d \in Seq(S), NEW u \in Seq(S), NEW e, e = d \o u
  PROVE  /\ e \in Seq(S) /\ Len(d) \in Nat /\ Len(e) = Len(d) + Len(u)
         /\ \A q \in 1 .. Len(d) : e[q] = d[q]
         /\ \A i \in 1 .. Len(u) : e[Len(d) + i] = u[i]
<1>1. d \o u \in Seq(S) /\ Len(d) \in Nat /\ Len(d \o u) = Len(d) + Len(u)
  OBVIOUS
<1>2. \A q \in 1 .. Len(d) : (d \o u)[q] = d[q]
  OBVIOUS
<1>3. \A i \in 1 .. Len(u) : (d \o u)[Len(d) + i] = u[i]
  OBVIOUS
<1> QED BY <1>1, <1>2, <1>3

\* What is known of the end of what is written: f symbols of the word complete
\* its run of greatest symbols to a word, and the words that have fewer of them
\* stand in the text.
RunEnds(n, d, w, p, f) ==
  /\ \A q \in Len(d) - (n - f) + 1 .. Len(d) : Text(d, w, q) = K_LIMIT
  /\ \A j \in 1 .. f - 1 : Stands(KThen(w, n, j), n, d, w, Len(d) + p)

\* A step of the loop that writes: the period of w, a word of whole periods, is
\* appended to d.  Behind l w has greatest symbols only, and the next word, v,
\* begins like w up to l.
WritesWord(n, d, w, p, e, v, l) ==
  /\ p \in 1 .. n
  /\ Prefix(w, n) \in Words(n)
  /\ Lyndon(w, p)
  /\ Periodic(w, p, n)
  /\ n % p = 0
  /\ d \in Seq(Symbols)
  /\ e = d \o [i \in 1 .. p |-> w[i]]
  /\ l \in n - p + 1 .. n
  /\ \A i \in l + 1 .. n : w[i] = K_LIMIT
  /\ \A i \in 1 .. l - 1 : v[i] = w[i]

\* What the step changes no symbol of, and where the symbols of the word stand.
LEMMA WritesWordFacts ==
  ASSUME NEW n \in Nat \ {0}, NEW p, NEW w, NEW d, NEW e, NEW v, NEW l,
         WritesWord(n, d, w, p, e, v, l)
  PROVE  /\ p \in 1 .. n /\ l \in 1 .. n /\ l > n - p
         /\ Len(d) \in Nat /\ Len(e) = Len(d) + p
         /\ \A q \in Int : q <= Len(d) + p => Text(d, w, q) = Text(e, v, q)
         /\ \A i \in 1 .. p : Text(e, v, Len(d) + i) = w[i]
         /\ \A i \in 1 .. l - 1 : Text(e, v, Len(e) + i) = w[i]
         /\ \A i \in 1 .. p : w[n - p + i] = w[i]
<1>1. \A i \in 1 .. p : w[i] \in Symbols
  <2> TAKE i \in 1 .. p
  <2>1. i \in 1 .. n
    BY DEF WritesWord
  <2>2. Prefix(w, n)[i] \in Symbols
    BY <2>1, WordSymbols DEF WritesWord
  <2> HIDE DEF Symbols
  <2> QED BY <2>1, <2>2 DEF Prefix
<1>2. p \in 1 .. n /\ d \in Seq(Symbols) /\ e = d \o [i \in 1 .. p |-> w[i]]
  BY DEF WritesWord
<1> DEFINE u == [i \in 1 .. p |-> w[i]]
<1>3. u \in Seq(Symbols) /\ Len(u) = p /\ \A i \in 1 .. p : u[i] = w[i]
  BY <1>1, <1>2
<1>4. /\ p \in Nat /\ Len(d) \in Nat /\ Len(e) = Len(d) + p
      /\ \A q \in 1 .. Len(d) : e[q] = d[q]
      /\ \A i \in 1 .. p : e[Len(d) + i] = w[i]
  <2> HIDE DEF u
  <2>1. /\ Len(d) \in Nat /\ Len(e) = Len(d) + Len(u)
        /\ \A q \in 1 .. Len(d) : e[q] = d[q]
        /\ \A i \in 1 .. Len(u) : e[Len(d) + i] = u[i]
    BY <1>2, <1>3, Appended DEF u
  <2> QED BY <1>2, <1>3, <2>1
<1>5. ASSUME NEW q \in Int, q <= Len(d) + p PROVE Text(d, w, q) = Text(e, v, q)
  <2>1. CASE q <= 0
    BY <2>1 DEF Text
  <2>2. CASE q \in 1 .. Len(d)
    <3>1. ~(q <= 0) /\ q <= Len(e)
      BY <1>4, <2>2
    <3> QED BY <1>4, <2>2, <3>1 DEF Text
  <2>3. CASE q > Len(d)
    <3>1. PICK i \in 1 .. p : i = q - Len(d)
      <4>1. q - Len(d) \in 1 .. p
        BY <1>4, <1>5, <2>3
      <4> QED BY <4>1
    <3>2. q = Len(d) + i /\ ~(q <= 0) /\ ~(q <= Len(d)) /\ q <= Len(e)
      BY <1>4, <3>1
    <3>3. Text(d, w, q) = w[i]
      BY <3>1, <3>2 DEF Text
    <3>4. Text(e, v, q) = e[q]
      BY <3>2 DEF Text
    <3> QED BY <1>4, <3>2, <3>3, <3>4
  <2> QED BY <1>4, <2>1, <2>2, <2>3
<1>6. ASSUME NEW i \in 1 .. p PROVE Text(e, v, Len(d) + i) = w[i]
  <2>1. ~(Len(d) + i <= 0) /\ Len(d) + i <= Len(e)
    BY <1>4
  <2>2. Text(e, v, Len(d) + i) = e[Len(d) + i]
    BY <2>1 DEF Text
  <2> QED BY <1>4, <2>2
<1>7. l \in 1 .. n /\ l > n - p
  BY DEF WritesWord
<1>8. ASSUME NEW i \in 1 .. l - 1 PROVE Text(e, v, Len(e) + i) = w[i]
  <2>1. ~(Len(e) + i <= 0) /\ ~(Len(e) + i <= Len(e)) /\ Len(e) + i - Len(e) = i
    BY <1>2, <1>4, <1>7
  <2>2. Text(e, v, Len(e) + i) = v[i]
    BY <2>1 DEF Text
  <2> QED BY <2>2 DEF WritesWord
<1>9. \A i \in 1 .. p : w[n - p + i] = w[i]
  BY PeriodAtEnd DEF WritesWord
<1> QED BY <1>2, <1>4, <1>5, <1>6, <1>7, <1>8, <1>9

\* Once the word is written, the first symbols of it stand behind greatest
\* symbols as the last ones of a word.
LEMMA KThenStands ==
  ASSUME NEW n \in Nat \ {0}, NEW p, NEW w, NEW d, NEW e, NEW v, NEW l,
         WritesWord(n, d, w, p, e, v, l),
         NEW f \in 1 .. p, RunEnds(n, d, w, p, f), NEW j \in 1 .. n - 1
  PROVE  Stands(KThen(w, n, j), n, e, v, Len(e) + l)
<1>0. /\ p \in 1 .. n /\ l \in 1 .. n /\ l > n - p
      /\ Len(d) \in Nat /\ Len(e) = Len(d) + p
      /\ \A q \in Int : q <= Len(d) + p => Text(d, w, q) = Text(e, v, q)
      /\ \A i \in 1 .. p : Text(e, v, Len(d) + i) = w[i]
      /\ \A i \in 1 .. l - 1 : Text(e, v, Len(e) + i) = w[i]
  BY WritesWordFacts
<1>1. CASE j < f
  <2>1. Stands(KThen(w, n, j), n, d, w, Len(d) + p)
    BY <1>1 DEF RunEnds
  <2>2. Len(d) + p \in Int /\ Len(e) + l \in Int /\ Len(d) + p <= Len(e) + l
    BY <1>0
  <2> QED BY <1>0, <2>1, <2>2, StandsStill
<1>2. CASE ~(j < f)
  <2> DEFINE h == Len(d) - (n - j)
             x == KThen(w, n, j)
  <2>1. h \in -n .. Len(e) + l - n
    BY <1>0
  <2>2. ASSUME NEW i \in 1 .. n PROVE Text(e, v, h + i) = x[i]
    <3>1. CASE i <= n - j
      <4>1. h + i \in Len(d) - (n - f) + 1 .. Len(d) /\ h + i <= Len(d) + p /\ h + i \in Int
        BY <1>0, <1>2, <3>1
      <4>2. Text(d, w, h + i) = K_LIMIT
        BY <4>1 DEF RunEnds
      <4>3. Text(e, v, h + i) = K_LIMIT
        BY <1>0, <4>1, <4>2
      <4> QED BY <3>1, <4>3 DEF KThen
    <3>2. CASE ~(i <= n - j)
      <4>1. PICK m \in 1 .. j : m = i - (n - j)
        BY <3>2
      <4>2. h + i = Len(d) + m
        BY <1>0, <4>1
      <4>3. x[i] = w[m]
        BY <3>2, <4>1 DEF KThen
      <4>4. CASE m <= p
        <5>1. m \in 1 .. p
          BY <1>0, <4>4
        <5> QED BY <1>0, <4>2, <4>3, <5>1
      <4>5. CASE ~(m <= p)
        <5>1. PICK k \in 1 .. l - 1 : k = m - p
          BY <1>0, <4>5
        <5>2. h + i = Len(e) + k
          BY <1>0, <4>2, <5>1
        <5>3. w[m] = w[k]
          <6>1. m \in p + 1 .. n
            BY <1>0, <4>5
          <6> QED BY <5>1, <6>1 DEF WritesWord, Periodic
        <5> QED BY <1>0, <4>3, <5>2, <5>3
      <4> QED BY <4>4, <4>5
    <3> QED BY <3>1, <3>2
  <2>3. Stands(x, n, e, v, Len(e) + l)
    <3> HIDE DEF x
    <3>1. PICK end \in Int : end = Len(e) + l
      BY <1>0
    <3>2. PICK g \in -n .. end - n : g = h
      <4>1. /\ p \in 1 .. n /\ l \in 1 .. n /\ l > n - p /\ Len(d) \in Nat
            /\ Len(e) = Len(d) + p
        BY <1>0
      <4>2. end = Len(d) + p + l
        BY <3>1, <4>1
      <4>3. h \in -n .. end - n
        BY <4>1, <4>2
      <4> QED BY <4>3
    <3> HIDE DEF h
    <3>3. \A i \in 1 .. n : Text(e, v, g + i) = x[i]
      BY <2>2, <3>2
    <3>4. Stands(x, n, e, v, end)
      BY <3>3 DEF Stands
    <3> QED BY <3>1, <3>4
  <2> QED BY <2>3 DEF x
<1> QED BY <1>1, <1>2

\* Once the word is written, all its rotations stand in the text.
LEMMA RotationsStand ==
  ASSUME NEW n \in Nat \ {0}, NEW p, NEW w, NEW d, NEW e, NEW v, NEW l,
         WritesWord(n, d, w, p, e, v, l),
         NEW f \in 1 .. p, RunEnds(n, d, w, p, f), NEW r \in 0 .. n - 1
  PROVE  Stands(Rotated(Prefix(w, n), n, r), n, e, v, Len(e) + l)
<1> DEFINE a == Prefix(w, n)
<1>0. /\ p \in 1 .. n /\ l \in 1 .. n /\ l > n - p
      /\ Len(d) \in Nat /\ Len(e) = Len(d) + p
      /\ \A i \in 1 .. p : Text(e, v, Len(d) + i) = w[i]
      /\ \A i \in 1 .. l - 1 : Text(e, v, Len(e) + i) = w[i]
      /\ \A i \in 1 .. p : w[n - p + i] = w[i]
  BY WritesWordFacts
<1>1. \A i \in 1 .. n : a[i] = w[i]
  BY DEF Prefix
<1>2. PICK s \in n - p .. n - 1 : Rotated(a, n, r) = Rotated(a, n, s)
  <2>1. Periodic(w, p, n) /\ n % p = 0
    BY DEF WritesWord
  <2> QED BY <1>0, <2>1, TurnedInPeriod
<1> DEFINE x == Rotated(a, n, s)
<1>3. s \in 0 .. n - 1
  BY <1>0
<1>4. \A i \in 1 .. n : x[i] = IF i <= n - s THEN w[i + s] ELSE w[i + s - n]
  <2> TAKE i \in 1 .. n
  <2>1. i + s <= n <=> i <= n - s
    BY <1>3
  <2>2. CASE i <= n - s
    <3>1. i + s \in 1 .. n
      BY <1>3, <2>2
    <3> QED BY <1>1, <2>1, <2>2, <3>1 DEF Rotated
  <2>3. CASE ~(i <= n - s)
    <3>1. i + s - n \in 1 .. n
      BY <1>3, <2>3
    <3> QED BY <1>1, <2>1, <2>3, <3>1 DEF Rotated
  <2> QED BY <2>2, <2>3
<1>5. CASE s < l
  <2> DEFINE h == Len(d) + p - (n - s)
  <2>1. h \in -n .. Len(e) + l - n
    BY <1>0, <1>3, <1>5
  <2>2. ASSUME NEW i \in 1 .. n PROVE Text(e, v, h + i) = x[i]
    <3>1. CASE i <= n - s
      <4>1. PICK k \in 1 .. p : k = p - (n - s) + i
        BY <1>0, <1>2, <3>1
      <4>2. h + i = Len(d) + k /\ n - p + k = i + s
        BY <1>0, <4>1
      <4>3. w[k] = w[i + s]
        BY <1>0, <4>2
      <4> QED BY <1>0, <1>4, <3>1, <4>2, <4>3
    <3>2. CASE ~(i <= n - s)
      <4>1. PICK k \in 1 .. l - 1 : k = i + s - n
        BY <1>0, <1>3, <1>5, <3>2
      <4>2. h + i = Len(e) + k
        BY <1>0, <4>1
      <4> QED BY <1>0, <1>4, <3>2, <4>1, <4>2
    <3> QED BY <3>1, <3>2
  <2>3. Stands(x, n, e, v, Len(e) + l)
    <3> HIDE DEF x
    <3>1. PICK end \in Int : end = Len(e) + l
      BY <1>0
    <3>2. PICK g \in -n .. end - n : g = h
      <4>1. /\ p \in 1 .. n /\ l \in 1 .. n /\ l > n - p /\ Len(d) \in Nat
            /\ Len(e) = Len(d) + p
        BY <1>0
      <4>2. end = Len(d) + p + l
        BY <3>1, <4>1
      <4>3. h \in -n .. end - n
        BY <1>3, <1>5, <4>1, <4>2
      <4> QED BY <4>3
    <3> HIDE DEF h
    <3>3. \A i \in 1 .. n : Text(e, v, g + i) = x[i]
      BY <2>2, <3>2
    <3>4. Stands(x, n, e, v, end)
      BY <3>3 DEF Stands
    <3> QED BY <3>1, <3>4
  <2> QED BY <1>2, <2>3 DEF x
<1>6. CASE ~(s < l)
  <2>1. s \in 1 .. n - 1
    BY <1>0, <1>3, <1>6
  <2>2. ASSUME NEW i \in 1 .. n
        PROVE  x[i] = IF i <= n - s THEN K_LIMIT ELSE w[i - (n - s)]
    <3>1. CASE i <= n - s
      <4>1. i + s \in l + 1 .. n
        BY <1>0, <1>3, <1>6, <3>1
      <4> QED BY <1>4, <3>1, <4>1 DEF WritesWord
    <3>2. CASE ~(i <= n - s)
      <4>1. i + s - n = i - (n - s)
        BY <1>3
      <4> QED BY <1>4, <3>2, <4>1
    <3> QED BY <3>1, <3>2
  <2>3. x = KThen(w, n, s)
    <3>1. DOMAIN x = 1 .. n /\ x = [i \in 1 .. n |-> x[i]]
      BY DEF Rotated
    <3> HIDE DEF x
    <3> QED BY <2>2, <3>1 DEF KThen
  <2>4. Stands(KThen(w, n, s), n, e, v, Len(e) + l)
    BY <2>1, KThenStands
  <2> QED BY <1>2, <2>3, <2>4
<1> QED BY <1>5, <1>6

\* The run of greatest symbols at its end is completed by the raised word.
LEMMA RunEndsAfter ==
  ASSUME NEW n \in Nat \ {0}, NEW p, NEW w, NEW d, NEW e, NEW v, NEW l,
         WritesWord(n, d, w, p, e, v, l),
         NEW f \in 1 .. p, RunEnds(n, d, w, p, f)
  PROVE  RunEnds(n, e, v, l, l)
<1>0. /\ p \in 1 .. n /\ l \in 1 .. n /\ l > n - p
      /\ Len(d) \in Nat /\ Len(e) = Len(d) + p
      /\ \A i \in 1 .. p : Text(e, v, Len(d) + i) = w[i]
      /\ \A i \in 1 .. p : w[n - p + i] = w[i]
  BY WritesWordFacts
<1>1. ASSUME NEW q \in Len(e) - (n - l) + 1 .. Len(e) PROVE Text(e, v, q) = K_LIMIT
  <2>1. /\ p \in 1 .. n /\ l \in 1 .. n /\ l > n - p
        /\ Len(d) \in Nat /\ Len(e) = Len(d) + p
    BY <1>0
  <2>2. q - Len(d) \in 1 .. p
    BY <2>1
  <2>3. PICK k \in 1 .. p : k = q - Len(d)
    BY <2>2
  <2>4. q = Len(d) + k /\ n - p + k \in l + 1 .. n
    BY <2>1, <2>3
  <2>5. w[k] = K_LIMIT
    BY <1>0, <2>4 DEF WritesWord
  <2>6. Text(e, v, q) = w[k]
    BY <1>0, <2>4
  <2> QED BY <2>5, <2>6
<1>2. ASSUME NEW j \in 1 .. l - 1 PROVE Stands(KThen(v, n, j), n, e, v, Len(e) + l)
  <2>1. j \in 1 .. n - 1
    BY <1>0
  <2>2. ASSUME NEW i \in 1 .. n, ~(i <= n - j) PROVE v[i - (n - j)] = w[i - (n - j)]
    <3>1. i - (n - j) \in 1 .. l - 1
      <4>1. l \in 1 .. n /\ j \in 1 .. l - 1
        BY <1>0
      <4> QED BY <2>2, <4>1
    <3> QED BY <3>1 DEF WritesWord
  <2>3. KThen(v, n, j) = KThen(w, n, j)
    BY <2>2 DEF KThen
  <2> QED BY <2>1, <2>3, KThenStands
<1> QED BY <1>1, <1>2 DEF RunEnds

-----------------------------------------------------------------------------
(* Counting words *)

\* A longer word is a word and one more symbol.
LEMMA OneSymbolMore ==
  ASSUME NEW m \in Nat, IsFiniteSet(Words(m))
  PROVE  IsFiniteSet(Words(m + 1)) /\ Cardinality(Words(m + 1)) = aLen * Cardinality(Words(m))
<1> DEFINE P == Words(m) \X Symbols
           longer(c, s) == [i \in 1 .. m + 1 |-> IF i <= m THEN c[i] ELSE s]
           f == [x \in P |-> longer(x[1], x[2])]
<1>1. IsFiniteSet(Symbols) /\ Cardinality(Symbols) = aLen
  <2>1. aLen - 1 \in Int /\ 0 <= aLen - 1 /\ aLen - 1 - 0 + 1 = aLen
    BY AlphabetAssumption
  <2> QED BY <2>1, FS_Interval DEF Symbols
<1>2. IsFiniteSet(P) /\ Cardinality(P) = Cardinality(Words(m)) * aLen
  BY <1>1, FS_Product
<1>3. ASSUME NEW c \in Words(m), NEW s \in Symbols
      PROVE  /\ longer(c, s) \in Words(m + 1)
             /\ longer(c, s)[m + 1] = s /\ \A i \in 1 .. m : longer(c, s)[i] = c[i]
  <2>1. ASSUME NEW i \in 1 .. m + 1 PROVE (IF i <= m THEN c[i] ELSE s) \in Symbols
    <3>1. CASE i <= m
      <4>1. i \in 1 .. m
        BY <3>1
      <4> HIDE DEF Symbols
      <4> QED BY <3>1, <4>1 DEF Words
    <3> QED BY <3>1
  <2>2. longer(c, s) \in [1 .. m + 1 -> Symbols]
    <3> HIDE DEF Symbols
    <3> QED BY <2>1
  <2> QED BY <2>2 DEF Words
<1>4. f \in [P -> Words(m + 1)]
  <2> HIDE DEF longer
  <2>1. ASSUME NEW x \in P PROVE longer(x[1], x[2]) \in Words(m + 1)
    BY <1>3
  <2> QED BY <2>1
<1>5. ASSUME NEW x \in P, NEW y \in P, f[x] = f[y] PROVE x = y
  <2>1. PICK c \in Words(m), s \in Symbols : x = <<c, s>>
    OBVIOUS
  <2>2. PICK d \in Words(m), t \in Symbols : y = <<d, t>>
    OBVIOUS
  <2>3. f[x] = longer(c, s) /\ f[y] = longer(d, t)
    <3> HIDE DEF longer
    <3> QED BY <2>1, <2>2
  <2> HIDE DEF f, longer
  <2>4. s = t /\ \A i \in 1 .. m : c[i] = d[i]
    <3>1. longer(c, s) = longer(d, t)
      BY <1>5, <2>3
    <3>2. longer(c, s)[m + 1] = s /\ \A i \in 1 .. m : longer(c, s)[i] = c[i]
      BY <1>3
    <3>3. longer(d, t)[m + 1] = t /\ \A i \in 1 .. m : longer(d, t)[i] = d[i]
      BY <1>3
    <3> QED BY <3>1, <3>2, <3>3
  <2>5. c = d
    BY <2>4 DEF Words
  <2> QED BY <2>1, <2>2, <2>4, <2>5
<1>6. ASSUME NEW c \in Words(m + 1) PROVE \E x \in P : f[x] = c
  <2> DEFINE d == [i \in 1 .. m |-> c[i]]
             x == <<d, c[m + 1]>>
  <2>1. \A i \in 1 .. m + 1 : c[i] \in Symbols
    BY DEF Words
  <2>2. d \in Words(m) /\ c[m + 1] \in Symbols
    BY <2>1 DEF Words
  <2>3. longer(d, c[m + 1]) = c
    <3>1. \A i \in 1 .. m + 1 : (IF i <= m THEN d[i] ELSE c[m + 1]) = c[i]
      OBVIOUS
    <3> HIDE DEF d
    <3> QED BY <3>1 DEF Words
  <2>4. x \in P /\ f[x] = longer(d, c[m + 1])
    <3> HIDE DEF longer, d
    <3> QED BY <2>2
  <2> QED BY <2>3, <2>4
<1>7. ExistsBijection(P, Words(m + 1))
  <2> HIDE DEF P, f
  <2>1. f \in Bijection(P, Words(m + 1))
    BY <1>4, <1>5, <1>6 DEF Bijection, Injection, Surjection, IsInjective
  <2> QED BY <2>1 DEF ExistsBijection
<1>8. IsFiniteSet(Words(m + 1)) /\ Cardinality(Words(m + 1)) = Cardinality(P)
  BY <1>2, <1>7, FS_Bijection
<1>9. Cardinality(Words(m)) \in Nat /\ aLen \in Nat
  BY FS_CardinalityType, AlphabetAssumption
<1>10. Cardinality(Words(m)) * aLen = aLen * Cardinality(Words(m))
  BY <1>9
<1> QED BY <1>2, <1>8, <1>10

\* There is one word without symbols.
LEMMA EmptyWord == IsFiniteSet(Words(0)) /\ Cardinality(Words(0)) = 1
<1>1. [i \in 1 .. 0 |-> 0] \in Words(0)
  BY DEF Words
<1>2. \A c \in Words(0) : c = [i \in 1 .. 0 |-> 0]
  BY DEF Words
<1>3. Words(0) = {[i \in 1 .. 0 |-> 0]}
  BY <1>1, <1>2
<1> QED BY <1>3, FS_Singleton

\* There are finitely many words of every length.
LEMMA WordsFinite == \A m \in Nat : IsFiniteSet(Words(m)) /\ Cardinality(Words(m)) \in Nat
<1> DEFINE S == {m \in Nat : IsFiniteSet(Words(m))}
<1>1. 0 \in S
  BY EmptyWord
<1>2. \A m \in Nat : m \in S => m + 1 \in S
  BY OneSymbolMore
<1> HIDE DEF S
<1>3. Nat \subseteq S
  BY <1>1, <1>2, EveryNumber
<1> QED BY <1>3, FS_CardinalityType DEF S

\* total_elements is the number of words.
LEMMA WordsCounted == \A m \in Nat : total_elements[m] = Cardinality(Words(m))
<1> DEFINE step(g, m) == IF m = 0 THEN 1 ELSE aLen * g[m - 1]
           count == [m \in Nat |-> Cardinality(Words(m))]
<1>1. ASSUME NEW m \in Nat \ {0}
      PROVE  m - 1 \in Nat /\ Cardinality(Words(m)) = aLen * Cardinality(Words(m - 1))
  <2>1. m - 1 \in Nat /\ m - 1 + 1 = m
    OBVIOUS
  <2> QED BY <2>1, WordsFinite, OneSymbolMore
<1>2. count = [m \in Nat |-> step(count, m)]
  <2>1. ASSUME NEW m \in Nat PROVE Cardinality(Words(m)) = step(count, m)
    <3>1. CASE m = 0
      BY <3>1, EmptyWord
    <3>2. CASE m # 0
      <4>1. count[m - 1] = Cardinality(Words(m - 1))
        BY <1>1, <3>2
      <4> HIDE DEF count
      <4> QED BY <1>1, <3>2, <4>1
    <3> QED BY <3>1, <3>2
  <2> QED BY <2>1
<1>3. total_elements = [m \in Nat |-> step(total_elements, m)]
  <2>1. \E g : g = [m \in Nat |-> step(g, m)]
    <3> HIDE DEF count
    <3> QED BY <1>2
  <2>2. total_elements = CHOOSE g : g = [m \in Nat |-> step(g, m)]
    BY DEF total_elements
  <2> HIDE DEF step
  <2> QED BY <2>1, <2>2
<1>4. \A m \in Nat : total_elements[m] = step(total_elements, m)
  <2> HIDE DEF step
  <2> QED BY <1>3
<1> DEFINE S == {m \in Nat : total_elements[m] = Cardinality(Words(m))}
<1>5. 0 \in S
  BY <1>4, EmptyWord
<1>6. ASSUME NEW m \in Nat, m \in S PROVE m + 1 \in S
  <2>1. m + 1 \in Nat \ {0} /\ m + 1 - 1 = m
    OBVIOUS
  <2>2. total_elements[m + 1] = aLen * total_elements[m]
    BY <1>4, <2>1
  <2> QED BY <1>1, <1>6, <2>1, <2>2
<1> HIDE DEF S
<1>7. Nat \subseteq S
  BY <1>5, <1>6, EveryNumber
<1> QED BY <1>7 DEF S

-----------------------------------------------------------------------------
(* The words that are done *)

\* The rotations of the necklaces that come before the word.
Done(w, p, n) ==
  {x \in Words(n) : \E c \in Words(n), r \in 0 .. n - 1 :
     Necklace(c, n) /\ Precedes(c, w, p) /\ x = Rotated(c, n, r)}

\* There are no more words that are done than words.
LEMMA DoneFinite ==
  ASSUME NEW n \in Nat \ {0}, NEW p, NEW w
  PROVE  /\ Done(w, p, n) \subseteq Words(n)
         /\ IsFiniteSet(Done(w, p, n)) /\ Cardinality(Done(w, p, n)) \in Nat
         /\ Cardinality(Done(w, p, n)) <= Cardinality(Words(n))
<1>1. Done(w, p, n) \subseteq Words(n)
  BY DEF Done
<1>2. IsFiniteSet(Words(n))
  BY WordsFinite
<1> QED BY <1>1, <1>2, FS_Subset, FS_CardinalityType

\* A word that is extended after its first p symbols.
LEMMA LongerPrefix ==
  ASSUME NEW n \in Nat \ {0}, NEW p \in 1 .. n, NEW t \in 1 .. n, p <= t, NEW w, NEW v,
         \A i \in 1 .. p : v[i] = w[i], NEW d, Len(d) \in Nat
  PROVE  /\ \A x : Stands(x, n, d, w, Len(d) + p) => Stands(x, n, d, v, Len(d) + t)
         /\ \A f \in 1 .. p : RunEnds(n, d, w, p, f) => RunEnds(n, d, v, t, f)
<1>1. ASSUME NEW q \in Int, q <= Len(d) + p PROVE Text(d, w, q) = Text(d, v, q)
  <2>1. CASE q <= Len(d)
    BY <2>1 DEF Text
  <2>2. CASE ~(q <= Len(d))
    <3>1. q - Len(d) \in 1 .. p
      BY <1>1, <2>2
    <3>2. v[q - Len(d)] = w[q - Len(d)]
      BY <3>1
    <3> QED BY <2>2, <3>2 DEF Text
  <2> QED BY <2>1, <2>2
<1>2. ASSUME NEW x, Stands(x, n, d, w, Len(d) + p) PROVE Stands(x, n, d, v, Len(d) + t)
  <2>1. Len(d) + p \in Int /\ Len(d) + t \in Int /\ Len(d) + p <= Len(d) + t
    OBVIOUS
  <2> QED BY <1>1, <1>2, <2>1, StandsStill
<1>3. ASSUME NEW f \in 1 .. p, RunEnds(n, d, w, p, f) PROVE RunEnds(n, d, v, t, f)
  <2>1. ASSUME NEW q \in Len(d) - (n - f) + 1 .. Len(d) PROVE Text(d, v, q) = K_LIMIT
    <3>1. q \in Int /\ q <= Len(d) + p
      OBVIOUS
    <3>2. Text(d, w, q) = K_LIMIT
      BY <1>3 DEF RunEnds
    <3> QED BY <1>1, <3>1, <3>2
  <2>2. ASSUME NEW j \in 1 .. f - 1 PROVE Stands(KThen(v, n, j), n, d, v, Len(d) + t)
    <3>1. ASSUME NEW i \in 1 .. n, ~(i <= n - j) PROVE v[i - (n - j)] = w[i - (n - j)]
      <4>1. i - (n - j) \in 1 .. p
        BY <3>1
      <4> QED BY <4>1
    <3>2. KThen(v, n, j) = KThen(w, n, j)
      BY <3>1 DEF KThen
    <3>3. Stands(KThen(w, n, j), n, d, w, Len(d) + p)
      BY <1>3 DEF RunEnds
    <3> QED BY <1>2, <3>2, <3>3
  <2> QED BY <2>1, <2>2 DEF RunEnds
<1> QED BY <1>2, <1>3

\* What is done depends on the first p symbols only.
LEMMA SamePrefix ==
  ASSUME NEW n \in Nat \ {0}, NEW p \in 1 .. n, NEW w, NEW v, \A i \in 1 .. p : v[i] = w[i]
  PROVE  (Lyndon(w, p) => Lyndon(v, p)) /\ Done(v, p, n) = Done(w, p, n)
<1>1. ASSUME NEW c PROVE Precedes(c, v, p) <=> Precedes(c, w, p)
  <2>1. ASSUME NEW j \in 1 .. p
        PROVE  (c[j] < v[j] /\ \A i \in 1 .. j - 1 : c[i] = v[i])
                 <=> (c[j] < w[j] /\ \A i \in 1 .. j - 1 : c[i] = w[i])
    <3>1. \A i \in 1 .. j - 1 : v[i] = w[i]
      OBVIOUS
    <3> QED BY <3>1
  <2> QED BY <2>1 DEF Precedes
<1>2. Done(v, p, n) = Done(w, p, n)
  BY <1>1 DEF Done
<1>3. ASSUME Lyndon(w, p) PROVE Lyndon(v, p)
  <2> SUFFICES ASSUME NEW r \in 1 .. p - 1
               PROVE  \E j \in 1 .. p - r :
                        v[j] < v[r + j] /\ \A i \in 1 .. j - 1 : v[i] = v[r + i]
    BY DEF Lyndon
  <2>1. PICK j \in 1 .. p - r : w[j] < w[r + j] /\ \A i \in 1 .. j - 1 : w[i] = w[r + i]
    BY <1>3 DEF Lyndon
  <2>2. \A i \in 1 .. j : v[i] = w[i] /\ v[r + i] = w[r + i]
    <3> TAKE i \in 1 .. j
    <3>1. i \in 1 .. p /\ r + i \in 1 .. p
      OBVIOUS
    <3> QED BY <3>1
  <2>3. v[j] < v[r + j]
    <3>1. j \in 1 .. j
      OBVIOUS
    <3> QED BY <2>1, <2>2, <3>1
  <2>4. \A i \in 1 .. j - 1 : v[i] = v[r + i]
    <3> TAKE i \in 1 .. j - 1
    <3>1. i \in 1 .. j
      OBVIOUS
    <3> QED BY <2>1, <2>2, <3>1
  <2> QED BY <2>3, <2>4
<1> QED BY <1>2, <1>3

\* A word is raised at its last symbol that is not the greatest, l.
Raises(n, w, p, v, l) ==
  /\ p \in 1 .. n
  /\ Prefix(w, n) \in Words(n)
  /\ Lyndon(w, p)
  /\ Periodic(w, p, n)
  /\ l \in 1 .. n
  /\ \A i \in l + 1 .. n : w[i] = K_LIMIT
  /\ v[l] = w[l] + 1
  /\ \A i \in 1 .. l - 1 : v[i] = w[i]

\* Then the word itself comes to the words that are done when it is a necklace.
LEMMA DoneNext ==
  ASSUME NEW n \in Nat \ {0}, NEW w, NEW p, NEW v, NEW l, Raises(n, w, p, v, l), NEW x
  PROVE  x \in Done(v, l, n) <=>
           \/ x \in Done(w, p, n)
           \/ /\ Necklace(Prefix(w, n), n)
              /\ \E r \in 0 .. n - 1 : x = Rotated(Prefix(w, n), n, r)
<1> DEFINE a == Prefix(w, n)
<1>1. p \in 1 .. n /\ l \in 1 .. n /\ a \in Words(n)
  BY DEF Raises
<1>2. \A i \in 1 .. n : w[i] \in Int
  <2> TAKE i \in 1 .. n
  <2>1. a[i] \in Int
    <3> HIDE DEF a
    <3> QED BY <1>1, WordSymbols
  <2> QED BY <2>1 DEF Prefix
<1>3. /\ Precedes(a, v, l)
      /\ \A c \in Words(n), q \in 1 .. n : Precedes(c, w, q) => Precedes(c, v, l)
  <2>1. v[l] = w[l] + 1 /\ \A i \in 1 .. l - 1 : v[i] = w[i]
    BY DEF Raises
  <2> QED BY <1>1, <1>2, <2>1, PrecedesStays
<1>4. ASSUME x \in Done(v, l, n), x \notin Done(w, p, n)
      PROVE  Necklace(a, n) /\ \E r \in 0 .. n - 1 : x = Rotated(a, n, r)
  <2>1. PICK c \in Words(n), r \in 0 .. n - 1 :
               Necklace(c, n) /\ Precedes(c, v, l) /\ x = Rotated(c, n, r) /\ x \in Words(n)
    BY <1>4 DEF Done
  <2>2. ~Precedes(c, w, p)
    BY <1>4, <2>1 DEF Done
  <2>3. c = a
    BY <2>1, <2>2, NoneBetween DEF Raises
  <2> QED BY <2>1, <2>3
<1>5. ASSUME x \in Done(w, p, n) PROVE x \in Done(v, l, n)
  BY <1>1, <1>3, <1>5 DEF Done
<1>6. ASSUME Necklace(a, n), NEW r \in 0 .. n - 1, x = Rotated(a, n, r)
      PROVE  x \in Done(v, l, n)
  <2> HIDE DEF a
  <2>1. x \in Words(n)
    BY <1>1, <1>6, RotatedWord
  <2> QED BY <1>1, <1>3, <1>6, <2>1 DEF Done
<1> QED BY <1>4, <1>5, <1>6

\* A word of whole periods has at least as many rotations as its period.
LEMMA RotationsCounted ==
  ASSUME NEW n \in Nat \ {0}, NEW p \in 1 .. n, NEW w, Prefix(w, n) \in Words(n), Lyndon(w, p)
  PROVE  LET R == {Rotated(Prefix(w, n), n, r) : r \in 0 .. n - 1}
         IN IsFiniteSet(R) /\ Cardinality(R) \in Nat /\ p <= Cardinality(R)
<1> DEFINE rot(r) == Rotated(Prefix(w, n), n, r)
           R == {rot(r) : r \in 0 .. n - 1}
           f == [r \in 0 .. p - 1 |-> rot(r)]
<1>1. R \subseteq Words(n)
  BY RotatedWord
<1>2. IsFiniteSet(R)
  <2> HIDE DEF R
  <2> QED BY <1>1, WordsFinite, FS_Subset
<1>3. f \in [0 .. p - 1 -> R]
  <2> HIDE DEF rot
  <2>1. \A r \in 0 .. p - 1 : r \in 0 .. n - 1
    OBVIOUS
  <2> QED BY <2>1
<1>4. ASSUME NEW r \in 0 .. p - 1, NEW s \in 0 .. p - 1, f[r] = f[s] PROVE r = s
  <2>1. rot(r) = rot(s)
    BY <1>4
  <2>2. r < s \/ s < r \/ r = s
    OBVIOUS
  <2> QED BY <2>1, <2>2, TurnsDiffer
<1>5. f \in Injection(0 .. p - 1, R)
  <2> HIDE DEF f, R
  <2> QED BY <1>3, <1>4 DEF Injection, IsInjective
<1>6. Cardinality(0 .. p - 1) = p
  BY FS_Interval
<1>7. Cardinality(R) \in Nat /\ p <= Cardinality(R)
  <2> HIDE DEF f, R
  <2> QED BY <1>2, <1>5, <1>6, FS_Injection, FS_CardinalityType
<1> QED BY <1>2, <1>7

\* With a word of whole periods at least as many words are done as symbols are written.
LEMMA DoneCounted ==
  ASSUME NEW n \in Nat \ {0}, NEW w, NEW p, NEW v, NEW l, Raises(n, w, p, v, l), n % p = 0
  PROVE  Cardinality(Done(w, p, n)) + p <= Cardinality(Done(v, l, n))
<1> DEFINE a == Prefix(w, n)
           R == {Rotated(a, n, r) : r \in 0 .. n - 1}
<1>1. /\ p \in 1 .. n /\ a \in Words(n) /\ Lyndon(w, p) /\ Periodic(w, p, n)
      /\ Necklace(a, n)
  BY WholeIsNecklace DEF Raises
<1>2. IsFiniteSet(R) /\ Cardinality(R) \in Nat /\ p <= Cardinality(R)
  BY <1>1, RotationsCounted
<1>3. Done(v, l, n) = Done(w, p, n) \cup R
  <2>1. ASSUME NEW x PROVE x \in Done(v, l, n) <=> x \in Done(w, p, n) \cup R
    <3>1. x \in R <=> \E r \in 0 .. n - 1 : x = Rotated(a, n, r)
      OBVIOUS
    <3> HIDE DEF R
    <3> QED BY <1>1, <3>1, DoneNext
  <2> HIDE DEF R
  <2> QED BY <2>1
<1>4. ASSUME NEW x \in Done(w, p, n), x \in R PROVE FALSE
  <2>1. PICK s \in 0 .. n - 1 : x = Rotated(a, n, s)
    BY <1>4
  <2>2. PICK c \in Words(n), r \in 0 .. n - 1 :
               Necklace(c, n) /\ Precedes(c, w, p) /\ x = Rotated(c, n, r)
    BY DEF Done
  <2>3. c = a
    BY <1>1, <2>1, <2>2, OneNecklace
  <2>4. PICK j \in 1 .. p : a[j] < w[j]
    BY <2>2, <2>3 DEF Precedes
  <2>5. j \in 1 .. n /\ a[j] = w[j]
    BY <1>1 DEF Prefix
  <2>6. a[j] \in Int
    <3> HIDE DEF a
    <3> QED BY <1>1, <2>5, WordSymbols
  <2> QED BY <2>4, <2>5, <2>6
<1> HIDE DEF R
<1>5. Done(w, p, n) \cap R = {}
  BY <1>4
<1>6. IsFiniteSet(Done(w, p, n)) /\ Cardinality(Done(w, p, n)) \in Nat
  BY DoneFinite
<1>7. Cardinality(Done(v, l, n)) = Cardinality(Done(w, p, n)) + Cardinality(R)
  BY <1>2, <1>3, <1>5, <1>6, FS_Union, FS_EmptySet
<1>8. p \in Int
  BY <1>1
<1> QED BY <1>2, <1>6, <1>7, <1>8

\* When all symbols are the greatest, all other words are done.
LEMMA OthersDone ==
  ASSUME NEW n \in Nat \ {0}, NEW w, \A i \in 1 .. n : w[i] = K_LIMIT
  PROVE  /\ Prefix(w, n) \in Words(n)
         /\ \A x \in Words(n) : x \in Done(w, 1, n) <=> x # Prefix(w, n)
<1> DEFINE a == Prefix(w, n)
<1>1. \A i \in 1 .. n : a[i] = K_LIMIT
  BY DEF Prefix
<1>2. a \in Words(n)
  <2>1. K_LIMIT \in Symbols
    BY AlphabetAssumption DEF K_LIMIT, Symbols
  <2> HIDE DEF Symbols
  <2> QED BY <2>1 DEF Words, Prefix
<1> HIDE DEF a
<1>3. ASSUME NEW x \in Words(n), x # a PROVE x \in Done(w, 1, n)
  <2>1. PICK c \in Words(n), r \in 0 .. n - 1 : Necklace(c, n) /\ x = Rotated(c, n, r)
    BY NecklaceOfWord
  <2>2. c # a
    <3> SUFFICES ASSUME c = a PROVE FALSE
      OBVIOUS
    <3>1. \A i \in 1 .. n : (IF i + r <= n THEN c[i + r] ELSE c[i + r - n]) = a[i]
      <4> TAKE i \in 1 .. n
      <4>1. i + r <= n => i + r \in 1 .. n
        OBVIOUS
      <4>2. ~(i + r <= n) => i + r - n \in 1 .. n
        OBVIOUS
      <4> QED BY <1>1, <4>1, <4>2
    <3>2. x = [i \in 1 .. n |-> a[i]]
      BY <2>1, <3>1 DEF Rotated
    <3>3. x = a
      BY <1>2, <3>2 DEF Words
    <3> QED BY <1>3, <3>3
  <2>3. ~Precedes(a, c, n)
    <3> SUFFICES ASSUME NEW j \in 1 .. n, a[j] < c[j] PROVE FALSE
      BY DEF Precedes
    <3>1. c[j] \in Int /\ c[j] <= K_LIMIT /\ K_LIMIT \in Int
      BY WordSymbols
    <3> QED BY <1>1, <3>1
  <2>4. Precedes(c, a, n)
    BY <1>2, <2>2, <2>3, OnePrecedes
  <2>5. Precedes(c, w, n)
    <3>1. PICK j \in 1 .. n : c[j] < a[j] /\ \A i \in 1 .. j - 1 : c[i] = a[i]
      BY <2>4 DEF Precedes
    <3>2. c[j] < w[j] /\ \A i \in 1 .. j - 1 : c[i] = w[i]
      BY <1>1, <3>1
    <3> QED BY <3>2 DEF Precedes
  <2>6. Periodic(w, 1, n)
    <3> SUFFICES ASSUME NEW i \in 1 + 1 .. n PROVE w[i] = w[i - 1]
      BY DEF Periodic
    <3>1. i \in 1 .. n /\ i - 1 \in 1 .. n
      OBVIOUS
    <3> QED BY <3>1
  <2>7. Precedes(c, w, 1)
    <3>1. 1 \in 1 .. n
      OBVIOUS
    <3> QED BY <2>1, <2>5, <2>6, <3>1, PrecedesInPeriod
  <2> QED BY <2>1, <2>7 DEF Done
<1>4. ASSUME a \in Done(w, 1, n) PROVE FALSE
  <2>1. PICK c \in Words(n), r \in 0 .. n - 1 :
               Necklace(c, n) /\ Precedes(c, w, 1) /\ a = Rotated(c, n, r)
    BY <1>4 DEF Done
  <2>2. c[1] < w[1] /\ w[1] = K_LIMIT
    BY <2>1 DEF Precedes
  <2> DEFINE i == IF r = 0 THEN 1 ELSE n - r + 1
  <2>3. i \in 1 .. n
    OBVIOUS
  <2>4. (IF i + r <= n THEN c[i + r] ELSE c[i + r - n]) = c[1]
    OBVIOUS
  <2>5. a[i] = c[1]
    <3> HIDE DEF i
    <3> QED BY <2>1, <2>3, <2>4 DEF Rotated
  <2>6. c[1] \in Int /\ K_LIMIT \in Int
    <3>1. 1 \in 1 .. n
      OBVIOUS
    <3> QED BY <3>1, WordSymbols
  <2> HIDE DEF i
  <2> QED BY <1>1, <2>2, <2>3, <2>5, <2>6
<1> QED BY <1>2, <1>3, <1>4 DEF a

-----------------------------------------------------------------------------
(* The loop *)

\* All words that are done stand in the text; the raised words complete the
\* run of greatest symbols at its end; and no more is written than is done.
WordInv(n, w, p, d) ==
  /\ Lyndon(w, p)
  /\ \A x \in Done(w, p, n) : Stands(x, n, d, w, Len(d) + p)
  /\ \E f \in 1 .. p : RunEnds(n, d, w, p, f)
  /\ Len(d) <= Cardinality(Done(w, p, n))

\* At the end all words stand in what is written, and no more is written.
WrittenInv(n, w, d) ==
  /\ \A x \in Words(n) : Stands(x, n, d, w, Len(d))
  /\ Len(d) <= Cardinality(Words(n))

\* To extend the word changes nothing.
LEMMA ExtendedWord ==
  ASSUME NEW n \in Nat \ {0}, NEW p \in 1 .. n, NEW w, NEW v, NEW d, Len(d) \in Nat,
         \A i \in 1 .. p : v[i] = w[i], WordInv(n, w, p, d)
  PROVE  WordInv(n, v, p, d)
<1>1. Lyndon(v, p) /\ Done(v, p, n) = Done(w, p, n)
  BY SamePrefix DEF WordInv
<1>2. /\ \A x : Stands(x, n, d, w, Len(d) + p) => Stands(x, n, d, v, Len(d) + p)
      /\ \A f \in 1 .. p : RunEnds(n, d, w, p, f) => RunEnds(n, d, v, p, f)
  <2>1. p <= p
    OBVIOUS
  <2> QED BY <2>1, LongerPrefix
<1> QED BY <1>1, <1>2 DEF WordInv

\* The raised word is a Lyndon word again.
LEMMA RaisedWord ==
  ASSUME NEW n \in Nat \ {0}, NEW w, NEW p, NEW v, NEW l, Raises(n, w, p, v, l)
  PROVE  p \in 1 .. n /\ l \in 1 .. n /\ Lyndon(v, l)
<1>1. \A i \in 1 .. n : w[i] \in Int
  <2> TAKE i \in 1 .. n
  <2>1. Prefix(w, n)[i] \in Int
    BY WordSymbols DEF Raises
  <2> QED BY <2>1 DEF Prefix
<1> QED BY <1>1, RaisedIsLyndon DEF Raises

\* A word of whole periods is written, and raised.
LEMMA NextIsWritten ==
  ASSUME NEW n \in Nat \ {0}, NEW w, NEW p, NEW v, NEW l, NEW d, NEW e,
         WordInv(n, w, p, d), Raises(n, w, p, v, l), WritesWord(n, d, w, p, e, v, l)
  PROVE  WordInv(n, v, l, e)
<1>1. p \in 1 .. n /\ l \in 1 .. n /\ Lyndon(v, l)
  BY RaisedWord
<1>2. PICK f \in 1 .. p : RunEnds(n, d, w, p, f)
  BY DEF WordInv
<1>3. RunEnds(n, e, v, l, l)
  BY <1>2, RunEndsAfter
<1>4. /\ Len(d) \in Nat /\ Len(e) = Len(d) + p
      /\ \A q \in Int : q <= Len(d) + p => Text(d, w, q) = Text(e, v, q)
  BY WritesWordFacts
<1>5. ASSUME NEW x \in Done(v, l, n) PROVE Stands(x, n, e, v, Len(e) + l)
  <2>1. CASE x \in Done(w, p, n)
    <3>1. Stands(x, n, d, w, Len(d) + p)
      BY <2>1 DEF WordInv
    <3>2. Len(d) + p \in Int /\ Len(e) + l \in Int /\ Len(d) + p <= Len(e) + l
      BY <1>1, <1>4
    <3> QED BY <1>4, <3>1, <3>2, StandsStill
  <2>2. CASE \E r \in 0 .. n - 1 : x = Rotated(Prefix(w, n), n, r)
    BY <1>2, <2>2, RotationsStand
  <2> QED BY <2>1, <2>2, DoneNext
<1>6. Len(e) <= Cardinality(Done(v, l, n))
  <2>1. n % p = 0
    BY DEF WritesWord
  <2>2. Cardinality(Done(w, p, n)) + p <= Cardinality(Done(v, l, n))
    BY <2>1, DoneCounted
  <2>3. Cardinality(Done(w, p, n)) \in Nat /\ Cardinality(Done(v, l, n)) \in Nat
    BY DoneFinite
  <2>4. Len(d) <= Cardinality(Done(w, p, n))
    BY DEF WordInv
  <2> QED BY <1>1, <1>4, <2>2, <2>3, <2>4
<1>7. l \in 1 .. l
  BY <1>1
<1> QED BY <1>1, <1>3, <1>5, <1>6, <1>7 DEF WordInv

\* A word of other periods, which is no necklace, is raised after its period.
LEMMA NextIsNotWritten ==
  ASSUME NEW n \in Nat \ {0}, NEW w, NEW p, NEW v, NEW l, NEW d, Len(d) \in Nat,
         WordInv(n, w, p, d), Raises(n, w, p, v, l), n % p # 0, p < l
  PROVE  WordInv(n, v, l, d)
<1>1. p \in 1 .. n /\ l \in 1 .. n /\ Lyndon(v, l)
  BY RaisedWord
<1>2. \A i \in 1 .. p : v[i] = w[i]
  <2> TAKE i \in 1 .. p
  <2>1. i \in 1 .. l - 1
    BY <1>1
  <2> QED BY <2>1 DEF Raises
<1>3. /\ \A x : Stands(x, n, d, w, Len(d) + p) => Stands(x, n, d, v, Len(d) + l)
      /\ \A f \in 1 .. p : RunEnds(n, d, w, p, f) => RunEnds(n, d, v, l, f)
  <2>1. p <= l
    BY <1>1
  <2> QED BY <1>1, <1>2, <2>1, LongerPrefix
<1>4. Done(v, l, n) = Done(w, p, n)
  <2>1. ~Necklace(Prefix(w, n), n)
    BY <1>1, WholePeriods DEF Raises
  <2>2. \A x : x \in Done(v, l, n) <=> x \in Done(w, p, n)
    BY <2>1, DoneNext
  <2> QED BY <2>2
<1>5. \E f \in 1 .. l : RunEnds(n, d, v, l, f)
  <2>1. PICK f \in 1 .. p : RunEnds(n, d, w, p, f)
    BY DEF WordInv
  <2>2. f \in 1 .. l
    BY <1>1
  <2> QED BY <1>3, <2>1, <2>2
<1> QED BY <1>1, <1>3, <1>4, <1>5 DEF WordInv

\* The last word is written like the others, as the one before itself.
LEMMA WritesLastWord ==
  ASSUME NEW n \in Nat \ {0}, NEW w, \A i \in 1 .. n : w[i] = K_LIMIT, NEW p, p = 1,
         NEW d \in Seq(Symbols), NEW e, e = d \o [i \in 1 .. p |-> w[i]], WordInv(n, w, p, d)
  PROVE  WritesWord(n, d, w, p, e, w, n)
<1>1. Prefix(w, n) \in Words(n)
  BY OthersDone
<1>2. Periodic(w, 1, n)
  <2> SUFFICES ASSUME NEW i \in 1 + 1 .. n PROVE w[i] = w[i - 1]
    BY DEF Periodic
  <2>1. i \in 1 .. n /\ i - 1 \in 1 .. n
    OBVIOUS
  <2> QED BY <2>1
<1>3. n % 1 = 0 /\ 1 \in 1 .. n /\ n \in n - 1 + 1 .. n
  OBVIOUS
<1>4. (\A i \in n + 1 .. n : w[i] = K_LIMIT) /\ \A i \in 1 .. n - 1 : w[i] = w[i]
  OBVIOUS
<1>5. Lyndon(w, 1)
  BY DEF WordInv
<1> QED BY <1>1, <1>2, <1>3, <1>4, <1>5 DEF WritesWord

\* With it every word stands in what is written: it stands where the ring is closed.
LEMMA LastIsWritten ==
  ASSUME NEW n \in Nat \ {0}, NEW w, \A i \in 1 .. n : w[i] = K_LIMIT, NEW p, p = 1,
         NEW d, NEW e, WritesWord(n, d, w, p, e, w, n), WordInv(n, w, p, d)
  PROVE  WrittenInv(n, w, e)
<1> DEFINE a == Prefix(w, n)
<1>1. a \in Words(n) /\ \A x \in Words(n) : x \in Done(w, 1, n) <=> x # a
  BY OthersDone
<1>2. /\ Len(d) \in Nat /\ Len(e) = Len(d) + p
      /\ \A q \in Int : q <= Len(d) + p => Text(d, w, q) = Text(e, w, q)
  BY WritesWordFacts
<1>3. /\ Len(d) \in Nat /\ Len(e) = Len(d) + 1
      /\ \A q \in Int : q <= Len(d) + 1 => Text(d, w, q) = Text(e, w, q)
  BY <1>2
<1>4. ASSUME NEW x \in Words(n) PROVE Stands(x, n, e, w, Len(e))
  <2>1. CASE x # a
    <3>1. Stands(x, n, d, w, Len(d) + 1)
      BY <1>1, <2>1 DEF WordInv
    <3>2. Len(d) + 1 \in Int /\ Len(e) \in Int /\ Len(d) + 1 <= Len(e)
      BY <1>3
    <3> QED BY <1>3, <3>1, <3>2, StandsStill
  <2>2. CASE x = a
    <3>1. PICK h \in Int : h = -n
      OBVIOUS
    <3>2. h \in -n .. Len(e) - n
      BY <1>3, <3>1
    <3>3. ASSUME NEW i \in 1 .. n PROVE Text(e, w, h + i) = x[i]
      <4>1. h + i <= 0
        BY <3>1
      <4>2. x[i] = K_LIMIT
        BY <2>2 DEF Prefix
      <4> QED BY <4>1, <4>2 DEF Text
    <3> QED BY <3>2, <3>3 DEF Stands
  <2> QED BY <2>1, <2>2
<1>5. Len(e) <= Cardinality(Words(n))
  <2>1. /\ Done(w, 1, n) \subseteq Words(n) /\ Done(w, 1, n) # Words(n)
    BY <1>1, DoneFinite
  <2>2. IsFiniteSet(Words(n)) /\ Cardinality(Words(n)) \in Nat
    BY WordsFinite
  <2>3. Cardinality(Done(w, 1, n)) \in Nat
    BY DoneFinite
  <2>4. /\ Cardinality(Done(w, 1, n)) <= Cardinality(Words(n))
        /\ Cardinality(Done(w, 1, n)) # Cardinality(Words(n))
    BY <2>1, <2>2, FS_Subset
  <2>5. Len(d) <= Cardinality(Done(w, 1, n))
    BY DEF WordInv
  <2> QED BY <1>3, <2>2, <2>3, <2>4, <2>5
<1> QED BY <1>4, <1>5 DEF WrittenInv

\* Between the steps of the loop; only a word of zeros is as long as its period.
LoopInv ==
  /\ pos > 0 => WordInv(order, word, period, dBSeq)
  /\ pos = period => word[pos] = word[0]
  /\ Written => WrittenInv(order, word, dBSeq)

\* A word of zeros: no necklace comes before it.
LEMMA WordOfZeros ==
  ASSUME NEW m \in Nat \ {0}, NEW w, \A i \in 0 .. m : w[i] = 0, NEW d, Len(d) = 0
  PROVE  WordInv(m, w, 1, d) /\ w[1] = w[0]
<1>1. Lyndon(w, 1)
  BY DEF Lyndon
<1>2. Done(w, 1, m) = {}
  <2> SUFFICES ASSUME NEW c \in Words(m), Precedes(c, w, 1) PROVE FALSE
    BY DEF Done
  <2>1. c[1] < w[1]
    BY DEF Precedes
  <2>2. 1 \in 1 .. m /\ 1 \in 0 .. m
    OBVIOUS
  <2>3. c[1] \in Int /\ 0 <= c[1] /\ w[1] = 0
    BY <2>2, WordSymbols
  <2> QED BY <2>1, <2>3
<1>3. RunEnds(m, d, w, 1, 1)
  <2>1. ASSUME NEW q \in Len(d) - (m - 1) + 1 .. Len(d) PROVE Text(d, w, q) = K_LIMIT
    <3>1. q <= 0
      OBVIOUS
    <3> QED BY <3>1 DEF Text
  <2>2. 1 .. 1 - 1 = {}
    OBVIOUS
  <2> QED BY <2>1, <2>2 DEF RunEnds
<1>4. Len(d) <= Cardinality(Done(w, 1, m))
  <2>1. Cardinality(Done(w, 1, m)) = 0
    BY <1>2, FS_EmptySet
  <2> QED BY <2>1
<1>5. WordInv(m, w, 1, d)
  <2>1. 1 \in 1 .. 1
    OBVIOUS
  <2> QED BY <1>1, <1>2, <1>3, <1>4, <2>1 DEF WordInv
<1>6. w[1] = w[0]
  <2>1. 1 \in 0 .. m /\ 0 \in 0 .. m
    OBVIOUS
  <2> QED BY <2>1
<1> QED BY <1>5, <1>6

\* A run begins with it.
LEMMA BeginKeepsWords ==
  ASSUME NEW m \in Nat \ {0}, StartSequence(m) PROVE LoopInv'
<1>1. /\ order' = m /\ pos' = 1 /\ period' = 1
      /\ (\A i \in 0 .. m : word'[i] = 0) /\ Len(dBSeq') = 0
  BY DEF StartSequence
<1>2. WordInv(m, word', 1, dBSeq') /\ word'[1] = word'[0]
  BY <1>1, WordOfZeros
<1> QED BY <1>1, <1>2 DEF LoopInv, Written

\* A step of the loop keeps it.
LEMMA LoopKeepsWords ==
  ASSUME SequenceInv, TailInv, LoopInv, dfsIterative PROVE LoopInv'
<1>1. /\ order \in Nat \ {0} /\ word \in [0 .. order -> Symbols]
      /\ pos \in 0 .. order + 1 /\ period \in 1 .. order
      /\ dBSeq \in Seq(Symbols) /\ Len(dBSeq) \in Nat /\ (pos > 0 => period <= pos)
  BY DEF SequenceInv, SequenceTypeOK, ReadsInsideWord
<1>2. CASE Extend
  <2>1. /\ pos \in 1 .. order /\ pos' = pos + 1 /\ period' = period /\ order' = order
        /\ dBSeq' = dBSeq /\ word' = [word EXCEPT ![pos] = word[pos - period]]
    BY <1>1, <1>2 DEF Extend, RoomInWord
  <2>2. ASSUME NEW i \in 1 .. period PROVE word'[i] = word[i]
    <3>1. CASE i = pos
      <4>1. pos = period /\ pos - period = 0
        BY <1>1, <2>1, <3>1
      <4>2. word'[pos] = word[pos - period]
        BY <1>1, <2>1
      <4> QED BY <3>1, <4>1, <4>2 DEF LoopInv
    <3>2. CASE i # pos
      BY <1>1, <2>1, <3>2
    <3> QED BY <3>1, <3>2
  <2>3. WordInv(order, word, period, dBSeq)
    BY <2>1 DEF LoopInv
  <2>4. WordInv(order, word', period, dBSeq)
    BY <1>1, <2>2, <2>3, ExtendedWord
  <2>5. pos' # period' /\ pos' # 0
    BY <1>1, <2>1
  <2> QED BY <2>1, <2>4, <2>5 DEF LoopInv, Written
<1>3. CASE NextWord
  <2>1. pos = order + 1 /\ order' = order /\ dBSeq' = WithLyndonWord
    BY <1>3 DEF NextWord
  <2>2. PICK last \in 0 .. order :
          /\ LastRaisable(last)
          /\ IF last = 0
             THEN pos' = 0 /\ UNCHANGED <<word, period>>
             ELSE /\ word' = [word EXCEPT ![last] = @ + 1]
                  /\ period' = last
                  /\ pos' = last + 1
    BY <1>3 DEF NextWord
  <2>3. WordInv(order, word, period, dBSeq)
    BY <1>1, <2>1 DEF LoopInv
  <2>4. \A i \in last + 1 .. order : word[i] = K_LIMIT
    BY <2>2 DEF LastRaisable
  <2>5. Periodic(word, period, order)
    BY <1>1, <2>1 DEF TailInv, Periodic
  <2>6. CASE last = 0
    <3>1. pos' = 0 /\ word' = word /\ period' = period
      BY <2>2, <2>6
    <3>2. \A i \in 1 .. order : word[i] = K_LIMIT
      BY <1>1, <2>4, <2>6
    <3>3. period = 1
      BY <1>1, <2>1, <3>2 DEF TailInv
    <3>4. dBSeq' = dBSeq \o [i \in 1 .. 1 |-> word[i]]
      BY <1>1, <2>1, <3>3 DEF WithLyndonWord
    <3>5. WordInv(order, word, 1, dBSeq)
      BY <2>3, <3>3
    <3>6. WritesWord(order, dBSeq, word, 1, dBSeq', word, order)
      BY <1>1, <3>2, <3>4, <3>5, WritesLastWord
    <3>7. WrittenInv(order, word, dBSeq')
      BY <1>1, <3>2, <3>5, <3>6, LastIsWritten
    <3> QED BY <1>1, <2>1, <3>1, <3>7 DEF LoopInv, Written
  <2>7. CASE last # 0
    <3>1. /\ word' = [word EXCEPT ![last] = @ + 1] /\ period' = last /\ pos' = last + 1
          /\ last \in 1 .. order /\ word[last] # K_LIMIT
      BY <2>2, <2>7 DEF LastRaisable
    <3>2. word'[last] = word[last] + 1 /\ \A i \in 1 .. last - 1 : word'[i] = word[i]
      BY <1>1, <3>1
    <3>3. word[1] # K_LIMIT
      BY <2>1, <3>1, FirstIsNotGreatest
    <3>4. Raises(order, word, period, word', last)
      <4>1. Prefix(word, order) \in Words(order)
        <5>1. \A i \in 1 .. order : word[i] \in Symbols
          BY <1>1
        <5> QED BY <5>1 DEF Prefix, Words
      <4>2. Lyndon(word, period)
        BY <2>3 DEF WordInv
      <4> QED BY <1>1, <2>4, <2>5, <3>1, <3>2, <4>1, <4>2 DEF Raises
    <3>5. CASE order % period = 0
      <4>1. dBSeq' = dBSeq \o [i \in 1 .. period |-> word[i]]
        BY <2>1, <3>5 DEF WithLyndonWord
      <4>2. last \in order - period + 1 .. order
        <5> SUFFICES ASSUME last <= order - period PROVE FALSE
          BY <1>1, <3>1
        <5>1. order - period + 1 \in last + 1 .. order /\ 1 \in 1 .. period
          BY <1>1, <3>1
        <5>2. word[order - period + 1] = word[1]
          BY <1>1, <2>5, <3>5, <5>1, PeriodAtEnd
        <5> QED BY <2>4, <3>3, <5>1, <5>2
      <4>3. WritesWord(order, dBSeq, word, period, dBSeq', word', last)
        BY <1>1, <3>4, <3>5, <4>1, <4>2 DEF WritesWord, Raises
      <4>4. WordInv(order, word', last, dBSeq')
        BY <1>1, <2>3, <3>4, <4>3, NextIsWritten
      <4>5. pos' # period' /\ pos' # 0
        BY <3>1
      <4> QED BY <2>1, <3>1, <4>4, <4>5 DEF LoopInv, Written
    <3>6. CASE order % period # 0
      <4>1. dBSeq' = dBSeq
        BY <2>1, <3>6 DEF WithLyndonWord
      <4>2. period < last
        <5>1. period \in Nat \ {0} /\ order \in Int
          BY <1>1
        <5>2. PICK q \in Int, r \in 0 .. period - 1 : r = order % period /\ order = period * q + r
          BY <5>1, Divided
        <5>3. q >= 1
          <6> SUFFICES ASSUME q <= 0 PROVE FALSE
            BY <5>2
          <6>1. period * q <= 0
            BY <5>1, Z3
          <6>2. order <= r
            BY <1>1, <5>2, <6>1
          <6> QED BY <1>1, <6>2
        <5>4. period * q \in Nat /\ period * q >= period
          BY <5>1, <5>3, Z3
        <5>5. PICK k \in Nat : k = period * q
          BY <5>4
        <5>6. k >= period /\ k + 1 <= order
          BY <1>1, <3>6, <5>2, <5>4, <5>5
        <5>7. word[k + 1] = word[1]
          <6>1. q \in Nat /\ 1 \in 1 .. order
            BY <1>1, <5>3
          <6> QED BY <1>1, <2>5, <5>5, <5>6, <6>1, PeriodRepeats
        <5>8. ~(k + 1 \in last + 1 .. order)
          BY <2>4, <3>3, <5>7
        <5> QED BY <1>1, <3>1, <5>6, <5>8
      <4>3. WordInv(order, word', last, dBSeq)
        BY <1>1, <2>3, <3>4, <3>6, <4>2, NextIsNotWritten
      <4>4. pos' # period' /\ pos' # 0
        BY <3>1
      <4> QED BY <2>1, <3>1, <4>1, <4>3, <4>4 DEF LoopInv, Written
    <3> QED BY <3>5, <3>6
  <2> QED BY <2>6, <2>7
<1> QED BY <1>2, <1>3 DEF dfsIterative

\* A ring in which every word stands, and which has no more symbols than there are
\* words, has every word once.
LEMMA AllWordsOnce ==
  ASSUME NEW n \in Nat \ {0}, NEW w, NEW d \in Seq(Symbols), GreatestAtEnd(d, n),
         WrittenInv(n, w, d)
  PROVE  Len(d) = Cardinality(Words(n)) /\ NoWordTwice(d, n)
<1>1. /\ Len(d) \in Nat /\ n <= Len(d)
      /\ \A i \in 1 .. Len(d) : d[i] \in Symbols
  BY DEF GreatestAtEnd
<1> DEFINE L == Len(d)
           f == [j \in 1 .. L |-> WordAt(d, n, j)]
<1>2. ASSUME NEW j \in 1 .. L, NEW i \in 1 .. n
      PROVE  WordAt(d, n, j)[i] = IF j + i - 1 <= L THEN d[j + i - 1] ELSE d[j + i - 1 - L]
  <2>1. L \in Nat \ {0} /\ j + i - 2 \in Int
    BY <1>1
  <2>2. WordAt(d, n, j)[i] = d[((j + i - 2) % L) + 1]
    BY DEF WordAt
  <2>3. CASE j + i - 1 <= L
    <3>1. (j + i - 2) % L = j + i - 2
      <4>1. 0 <= j + i - 2 /\ j + i - 2 < L
        BY <1>1, <2>3
      <4> QED BY <2>1, <4>1, Modulo
    <3>2. j + i - 2 + 1 = j + i - 1
      OBVIOUS
    <3> QED BY <2>2, <2>3, <3>1, <3>2
  <2>4. CASE ~(j + i - 1 <= L)
    <3>1. (j + i - 2) % L = j + i - 2 - L
      <4>1. L <= j + i - 2 /\ j + i - 2 < 2 * L
        BY <1>1, <2>4
      <4> QED BY <2>1, <4>1, Modulo
    <3>2. j + i - 2 - L + 1 = j + i - 1 - L
      BY <1>1
    <3> QED BY <2>2, <2>4, <3>1, <3>2
  <2> QED BY <2>3, <2>4
<1>3. ASSUME NEW j \in 1 .. L PROVE WordAt(d, n, j) \in Words(n)
  <2>1. ASSUME NEW i \in 1 .. n PROVE WordAt(d, n, j)[i] \in Symbols
    <3>1. CASE j + i - 1 <= L
      <4>1. j + i - 1 \in 1 .. L
        BY <1>1, <3>1
      <4> QED BY <1>1, <1>2, <3>1, <4>1
    <3>2. CASE ~(j + i - 1 <= L)
      <4>1. j + i - 1 - L \in 1 .. L
        BY <1>1, <3>2
      <4> QED BY <1>1, <1>2, <3>2, <4>1
    <3> QED BY <3>1, <3>2
  <2> DEFINE at(i) == d[((j + i - 2) % Len(d)) + 1]
  <2>2. \A i \in 1 .. n : at(i) \in Symbols
    BY <2>1 DEF WordAt
  <2> HIDE DEF at, Symbols
  <2>3. [i \in 1 .. n |-> at(i)] \in [1 .. n -> Symbols]
    BY <2>2
  <2> QED BY <2>3 DEF WordAt, Words, at
<1>4. ASSUME NEW x \in Words(n) PROVE \E j \in 1 .. L : WordAt(d, n, j) = x
  <2>1. PICK h \in -n .. Len(d) - n : \A i \in 1 .. n : Text(d, w, h + i) = x[i]
    BY DEF WrittenInv, Stands
  <2>2. \A i \in 1 .. n : h + i <= L
    BY <1>1
  <2> DEFINE j == IF h >= 0 THEN h + 1 ELSE L + h + 1
  <2>3. j \in 1 .. L
    BY <1>1
  <2>4. ASSUME NEW i \in 1 .. n PROVE WordAt(d, n, j)[i] = x[i]
    <3>1. CASE h + i > 0
      <4>1. h + i \in 1 .. L
        BY <1>1, <2>2, <3>1
      <4>2. x[i] = d[h + i]
        BY <2>1, <3>1, <4>1 DEF Text
      <4>3. (IF j + i - 1 <= L THEN d[j + i - 1] ELSE d[j + i - 1 - L]) = d[h + i]
        <5>1. CASE h >= 0
          <6>1. j + i - 1 = h + i /\ j + i - 1 <= L
            BY <4>1, <5>1
          <6> HIDE DEF j, L
          <6> QED BY <6>1
        <5>2. CASE ~(h >= 0)
          <6>1. ~(j + i - 1 <= L) /\ j + i - 1 - L = h + i
            BY <1>1, <4>1, <5>2
          <6> HIDE DEF j, L
          <6> QED BY <6>1
        <5> QED BY <5>1, <5>2
      <4> HIDE DEF j, L
      <4> QED BY <1>2, <2>3, <4>2, <4>3
    <3>2. CASE ~(h + i > 0)
      <4>1. x[i] = K_LIMIT
        BY <2>1, <3>2 DEF Text
      <4>2. j + i - 1 = L + h + i /\ L + h + i \in L - n + 1 .. L
        BY <1>1, <3>2
      <4>3. d[L + h + i] = K_LIMIT
        BY <4>2 DEF GreatestAtEnd
      <4>4. j + i - 1 <= L
        BY <1>1, <4>2
      <4> HIDE DEF j
      <4> QED BY <1>2, <2>3, <4>1, <4>2, <4>3, <4>4
    <3> QED BY <3>1, <3>2
  <2> HIDE DEF j, L
  <2>5. WordAt(d, n, j) = x
    <3>1. WordAt(d, n, j) \in Words(n)
      BY <1>3, <2>3
    <3> QED BY <2>4, <3>1 DEF Words
  <2> QED BY <2>3, <2>5
<1>5. f \in Surjection(1 .. L, Words(n))
  <2>1. f \in [1 .. L -> Words(n)]
    BY <1>3
  <2>2. \A x \in Words(n) : \E j \in 1 .. L : f[j] = x
    BY <1>4
  <2> HIDE DEF f
  <2> QED BY <2>1, <2>2 DEF Surjection
<1>6. IsFiniteSet(1 .. L) /\ Cardinality(1 .. L) = L
  <2>1. 1 \in Int /\ L \in Int /\ ~(1 > L) /\ L - 1 + 1 = L
    BY <1>1
  <2> HIDE DEF L
  <2> QED BY <2>1, FS_Interval
<1>7. Cardinality(Words(n)) \in Nat
  BY WordsFinite
<1> HIDE DEF f
<1>8. Cardinality(Words(n)) <= L
  BY <1>5, <1>6, FS_Surjection
<1>9. L = Cardinality(Words(n))
  BY <1>1, <1>7, <1>8 DEF WrittenInv
<1>10. f \in Injection(1 .. L, Words(n))
  BY <1>5, <1>6, <1>9, FS_SurjSameCardinalityImpliesInj
<1>11. NoWordTwice(d, n)
  <2> SUFFICES ASSUME NEW i \in 1 .. L, NEW j \in 1 .. L, WordAt(d, n, i) = WordAt(d, n, j)
               PROVE  i = j
    BY DEF NoWordTwice
  <2>1. f[i] = f[j]
    BY DEF f
  <2>2. DOMAIN f = 1 .. L
    BY DEF f
  <2> QED BY <1>10, <2>1, <2>2 DEF Injection, IsInjective
<1> QED BY <1>9, <1>11

\* So no more is ever written than the buffer holds, and at the end it is full.
LEMMA WordsOnce == SequenceInv /\ TailInv /\ LoopInv => EveryWordOnce
<1> SUFFICES ASSUME SequenceInv, TailInv, LoopInv PROVE EveryWordOnce
  OBVIOUS
<1>1. order \in Nat \ {0} /\ dBSeq \in Seq(Symbols) /\ Len(dBSeq) \in Nat /\ pos \in Nat
  BY DEF SequenceInv, SequenceTypeOK
<1>2. total_elements[order] = Cardinality(Words(order)) /\ total_elements[order] \in Nat
  BY <1>1, WordsCounted, WordsFinite
<1>3. CASE Written
  <2>1. Len(dBSeq) = Cardinality(Words(order)) /\ NoWordTwice(dBSeq, order)
    BY <1>1, <1>3, AllWordsOnce DEF TailInv, LoopInv
  <2> QED BY <1>2, <2>1 DEF EveryWordOnce
<1>4. CASE ~Written
  <2>1. WordInv(order, word, period, dBSeq)
    BY <1>1, <1>4 DEF LoopInv, Written
  <2>2. Len(dBSeq) <= Cardinality(Done(word, period, order))
    BY <2>1 DEF WordInv
  <2>3. /\ Cardinality(Done(word, period, order)) \in Nat
        /\ Cardinality(Done(word, period, order)) <= Cardinality(Words(order))
    BY <1>1, DoneFinite
  <2> QED BY <1>1, <1>2, <1>4, <2>2, <2>3 DEF EveryWordOnce
<1> QED BY <1>3, <1>4

=============================================================================
