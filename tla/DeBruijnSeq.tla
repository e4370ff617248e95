---------------------------- MODULE DeBruijnSeq ----------------------------
(***************************************************************************)
(* DBSeq: the de Bruijn sequence of an order over an alphabet, written by  *)
(* the loop of Fredricksen, Kessler and Maiorana into a buffer of exactly  *)
(* total_elements characters.  The symbols are the numbers 0..aLen-1.      *)
(***************************************************************************)
EXTENDS Integers, Sequences, FiniteSets

CONSTANT aLen          \* the length of the alphabet

ASSUME AlphabetAssumption == aLen \in Nat \ {0, 1}

VARIABLES
  order,               \* n: the length of a word
  word,                \* a: the Lyndon word, periodically extended
  pos,                 \* t: the next symbol to extend; 0 after the break
  period,              \* p: the period of the word
  dBSeq                \* what has been written through out_ptr

sequenceVars == <<order, word, pos, period, dBSeq>>

Symbols == 0 .. aLen - 1
K_LIMIT == aLen - 1

\* The size of the buffer for words of length m: aLen, m times.
total_elements[m \in Nat] == IF m = 0 THEN 1 ELSE aLen * total_elements[m - 1]

\* The run of dfsIterative for words of length m has begun.
Begins(m) ==
  /\ order = m
  /\ word = [i \in 0 .. m |-> 0]
  /\ pos = 1
  /\ period = 1
  /\ dBSeq = <<>>

StartSequence(m) ==
  /\ order' = m
  /\ word' = [i \in 0 .. m |-> 0]
  /\ pos' = 1
  /\ period' = 1
  /\ dBSeq' = <<>>

\* Mistake: the word is extended past its end.
RoomPastEnd == pos \in 1 .. order + 1

RoomInWord == pos \in 1 .. order

\* t <= N: the word goes on as it began.
Extend ==
  /\ RoomInWord
  /\ word' = [word EXCEPT ![pos] = word[pos - period]]
  /\ pos' = pos + 1
  /\ UNCHANGED <<order, period, dBSeq>>

\* Mistake: every word is written, not only the Lyndon words.
EveryPrefix == dBSeq \o [i \in 1 .. period |-> word[i]]

\* A word whose period divides its length is written once.
WithLyndonWord ==
  IF order % period = 0 THEN dBSeq \o [i \in 1 .. period |-> word[i]] ELSE dBSeq

\* Only greatest symbols come after last, which is not the greatest; 0 when all
\* are.
LastRaisable(last) ==
  /\ last = 0 \/ word[last] # K_LIMIT
  /\ \A i \in last + 1 .. order : word[i] = K_LIMIT

\* t > N: write the word, raise its last symbol that is not the greatest, and
\* go on from there; stop when there is none.
NextWord ==
  /\ pos = order + 1
  /\ dBSeq' = WithLyndonWord
  /\ \E last \in 0 .. order :
       /\ LastRaisable(last)
       /\ IF last = 0
          THEN pos' = 0 /\ UNCHANGED <<word, period>>
          ELSE /\ word' = [word EXCEPT ![last] = @ + 1]
               /\ period' = last
               /\ pos' = last + 1
  /\ UNCHANGED order

dfsIterative == Extend \/ NextWord

Written == pos = 0

-----------------------------------------------------------------------------

SequenceTypeOK ==
  /\ order \in Nat \ {0}
  /\ word \in [0 .. order -> Symbols]
  /\ pos \in 0 .. order + 1
  /\ period \in 1 .. order
  /\ dBSeq \in Seq(Symbols)

\* The symbol the word is extended with, a[t - p], is one of the word.
ReadsInsideWord == pos > 0 => period <= pos

\* The word of the order that begins at a symbol of a sequence read as a ring.
WordAt(s, m, j) == [i \in 1 .. m |-> s[((j + i - 2) % Len(s)) + 1]]

NoWordTwice(s, m) ==
  \A i, j \in 1 .. Len(s) : WordAt(s, m, i) = WordAt(s, m, j) => i = j

\* The buffer is never written past its end, and when the loop ends it is full
\* and no word of the order stands in it twice, read as a ring.  There are as
\* many words as symbols: every word stands in it once.  getPos relies on it
\* when it searches for a column of dots.
EveryWordOnce ==
  /\ Len(dBSeq) <= total_elements[order]
  /\ Written => Len(dBSeq) = total_elements[order] /\ NoWordTwice(dBSeq, order)
=============================================================================
