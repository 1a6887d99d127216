------------------------- MODULE TeiMigrationProofs -------------------------
(***************************************************************************)
(* What holds of the commands, for any texts, graphs, contents and plans,  *)
(* and any number of edits and deaths.                                     *)
(*                                                                         *)
(* The first half is about contents: sequences and what Only keeps of      *)
(* them; the attributes of a tag as a set of pairs, and the ids in them;   *)
(* the two converters and embed as folds, a step at a time, over a stack   *)
(* of open elements; linking and unlinking; and embedding, which done      *)
(* again, or after another, finds nothing left to do.                      *)
(*                                                                         *)
(* The second half is about the tables and the commands: what no step      *)
(* loses (Inv, ShapesInv), what a backup says (ScriptInv), what the texts  *)
(* link (LinksInv), renumbering, well-formedness, and what the first embed *)
(* of a script leaves for the second (NamesInv).                           *)
(***************************************************************************)
EXTENDS TeiMigration, TLAPS

Forward == INSTANCE SequenceFolds WITH Step <- ForwardStep

-----------------------------------------------------------------------------
(* Sequences, whatever their elements.                                      *)

\* To be a sequence is to be in some Seq(S).
LEMMA SeqIs == ASSUME NEW s PROVE IsSeq(s) <=> \E S : s \in Seq(S)
<1>1. ASSUME NEW S, s \in Seq(S) PROVE IsSeq(s)
  <2>1. Len(s) \in Nat /\ DOMAIN s = 1 .. Len(s) /\ s = [i \in 1 .. Len(s) |-> s[i]]
    BY <1>1
  <2>2. \A i \in 1 .. Len(s) : s[i] \in ToSet(s)
    BY <2>1 DEF ToSet
  <2>3. QED
    BY <2>1, <2>2 DEF IsSeq
<1>2. QED
  BY <1>1 DEF IsSeq

\* What a sequence is made of.
LEMMA SeqLen ==
  ASSUME NEW s, IsSeq(s)
  PROVE  Len(s) \in Nat /\ DOMAIN s = 1 .. Len(s) /\ s = [i \in 1 .. Len(s) |-> s[i]]
BY DEF IsSeq

\* A sequence over every set that holds its elements.
LEMMA SeqOver ==
  ASSUME NEW s, IsSeq(s), NEW S, \A i \in DOMAIN s : s[i] \in S
  PROVE  s \in Seq(S)
BY SeqLen

\* A function over 1 .. n is a sequence of length n.
LEMMA SeqMap ==
  ASSUME NEW n \in Nat, NEW s, s = [i \in 1 .. n |-> s[i]]
  PROVE  IsSeq(s) /\ Len(s) = n
<1>1. s \in Seq({s[i] : i \in 1 .. n})
  <2> DEFINE S == {s[i] : i \in 1 .. n}
  <2>1. \A i \in 1 .. n : s[i] \in S
    OBVIOUS
  <2> HIDE DEF S
  <2>2. s \in [1 .. n -> S]
    BY <2>1
  <2>3. QED
    BY <2>2
<1>2. IsSeq(s)
  BY <1>1, SeqIs
<1>3. QED
  BY <1>2, SeqLen

\* Where the elements of a concatenation come from.
LEMMA SeqPlus ==
  ASSUME NEW s, IsSeq(s), NEW t, IsSeq(t)
  PROVE  /\ IsSeq(s \o t) /\ Len(s \o t) = Len(s) + Len(t)
         /\ \A i \in 1 .. Len(s) : (s \o t)[i] = s[i]
         /\ \A i \in 1 .. Len(t) : (s \o t)[Len(s) + i] = t[i]
         /\ \A i \in DOMAIN (s \o t) : (\E j \in DOMAIN s : j = i /\ (s \o t)[i] = s[j])
                                       \/ \E j \in DOMAIN t : i = Len(s) + j /\ (s \o t)[i] = t[j]
<1> DEFINE S == ToSet(s) \cup ToSet(t)
<1>1. s \in Seq(S) /\ t \in Seq(S)
  BY DEF IsSeq
<1> HIDE DEF S
<1>2. s \o t \in Seq(S)
  BY <1>1
<1>3. IsSeq(s \o t)
  BY <1>2, SeqIs
<1>4. /\ Len(s \o t) = Len(s) + Len(t)
      /\ \A i \in 1 .. Len(s) : (s \o t)[i] = s[i]
      /\ \A i \in 1 .. Len(t) : (s \o t)[Len(s) + i] = t[i]
  BY <1>1
<1>5. ASSUME NEW i \in DOMAIN (s \o t)
      PROVE  \/ \E j \in DOMAIN s : j = i /\ (s \o t)[i] = s[j]
             \/ \E j \in DOMAIN t : i = Len(s) + j /\ (s \o t)[i] = t[j]
  <2>1. i \in 1 .. Len(s) + Len(t) /\ DOMAIN s = 1 .. Len(s) /\ DOMAIN t = 1 .. Len(t)
        /\ Len(s) \in Nat /\ Len(t) \in Nat
    BY <1>3, <1>4, SeqLen
  <2>2. CASE i <= Len(s)
    BY <1>4, <2>1, <2>2
  <2>3. CASE i > Len(s)
    <3>1. i - Len(s) \in 1 .. Len(t) /\ i = Len(s) + (i - Len(s))
      BY <2>1, <2>3
    <3>2. QED
      BY <1>4, <2>1, <3>1
  <2>4. QED
    BY <2>1, <2>2, <2>3
<1>6. QED
  BY <1>3, <1>4, <1>5

\* The elements of a sequence with one more at its end.
LEMMA SeqAppend ==
  ASSUME NEW s, IsSeq(s), NEW e
  PROVE  /\ IsSeq(Append(s, e)) /\ Len(Append(s, e)) = Len(s) + 1
         /\ \A i \in 1 .. Len(s) : Append(s, e)[i] = s[i]
         /\ Append(s, e)[Len(s) + 1] = e
         /\ \A i \in DOMAIN Append(s, e) : i \in DOMAIN s \/ i = Len(s) + 1
<1> DEFINE S == ToSet(s) \cup {e}
<1>1. s \in Seq(S) /\ e \in S
  BY DEF IsSeq
<1> HIDE DEF S
<1>2. Append(s, e) \in Seq(S)
  BY <1>1
<1>3. IsSeq(Append(s, e))
  BY <1>2, SeqIs
<1>4. /\ Len(Append(s, e)) = Len(s) + 1
      /\ \A i \in 1 .. Len(s) : Append(s, e)[i] = s[i]
      /\ Append(s, e)[Len(s) + 1] = e
      /\ Len(s) \in Nat /\ DOMAIN s = 1 .. Len(s)
  BY <1>1
<1>5. DOMAIN Append(s, e) = 1 .. Len(s) + 1
  BY <1>3, <1>4, SeqLen
<1>6. QED
  BY <1>3, <1>4, <1>5

\* The empty sequence.
LEMMA SeqEmpty == IsSeq(<<>>) /\ Len(<<>>) = 0 /\ DOMAIN <<>> = {}
<1>1. <<>> \in Seq({}) /\ Len(<<>>) = 0
  OBVIOUS
<1>2. IsSeq(<<>>)
  BY <1>1, SeqIs
<1>3. DOMAIN <<>> = 1 .. 0
  BY <1>1, <1>2, SeqLen
<1>4. QED
  BY <1>1, <1>2, <1>3

\* A sequence of one element.
LEMMA SeqOne ==
  ASSUME NEW e
  PROVE  IsSeq(<<e>>) /\ Len(<<e>>) = 1 /\ <<e>>[1] = e /\ DOMAIN <<e>> = {1}
<1>1. <<e>> \in Seq({e}) /\ Len(<<e>>) = 1 /\ <<e>>[1] = e
  OBVIOUS
<1>2. IsSeq(<<e>>)
  BY <1>1, SeqIs
<1>3. QED
  BY <1>1, <1>2, SeqLen

-----------------------------------------------------------------------------
(* The elements of a sequence that are in a set.                            *)

\* What is kept of the first elements, up to the n-th.
KeptUpTo(seq, S, n, k) ==
  [i \in 0 .. n |-> IF i = 0 THEN <<>>
                           ELSE IF seq[i] \in S THEN Append(k[i - 1], seq[i]) ELSE k[i - 1]]

\* There is a sequence of what is kept after each element.
LEMMA KeptExists ==
  ASSUME NEW seq, IsSeq(seq), NEW S
  PROVE  \E k : k = KeptUpTo(seq, S, Len(seq), k)
<1> DEFINE P == {n \in Nat : \E k : k = KeptUpTo(seq, S, n, k)}
<1>1. 0 \in P
  <2> DEFINE k == [i \in 0 .. 0 |-> <<>>]
  <2>1. \A i \in 0 .. 0 : i = 0
    OBVIOUS
  <2>2. k = KeptUpTo(seq, S, 0, k)
    BY <2>1 DEF KeptUpTo
  <2> HIDE DEF k
  <2>3. QED
    BY <2>2
<1>2. ASSUME NEW n \in Nat, n \in P PROVE n + 1 \in P
  <2>1. PICK k : k = KeptUpTo(seq, S, n, k)
    BY <1>2
  <2> DEFINE last == IF seq[n + 1] \in S THEN Append(k[n], seq[n + 1]) ELSE k[n]
             more == [i \in 0 .. n + 1 |-> IF i = n + 1 THEN last ELSE k[i]]
  <2>2. \A i \in 0 .. n : more[i] = k[i]
    OBVIOUS
  <2>3. more[n + 1] = last
    OBVIOUS
  <2>4. more = [i \in 0 .. n + 1 |-> more[i]]
    OBVIOUS
  <2> HIDE DEF more
  <2>5. ASSUME NEW i \in 0 .. n + 1
        PROVE  more[i] = IF i = 0 THEN <<>>
                         ELSE IF seq[i] \in S THEN Append(more[i - 1], seq[i]) ELSE more[i - 1]
    <3>1. CASE i = n + 1
      <4>1. i # 0 /\ i - 1 = n /\ n \in 0 .. n
        BY <3>1
      <4>2. QED
        BY <2>2, <2>3, <3>1, <4>1
    <3>2. CASE i # n + 1 /\ i # 0
      <4>1. i \in 0 .. n /\ i - 1 \in 0 .. n
        BY <3>2
      <4>2. k[i] = IF seq[i] \in S THEN Append(k[i - 1], seq[i]) ELSE k[i - 1]
        BY <2>1, <3>2, <4>1 DEF KeptUpTo
      <4>3. QED
        BY <2>2, <3>2, <4>1, <4>2
    <3>3. CASE i = 0
      <4>1. 0 \in 0 .. n
        OBVIOUS
      <4>2. k[0] = <<>>
        BY <2>1, <4>1 DEF KeptUpTo
      <4>3. QED
        BY <2>2, <3>3, <4>1, <4>2
    <3>4. QED
      BY <3>1, <3>2, <3>3
  <2>6. more = KeptUpTo(seq, S, n + 1, more)
    BY <2>4, <2>5 DEF KeptUpTo
  <2>7. QED
    BY <2>6
<1> HIDE DEF P
<1>3. Nat \subseteq P
  BY <1>1, <1>2, Forward!Induction
<1>4. Len(seq) \in P
  BY <1>3, SeqLen
<1>5. QED
  BY <1>4 DEF P

\* The sequences that are kept of longer and longer beginnings of seq.
Keeps(k, seq, S) ==
  /\ k[0] = <<>>
  /\ \A i \in 1 .. Len(seq) :
       k[i] = IF seq[i] \in S THEN Append(k[i - 1], seq[i]) ELSE k[i - 1]
  /\ Only(seq, S) = k[Len(seq)]

\* Only(seq, S) is the last of what is kept.
LEMMA OnlyKeeps ==
  ASSUME NEW seq, IsSeq(seq), NEW S
  PROVE  \E k : Keeps(k, seq, S)
<1> DEFINE k == CHOOSE f : f = KeptUpTo(seq, S, Len(seq), f)
<1>1. k = KeptUpTo(seq, S, Len(seq), k)
  BY KeptExists
<1>2. Only(seq, S) = k[Len(seq)]
  BY Zenon DEF Only, KeptUpTo
<1> HIDE DEF k
<1>3. Len(seq) \in Nat
  BY SeqLen
<1>4. k[0] = <<>>
  <2>1. 0 \in 0 .. Len(seq)
    BY <1>3
  <2>2. QED
    BY <1>1, <2>1 DEF KeptUpTo
<1>5. ASSUME NEW i \in 1 .. Len(seq)
      PROVE  k[i] = IF seq[i] \in S THEN Append(k[i - 1], seq[i]) ELSE k[i - 1]
  <2>1. i \in 0 .. Len(seq) /\ i # 0
    BY <1>3
  <2>2. QED
    BY <1>1, <2>1 DEF KeptUpTo
<1>6. QED
  BY <1>2, <1>4, <1>5 DEF Keeps

\* What has been kept of the first n elements: each kept element is the next
\* one after those kept before it.
KeptSoFar(k, seq, S, n) ==
  /\ IsSeq(k[n]) /\ Len(k[n]) <= n
  /\ \A m \in 1 .. Len(k[n]) : \E i \in 1 .. n :
       seq[i] \in S /\ Len(k[i - 1]) = m - 1 /\ k[n][m] = seq[i]
  /\ \A i \in 1 .. n : seq[i] \in S =>
       Len(k[i - 1]) + 1 \in 1 .. Len(k[n]) /\ k[n][Len(k[i - 1]) + 1] = seq[i]
  /\ Len(k[n]) = n => \A i \in 1 .. n : seq[i] \in S

\* What is kept after n elements: those of S, in order and each once.
LEMMA KeptMeans ==
  ASSUME NEW seq, IsSeq(seq), NEW S, NEW k, Keeps(k, seq, S)
  PROVE  \A n \in 0 .. Len(seq) : KeptSoFar(k, seq, S, n)
<1> DEFINE P == {n \in Nat : n <= Len(seq) => KeptSoFar(k, seq, S, n)}
<1>0. Len(seq) \in Nat
  BY SeqLen
<1>1. 0 \in P
  <2>1. k[0] = <<>> /\ IsSeq(k[0]) /\ Len(k[0]) = 0
    BY SeqEmpty DEF Keeps
  <2>2. QED
    BY <2>1 DEF KeptSoFar
<1>2. ASSUME NEW n \in Nat, n \in P PROVE n + 1 \in P
  <2> SUFFICES ASSUME n + 1 <= Len(seq) PROVE KeptSoFar(k, seq, S, n + 1)
    OBVIOUS
  <2>1. KeptSoFar(k, seq, S, n) /\ n + 1 \in 1 .. Len(seq) /\ (n + 1) - 1 = n
    BY <1>0, <1>2
  <2>2. IsSeq(k[n]) /\ Len(k[n]) \in Nat /\ Len(k[n]) <= n
    BY <2>1, SeqLen DEF KeptSoFar
  <2>3. CASE seq[n + 1] \in S
    <3>1. k[n + 1] = Append(k[n], seq[n + 1])
      BY <2>1, <2>3 DEF Keeps
    <3>2. /\ IsSeq(k[n + 1]) /\ Len(k[n + 1]) = Len(k[n]) + 1
          /\ \A m \in 1 .. Len(k[n]) : k[n + 1][m] = k[n][m]
          /\ k[n + 1][Len(k[n]) + 1] = seq[n + 1]
      BY <2>2, <3>1, SeqAppend
    <3>3. ASSUME NEW m \in 1 .. Len(k[n + 1])
          PROVE  \E i \in 1 .. n + 1 : seq[i] \in S /\ Len(k[i - 1]) = m - 1 /\ k[n + 1][m] = seq[i]
      <4>1. CASE m \in 1 .. Len(k[n])
        <5>1. PICK i \in 1 .. n : seq[i] \in S /\ Len(k[i - 1]) = m - 1 /\ k[n][m] = seq[i]
          BY <2>1, <4>1 DEF KeptSoFar
        <5>2. i \in 1 .. n + 1
          OBVIOUS
        <5>3. QED
          BY <3>2, <4>1, <5>1, <5>2
      <4>2. CASE m = Len(k[n]) + 1
        <5>1. n + 1 \in 1 .. n + 1 /\ Len(k[(n + 1) - 1]) = m - 1
          BY <2>1, <2>2, <4>2
        <5>2. QED
          BY <2>3, <3>2, <4>2, <5>1
      <4>3. QED
        BY <2>2, <3>2, <4>1, <4>2
    <3>4. ASSUME NEW i \in 1 .. n + 1, seq[i] \in S
          PROVE  Len(k[i - 1]) + 1 \in 1 .. Len(k[n + 1]) /\ k[n + 1][Len(k[i - 1]) + 1] = seq[i]
      <4>1. CASE i \in 1 .. n
        <5>1. Len(k[i - 1]) + 1 \in 1 .. Len(k[n]) /\ k[n][Len(k[i - 1]) + 1] = seq[i]
          BY <2>1, <3>4, <4>1 DEF KeptSoFar
        <5>2. QED
          BY <2>2, <3>2, <5>1
      <4>2. CASE i = n + 1
        BY <2>1, <2>2, <3>2, <4>2
      <4>3. QED
        BY <4>1, <4>2
    <3>5. Len(k[n + 1]) = n + 1 => \A i \in 1 .. n + 1 : seq[i] \in S
      <4>1. Len(k[n + 1]) = n + 1 => \A i \in 1 .. n : seq[i] \in S
        BY <2>1, <2>2, <3>2 DEF KeptSoFar
      <4>2. \A i \in 1 .. n + 1 : i \in 1 .. n \/ i = n + 1
        OBVIOUS
      <4>3. QED
        BY <2>3, <4>1, <4>2
    <3>6. QED
      BY <2>2, <3>2, <3>3, <3>4, <3>5 DEF KeptSoFar
  <2>4. CASE seq[n + 1] \notin S
    <3>1. k[n + 1] = k[n]
      BY <2>1, <2>4 DEF Keeps
    <3>2. \A i \in 1 .. n + 1 : i \in 1 .. n \/ i = n + 1
      OBVIOUS
    <3>3. \A i \in 1 .. n : i \in 1 .. n + 1
      OBVIOUS
    <3>4. \A m \in 1 .. Len(k[n]) : \E i \in 1 .. n + 1 :
            seq[i] \in S /\ Len(k[i - 1]) = m - 1 /\ k[n][m] = seq[i]
      BY <2>1, <3>3 DEF KeptSoFar
    <3>5. \A i \in 1 .. n + 1 : seq[i] \in S =>
            Len(k[i - 1]) + 1 \in 1 .. Len(k[n]) /\ k[n][Len(k[i - 1]) + 1] = seq[i]
      BY <2>1, <2>4, <3>2 DEF KeptSoFar
    <3>6. Len(k[n]) # n + 1
      BY <2>2
    <3>7. QED
      BY <2>2, <3>1, <3>4, <3>5, <3>6 DEF KeptSoFar
  <2>5. QED
    BY <2>3, <2>4
<1> HIDE DEF P
<1>3. Nat \subseteq P
  BY <1>1, <1>2, Forward!Induction
<1>4. QED
  BY <1>0, <1>3 DEF P

\* Only as a whole.
LEMMA OnlyIs ==
  ASSUME NEW seq, IsSeq(seq), NEW S
  PROVE  /\ IsSeq(Only(seq, S)) /\ Len(Only(seq, S)) <= Len(seq)
         /\ ToSet(Only(seq, S)) = ToSet(seq) \cap S
         /\ Len(Only(seq, S)) = Len(seq) => \A i \in DOMAIN seq : seq[i] \in S
         /\ \A i \in DOMAIN Only(seq, S) : \E j \in DOMAIN seq : Only(seq, S)[i] = seq[j]
         /\ (\A i, j \in DOMAIN seq : seq[i] = seq[j] => i = j) =>
              \A i, j \in DOMAIN Only(seq, S) : Only(seq, S)[i] = Only(seq, S)[j] => i = j
<1>1. PICK k : Keeps(k, seq, S)
  BY OnlyKeeps
<1>2. Len(seq) \in Nat /\ DOMAIN seq = 1 .. Len(seq) /\ Only(seq, S) = k[Len(seq)]
  BY <1>1, SeqLen DEF Keeps
<1>3. KeptSoFar(k, seq, S, Len(seq))
  BY <1>1, <1>2, KeptMeans
<1> DEFINE o == Only(seq, S)
<1>4. /\ IsSeq(o) /\ Len(o) <= Len(seq)
      /\ \A m \in 1 .. Len(o) : \E i \in 1 .. Len(seq) :
           seq[i] \in S /\ Len(k[i - 1]) = m - 1 /\ o[m] = seq[i]
      /\ \A i \in 1 .. Len(seq) : seq[i] \in S =>
           Len(k[i - 1]) + 1 \in 1 .. Len(o) /\ o[Len(k[i - 1]) + 1] = seq[i]
      /\ Len(o) = Len(seq) => \A i \in 1 .. Len(seq) : seq[i] \in S
  BY <1>2, <1>3 DEF KeptSoFar
<1> HIDE DEF o
<1>5. DOMAIN o = 1 .. Len(o) /\ Len(o) \in Nat
  BY <1>4, SeqLen
<1>6. ToSet(o) = ToSet(seq) \cap S
  <2>1. ASSUME NEW x \in ToSet(o) PROVE x \in ToSet(seq) /\ x \in S
    <3>1. PICK m \in 1 .. Len(o) : x = o[m]
      BY <1>5 DEF ToSet
    <3>2. PICK i \in 1 .. Len(seq) : seq[i] \in S /\ o[m] = seq[i]
      BY <1>4
    <3>3. QED
      BY <1>2, <3>1, <3>2 DEF ToSet
  <2>2. ASSUME NEW x \in ToSet(seq), x \in S PROVE x \in ToSet(o)
    <3>1. PICK i \in 1 .. Len(seq) : x = seq[i]
      BY <1>2 DEF ToSet
    <3>2. Len(k[i - 1]) + 1 \in 1 .. Len(o) /\ o[Len(k[i - 1]) + 1] = seq[i]
      BY <1>4, <2>2, <3>1
    <3>3. QED
      BY <1>5, <3>1, <3>2 DEF ToSet
  <2>3. QED
    BY <2>1, <2>2
<1>7. ASSUME \A i, j \in DOMAIN seq : seq[i] = seq[j] => i = j,
             NEW i \in DOMAIN o, NEW j \in DOMAIN o, o[i] = o[j]
      PROVE  i = j
  <2>1. PICK a \in DOMAIN seq : Len(k[a - 1]) = i - 1 /\ o[i] = seq[a]
    BY <1>2, <1>4, <1>5
  <2>2. PICK b \in DOMAIN seq : Len(k[b - 1]) = j - 1 /\ o[j] = seq[b]
    BY <1>2, <1>4, <1>5
  <2>3. a = b
    BY <1>7, <2>1, <2>2
  <2>4. i - 1 = j - 1 /\ i \in Nat /\ j \in Nat
    BY <1>5, <2>1, <2>2, <2>3
  <2>5. QED
    BY <2>4
<1>8. \A i \in DOMAIN o : \E j \in DOMAIN seq : o[i] = seq[j]
  BY <1>2, <1>4, <1>5
<1>9. QED
  BY <1>2, <1>4, <1>6, <1>7, <1>8 DEF o

\* Nothing is left out.
LEMMA OnlyAll ==
  ASSUME NEW seq, IsSeq(seq), NEW S, \A i \in DOMAIN seq : seq[i] \in S
  PROVE  Only(seq, S) = seq
<1>1. PICK k : Keeps(k, seq, S)
  BY OnlyKeeps
<1>2. Len(seq) \in Nat /\ DOMAIN seq = 1 .. Len(seq) /\ Only(seq, S) = k[Len(seq)]
      /\ seq = [i \in 1 .. Len(seq) |-> seq[i]]
  BY <1>1, SeqLen DEF Keeps
<1> DEFINE P == {n \in Nat : n <= Len(seq) => k[n] = [i \in 1 .. n |-> seq[i]]}
<1>3. 0 \in P
  <2>1. <<>> = [i \in 1 .. 0 |-> seq[i]]
    OBVIOUS
  <2>2. QED
    BY <1>1, <2>1 DEF Keeps
<1>4. ASSUME NEW n \in Nat, n \in P PROVE n + 1 \in P
  <2> SUFFICES ASSUME n + 1 <= Len(seq) PROVE k[n + 1] = [i \in 1 .. n + 1 |-> seq[i]]
    OBVIOUS
  <2>1. k[n] = [i \in 1 .. n |-> seq[i]] /\ n + 1 \in 1 .. Len(seq) /\ (n + 1) - 1 = n
    BY <1>2, <1>4
  <2>2. k[n + 1] = Append(k[n], seq[n + 1])
    BY <1>1, <1>2, <2>1 DEF Keeps
  <2> DEFINE kn == [i \in 1 .. n |-> seq[i]]
  <2>3. kn = [i \in 1 .. n |-> kn[i]] /\ \A i \in 1 .. n : kn[i] = seq[i]
    OBVIOUS
  <2> HIDE DEF kn
  <2>4. IsSeq(kn) /\ Len(kn) = n
    BY <2>3, SeqMap
  <2>5. /\ IsSeq(k[n + 1]) /\ Len(k[n + 1]) = n + 1
        /\ \A i \in 1 .. n : k[n + 1][i] = kn[i]
        /\ k[n + 1][n + 1] = seq[n + 1]
    BY <2>1, <2>2, <2>4, SeqAppend DEF kn
  <2>6. \A i \in 1 .. n + 1 : k[n + 1][i] = seq[i]
    BY <2>3, <2>5
  <2>7. k[n + 1] = [i \in 1 .. n + 1 |-> k[n + 1][i]]
    BY <2>5, SeqLen
  <2>8. QED
    BY <2>6, <2>7
<1> HIDE DEF P
<1>5. Len(seq) \in P
  BY <1>2, <1>3, <1>4, Forward!Induction
<1>6. QED
  BY <1>2, <1>5 DEF P

-----------------------------------------------------------------------------
(* Attributes as a set of pairs.                                            *)

\* The elements of a sequence are at its places.
LEMMA InSet == ASSUME NEW s, NEW x PROVE x \in ToSet(s) <=> \E i \in DOMAIN s : x = s[i]
BY DEF ToSet

\* The attributes of a tag as a set of pairs, one for each key.
LEMMA AttrsSet ==
  ASSUME NEW attrs, IsAttrs(attrs)
  PROVE  /\ IsSeq(attrs)
         /\ \A p \in ToSet(attrs) : p = <<p[1], p[2]>> /\ IsValue(p[1], p[2])
         /\ \A p, q \in ToSet(attrs) : p[1] = q[1] => p = q
BY DEF IsAttrs, ToSet, IsPair

\* A sequence of such pairs, one for each key, is attributes.
LEMMA SetAttrs ==
  ASSUME NEW attrs, IsSeq(attrs),
         \A p \in ToSet(attrs) : p = <<p[1], p[2]>> /\ IsValue(p[1], p[2]),
         \A i, j \in DOMAIN attrs : attrs[i][1] = attrs[j][1] => i = j
  PROVE  IsAttrs(attrs)
BY DEF IsAttrs, ToSet, IsPair

\* Has, on the pairs.
LEMMA HasIs ==
  ASSUME NEW attrs, NEW key
  PROVE  Has(attrs, key) <=> \E p \in ToSet(attrs) : p[1] = key
BY DEF Has, ToSet

\* Get returns the value of the key.
LEMMA GetIs ==
  ASSUME NEW attrs, IsAttrs(attrs), NEW p \in ToSet(attrs), NEW default
  PROVE  Has(attrs, p[1]) /\ Get(attrs, p[1], default) = p[2]
<1>1. PICK i \in DOMAIN attrs : p = attrs[i]
  BY DEF ToSet
<1> DEFINE j == CHOOSE j \in DOMAIN attrs : attrs[j][1] = p[1]
<1>2. j \in DOMAIN attrs /\ attrs[j][1] = p[1]
  BY <1>1
<1>3. j = i
  BY <1>1, <1>2 DEF IsAttrs
<1>4. Has(attrs, p[1])
  BY <1>1 DEF Has
<1>5. Get(attrs, p[1], default) = attrs[j][2]
  BY <1>4 DEF Get
<1>6. QED
  BY <1>1, <1>3, <1>4, <1>5

\* What is found, or not, under a key.
LEMMA Found ==
  ASSUME NEW attrs, IsAttrs(attrs), NEW key, Has(attrs, key), NEW default
  PROVE  <<key, Get(attrs, key, default)>> \in ToSet(attrs) /\ IsValue(key, Get(attrs, key, default))
<1>1. PICK p \in ToSet(attrs) : p[1] = key
  BY HasIs
<1>2. Get(attrs, key, default) = p[2]
  BY <1>1, GetIs
<1>3. p = <<p[1], p[2]>> /\ IsValue(p[1], p[2])
  BY AttrsSet
<1>4. QED
  BY <1>1, <1>2, <1>3

\* Get returns the default where the key is not there.
LEMMA NotFound ==
  ASSUME NEW attrs, NEW key, ~Has(attrs, key), NEW default
  PROVE  Get(attrs, key, default) = default
BY DEF Get

\* The pairs of an attribute list decide what is found in it.
LEMMA SamePairs ==
  ASSUME NEW a, NEW b, IsAttrs(a), IsAttrs(b), NEW key, NEW default,
         \A p : p[1] = key => (p \in ToSet(a) <=> p \in ToSet(b))
  PROVE  (Has(a, key) <=> Has(b, key)) /\ Get(a, key, default) = Get(b, key, default)
<1>1. Has(a, key) <=> Has(b, key)
  BY HasIs
<1>2. CASE Has(a, key)
  <2> DEFINE p == <<key, Get(a, key, default)>>
  <2>1. p \in ToSet(a)
    BY <1>2, Found
  <2>2. p \in ToSet(b) /\ p[1] = key /\ p[2] = Get(a, key, default)
    BY <2>1
  <2> HIDE DEF p
  <2>3. Get(b, key, default) = p[2]
    BY <2>2, GetIs
  <2>4. QED
    BY <1>1, <2>2, <2>3
<1>3. CASE ~Has(a, key)
  BY <1>1, <1>3, NotFound
<1>4. QED
  BY <1>2, <1>3

\* Put gives the key its value and leaves the other pairs.
LEMMA PutIs ==
  ASSUME NEW attrs, IsAttrs(attrs), NEW key, NEW value, IsValue(key, value)
  PROVE  /\ IsAttrs(Put(attrs, key, value))
         /\ ToSet(Put(attrs, key, value)) = {p \in ToSet(attrs) : p[1] # key} \cup {<<key, value>>}
<1> DEFINE new == Put(attrs, key, value)
           pair == <<key, value>>
           n == Len(attrs)
<1>0. n \in Nat /\ DOMAIN attrs = 1 .. n /\ attrs = [i \in 1 .. n |-> attrs[i]] /\ IsSeq(attrs)
  BY SeqLen DEF IsAttrs
<1>p. pair[1] = key /\ pair[2] = value /\ pair = <<pair[1], pair[2]>>
  OBVIOUS
<1>1. CASE Has(attrs, key)
  <2>1. new = [i \in DOMAIN attrs |-> IF attrs[i][1] = key THEN pair ELSE attrs[i]]
    BY <1>1 DEF Put
  <2> HIDE DEF new, pair
  <2>2. IsSeq(new) /\ DOMAIN new = DOMAIN attrs
    BY <1>0, <2>1, SeqMap
  <2>3. \A i \in DOMAIN attrs : new[i] = IF attrs[i][1] = key THEN pair ELSE attrs[i]
    BY <2>1
  <2>4. ToSet(new) = {p \in ToSet(attrs) : p[1] # key} \cup {pair}
    <3>1. ASSUME NEW p \in ToSet(new) PROVE p = pair \/ (p \in ToSet(attrs) /\ p[1] # key)
      <4>1. PICK i \in DOMAIN new : p = new[i]
        BY InSet
      <4>2. attrs[i] \in ToSet(attrs)
        BY <2>2, InSet
      <4>3. QED
        BY <2>2, <2>3, <4>1, <4>2
    <3>2. ASSUME NEW p \in ToSet(attrs), p[1] # key PROVE p \in ToSet(new)
      <4>1. PICK i \in DOMAIN attrs : p = attrs[i]
        BY InSet
      <4>2. new[i] = p /\ i \in DOMAIN new
        BY <2>2, <2>3, <3>2, <4>1
      <4>3. QED
        BY <4>2, InSet
    <3>3. pair \in ToSet(new)
      <4>1. PICK i \in DOMAIN attrs : attrs[i][1] = key
        BY <1>1 DEF Has
      <4>2. new[i] = pair /\ i \in DOMAIN new
        BY <2>2, <2>3, <4>1
      <4>3. QED
        BY <4>2, InSet
    <3>4. QED
      BY <3>1, <3>2, <3>3
  <2>5. \A i, j \in DOMAIN new : new[i][1] = new[j][1] => i = j
    <3>1. \A i \in DOMAIN new : new[i][1] = attrs[i][1]
      BY <1>p, <2>2, <2>3
    <3>2. QED
      BY <2>2, <3>1 DEF IsAttrs
  <2>6. \A p \in ToSet(new) : p = <<p[1], p[2]>> /\ IsValue(p[1], p[2])
    BY <1>p, <2>4, AttrsSet
  <2>7. QED
    BY <2>2, <2>4, <2>5, <2>6, SetAttrs DEF new, pair
<1>2. CASE ~Has(attrs, key)
  <2>1. new = Append(attrs, pair)
    BY <1>2 DEF Put
  <2> HIDE DEF new, pair
  <2>2. /\ IsSeq(new) /\ Len(new) = n + 1 /\ \A i \in 1 .. n : new[i] = attrs[i]
        /\ new[n + 1] = pair /\ \A i \in DOMAIN new : i \in DOMAIN attrs \/ i = n + 1
    BY <1>0, <2>1, SeqAppend
  <2>3. DOMAIN new = 1 .. n + 1
    BY <2>2, SeqLen
  <2>4. \A p \in ToSet(attrs) : p[1] # key
    BY <1>2, HasIs
  <2>5. ToSet(new) = {p \in ToSet(attrs) : p[1] # key} \cup {pair}
    <3>1. ASSUME NEW p \in ToSet(new) PROVE p = pair \/ p \in ToSet(attrs)
      BY <1>0, <2>2 DEF ToSet
    <3>2. ASSUME NEW p \in ToSet(attrs) PROVE p \in ToSet(new)
      <4>1. PICK i \in 1 .. n : p = attrs[i]
        BY <1>0 DEF ToSet
      <4>2. i \in DOMAIN new /\ new[i] = p
        BY <1>0, <2>2, <2>3, <4>1
      <4>3. QED
        BY <4>2 DEF ToSet
    <3>3. pair \in ToSet(new)
      <4>1. n + 1 \in DOMAIN new
        BY <1>0, <2>3
      <4>2. QED
        BY <2>2, <4>1 DEF ToSet
    <3>4. QED
      BY <2>4, <3>1, <3>2, <3>3
  <2>6. ASSUME NEW i \in DOMAIN new, NEW j \in DOMAIN new, new[i][1] = new[j][1] PROVE i = j
    <3>1. \A m \in 1 .. n : new[m] = attrs[m] /\ new[m][1] # key
      BY <1>0, <1>2, <2>2 DEF Has
    <3>a. new[n + 1][1] = key
      BY <1>p, <2>2
    <3>2. \A m \in DOMAIN new : m \in 1 .. n \/ (m = n + 1 /\ new[m][1] = key)
      <4>1. \A m \in DOMAIN new : m \in 1 .. n \/ m = n + 1
        BY <1>0, <2>2
      <4>2. QED
        BY <3>a, <4>1
    <3>3. CASE i \in 1 .. n /\ j \in 1 .. n
      BY <1>0, <2>6, <3>1, <3>3 DEF IsAttrs
    <3>4. QED
      BY <2>6, <3>1, <3>2, <3>3
  <2>7. \A p \in ToSet(new) : p = <<p[1], p[2]>> /\ IsValue(p[1], p[2])
    BY <1>p, <2>5, AttrsSet
  <2>8. QED
    BY <2>2, <2>5, <2>6, <2>7, SetAttrs DEF new, pair
<1>3. QED
  BY <1>1, <1>2

\* Dropped leaves the pairs of the other keys.
LEMMA DroppedIs ==
  ASSUME NEW attrs, IsAttrs(attrs), NEW key
  PROVE  /\ IsAttrs(Dropped(attrs, key))
         /\ ToSet(Dropped(attrs, key)) = {p \in ToSet(attrs) : p[1] # key}
<1> DEFINE S == {a \in ToSet(attrs) : a[1] # key}
           new == Only(attrs, S)
<1>1. new = Dropped(attrs, key)
  BY DEF Dropped
<1>2. IsSeq(attrs)
  BY DEF IsAttrs
<1>3. \A i, j \in DOMAIN attrs : attrs[i] = attrs[j] => i = j
  BY DEF IsAttrs
<1> HIDE DEF S
<1>4. /\ IsSeq(new) /\ ToSet(new) = ToSet(attrs) \cap S
      /\ \A i, j \in DOMAIN new : new[i] = new[j] => i = j
  BY <1>2, <1>3, OnlyIs
<1> HIDE DEF new
<1>5. \A i \in DOMAIN new : new[i] \in ToSet(new)
  BY DEF ToSet
<1>6. \A i, j \in DOMAIN new : new[i][1] = new[j][1] => new[i] = new[j]
  BY <1>4, <1>5, AttrsSet
<1>7. \A p \in ToSet(new) : p = <<p[1], p[2]>> /\ IsValue(p[1], p[2])
  BY <1>4, AttrsSet
<1>8. IsAttrs(new)
  BY <1>4, <1>6, <1>7, SetAttrs
<1>9. QED
  BY <1>1, <1>4, <1>8 DEF S

\* One list after another, with other keys.
LEMMA PlusIs ==
  ASSUME NEW a, IsAttrs(a), NEW b, IsAttrs(b),
         \A p \in ToSet(a), q \in ToSet(b) : p[1] # q[1]
  PROVE  IsAttrs(a \o b) /\ ToSet(a \o b) = ToSet(a) \cup ToSet(b)
<1> DEFINE c == a \o b
           m == Len(a)
           n == Len(b)
<1>1. IsSeq(a) /\ IsSeq(b)
  BY DEF IsAttrs
<1>2. /\ m \in Nat /\ n \in Nat /\ DOMAIN a = 1 .. m /\ DOMAIN b = 1 .. n
      /\ IsSeq(c) /\ Len(c) = m + n
      /\ \A i \in 1 .. m : c[i] = a[i]
      /\ \A i \in 1 .. n : c[m + i] = b[i]
      /\ \A i \in DOMAIN c : \/ \E j \in DOMAIN a : j = i /\ c[i] = a[j]
                             \/ \E j \in DOMAIN b : i = m + j /\ c[i] = b[j]
  <2>1. m \in Nat /\ n \in Nat /\ DOMAIN a = 1 .. m /\ DOMAIN b = 1 .. n
    BY <1>1, SeqLen
  <2>2. /\ IsSeq(c) /\ Len(c) = m + n
        /\ \A i \in 1 .. m : c[i] = a[i]
        /\ \A i \in 1 .. n : c[m + i] = b[i]
        /\ \A i \in DOMAIN c : \/ \E j \in DOMAIN a : j = i /\ c[i] = a[j]
                               \/ \E j \in DOMAIN b : i = m + j /\ c[i] = b[j]
    BY <1>1, SeqPlus
  <2>3. QED
    BY <2>1, <2>2
<1>3. DOMAIN c = 1 .. m + n
  BY <1>2, SeqLen
<1> HIDE DEF c, m, n
<1>4. ToSet(c) = ToSet(a) \cup ToSet(b)
  <2>1. ASSUME NEW p \in ToSet(c) PROVE p \in ToSet(a) \cup ToSet(b)
    BY <1>2 DEF ToSet
  <2>2. ASSUME NEW p \in ToSet(a) PROVE p \in ToSet(c)
    <3>1. PICK i \in 1 .. m : p = a[i]
      BY <1>2 DEF ToSet
    <3>2. i \in DOMAIN c /\ c[i] = p
      BY <1>2, <1>3, <3>1
    <3>3. QED
      BY <3>2 DEF ToSet
  <2>3. ASSUME NEW p \in ToSet(b) PROVE p \in ToSet(c)
    <3>1. PICK i \in 1 .. n : p = b[i]
      BY <1>2 DEF ToSet
    <3>2. m + i \in DOMAIN c /\ c[m + i] = p
      BY <1>2, <1>3, <3>1
    <3>3. QED
      BY <3>2 DEF ToSet
  <2>4. QED
    BY <2>1, <2>2, <2>3
<1>5. ASSUME NEW i \in DOMAIN c, NEW j \in DOMAIN c, c[i][1] = c[j][1] PROVE i = j
  <2>1. \A x \in DOMAIN a, y \in DOMAIN b : a[x][1] # b[y][1]
    BY DEF ToSet
  <2>2. CASE i \in DOMAIN a /\ c[i] = a[i]
    <3>1. CASE j \in DOMAIN a /\ c[j] = a[j]
      BY <1>5, <2>2, <3>1 DEF IsAttrs
    <3>2. QED
      BY <1>2, <1>5, <2>1, <2>2, <3>1
  <2>3. CASE \E x \in DOMAIN b : i = m + x /\ c[i] = b[x]
    <3>1. PICK x \in DOMAIN b : i = m + x /\ c[i] = b[x]
      BY <2>3
    <3>2. CASE \E y \in DOMAIN b : j = m + y /\ c[j] = b[y]
      <4>1. PICK y \in DOMAIN b : j = m + y /\ c[j] = b[y]
        BY <3>2
      <4>2. x = y
        BY <1>5, <3>1, <4>1 DEF IsAttrs
      <4>3. QED
        BY <3>1, <4>1, <4>2
    <3>3. CASE j \in DOMAIN a /\ c[j] = a[j]
      BY <1>5, <2>1, <3>1, <3>3
    <3>4. QED
      BY <1>2, <3>2, <3>3
  <2>4. QED
    BY <1>2, <2>2, <2>3
<1>6. \A p \in ToSet(c) : p = <<p[1], p[2]>> /\ IsValue(p[1], p[2])
  BY <1>4, AttrsSet
<1>7. IsAttrs(c)
  BY <1>2, <1>5, <1>6, SetAttrs
<1>8. QED
  BY <1>4, <1>7 DEF c

\* A tag without attributes.
LEMMA NoAttrs == IsAttrs(<<>>) /\ ToSet(<<>>) = {}
BY SeqEmpty DEF IsAttrs, ToSet

\* A tag with one attribute.
LEMMA OneAttr ==
  ASSUME NEW key, NEW value, IsValue(key, value)
  PROVE  IsAttrs(<< <<key, value>> >>) /\ ToSet(<< <<key, value>> >>) = {<<key, value>>}
<1> DEFINE pair == <<key, value>>
<1>1. pair = <<pair[1], pair[2]>> /\ pair[1] = key /\ pair[2] = value
  OBVIOUS
<1> HIDE DEF pair
<1>2. IsSeq(<<pair>>) /\ <<pair>>[1] = pair /\ DOMAIN <<pair>> = {1}
  BY SeqOne
<1>3. QED
  BY <1>1, <1>2 DEF IsAttrs, ToSet, IsPair, pair

-----------------------------------------------------------------------------
(* The ids in attributes.                                                   *)

\* The ids that a pair, and attributes, name.
PairIds(p) == IF p[1] = "corresp" THEN {k[2] : k \in ToSet(p[2])}
              ELSE IF p[1] = "data-graph-id" THEN ToSet(p[2]) ELSE {}
AttrIds(attrs) == UNION {PairIds(p) : p \in ToSet(attrs)}

\* The empty sequence has no elements.
LEMMA SetEmpty == ToSet(<<>>) = {}
BY SeqEmpty DEF ToSet

\* An id is in attributes when it is in one of their pairs.
LEMMA InAttrIds ==
  ASSUME NEW attrs, NEW x
  PROVE  x \in AttrIds(attrs) <=> \E p \in ToSet(attrs) : x \in PairIds(p)
BY DEF AttrIds

\* An attribute that may be missing.
LEMMA MayHave ==
  ASSUME NEW attrs, IsAttrs(attrs), NEW key, key \in {"corresp", "data-graph-id"}
  PROVE  /\ IsSeq(Get(attrs, key, <<>>)) /\ IsValue(key, Get(attrs, key, <<>>))
         /\ PairIds(<<key, Get(attrs, key, <<>>)>>)
              = UNION {PairIds(p) : p \in {q \in ToSet(attrs) : q[1] = key}}
<1> DEFINE v == Get(attrs, key, <<>>)
           pair == <<key, v>>
<1>0. pair[1] = key /\ pair[2] = v
  OBVIOUS
<1>1. CASE Has(attrs, key)
  <2>1. pair \in ToSet(attrs) /\ IsValue(key, v)
    BY <1>1, Found
  <2> HIDE DEF pair, v
  <2>2. \A q \in ToSet(attrs) : q[1] = key => q = pair
    BY <1>0, <2>1, AttrsSet
  <2>3. {q \in ToSet(attrs) : q[1] = key} = {pair}
    BY <1>0, <2>1, <2>2
  <2>4. IsSeq(v)
    BY <2>1 DEF IsValue
  <2>5. QED
    BY <2>1, <2>3, <2>4 DEF pair, v
<1>2. CASE ~Has(attrs, key)
  <2>1. v = <<>>
    BY <1>2, NotFound
  <2> HIDE DEF pair, v
  <2>2. {q \in ToSet(attrs) : q[1] = key} = {}
    BY <1>2, HasIs
  <2>3. PairIds(pair) = {}
    BY <1>0, <2>1, SetEmpty DEF PairIds
  <2>4. IsSeq(v) /\ IsValue(key, v)
    BY <2>1, SeqEmpty DEF IsValue
  <2>5. QED
    BY <2>2, <2>3, <2>4 DEF pair, v
<1>3. QED
  BY <1>1, <1>2

\* The ids are those of corresp and those of data-graph-id.
LEMMA TwoKinds ==
  ASSUME NEW attrs, IsAttrs(attrs)
  PROVE  AttrIds(attrs) = {k[2] : k \in ToSet(Get(attrs, "corresp", <<>>))}
                          \cup ToSet(Get(attrs, "data-graph-id", <<>>))
<1> DEFINE C == {q \in ToSet(attrs) : q[1] = "corresp"}
           G == {q \in ToSet(attrs) : q[1] = "data-graph-id"}
           c == <<"corresp", Get(attrs, "corresp", <<>>)>>
           g == <<"data-graph-id", Get(attrs, "data-graph-id", <<>>)>>
<1>1. PairIds(c) = UNION {PairIds(p) : p \in C} /\ PairIds(g) = UNION {PairIds(p) : p \in G}
  BY MayHave
<1>2. /\ PairIds(c) = {k[2] : k \in ToSet(Get(attrs, "corresp", <<>>))}
      /\ PairIds(g) = ToSet(Get(attrs, "data-graph-id", <<>>))
  BY DEF PairIds
<1>3. \A p \in ToSet(attrs) : p \in C \/ p \in G \/ PairIds(p) = {}
  BY DEF PairIds
<1>4. \A p \in C \cup G : p \in ToSet(attrs)
  OBVIOUS
<1> HIDE DEF c, g, C, G
<1>5. AttrIds(attrs) = (UNION {PairIds(p) : p \in C}) \cup UNION {PairIds(p) : p \in G}
  BY <1>3, <1>4 DEF AttrIds
<1>6. QED
  BY <1>1, <1>2, <1>5

\* The ids that a mapped sequence holds.
LEMMA MapIs ==
  ASSUME NEW s, IsSeq(s), NEW m, m = [i \in DOMAIN s |-> m[i]]
  PROVE  IsSeq(m) /\ Len(m) = Len(s) /\ DOMAIN m = DOMAIN s
<1>1. Len(s) \in Nat /\ DOMAIN s = 1 .. Len(s)
  BY SeqLen
<1>2. m = [i \in 1 .. Len(s) |-> m[i]]
  BY <1>1
<1>3. IsSeq(m) /\ Len(m) = Len(s)
  BY <1>1, <1>2, SeqMap
<1>4. QED
  BY <1>1, <1>3, SeqLen

\* The ids of the tokens of a corresp.
LEMMA SecondsIs ==
  ASSUME NEW s, IsSeq(s)
  PROVE  LET m == Mapped(s, LAMBDA t : t[2])
         IN IsSeq(m) /\ ToSet(m) = {k[2] : k \in ToSet(s)} /\ (m = <<>> <=> s = <<>>)
<1> DEFINE m == [i \in DOMAIN s |-> s[i][2]]
<1>1. Mapped(s, LAMBDA t : t[2]) = m
  BY DEF Mapped
<1>2. m = [i \in DOMAIN s |-> m[i]] /\ \A i \in DOMAIN s : m[i] = s[i][2]
  OBVIOUS
<1> HIDE DEF m
<1>3. IsSeq(m) /\ Len(m) = Len(s) /\ DOMAIN m = DOMAIN s
  BY <1>2, MapIs
<1>4. ToSet(m) = {k[2] : k \in ToSet(s)}
  BY <1>2, <1>3 DEF ToSet
<1>5. m = <<>> <=> s = <<>>
  <2>1. ASSUME NEW q, IsSeq(q) PROVE q = <<>> <=> Len(q) = 0
    BY <2>1, SeqEmpty DEF IsSeq
  <2>2. QED
    BY <1>3, <2>1
<1>6. QED
  BY <1>1, <1>3, <1>4, <1>5

\* Links in one of the two attributes only.
Solo(attrs) == ~(Has(attrs, "corresp") /\ Has(attrs, "data-graph-id"))

\* What the code reads from attributes: the ids that are digits.
LEMMA IdsAre ==
  ASSUME NEW attrs, IsAttrs(attrs), Solo(attrs)
  PROVE  ToSet(IdsIn(attrs)) = AttrIds(attrs) \cap Digits
<1> DEFINE c == Get(attrs, "corresp", <<>>)
           g == Get(attrs, "data-graph-id", <<>>)
           m == Mapped(c, LAMBDA t : t[2])
<1>1. IsSeq(c) /\ IsSeq(g)
  BY MayHave
<1>2. AttrIds(attrs) = {k[2] : k \in ToSet(c)} \cup ToSet(g)
  BY TwoKinds
<1>3. IsSeq(m) /\ ToSet(m) = {k[2] : k \in ToSet(c)}
  BY <1>1, SecondsIs
<1>4. CASE c # <<>>
  <2>1. g = <<>>
    BY <1>4, NotFound DEF Solo
  <2>2. IdsIn(attrs) = Only(m, Digits)
    BY <1>4 DEF IdsIn, Numeric
  <2> HIDE DEF m, c, g
  <2>3. ToSet(Only(m, Digits)) = ToSet(m) \cap Digits
    BY <1>3, OnlyIs
  <2>4. QED
    BY <1>2, <1>3, <2>1, <2>2, <2>3, SetEmpty
<1>5. CASE c = <<>>
  <2>1. IdsIn(attrs) = Only(g, Digits)
    BY <1>5 DEF IdsIn, Numeric
  <2> HIDE DEF m, c, g
  <2>2. ToSet(Only(g, Digits)) = ToSet(g) \cap Digits
    BY <1>1, OnlyIs
  <2>3. {k[2] : k \in ToSet(c)} = {}
    BY <1>5, SetEmpty
  <2>4. QED
    BY <1>2, <2>1, <2>2, <2>3
<1>6. QED
  BY <1>4, <1>5

\* The same for the attributes of a tag.
LEMMA EventIds ==
  ASSUME NEW t, IsEvent(t)
  PROVE  IsAttrs(t.attrs) /\ Solo(t.attrs) /\ ToSet(IdsIn(t.attrs)) = AttrIds(t.attrs) \cap Digits
<1>1. IsAttrs(t.attrs) /\ Solo(t.attrs)
  BY DEF IsEvent, Solo
<1>2. QED
  BY <1>1, IdsAre

\* An attribute that is written.
LEMMA PutIds ==
  ASSUME NEW attrs, IsAttrs(attrs), NEW key, NEW value, IsValue(key, value)
  PROVE  LET new == Put(attrs, key, value)
         IN /\ IsAttrs(new)
            /\ \A k : Has(new, k) <=> k = key \/ Has(attrs, k)
            /\ \A x : x \in AttrIds(new) <=> \/ x \in PairIds(<<key, value>>)
                                             \/ \E p \in ToSet(attrs) : p[1] # key /\ x \in PairIds(p)
            /\ \A k, d : k # key => Get(new, k, d) = Get(attrs, k, d)
<1> DEFINE new == Put(attrs, key, value)
           pair == <<key, value>>
<1>0. pair[1] = key
  OBVIOUS
<1>1. IsAttrs(new) /\ ToSet(new) = {p \in ToSet(attrs) : p[1] # key} \cup {pair}
  BY PutIs
<1> HIDE DEF new, pair
<1>2. \A k : Has(new, k) <=> k = key \/ Has(attrs, k)
  BY <1>0, <1>1, HasIs
<1>3. \A x : x \in AttrIds(new) <=> \/ x \in PairIds(pair)
                                    \/ \E p \in ToSet(attrs) : p[1] # key /\ x \in PairIds(p)
  BY <1>1 DEF AttrIds
<1>4. ASSUME NEW k, NEW d, k # key PROVE Get(new, k, d) = Get(attrs, k, d)
  <2>1. \A p : p[1] = k => (p \in ToSet(new) <=> p \in ToSet(attrs))
    BY <1>0, <1>1, <1>4
  <2>2. QED
    BY <1>1, <2>1, SamePairs
<1>5. QED
  BY <1>1, <1>2, <1>3, <1>4 DEF new, pair

\* Names of tags.
LEMMA TagNames ==
  ASSUME NEW name
  PROVE  /\ Canon(Lower(name)) = "span" <=> name = "span"
         /\ Lower(name) = "span" <=> name = "span"
         /\ Lower(Canon(Lower(name))) = Lower(name)
         /\ Lower(Lower(name)) = Lower(name)
BY DEF Canon, Lower

-----------------------------------------------------------------------------
(* What naming and forgetting a region does to a tag.                       *)

\* One id more, at the end of those that are there.
LEMMA OneMore ==
  ASSUME NEW s, IsSeq(s), NEW e
  PROVE  LET new == IF e \in ToSet(s) THEN s ELSE Append(s, e)
         IN IsSeq(new) /\ ToSet(new) = ToSet(s) \cup {e}
<1>1. CASE e \in ToSet(s)
  BY <1>1
<1>2. CASE e \notin ToSet(s)
  <2> DEFINE new == Append(s, e)
  <2>1. /\ IsSeq(new) /\ Len(new) = Len(s) + 1
        /\ \A i \in 1 .. Len(s) : new[i] = s[i]
        /\ new[Len(s) + 1] = e
        /\ \A i \in DOMAIN new : i \in DOMAIN s \/ i = Len(s) + 1
    BY SeqAppend
  <2> HIDE DEF new
  <2>2. Len(s) \in Nat /\ DOMAIN s = 1 .. Len(s) /\ DOMAIN new = 1 .. Len(s) + 1
    <3>1. Len(s) \in Nat /\ DOMAIN s = 1 .. Len(s)
      BY SeqLen
    <3>2. DOMAIN new = 1 .. Len(new)
      BY <2>1, SeqLen
    <3>3. QED
      BY <2>1, <3>1, <3>2
  <2>3. ASSUME NEW x \in ToSet(new) PROVE x \in ToSet(s) \/ x = e
    <3>1. PICK i \in DOMAIN new : x = new[i]
      BY InSet
    <3>2. QED
      BY <2>1, <2>2, <3>1, InSet
  <2>4. ASSUME NEW x \in ToSet(s) PROVE x \in ToSet(new)
    <3>1. PICK i \in DOMAIN s : x = s[i]
      BY InSet
    <3>2. i \in DOMAIN new /\ new[i] = x
      BY <2>1, <2>2, <3>1
    <3>3. QED
      BY <3>2, InSet
  <2>5. e \in ToSet(new)
    <3>1. Len(s) + 1 \in DOMAIN new
      BY <2>2
    <3>2. QED
      BY <2>1, <3>1, InSet
  <2>6. QED
    BY <1>2, <2>1, <2>3, <2>4, <2>5 DEF new
<1>3. QED
  BY <1>1, <1>2

\* A token that is added to a corresp leaves it a corresp.
LEMMA TokensStay ==
  ASSUME NEW s, IsValue("corresp", s), IsSeq(s), NEW e, IsToken(e)
  PROVE  IsValue("corresp", IF e \in ToSet(s) THEN s ELSE Append(s, e))
<1> DEFINE new == IF e \in ToSet(s) THEN s ELSE Append(s, e)
<1>1. IsSeq(new) /\ ToSet(new) = ToSet(s) \cup {e}
  BY OneMore
<1> HIDE DEF new
<1>2. \A x \in ToSet(s) : IsToken(x)
  BY DEF IsValue, ToSet
<1>3. \A i \in DOMAIN new : new[i] \in ToSet(new)
  BY DEF ToSet
<1>4. \A i \in DOMAIN new : IsToken(new[i])
  BY <1>1, <1>2, <1>3
<1>5. QED
  BY <1>1, <1>4 DEF IsValue, new

\* The ids of a pair and of the others.
LEMMA IdsApart ==
  ASSUME NEW attrs, IsAttrs(attrs), NEW key, key \in {"corresp", "data-graph-id"}
  PROVE  \A x : x \in AttrIds(attrs) <=>
                  \/ x \in PairIds(<<key, Get(attrs, key, <<>>)>>)
                  \/ \E p \in ToSet(attrs) : p[1] # key /\ x \in PairIds(p)
<1>1. PairIds(<<key, Get(attrs, key, <<>>)>>)
        = UNION {PairIds(p) : p \in {q \in ToSet(attrs) : q[1] = key}}
  BY MayHave
<1>2. QED
  BY <1>1 DEF AttrIds

\* _add_ref names the region, keeps the other ids and capitalises the tag.
LEMMA WithRefIs ==
  ASSUME NEW t, IsEvent(t), NEW g
  PROVE  LET new == WithRef(t, g)
         IN /\ IsEvent(new) /\ new.ev = t.ev /\ new.name = Canon(Lower(t.name))
            /\ AttrIds(new.attrs) = AttrIds(t.attrs) \cup {g}
            /\ Linkable(new) <=> Linkable(t)
<1> DEFINE key == IF DptSpan(t) THEN "data-graph-id" ELSE "corresp"
           token == IF DptSpan(t) THEN g ELSE <<"gid", g>>
           old == Get(t.attrs, key, <<>>)
           value == IF token \in ToSet(old) THEN old ELSE Append(old, token)
           attrs == Put(t.attrs, key, value)
           new == WithRef(t, g)
<1>1. new = [ev |-> t.ev, name |-> Canon(Lower(t.name)), attrs |-> attrs]
  <2>1. new = [t EXCEPT !.name = Canon(Lower(@)), !.attrs = Put(@, key, value)]
    BY Zenon DEF WithRef
  <2>2. t = [ev |-> t.ev, name |-> t.name, attrs |-> t.attrs]
    BY DEF IsEvent
  <2> HIDE DEF new, key, value
  <2>3. QED
    BY <2>1, <2>2
<1>2. key \in {"corresp", "data-graph-id"} /\ (key = "data-graph-id" <=> DptSpan(t))
  OBVIOUS
<1>3. IsAttrs(t.attrs)
  BY EventIds
<1>4. IsSeq(old) /\ IsValue(key, old)
  BY <1>2, <1>3, MayHave
<1>5. IsSeq(value) /\ ToSet(value) = ToSet(old) \cup {token}
  <2> HIDE DEF token, old
  <2>1. QED
    BY <1>4, OneMore
<1>6. IsValue(key, value)
  <2>1. CASE DptSpan(t)
    <3>1. key = "data-graph-id"
      BY <2>1
    <3> HIDE DEF value, key
    <3>2. QED
      BY <1>5, <3>1 DEF IsValue
  <2>2. CASE ~DptSpan(t)
    <3>1. key = "corresp" /\ token = <<"gid", g>>
      BY <2>2
    <3>2. IsToken(token)
      BY <3>1 DEF IsToken, IsPair
    <3> HIDE DEF token, old, key
    <3>3. QED
      BY <1>4, <3>1, <3>2, TokensStay
  <2>3. QED
    BY <2>1, <2>2
<1>7. \A x : x \in PairIds(<<key, value>>) <=> x \in PairIds(<<key, old>>) \/ x = g
  <2>1. CASE DptSpan(t)
    <3>1. key = "data-graph-id" /\ token = g
      BY <2>1
    <3> HIDE DEF value, key, token, old
    <3>2. PairIds(<<key, value>>) = ToSet(value) /\ PairIds(<<key, old>>) = ToSet(old)
      BY <3>1 DEF PairIds
    <3>3. QED
      BY <1>5, <3>1, <3>2
  <2>2. CASE ~DptSpan(t)
    <3>1. key = "corresp" /\ token = <<"gid", g>>
      BY <2>2
    <3>a. token[2] = g
      BY <3>1
    <3> HIDE DEF value, key, token, old
    <3>2. /\ PairIds(<<key, value>>) = {k[2] : k \in ToSet(value)}
          /\ PairIds(<<key, old>>) = {k[2] : k \in ToSet(old)}
      BY <3>1 DEF PairIds
    <3>3. QED
      BY <1>5, <3>a, <3>2
  <2>3. QED
    BY <2>1, <2>2
<1> HIDE DEF value, token, new
<1>8. /\ IsAttrs(attrs)
      /\ \A k : Has(attrs, k) <=> k = key \/ Has(t.attrs, k)
      /\ \A x : x \in AttrIds(attrs) <=> \/ x \in PairIds(<<key, value>>)
                                         \/ \E p \in ToSet(t.attrs) : p[1] # key /\ x \in PairIds(p)
  <2> HIDE DEF key
  <2>1. QED
    BY <1>3, <1>6, PutIds
<1>9. \A x : x \in AttrIds(t.attrs) <=>
               \/ x \in PairIds(<<key, old>>)
               \/ \E p \in ToSet(t.attrs) : p[1] # key /\ x \in PairIds(p)
  <2> HIDE DEF key
  <2>1. QED
    BY <1>2, <1>3, IdsApart
<1> HIDE DEF attrs, old
<1>10. AttrIds(attrs) = AttrIds(t.attrs) \cup {g}
  <2>1. \A x : x \in AttrIds(attrs) <=> x \in AttrIds(t.attrs) \/ x = g
    BY <1>7, <1>8, <1>9
  <2>2. QED
    BY <2>1
<1>11. new.ev = t.ev /\ new.name = Canon(Lower(t.name)) /\ new.attrs = attrs
       /\ new = [ev |-> new.ev, name |-> new.name, attrs |-> new.attrs]
  BY <1>1
<1>12. DptSpan(new) <=> DptSpan(t)
  <2>1. Has(attrs, "data-dpt") <=> Has(t.attrs, "data-dpt")
    BY <1>2, <1>8
  <2>2. QED
    BY <1>11, <2>1, TagNames DEF DptSpan
<1>13. IsEvent(new)
  <2>1. Has(attrs, "corresp") => ~DptSpan(t)
    BY <1>8 DEF IsEvent
  <2>2. Has(attrs, "data-graph-id") => DptSpan(t)
    BY <1>8 DEF IsEvent
  <2>3. QED
    BY <1>8, <1>11, <1>12, <2>1, <2>2 DEF IsEvent
<1>14. Linkable(new) <=> Linkable(t)
  BY <1>11, <1>12, TagNames DEF Linkable, IsStart
<1>15. QED
  BY <1>10, <1>11, <1>13, <1>14 DEF new

\* The ids under a key.
Under(attrs, key, x) == \E p \in ToSet(attrs) : p[1] = key /\ x \in PairIds(p)

\* An id is under one of the two keys.
LEMMA IdsUnder ==
  ASSUME NEW attrs, NEW x
  PROVE  x \in AttrIds(attrs) <=> Under(attrs, "corresp", x) \/ Under(attrs, "data-graph-id", x)
<1>1. \A p : p[1] # "corresp" /\ p[1] # "data-graph-id" => PairIds(p) = {}
  BY DEF PairIds
<1>2. QED
  BY <1>1, InAttrIds DEF Under

\* What is under a key is in the value that Get returns.
LEMMA GetUnder ==
  ASSUME NEW attrs, IsAttrs(attrs), NEW key, key \in {"corresp", "data-graph-id"}, NEW x
  PROVE  Under(attrs, key, x) <=> x \in PairIds(<<key, Get(attrs, key, <<>>)>>)
<1>1. PairIds(<<key, Get(attrs, key, <<>>)>>)
        = UNION {PairIds(p) : p \in {q \in ToSet(attrs) : q[1] = key}}
  BY MayHave
<1>2. QED
  BY <1>1 DEF Under

\* The same pairs of a key hold the same ids.
LEMMA UnderSame ==
  ASSUME NEW a, NEW b, NEW key, \A p : p[1] = key => (p \in ToSet(a) <=> p \in ToSet(b)), NEW x
  PROVE  Under(a, key, x) <=> Under(b, key, x)
BY DEF Under

\* An attribute that loses some of its values, or all.
LEMMA UnnamedIs ==
  ASSUME NEW attrs, IsAttrs(attrs), NEW key, key \in {"corresp", "data-graph-id"}, NEW S
  PROVE  LET kept == Only(Get(attrs, key, <<>>), S)
             new == Unnamed(attrs, key, kept)
         IN /\ IsAttrs(new)
            /\ \A p : p[1] # key => (p \in ToSet(new) <=> p \in ToSet(attrs))
            /\ \A k : Has(new, k) => Has(attrs, k)
            /\ PairIds(<<key, Get(new, key, <<>>)>>) = PairIds(<<key, kept>>)
            /\ ToSet(kept) = ToSet(Get(attrs, key, <<>>)) \cap S
<1> DEFINE old == Get(attrs, key, <<>>)
           kept == Only(old, S)
           new == Unnamed(attrs, key, kept)
<1>1. IsSeq(old) /\ IsValue(key, old)
  BY MayHave
<1> HIDE DEF old
<1>2. /\ IsSeq(kept) /\ ToSet(kept) = ToSet(old) \cap S
      /\ Len(kept) = Len(old) => \A i \in DOMAIN old : old[i] \in S
      /\ \A i \in DOMAIN kept : \E j \in DOMAIN old : kept[i] = old[j]
  BY <1>1, OnlyIs
<1> HIDE DEF kept
<1>3. IsValue(key, kept)
  BY <1>1, <1>2 DEF IsValue
<1>5. CASE Len(kept) = Len(old)
  <2>1. new = attrs
    BY <1>5 DEF Unnamed, old
  <2>2. ToSet(kept) = ToSet(old)
    BY <1>2, <1>5 DEF ToSet
  <2>3. PairIds(<<key, kept>>) = PairIds(<<key, old>>)
    BY <2>2 DEF PairIds
  <2>4. QED
    BY <1>2, <2>1, <2>3 DEF kept, old
<1>6. CASE Len(kept) # Len(old) /\ kept = <<>>
  <2>1. new = Dropped(attrs, key)
    BY <1>6 DEF Unnamed, old
  <2>2. IsAttrs(new) /\ ToSet(new) = {p \in ToSet(attrs) : p[1] # key}
    BY <2>1, DroppedIs
  <2> HIDE DEF new
  <2>3. \A k : Has(new, k) => Has(attrs, k)
    BY <2>2, HasIs
  <2>4. Get(new, key, <<>>) = <<>>
    <3>1. ~Has(new, key)
      BY <2>2, HasIs
    <3>2. QED
      BY <3>1, NotFound
  <2>5. QED
    BY <1>2, <1>6, <2>2, <2>3, <2>4 DEF new, kept, old
<1>7. CASE Len(kept) # Len(old) /\ kept # <<>>
  <2>1. new = Put(attrs, key, kept)
    BY <1>7 DEF Unnamed, old
  <2>2. Has(attrs, key)
    <3>1. CASE ~Has(attrs, key)
      <4>1. old = <<>>
        BY <3>1, NotFound DEF old
      <4>2. ToSet(kept) = {}
        BY <1>2, <4>1, SetEmpty
      <4>3. DOMAIN kept = {}
        BY <4>2 DEF ToSet
      <4>4. Len(kept) = 0
        BY <1>2, <4>3, SeqLen
      <4>5. QED
        BY <1>7, <4>1, <4>4, SeqEmpty
    <3>2. QED
      BY <3>1
  <2>3. IsAttrs(new) /\ ToSet(new) = {p \in ToSet(attrs) : p[1] # key} \cup {<<key, kept>>}
    BY <1>3, <2>1, PutIs
  <2> DEFINE pair == <<key, kept>>
  <2>p. pair[1] = key /\ pair[2] = kept
    OBVIOUS
  <2> HIDE DEF new, pair
  <2>5. \A p : p[1] # key => (p \in ToSet(new) <=> p \in ToSet(attrs))
    BY <2>3, <2>p DEF pair
  <2>4. \A k : Has(new, k) => Has(attrs, k)
    BY <2>2, <2>3, <2>p, HasIs DEF pair
  <2>6. Get(new, key, <<>>) = kept
    <3>1. pair \in ToSet(new)
      BY <2>3 DEF pair
    <3>2. Get(new, pair[1], <<>>) = pair[2]
      BY <2>3, <3>1, GetIs
    <3>3. QED
      BY <2>p, <3>2
  <2>7. QED
    BY <1>2, <2>2, <2>3, <2>4, <2>5, <2>6 DEF new, kept, old
<1>8. QED
  BY <1>5, <1>6, <1>7

\* _remove_ref forgets the region and keeps the other ids.
LEMMA WithoutRefIs ==
  ASSUME NEW t, IsEvent(t), NEW g
  PROVE  LET new == WithoutRef(t, g)
         IN /\ IsEvent(new) /\ new.ev = t.ev
            /\ AttrIds(new.attrs) = AttrIds(t.attrs) \ {g}
<1> DEFINE old == t.attrs
           tokens == Get(old, "corresp", <<>>)
           ids == Get(old, "data-graph-id", <<>>)
           K == {k \in ToSet(tokens) : k[2] # g}
           I == ToSet(ids) \ {g}
           inner == Unnamed(old, "corresp", Only(tokens, K))
           attrs == Unnamed(inner, "data-graph-id", Only(ids, I))
           name == IF attrs = old THEN t.name ELSE Canon(Lower(t.name))
           new == WithoutRef(t, g)
<1>1. new = [ev |-> t.ev, name |-> name, attrs |-> attrs]
  <2>1. new = IF attrs = t.attrs THEN t
              ELSE [t EXCEPT !.name = Canon(Lower(@)), !.attrs = attrs]
    BY Zenon DEF WithoutRef
  <2>2. t = [ev |-> t.ev, name |-> t.name, attrs |-> t.attrs]
    BY DEF IsEvent
  <2> HIDE DEF new, attrs
  <2>3. QED
    BY <2>1, <2>2
<1>d. name = "span" <=> t.name = "span"
  BY TagNames
<1> HIDE DEF name
<1>2. IsAttrs(old)
  BY EventIds
<1> HIDE DEF old, K, I
<1>3. /\ IsAttrs(inner)
      /\ \A p : p[1] # "corresp" => (p \in ToSet(inner) <=> p \in ToSet(old))
      /\ \A k : Has(inner, k) => Has(old, k)
      /\ PairIds(<<"corresp", Get(inner, "corresp", <<>>)>>) = PairIds(<<"corresp", Only(tokens, K)>>)
      /\ ToSet(Only(tokens, K)) = ToSet(tokens) \cap K
  BY <1>2, UnnamedIs
<1> HIDE DEF inner
<1>b. \A k : k # "corresp" => (Has(inner, k) <=> Has(old, k))
  BY <1>3, HasIs
<1>4. Get(inner, "data-graph-id", <<>>) = ids
  <2>1. \A p : p[1] = "data-graph-id" => (p \in ToSet(inner) <=> p \in ToSet(old))
    BY <1>3
  <2>2. QED
    BY <1>2, <1>3, <2>1, SamePairs
<1>a. attrs = Unnamed(inner, "data-graph-id", Only(Get(inner, "data-graph-id", <<>>), I))
  BY <1>4
<1> HIDE DEF tokens, ids, new, attrs
<1>5. /\ IsAttrs(attrs)
      /\ \A p : p[1] # "data-graph-id" => (p \in ToSet(attrs) <=> p \in ToSet(inner))
      /\ \A k : Has(attrs, k) => Has(inner, k)
      /\ PairIds(<<"data-graph-id", Get(attrs, "data-graph-id", <<>>)>>)
           = PairIds(<<"data-graph-id", Only(ids, I)>>)
      /\ ToSet(Only(ids, I)) = ToSet(ids) \cap I
  BY <1>3, <1>4, <1>a, UnnamedIs
<1>c. \A k : k # "data-graph-id" => (Has(attrs, k) <=> Has(inner, k))
  BY <1>5, HasIs
<1>6. PairIds(<<"data-graph-id", Only(ids, I)>>) = ToSet(ids) \ {g}
  BY <1>5 DEF PairIds, I
<1>7. PairIds(<<"corresp", Only(tokens, K)>>) = {k[2] : k \in ToSet(tokens)} \ {g}
  <2>1. PairIds(<<"corresp", Only(tokens, K)>>) = {k[2] : k \in ToSet(tokens) \cap K}
    BY <1>3 DEF PairIds
  <2>2. QED
    BY <2>1 DEF K
<1>8. AttrIds(old) = {k[2] : k \in ToSet(tokens)} \cup ToSet(ids)
  BY <1>2, TwoKinds DEF tokens, ids
<1>10. ASSUME NEW x PROVE x \in AttrIds(attrs) <=> x \in AttrIds(old) /\ x # g
  <2>1. Under(attrs, "data-graph-id", x) <=> x \in ToSet(ids) \ {g}
    BY <1>5, <1>6, GetUnder
  <2>2. Under(attrs, "corresp", x) <=> Under(inner, "corresp", x)
    <3>1. \A p : p[1] = "corresp" => (p \in ToSet(attrs) <=> p \in ToSet(inner))
      BY <1>5
    <3>2. QED
      BY <3>1, UnderSame
  <2>3. Under(inner, "corresp", x) <=> x \in {k[2] : k \in ToSet(tokens)} \ {g}
    BY <1>3, <1>7, GetUnder
  <2>4. QED
    BY <1>8, <2>1, <2>2, <2>3, IdsUnder
<1>11. new.ev = t.ev /\ new.name = name /\ new.attrs = attrs
       /\ new = [ev |-> new.ev, name |-> new.name, attrs |-> new.attrs]
  BY <1>1
<1>12. DptSpan(new) <=> DptSpan(t)
  BY <1>11, <1>b, <1>c, <1>d DEF DptSpan, old
<1>13. IsEvent(new)
  BY <1>3, <1>5, <1>11, <1>12 DEF IsEvent, old
<1>14. AttrIds(attrs) = AttrIds(old) \ {g}
  BY <1>10
<1>15. QED
  BY <1>11, <1>13, <1>14 DEF new, old

\* An id that is embedded.
LEMMA EmbeddedIs ==
  ASSUME NEW t, IsEvent(t), DptSpan(t), NEW g
  PROVE  LET new == Embedded(t.attrs, g)
         IN /\ IsEvent([ev |-> t.ev, name |-> t.name, attrs |-> new])
            /\ AttrIds(new) = AttrIds(t.attrs) \cup {g}
<1> DEFINE old == t.attrs
           ids == Get(old, "data-graph-id", <<>>)
           new == Embedded(old, g)
           event == [ev |-> t.ev, name |-> t.name, attrs |-> new]
<1>1. IsAttrs(old)
  BY EventIds
<1>2. IsSeq(ids) /\ PairIds(<<"data-graph-id", ids>>) = ToSet(ids)
      /\ AttrIds(old) = {k[2] : k \in ToSet(Get(old, "corresp", <<>>))} \cup ToSet(ids)
  BY <1>1, MayHave, TwoKinds DEF PairIds
<1>3. event.ev = t.ev /\ event.name = t.name /\ event.attrs = new
      /\ event = [ev |-> event.ev, name |-> event.name, attrs |-> event.attrs]
  OBVIOUS
<1>4. CASE g \in ToSet(ids)
  <2>1. new = old
    BY <1>4 DEF Embedded
  <2>2. t = event
    BY <2>1 DEF IsEvent
  <2>3. QED
    BY <1>2, <1>4, <2>1, <2>2
<1>5. CASE g \notin ToSet(ids)
  <2> DEFINE value == Append(ids, g)
  <2>1. new = Put(old, "data-graph-id", value)
    BY <1>5 DEF Embedded
  <2>2. IsSeq(value) /\ ToSet(value) = ToSet(ids) \cup {g}
    <3> HIDE DEF ids
    <3>1. QED
      BY <1>2, <1>5, OneMore
  <2> HIDE DEF value, ids, new, old, event
  <2>3. IsValue("data-graph-id", value)
    BY <2>2 DEF IsValue
  <2>4. /\ IsAttrs(new)
        /\ \A k : Has(new, k) <=> k = "data-graph-id" \/ Has(old, k)
        /\ \A x : x \in AttrIds(new) <=>
              \/ x \in PairIds(<<"data-graph-id", value>>)
              \/ \E p \in ToSet(old) : p[1] # "data-graph-id" /\ x \in PairIds(p)
    BY <1>1, <2>1, <2>3, PutIds
  <2>5. \A x : x \in AttrIds(old) <=>
              \/ x \in PairIds(<<"data-graph-id", ids>>)
              \/ \E p \in ToSet(old) : p[1] # "data-graph-id" /\ x \in PairIds(p)
    BY <1>1, IdsApart DEF ids
  <2>6. PairIds(<<"data-graph-id", value>>) = PairIds(<<"data-graph-id", ids>>) \cup {g}
    BY <1>2, <2>2 DEF PairIds
  <2>7. AttrIds(new) = AttrIds(old) \cup {g}
    <3>1. \A x : x \in AttrIds(new) <=> x \in AttrIds(old) \/ x = g
      BY <2>4, <2>5, <2>6
    <3>2. QED
      BY <3>1
  <2>8. DptSpan(event) <=> DptSpan(t)
    BY <1>3, <2>4 DEF DptSpan, old
  <2>9. IsEvent(event)
    BY <1>3, <2>4, <2>8 DEF IsEvent, old
  <2>10. QED
    BY <2>7, <2>9 DEF event, old, new
<1>6. QED
  BY <1>4, <1>5

-----------------------------------------------------------------------------
(* What the converters do to the attributes of a tag.                       *)

\* Attributes whose keys are among these; the keys that hold ids.
KeysIn(attrs, keys) == IsAttrs(attrs) /\ \A p \in ToSet(attrs) : p[1] \in keys
LinkKeys == {"corresp", "data-graph-id"}

\* No attributes have no keys.
LEMMA NoneUnder == ASSUME NEW keys PROVE KeysIn(<<>>, keys)
BY NoAttrs DEF KeysIn

\* One attribute has one key.
LEMMA OneUnder ==
  ASSUME NEW key, NEW value, IsValue(key, value)
  PROVE  KeysIn(<< <<key, value>> >>, {key})
<1> DEFINE pair == <<key, value>>
<1>1. pair[1] = key
  OBVIOUS
<1>2. IsAttrs(<<pair>>) /\ ToSet(<<pair>>) = {pair}
  BY OneAttr
<1> HIDE DEF pair
<1>3. QED
  BY <1>1, <1>2 DEF KeysIn, pair

\* Attributes with different keys, one after the other.
LEMMA PlusUnder ==
  ASSUME NEW a, NEW b, NEW K, NEW L, KeysIn(a, K), KeysIn(b, L), K \cap L = {}
  PROVE  KeysIn(a \o b, K \cup L) /\ ToSet(a \o b) = ToSet(a) \cup ToSet(b)
<1>1. \A p \in ToSet(a), q \in ToSet(b) : p[1] # q[1]
  BY DEF KeysIn
<1>2. IsAttrs(a \o b) /\ ToSet(a \o b) = ToSet(a) \cup ToSet(b)
  BY <1>1, PlusIs DEF KeysIn
<1>3. QED
  BY <1>2 DEF KeysIn

\* Keys among fewer are among more.
LEMMA MoreUnder ==
  ASSUME NEW a, NEW K, NEW L, KeysIn(a, K), K \subseteq L PROVE KeysIn(a, L)
BY DEF KeysIn

\* Attributes without the keys of links name nothing.
LEMMA NoIdsUnder ==
  ASSUME NEW a, NEW K, KeysIn(a, K), K \cap LinkKeys = {} PROVE AttrIds(a) = {}
<1>1. \A p \in ToSet(a) : PairIds(p) = {}
  BY DEF KeysIn, LinkKeys, PairIds
<1>2. QED
  BY <1>1 DEF AttrIds

\* The ids of attributes one after the other.
LEMMA PlusIds ==
  ASSUME NEW a, NEW b, ToSet(a \o b) = ToSet(a) \cup ToSet(b)
  PROVE  AttrIds(a \o b) = AttrIds(a) \cup AttrIds(b)
BY DEF AttrIds

\* An attribute that is carried over has its new key.
LEMMA CarriedUnder ==
  ASSUME NEW attrs, NEW from, NEW to, to \notin LinkKeys
  PROVE  KeysIn(Carried(attrs, from, to), {to})
<1>1. CASE Get(attrs, from, "") = ""
  BY <1>1, NoneUnder DEF Carried
<1>2. CASE Get(attrs, from, "") # ""
  <2>1. IsValue(to, Get(attrs, from, ""))
    BY DEF IsValue, LinkKeys
  <2>2. QED
    BY <1>2, <2>1, OneUnder DEF Carried
<1>3. QED
  BY <1>1, <1>2

\* data-graph-id becomes corresp, with the prefix.
LEMMA Prefixed ==
  ASSUME NEW ids, IsSeq(ids)
  PROVE  LET m == Mapped(ids, LAMBDA id : <<"gid", id>>)
         IN IsValue("corresp", m) /\ {k[2] : k \in ToSet(m)} = ToSet(ids)
<1> DEFINE m == [i \in DOMAIN ids |-> <<"gid", ids[i]>>]
<1>1. Mapped(ids, LAMBDA id : <<"gid", id>>) = m
  BY DEF Mapped
<1>2. m = [i \in DOMAIN ids |-> m[i]]
  OBVIOUS
<1>3. \A i \in DOMAIN ids : m[i][1] = "gid" /\ m[i][2] = ids[i] /\ m[i] = <<m[i][1], m[i][2]>>
  OBVIOUS
<1> HIDE DEF m
<1>4. IsSeq(m) /\ DOMAIN m = DOMAIN ids
  BY <1>2, MapIs
<1>5. IsValue("corresp", m)
  BY <1>3, <1>4 DEF IsValue, IsToken, IsPair
<1>6. \A x : (\E k \in ToSet(m) : x = k[2]) <=> x \in ToSet(ids)
  BY <1>3, <1>4, InSet
<1>7. {k[2] : k \in ToSet(m)} = ToSet(ids)
  BY <1>6
<1>8. QED
  BY <1>1, <1>5, <1>7

\* The attributes of a TEI tag name nothing that the span did not.
LEMMA TeiAttrsAre ==
  ASSUME NEW attrs, IsAttrs(attrs), NEW dpt
  PROVE  /\ KeysIn(TeiAttrs(attrs, dpt), {"source", "type", "corresp"})
         /\ AttrIds(TeiAttrs(attrs, dpt)) \subseteq AttrIds(attrs)
<1> DEFINE ids == Get(attrs, "data-graph-id", <<>>)
           source == Carried(attrs, "data-dpt-src", "source")
           sep == IF Get(attrs, "data-dpt-cat", "") = "sep" THEN << <<"type", "sep">> >> ELSE <<>>
           type == Carried(attrs, "data-dpt-type", "type")
           own == IF dpt = "lb" THEN source \o sep ELSE type
           m == Mapped(ids, LAMBDA id : <<"gid", id>>)
           links == IF ids = <<>> THEN <<>> ELSE << <<"corresp", m>> >>
<1>1. TeiAttrs(attrs, dpt) = own \o links
  BY Zenon DEF TeiAttrs
<1>2. KeysIn(source, {"source"}) /\ KeysIn(type, {"type"})
  BY CarriedUnder DEF LinkKeys
<1>3. KeysIn(sep, {"type"})
  <2>1. IsValue("type", "sep")
    BY DEF IsValue
  <2>2. QED
    BY <2>1, OneUnder, NoneUnder
<1> HIDE DEF source, type, sep
<1>4. KeysIn(own, {"source", "type"})
  <2>1. KeysIn(source \o sep, {"source"} \cup {"type"})
    BY <1>2, <1>3, PlusUnder
  <2>2. {"source"} \cup {"type"} = {"source", "type"}
    OBVIOUS
  <2>3. KeysIn(type, {"source", "type"})
    BY <1>2, MoreUnder
  <2>4. QED
    BY <2>1, <2>2, <2>3
<1>5. IsSeq(ids) /\ AttrIds(attrs) = {k[2] : k \in ToSet(Get(attrs, "corresp", <<>>))} \cup ToSet(ids)
  BY MayHave, TwoKinds
<1>6. IsValue("corresp", m) /\ {k[2] : k \in ToSet(m)} = ToSet(ids)
  <2> HIDE DEF ids
  <2>1. QED
    BY <1>5, Prefixed
<1> HIDE DEF ids, m, own
<1>7. KeysIn(links, {"corresp"}) /\ AttrIds(links) \subseteq ToSet(ids)
  <2>1. CASE ids = <<>>
    BY <2>1, NoneUnder, NoAttrs DEF AttrIds
  <2>2. CASE ids # <<>>
    <3> DEFINE pair == <<"corresp", m>>
    <3>1. links = <<pair>> /\ pair[1] = "corresp" /\ pair[2] = m
      BY <2>2
    <3>2. KeysIn(<<pair>>, {"corresp"}) /\ ToSet(<<pair>>) = {pair}
      BY <1>6, OneUnder, OneAttr
    <3> HIDE DEF pair
    <3>3. AttrIds(<<pair>>) = PairIds(pair)
      BY <3>2 DEF AttrIds
    <3>4. PairIds(pair) = ToSet(ids)
      BY <1>6, <3>1 DEF PairIds
    <3>5. QED
      BY <3>1, <3>2, <3>3, <3>4
  <2>3. QED
    BY <2>1, <2>2
<1> HIDE DEF links
<1>8. /\ KeysIn(own \o links, {"source", "type"} \cup {"corresp"})
      /\ ToSet(own \o links) = ToSet(own) \cup ToSet(links)
  BY <1>4, <1>7, PlusUnder
<1>9. AttrIds(own \o links) = AttrIds(own) \cup AttrIds(links)
  BY <1>8, PlusIds
<1>10. AttrIds(own) = {}
  BY <1>4, NoIdsUnder DEF LinkKeys
<1>11. {"source", "type"} \cup {"corresp"} = {"source", "type", "corresp"}
  OBVIOUS
<1>12. QED
  BY <1>1, <1>5, <1>7, <1>8, <1>9, <1>10, <1>11

\* corresp becomes data-graph-id: the tokens with the prefix.
LEMMA GraphIdsAre ==
  ASSUME NEW tokens, IsSeq(tokens)
  PROVE  IsSeq(GraphIds(tokens)) /\ ToSet(GraphIds(tokens)) \subseteq {k[2] : k \in ToSet(tokens)}
<1> DEFINE S == {t \in ToSet(tokens) : t[1] = "gid"}
           kept == Only(tokens, S)
<1>1. GraphIds(tokens) = Mapped(kept, LAMBDA t : t[2])
  BY Zenon DEF GraphIds
<1> HIDE DEF S
<1>2. IsSeq(kept) /\ ToSet(kept) = ToSet(tokens) \cap S
  BY OnlyIs
<1> HIDE DEF kept
<1> DEFINE m == Mapped(kept, LAMBDA t : t[2])
<1>3. IsSeq(m) /\ ToSet(m) = {k[2] : k \in ToSet(kept)}
  BY <1>2, SecondsIs
<1> HIDE DEF m
<1>4. QED
  BY <1>1, <1>2, <1>3 DEF m

\* The attributes of a span name nothing that the TEI tag did not.
LEMMA DptAttrsAre ==
  ASSUME NEW attrs, IsAttrs(attrs), NEW dpt
  PROVE  /\ KeysIn(DptAttrs(attrs, dpt), {"data-dpt", "data-dpt-cat", "data-dpt-type",
                                          "data-dpt-src", "data-graph-id"})
         /\ Has(DptAttrs(attrs, dpt), "data-dpt")
         /\ AttrIds(DptAttrs(attrs, dpt)) \subseteq AttrIds(attrs)
<1> DEFINE tokens == Get(attrs, "corresp", <<>>)
           first == << <<"data-dpt", dpt>> >>
           sep == IF Get(attrs, "type", "") = "sep" THEN << <<"data-dpt-cat", "sep">> >> ELSE <<>>
           cat == << <<"data-dpt-cat", DptCat[dpt]>> >>
           type == Carried(attrs, "type", "data-dpt-type")
           source == Carried(attrs, "source", "data-dpt-src")
           kind == IF dpt = "lb" THEN sep ELSE cat \o type
           ids == GraphIds(tokens)
           links == IF tokens = <<>> THEN <<>> ELSE << <<"data-graph-id", ids>> >>
<1>1. DptAttrs(attrs, dpt) = first \o kind \o source \o links
  BY Zenon DEF DptAttrs
<1>2. KeysIn(source, {"data-dpt-src"}) /\ KeysIn(type, {"data-dpt-type"})
  BY CarriedUnder DEF LinkKeys
<1>3. KeysIn(first, {"data-dpt"}) /\ KeysIn(cat, {"data-dpt-cat"}) /\ KeysIn(sep, {"data-dpt-cat"})
      /\ ToSet(first) = {<<"data-dpt", dpt>>}
  <2>1. IsValue("data-dpt-cat", "sep") /\ IsValue("data-dpt", dpt)
        /\ IsValue("data-dpt-cat", DptCat[dpt])
    BY DEF IsValue
  <2>2. QED
    BY <2>1, OneUnder, NoneUnder, OneAttr
<1> HIDE DEF source, type, sep, first, cat
<1>4. KeysIn(kind, {"data-dpt-cat", "data-dpt-type"})
  <2>1. KeysIn(cat \o type, {"data-dpt-cat"} \cup {"data-dpt-type"})
    BY <1>2, <1>3, PlusUnder
  <2>2. {"data-dpt-cat"} \cup {"data-dpt-type"} = {"data-dpt-cat", "data-dpt-type"}
    OBVIOUS
  <2>3. KeysIn(sep, {"data-dpt-cat", "data-dpt-type"})
    BY <1>3, MoreUnder
  <2>4. QED
    BY <2>1, <2>2, <2>3
<1>5. IsSeq(tokens)
      /\ AttrIds(attrs) = {k[2] : k \in ToSet(tokens)} \cup ToSet(Get(attrs, "data-graph-id", <<>>))
  BY MayHave, TwoKinds
<1> HIDE DEF tokens
<1>6. IsSeq(ids) /\ ToSet(ids) \subseteq {k[2] : k \in ToSet(tokens)}
  BY <1>5, GraphIdsAre
<1> HIDE DEF kind, ids
<1>7. KeysIn(links, {"data-graph-id"}) /\ AttrIds(links) \subseteq ToSet(ids)
  <2>1. CASE tokens = <<>>
    BY <2>1, NoneUnder, NoAttrs DEF AttrIds
  <2>2. CASE tokens # <<>>
    <3> DEFINE pair == <<"data-graph-id", ids>>
    <3>1. links = <<pair>> /\ pair[1] = "data-graph-id" /\ pair[2] = ids
      BY <2>2
    <3>2. KeysIn(<<pair>>, {"data-graph-id"}) /\ ToSet(<<pair>>) = {pair}
      <4>1. IsValue("data-graph-id", ids)
        BY <1>6 DEF IsValue
      <4>2. QED
        BY <4>1, OneUnder, OneAttr
    <3> HIDE DEF pair
    <3>3. AttrIds(<<pair>>) = PairIds(pair)
      BY <3>2 DEF AttrIds
    <3>4. PairIds(pair) = ToSet(ids)
      BY <3>1 DEF PairIds
    <3>5. QED
      BY <3>1, <3>2, <3>3, <3>4
  <2>3. QED
    BY <2>1, <2>2
<1> HIDE DEF links
<1> DEFINE a == first \o kind
           b == a \o source
           K == {"data-dpt"} \cup {"data-dpt-cat", "data-dpt-type"}
           L == K \cup {"data-dpt-src"}
<1>8. KeysIn(a, K) /\ ToSet(a) = ToSet(first) \cup ToSet(kind)
  BY <1>3, <1>4, PlusUnder
<1>9. KeysIn(b, L) /\ ToSet(b) = ToSet(a) \cup ToSet(source)
  <2> HIDE DEF a
  <2>1. K \cap {"data-dpt-src"} = {}
    OBVIOUS
  <2> HIDE DEF K
  <2>2. QED
    BY <1>2, <1>8, <2>1, PlusUnder
<1>10. L \cap {"data-graph-id"} = {} /\ L \cap LinkKeys = {}
       /\ L \cup {"data-graph-id"} = {"data-dpt", "data-dpt-cat", "data-dpt-type",
                                      "data-dpt-src", "data-graph-id"}
  BY DEF LinkKeys
<1> HIDE DEF a, b, K, L
<1>11. KeysIn(b \o links, L \cup {"data-graph-id"}) /\ ToSet(b \o links) = ToSet(b) \cup ToSet(links)
  BY <1>7, <1>9, <1>10, PlusUnder
<1>12. AttrIds(b \o links) = AttrIds(b) \cup AttrIds(links)
  BY <1>11, PlusIds
<1>13. AttrIds(b) = {}
  BY <1>9, <1>10, NoIdsUnder
<1>14. Has(b \o links, "data-dpt")
  <2> DEFINE pair == <<"data-dpt", dpt>>
  <2>1. pair[1] = "data-dpt"
    OBVIOUS
  <2> HIDE DEF pair
  <2>2. pair \in ToSet(b \o links)
    BY <1>3, <1>8, <1>9, <1>11 DEF pair
  <2>3. QED
    BY <2>1, <2>2, HasIs
<1>15. DptAttrs(attrs, dpt) = b \o links
  BY <1>1 DEF a, b
<1>16. QED
  BY <1>5, <1>6, <1>7, <1>10, <1>11, <1>12, <1>13, <1>14, <1>15

-----------------------------------------------------------------------------
(* Contents that are put together.                                          *)

\* The elements of a concatenation.
LEMMA PlusSet ==
  ASSUME NEW s, IsSeq(s), NEW t, IsSeq(t)
  PROVE  IsSeq(s \o t) /\ ToSet(s \o t) = ToSet(s) \cup ToSet(t)
<1> DEFINE c == s \o t
           m == Len(s)
           n == Len(t)
<1>1. m \in Nat /\ n \in Nat /\ DOMAIN s = 1 .. m /\ DOMAIN t = 1 .. n
  BY SeqLen
<1>2. /\ IsSeq(c) /\ Len(c) = m + n
      /\ \A i \in 1 .. m : c[i] = s[i]
      /\ \A i \in 1 .. n : c[m + i] = t[i]
      /\ \A i \in DOMAIN c : \/ \E j \in DOMAIN s : j = i /\ c[i] = s[j]
                             \/ \E j \in DOMAIN t : i = m + j /\ c[i] = t[j]
  BY SeqPlus
<1>3. DOMAIN c = 1 .. m + n
  BY <1>2, SeqLen
<1> HIDE DEF c, m, n
<1>4. ASSUME NEW p \in ToSet(c) PROVE p \in ToSet(s) \cup ToSet(t)
  BY <1>2 DEF ToSet
<1>5. ASSUME NEW p \in ToSet(s) PROVE p \in ToSet(c)
  <2>1. PICK i \in 1 .. m : p = s[i]
    BY <1>1 DEF ToSet
  <2>2. i \in DOMAIN c /\ c[i] = p
    BY <1>1, <1>2, <1>3, <2>1
  <2>3. QED
    BY <2>2 DEF ToSet
<1>6. ASSUME NEW p \in ToSet(t) PROVE p \in ToSet(c)
  <2>1. PICK i \in 1 .. n : p = t[i]
    BY <1>1 DEF ToSet
  <2>2. m + i \in DOMAIN c /\ c[m + i] = p
    BY <1>1, <1>2, <1>3, <2>1
  <2>3. QED
    BY <2>2 DEF ToSet
<1>7. QED
  BY <1>2, <1>4, <1>5, <1>6 DEF c

\* The elements with one more.
LEMMA AppendSet ==
  ASSUME NEW s, IsSeq(s), NEW e
  PROVE  IsSeq(Append(s, e)) /\ ToSet(Append(s, e)) = ToSet(s) \cup {e}
<1>1. CASE e \notin ToSet(s)
  BY <1>1, OneMore
<1>2. Append(s, e) = s \o <<e>>
  <2>1. s \in Seq(ToSet(s) \cup {e})
    BY DEF IsSeq
  <2> DEFINE S == ToSet(s) \cup {e}
  <2>2. e \in S
    OBVIOUS
  <2> HIDE DEF S
  <2>3. s \in Seq(S)
    BY <2>1 DEF S
  <2>4. QED
    BY <2>2, <2>3
<1>3. IsSeq(<<e>>) /\ ToSet(<<e>>) = {e}
  BY SeqOne DEF ToSet
<1>4. QED
  BY <1>2, <1>3, PlusSet

\* The first n sequences put together, from none on.
FlatUpTo(seqs, n, f) ==
  [i \in 1 .. n |-> IF i = 1 THEN seqs[i] ELSE f[i - 1] \o seqs[i]]

\* There is a sequence of what has been put together so far.
LEMMA FlatExists ==
  ASSUME NEW seqs, NEW n \in Nat
  PROVE  \E f : f = FlatUpTo(seqs, n, f)
<1> DEFINE P == {k \in Nat : \E f : f = FlatUpTo(seqs, k, f)}
<1>1. 0 \in P
  <2> DEFINE f == [i \in 1 .. 0 |-> <<>>]
  <2>1. \A i \in 1 .. 0 : FALSE
    OBVIOUS
  <2>2. f = FlatUpTo(seqs, 0, f)
    BY <2>1 DEF FlatUpTo
  <2> HIDE DEF f
  <2>3. QED
    BY <2>2
<1>2. ASSUME NEW k \in Nat, k \in P PROVE k + 1 \in P
  <2>1. PICK f : f = FlatUpTo(seqs, k, f)
    BY <1>2
  <2> DEFINE last == IF k = 0 THEN seqs[1] ELSE f[k] \o seqs[k + 1]
             more == [i \in 1 .. k + 1 |-> IF i = k + 1 THEN last ELSE f[i]]
  <2>2. \A i \in 1 .. k : more[i] = f[i]
    OBVIOUS
  <2>3. more[k + 1] = last
    OBVIOUS
  <2>4. more = [i \in 1 .. k + 1 |-> more[i]]
    OBVIOUS
  <2> HIDE DEF more
  <2>5. ASSUME NEW i \in 1 .. k + 1
        PROVE  more[i] = IF i = 1 THEN seqs[i] ELSE more[i - 1] \o seqs[i]
    <3>1. CASE i = k + 1
      <4>1. CASE k = 0
        BY <2>3, <3>1, <4>1
      <4>2. CASE k # 0
        <5>1. i # 1 /\ i - 1 = k /\ k \in 1 .. k
          BY <3>1, <4>2
        <5>2. QED
          BY <2>2, <2>3, <3>1, <4>2, <5>1
      <4>3. QED
        BY <4>1, <4>2
    <3>2. CASE i # k + 1
      <4>1. i \in 1 .. k
        BY <3>2
      <4>2. f[i] = IF i = 1 THEN seqs[i] ELSE f[i - 1] \o seqs[i]
        BY <2>1, <4>1 DEF FlatUpTo
      <4>3. i # 1 => i - 1 \in 1 .. k
        BY <4>1
      <4>4. QED
        BY <2>2, <4>1, <4>2, <4>3
    <3>3. QED
      BY <3>1, <3>2
  <2>6. more = FlatUpTo(seqs, k + 1, more)
    BY <2>4, <2>5 DEF FlatUpTo
  <2>7. QED
    BY <2>6
<1> HIDE DEF P
<1>3. n \in P
  BY <1>1, <1>2, Forward!Induction
<1>4. QED
  BY <1>3 DEF P

\* All that a sequence of contents holds.
LEMMA FlatIs ==
  ASSUME NEW seqs, IsSeq(seqs), \A i \in DOMAIN seqs : IsSeq(seqs[i])
  PROVE  /\ IsSeq(FlattenSeq(seqs))
         /\ \A x \in ToSet(FlattenSeq(seqs)) : \E i \in DOMAIN seqs : x \in ToSet(seqs[i])
<1> DEFINE n == Len(seqs)
<1>0. n \in Nat /\ DOMAIN seqs = 1 .. n
  BY SeqLen
<1>1. CASE n = 0
  <2>1. FlattenSeq(seqs) = seqs
    BY <1>1, Zenon DEF FlattenSeq
  <2>2. DOMAIN seqs = {}
    BY <1>0, <1>1
  <2>3. QED
    BY <2>1, <2>2 DEF ToSet
<1>2. CASE n # 0
  <2> DEFINE f == CHOOSE f : f = FlatUpTo(seqs, n, f)
  <2>1. f = FlatUpTo(seqs, n, f)
    BY <1>0, FlatExists
  <2>2. FlattenSeq(seqs) = f[n]
    BY <1>2, Zenon DEF FlattenSeq, FlatUpTo
  <2> HIDE DEF f
  <2>3. \A i \in 1 .. n : f[i] = IF i = 1 THEN seqs[i] ELSE f[i - 1] \o seqs[i]
    BY <2>1 DEF FlatUpTo
  <2> DEFINE Holds(k) == /\ IsSeq(f[k])
                         /\ \A x \in ToSet(f[k]) : \E i \in DOMAIN seqs : x \in ToSet(seqs[i])
             P == {k \in Nat : k + 1 <= n => Holds(k + 1)}
  <2> HIDE DEF n
  <2>4. 0 \in P
    <3>1. 1 \in 1 .. n /\ 0 + 1 = 1
      BY <1>0, <1>2
    <3>2. f[1] = seqs[1]
      BY <2>3, <3>1
    <3>3. QED
      BY <1>0, <3>1, <3>2
  <2>5. ASSUME NEW k \in Nat, k \in P PROVE k + 1 \in P
    <3> DEFINE m == k + 1
    <3> SUFFICES ASSUME m + 1 <= n PROVE Holds(m + 1)
      OBVIOUS
    <3>1. m \in Nat /\ m + 1 \in 1 .. n /\ m + 1 # 1 /\ (m + 1) - 1 = m /\ m <= n
      BY <1>0
    <3>2. Holds(m)
      BY <2>5, <3>1
    <3> HIDE DEF m
    <3>3. f[m + 1] = f[m] \o seqs[m + 1]
      BY <2>3, <3>1
    <3>4. IsSeq(seqs[m + 1]) /\ m + 1 \in DOMAIN seqs
      BY <1>0, <3>1
    <3>5. IsSeq(f[m + 1]) /\ ToSet(f[m + 1]) = ToSet(f[m]) \cup ToSet(seqs[m + 1])
      BY <3>2, <3>3, <3>4, PlusSet
    <3>6. QED
      BY <3>2, <3>4, <3>5
  <2> HIDE DEF P
  <2>6. Nat \subseteq P
    BY <2>4, <2>5, Forward!Induction
  <2>7. n - 1 \in P /\ (n - 1) + 1 = n
    BY <1>0, <1>2, <2>6
  <2>8. Holds(n)
    BY <1>0, <2>7 DEF P
  <2>9. QED
    BY <2>2, <2>8
<1>3. QED
  BY <1>1, <1>2

\* The ids that the tags of a content name.
AllIds(text) ==
  UNION {AttrIds(text[i].attrs) : i \in {j \in DOMAIN text : IsStart(text[j])}}

\* Parts of a text whose tags name none but these ids.
Writes(parts, ids) ==
  IsSeq(parts) /\ \A x \in ToSet(parts) : IsEvent(x) /\ (IsStart(x) => AttrIds(x.attrs) \subseteq ids)

\* An id is in a content when a start tag of it names it.
LEMMA InAllIds ==
  ASSUME NEW c, NEW x
  PROVE  x \in AllIds(c) <=> \E e \in ToSet(c) : IsStart(e) /\ x \in AttrIds(e.attrs)
<1>1. ASSUME NEW i \in DOMAIN c, IsStart(c[i]), x \in AttrIds(c[i].attrs)
      PROVE  \E e \in ToSet(c) : IsStart(e) /\ x \in AttrIds(e.attrs)
  BY <1>1 DEF ToSet
<1>2. ASSUME NEW e \in ToSet(c), IsStart(e), x \in AttrIds(e.attrs)
      PROVE  \E i \in DOMAIN c : IsStart(c[i]) /\ x \in AttrIds(c[i].attrs)
  BY <1>2 DEF ToSet
<1>3. x \in AllIds(c) <=> \E i \in DOMAIN c : IsStart(c[i]) /\ x \in AttrIds(c[i].attrs)
  BY DEF AllIds
<1>4. QED
  BY <1>1, <1>2, <1>3

\* A content writes no ids but its own.
LEMMA MarkupWrites ==
  ASSUME NEW c, IsMarkup(c)
  PROVE  Writes(c, AllIds(c))
<1>1. IsSeq(c) /\ \A x \in ToSet(c) : IsEvent(x)
  BY DEF IsMarkup, ToSet
<1>2. \A x \in ToSet(c) : IsStart(x) => AttrIds(x.attrs) \subseteq AllIds(c)
  BY InAllIds
<1>3. QED
  BY <1>1, <1>2 DEF Writes

\* What writes only ids of a set is a content with ids of that set.
LEMMA WritesMarkup ==
  ASSUME NEW c, NEW ids, Writes(c, ids)
  PROVE  IsMarkup(c) /\ AllIds(c) \subseteq ids
<1>1. IsMarkup(c)
  BY DEF IsMarkup, ToSet, Writes
<1>2. AllIds(c) \subseteq ids
  BY InAllIds DEF Writes
<1>3. QED
  BY <1>1, <1>2

\* referenced_ids returns the ids that are digits.
LEMMA RefsAre ==
  ASSUME NEW c, IsMarkup(c)
  PROVE  ReferencedIds(c) = AllIds(c) \cap Digits
<1>1. \A i \in DOMAIN c : ToSet(IdsIn(c[i].attrs)) = AttrIds(c[i].attrs) \cap Digits
  BY EventIds DEF IsMarkup
<1>2. \A x : x \in ReferencedIds(c) <=> \E i \in DOMAIN c : IsStart(c[i]) /\ x \in ToSet(IdsIn(c[i].attrs))
  BY DEF ReferencedIds
<1>3. \A x : x \in AllIds(c) <=> \E i \in DOMAIN c : IsStart(c[i]) /\ x \in AttrIds(c[i].attrs)
  BY DEF AllIds
<1>4. \A x : x \in ReferencedIds(c) <=> x \in AllIds(c) /\ x \in Digits
  BY <1>1, <1>2, <1>3
<1>5. QED
  BY <1>4

\* Contents one after the other write only the ids of both.
LEMMA WritesPlus ==
  ASSUME NEW a, NEW b, NEW ids, Writes(a, ids), Writes(b, ids)
  PROVE  Writes(a \o b, ids)
<1>1. IsSeq(a \o b) /\ ToSet(a \o b) = ToSet(a) \cup ToSet(b)
  BY PlusSet DEF Writes
<1>2. QED
  BY <1>1 DEF Writes

\* A content of one event.
LEMMA OneSet == ASSUME NEW e PROVE IsSeq(<<e>>) /\ ToSet(<<e>>) = {e}
BY SeqOne DEF ToSet

\* It writes the ids of that event.
LEMMA WritesOne ==
  ASSUME NEW e, NEW ids, IsEvent(e), IsStart(e) => AttrIds(e.attrs) \subseteq ids
  PROVE  Writes(<<e>>, ids)
<1>1. IsSeq(<<e>>) /\ ToSet(<<e>>) = {e}
  BY OneSet
<1>2. QED
  BY <1>1 DEF Writes

\* The empty content writes none.
LEMMA WritesNone == ASSUME NEW ids PROVE Writes(<<>>, ids)
BY SeqEmpty, SetEmpty DEF Writes

\* The ids of contents one after the other.
LEMMA IdsPlus ==
  ASSUME NEW a, NEW b, IsSeq(a), IsSeq(b)
  PROVE  AllIds(a \o b) = AllIds(a) \cup AllIds(b)
<1>1. ToSet(a \o b) = ToSet(a) \cup ToSet(b)
  BY PlusSet
<1>2. \A x : x \in AllIds(a \o b) <=> x \in AllIds(a) \/ x \in AllIds(b)
  BY <1>1, InAllIds
<1>3. QED
  BY <1>2

\* The ids of one event.
LEMMA IdsOne ==
  ASSUME NEW e
  PROVE  AllIds(<<e>>) = IF IsStart(e) THEN AttrIds(e.attrs) ELSE {}
<1>1. ToSet(<<e>>) = {e}
  BY OneSet
<1>2. \A x : x \in AllIds(<<e>>) <=> IsStart(e) /\ x \in AttrIds(e.attrs)
  BY <1>1, InAllIds
<1>3. QED
  BY <1>2

\* Tags as they are emitted anew.
LEMMA PlainEvents ==
  ASSUME NEW name
  PROVE  /\ IsEvent(Close(name)) /\ ~IsStart(Close(name))
         /\ IsEvent(Data(name)) /\ ~IsStart(Data(name))
<1>1. IsAttrs(<<>>) /\ \A key : ~Has(<<>>, key)
  BY NoAttrs, HasIs
<1>2. QED
  BY <1>1 DEF IsEvent, IsStart, Close, Data

\* A start tag that the converters write is one a text can hold.
LEMMA OpenEvent ==
  ASSUME NEW name, NEW attrs, IsAttrs(attrs),
         Has(attrs, "corresp") => ~(name = "span" /\ Has(attrs, "data-dpt")),
         Has(attrs, "data-graph-id") => name = "span" /\ Has(attrs, "data-dpt")
  PROVE  IsEvent(Open(name, attrs)) /\ IsStart(Open(name, attrs)) /\ Open(name, attrs).attrs = attrs
BY DEF IsEvent, IsStart, Open, DptSpan

\* A start tag with its name in lower case is one too.
LEMMA Lowered ==
  ASSUME NEW t, IsEvent(t)
  PROVE  IsEvent(Open(Lower(t.name), t.attrs))
<1>1. IsAttrs(t.attrs)
  BY EventIds
<1>2. Lower(t.name) = "span" <=> t.name = "span"
  BY TagNames
<1>3. QED
  BY <1>1, <1>2, OpenEvent DEF IsEvent, DptSpan

-----------------------------------------------------------------------------
(* The stack of a rewriter.                                                 *)

\* An element on the stack, and a stack, that name none but these ids.
NodeOk(node, ids) ==
  /\ node = [tag |-> node.tag, attrs |-> node.attrs, parts |-> node.parts, own |-> node.own]
  /\ IsEvent(Open(node.tag, node.attrs)) /\ AttrIds(node.attrs) \subseteq ids
  /\ Writes(node.parts, ids)
StackOk(stack, ids) ==
  IsSeq(stack) /\ Len(stack) > 0 /\ \A i \in DOMAIN stack : NodeOk(stack[i], ids)

\* An element that has just been opened.
LEMMA NodeIs ==
  ASSUME NEW t, IsEvent(t), NEW ids, AttrIds(t.attrs) \subseteq ids
  PROVE  NodeOk(Node(t), ids)
<1> DEFINE n == Node(t)
<1>1. n.tag = Lower(t.name) /\ n.attrs = t.attrs /\ n.parts = <<>>
      /\ n = [tag |-> n.tag, attrs |-> n.attrs, parts |-> n.parts, own |-> n.own]
  BY DEF Node
<1> HIDE DEF n
<1>2. QED
  BY <1>1, Lowered, WritesNone DEF NodeOk, n

\* It goes on top of the stack.
LEMMA PushOk ==
  ASSUME NEW stack, NEW ids, StackOk(stack, ids), NEW t, IsEvent(t), AttrIds(t.attrs) \subseteq ids
  PROVE  StackOk(Append(stack, Node(t)), ids)
<1> DEFINE n == Node(t)
           new == Append(stack, n)
<1>1. NodeOk(n, ids)
  BY NodeIs
<1> HIDE DEF n
<1>2. /\ IsSeq(new) /\ Len(new) = Len(stack) + 1
      /\ \A i \in 1 .. Len(stack) : new[i] = stack[i]
      /\ new[Len(stack) + 1] = n
      /\ \A i \in DOMAIN new : i \in DOMAIN stack \/ i = Len(stack) + 1
      /\ Len(stack) \in Nat /\ DOMAIN stack = 1 .. Len(stack)
  BY SeqAppend, SeqLen DEF StackOk
<1> HIDE DEF new
<1>3. \A i \in DOMAIN new : NodeOk(new[i], ids)
  BY <1>1, <1>2 DEF StackOk
<1>4. QED
  BY <1>2, <1>3 DEF StackOk, new, n

\* The element on top has more parts.
LEMMA GrownIs ==
  ASSUME NEW stack, IsSeq(stack), Len(stack) > 0, NEW parts,
         \A i \in DOMAIN stack : stack[i] = [tag |-> stack[i].tag, attrs |-> stack[i].attrs,
                                             parts |-> stack[i].parts, own |-> stack[i].own]
  PROVE  LET new == Grown(stack, parts)
             n == Len(stack)
         IN /\ IsSeq(new) /\ Len(new) = n /\ DOMAIN new = DOMAIN stack /\ n \in DOMAIN stack
            /\ \A i \in DOMAIN stack : i # n => new[i] = stack[i]
            /\ new[n] = [tag |-> stack[n].tag, attrs |-> stack[n].attrs,
                         parts |-> stack[n].parts \o parts, own |-> stack[n].own]
<1> DEFINE n == Len(stack)
           new == Grown(stack, parts)
<1>1. n \in Nat /\ DOMAIN stack = 1 .. n /\ n \in DOMAIN stack /\ stack = [i \in 1 .. n |-> stack[i]]
  BY SeqLen
<1>2. new = [i \in DOMAIN stack |-> IF i = n THEN [stack[n] EXCEPT !.parts = @ \o parts] ELSE stack[i]]
  BY <1>1 DEF Grown
<1>3. [stack[n] EXCEPT !.parts = @ \o parts]
        = [tag |-> stack[n].tag, attrs |-> stack[n].attrs,
           parts |-> stack[n].parts \o parts, own |-> stack[n].own]
  <2>1. PICK value : value = stack[n].parts \o parts
    OBVIOUS
  <2>2. [stack[n] EXCEPT !.parts = value]
          = [tag |-> stack[n].tag, attrs |-> stack[n].attrs, parts |-> value, own |-> stack[n].own]
    BY <1>1
  <2>3. [stack[n] EXCEPT !.parts = @ \o parts] = [stack[n] EXCEPT !.parts = value]
    BY <2>1, Zenon
  <2>4. QED
    BY <2>1, <2>2, <2>3, Zenon
<1> HIDE DEF new
<1>4. new = [i \in DOMAIN stack |-> new[i]]
  BY <1>2
<1>5. IsSeq(new) /\ Len(new) = n /\ DOMAIN new = DOMAIN stack
  BY <1>4, MapIs
<1> HIDE DEF n
<1>6. \A i \in DOMAIN stack : i # n => new[i] = stack[i]
  BY <1>2
<1>7. new[n] = [stack[n] EXCEPT !.parts = @ \o parts]
  BY <1>1, <1>2
<1>8. QED
  BY <1>1, <1>3, <1>5, <1>6, <1>7 DEF new, n

\* The element on top takes parts in.
LEMMA GrownOk ==
  ASSUME NEW stack, NEW ids, StackOk(stack, ids), NEW parts, Writes(parts, ids)
  PROVE  StackOk(Grown(stack, parts), ids) /\ Len(Grown(stack, parts)) = Len(stack)
<1> DEFINE n == Len(stack)
           new == Grown(stack, parts)
<1>1. /\ IsSeq(new) /\ Len(new) = n /\ DOMAIN new = DOMAIN stack /\ n \in DOMAIN stack
      /\ \A i \in DOMAIN stack : i # n => new[i] = stack[i]
      /\ new[n] = [tag |-> stack[n].tag, attrs |-> stack[n].attrs,
                   parts |-> stack[n].parts \o parts, own |-> stack[n].own]
  <2>1. \A i \in DOMAIN stack : stack[i] = [tag |-> stack[i].tag, attrs |-> stack[i].attrs,
                                            parts |-> stack[i].parts, own |-> stack[i].own]
    BY DEF StackOk, NodeOk
  <2>2. QED
    BY <2>1, GrownIs DEF StackOk
<1> HIDE DEF n, new
<1>2. NodeOk(stack[n], ids)
  BY <1>1 DEF StackOk
<1>3. Writes(stack[n].parts \o parts, ids)
  BY <1>2, WritesPlus DEF NodeOk
<1>4. NodeOk(new[n], ids)
  BY <1>1, <1>2, <1>3 DEF NodeOk
<1>5. QED
  BY <1>1, <1>4 DEF StackOk, n, new

\* Text is remembered with the element, too.
LEMMA TextIs ==
  ASSUME NEW stack, IsSeq(stack), NEW n \in DOMAIN stack, NEW text,
         \A i \in DOMAIN stack : stack[i] = [tag |-> stack[i].tag, attrs |-> stack[i].attrs,
                                             parts |-> stack[i].parts, own |-> stack[i].own]
  PROVE  LET new == [stack EXCEPT ![n].own = Append(@, text)]
         IN /\ IsSeq(new) /\ Len(new) = Len(stack) /\ DOMAIN new = DOMAIN stack
            /\ \A i \in DOMAIN stack : i # n => new[i] = stack[i]
            /\ new[n] = [tag |-> stack[n].tag, attrs |-> stack[n].attrs,
                         parts |-> stack[n].parts, own |-> Append(stack[n].own, text)]
<1> DEFINE new == [stack EXCEPT ![n].own = Append(@, text)]
           node == [tag |-> stack[n].tag, attrs |-> stack[n].attrs,
                    parts |-> stack[n].parts, own |-> Append(stack[n].own, text)]
<1>1. [stack[n] EXCEPT !.own = Append(@, text)] = node
  OBVIOUS
<1>2. new = [i \in DOMAIN stack |-> IF i = n THEN node ELSE stack[i]]
  <2>1. stack = [i \in DOMAIN stack |-> stack[i]]
    BY SeqLen
  <2>2. new = [i \in DOMAIN stack |-> IF i = n THEN [stack[n] EXCEPT !.own = Append(@, text)] ELSE stack[i]]
    BY <2>1
  <2> HIDE DEF node, new
  <2>3. QED
    BY <1>1, <2>2
<1> HIDE DEF new, node
<1>3. new = [i \in DOMAIN stack |-> new[i]]
  BY <1>2
<1>4. IsSeq(new) /\ Len(new) = Len(stack) /\ DOMAIN new = DOMAIN stack
  BY <1>3, MapIs
<1>5. (\A i \in DOMAIN stack : i # n => new[i] = stack[i]) /\ new[n] = node
  BY <1>2
<1>6. QED
  BY <1>4, <1>5 DEF new, node

\* An element takes text of its own.
LEMMA TextOk ==
  ASSUME NEW stack, NEW ids, StackOk(stack, ids), NEW n \in DOMAIN stack, NEW text
  PROVE  StackOk([stack EXCEPT ![n].own = Append(@, text)], ids)
<1> DEFINE new == [stack EXCEPT ![n].own = Append(@, text)]
<1>1. /\ IsSeq(new) /\ Len(new) = Len(stack) /\ DOMAIN new = DOMAIN stack
      /\ \A i \in DOMAIN stack : i # n => new[i] = stack[i]
      /\ new[n] = [tag |-> stack[n].tag, attrs |-> stack[n].attrs,
                   parts |-> stack[n].parts, own |-> Append(stack[n].own, text)]
  <2>1. \A i \in DOMAIN stack : stack[i] = [tag |-> stack[i].tag, attrs |-> stack[i].attrs,
                                            parts |-> stack[i].parts, own |-> stack[i].own]
    BY DEF StackOk, NodeOk
  <2>2. QED
    BY <2>1, TextIs DEF StackOk
<1> HIDE DEF new
<1>2. NodeOk(stack[n], ids)
  BY DEF StackOk
<1>3. NodeOk(new[n], ids)
  BY <1>1, <1>2 DEF NodeOk
<1>4. QED
  BY <1>1, <1>3 DEF StackOk, new

\* The element on top is closed.
LEMMA FrontIs ==
  ASSUME NEW stack, IsSeq(stack), Len(stack) > 1
  PROVE  LET new == Front(stack)
         IN /\ IsSeq(new) /\ Len(new) = Len(stack) - 1 /\ DOMAIN new = 1 .. Len(stack) - 1
            /\ \A i \in 1 .. Len(stack) - 1 : new[i] = stack[i] /\ i \in DOMAIN stack
            /\ Len(stack) \in DOMAIN stack
<1> DEFINE n == Len(stack)
           m == n - 1
           new == Front(stack)
<1>1. n \in Nat /\ m \in Nat /\ DOMAIN stack = 1 .. n /\ stack = [i \in 1 .. n |-> stack[i]]
  BY SeqLen
<1>2. new = [i \in 1 .. m |-> stack[i]]
  <2>1. stack \in Seq(ToSet(stack))
    BY DEF IsSeq
  <2>2. new = SubSeq(stack, 1, m)
    BY DEF Front
  <2>3. SubSeq(stack, 1, m) = [i \in 1 .. m |-> stack[i]]
    BY <1>1, <2>1
  <2>4. QED
    BY <2>2, <2>3
<1> HIDE DEF new
<1>3. new = [i \in 1 .. m |-> new[i]] /\ \A i \in 1 .. m : new[i] = stack[i]
  BY <1>2
<1>4. IsSeq(new) /\ Len(new) = m /\ DOMAIN new = 1 .. m
  BY <1>1, <1>3, SeqMap, SeqLen
<1>5. QED
  BY <1>1, <1>3, <1>4 DEF new

\* The element on top is taken off.
LEMMA FrontOk ==
  ASSUME NEW stack, NEW ids, StackOk(stack, ids), Len(stack) # 1
  PROVE  StackOk(Front(stack), ids) /\ NodeOk(Last(stack), ids)
<1>0. Len(stack) > 1
  <2>1. IsSeq(stack) /\ Len(stack) > 0
    BY DEF StackOk
  <2>2. Len(stack) \in Nat
    BY <2>1, SeqLen
  <2>3. \A n \in Nat : n > 0 /\ n # 1 => n > 1
    OBVIOUS
  <2>4. QED
    BY <2>1, <2>2, <2>3, Zenon
<1> DEFINE new == Front(stack)
<1>1. /\ IsSeq(new) /\ Len(new) = Len(stack) - 1 /\ DOMAIN new = 1 .. Len(stack) - 1
      /\ \A i \in 1 .. Len(stack) - 1 : new[i] = stack[i] /\ i \in DOMAIN stack
      /\ Len(stack) \in DOMAIN stack
  BY <1>0, FrontIs DEF StackOk
<1> HIDE DEF new
<1>2. Len(stack) - 1 > 0
  BY <1>0, SeqLen DEF StackOk
<1>3. QED
  BY <1>1, <1>2 DEF StackOk, Last, new

-----------------------------------------------------------------------------
(* The folds of the converters.                                             *)

\* The folds of the other converter, and the steps of both one by one.
Reversing == INSTANCE SequenceFolds WITH Step <- ReverseStep

\* The forward converter's fold, in the terms of SequenceFolds.
LEMMA FoldsForward ==
  \A base, seq : FoldLeft(ForwardStep, base, seq) = Forward!Folded(base, seq)
BY Zenon DEF FoldLeft, MapThenFoldSet, Forward!Folded, Forward!FoldLeft, Forward!MapThenFoldSet,
             Max, Forward!Max

\* The reverse converter's fold, in the same terms.
LEMMA FoldsReverse ==
  \A base, seq : FoldLeft(ReverseStep, base, seq) = Reversing!Folded(base, seq)
BY Zenon DEF FoldLeft, MapThenFoldSet, Reversing!Folded, Reversing!FoldLeft, Reversing!MapThenFoldSet,
             Max, Reversing!Max

ForwardChain(c, text, end) ==
  c[0] = Root /\ c[Len(text)] = end
  /\ \A i \in 1 .. Len(text) : c[i] = ForwardStep(c[i - 1], text[i])
ReverseChain(c, text, end) ==
  c[0] = Root /\ c[Len(text)] = end
  /\ \A i \in 1 .. Len(text) : c[i] = ReverseStep(c[i - 1], text[i])

\* The forward converter, step after step.
LEMMA ChainForward ==
  ASSUME NEW text, IsSeq(text)
  PROVE  \E c : ForwardChain(c, text, FoldLeft(ForwardStep, Root, text))
<1> DEFINE n == Len(text)
<1>1. n \in Nat /\ DOMAIN text = 1 .. n
  BY SeqLen
<1>2. PICK c : Forward!Makes(c, Root, text, n)
  <2> HIDE DEF n
  <2>1. QED
    BY <1>1, Forward!FoldChain
<1>3. ForwardChain(c, text, FoldLeft(ForwardStep, Root, text))
  BY <1>2, FoldsForward, Zenon DEF Forward!Makes, ForwardChain
<1>4. QED
  BY <1>3, Zenon

\* The reverse converter, step after step.
LEMMA ChainReverse ==
  ASSUME NEW text, IsSeq(text)
  PROVE  \E c : ReverseChain(c, text, FoldLeft(ReverseStep, Root, text))
<1> DEFINE n == Len(text)
<1>1. n \in Nat /\ DOMAIN text = 1 .. n
  BY SeqLen
<1>2. PICK c : Reversing!Makes(c, Root, text, n)
  <2> HIDE DEF n
  <2>1. QED
    BY <1>1, Reversing!FoldChain
<1>3. ReverseChain(c, text, FoldLeft(ReverseStep, Root, text))
  BY <1>2, FoldsReverse, Zenon DEF Reversing!Makes, ReverseChain
<1>4. QED
  BY <1>3, Zenon

\* The stack a converter begins with.
LEMMA RootOk == ASSUME NEW ids PROVE StackOk(Root, ids)
<1> DEFINE t == Open("", <<>>)
<1>1. t.name = "" /\ t.attrs = <<>> /\ IsAttrs(<<>>) /\ AttrIds(<<>>) = {} /\ \A key : ~Has(<<>>, key)
  BY NoAttrs, HasIs DEF AttrIds, Open
<1>2. IsEvent(t)
  BY <1>1, OpenEvent
<1> HIDE DEF t
<1> DEFINE n == Node(t)
<1>3. NodeOk(n, ids)
  BY <1>1, <1>2, NodeIs
<1> HIDE DEF n
<1>4. IsSeq(<<n>>) /\ Len(<<n>>) = 1 /\ <<n>>[1] = n /\ DOMAIN <<n>> = {1}
  BY SeqOne
<1>5. StackOk(<<n>>, ids)
  BY <1>3, <1>4 DEF StackOk
<1>6. QED
  BY <1>5 DEF Root, n, t

\* An element with its tags.
LEMMA WrapOk ==
  ASSUME NEW ids, NEW name, NEW attrs, NEW parts, NEW closer,
         IsEvent(Open(name, attrs)), AttrIds(attrs) \subseteq ids, Writes(parts, ids)
  PROVE  Writes(<<Open(name, attrs)>> \o parts \o <<Close(closer)>>, ids)
<1>1. Writes(<<Open(name, attrs)>>, ids)
  <2>1. Open(name, attrs).attrs = attrs
    BY DEF Open
  <2>2. QED
    BY <2>1, WritesOne
<1>2. Writes(<<Close(closer)>>, ids)
  BY PlainEvents, WritesOne
<1>3. Writes(<<Open(name, attrs)>> \o parts, ids)
  BY <1>1, WritesPlus
<1>4. QED
  BY <1>2, <1>3, WritesPlus

\* An element of the forward converter names only its own ids.
LEMMA RenderedForward ==
  ASSUME NEW ids, NEW node, NodeOk(node, ids), NEW closer
  PROVE  Writes(RenderForward(node, closer), ids)
<1> DEFINE dpt == Get(node.attrs, "data-dpt", "")
           name == DptToTei[dpt]
           attrs == TeiAttrs(node.attrs, dpt)
<1>1. CASE node.tag = "span" /\ dpt \in DOMAIN DptToTei
  <2>1. RenderForward(node, closer) = <<Open(name, attrs)>> \o node.parts \o <<Close(name)>>
    BY <1>1, Zenon DEF RenderForward
  <2>2. name # "span"
    <3>1. DOMAIN DptToTei = {"clause", "person", "place", "ex", "supplied", "lb"}
      BY DEF DptToTei
    <3>2. \A d \in {"clause", "person", "place", "ex", "supplied", "lb"} : DptToTei[d] # "span"
      BY DEF DptToTei
    <3>3. QED
      BY <1>1, <3>1, <3>2
  <2>3. IsAttrs(node.attrs)
    BY EventIds DEF NodeOk, Open
  <2>4. KeysIn(attrs, {"source", "type", "corresp"}) /\ AttrIds(attrs) \subseteq AttrIds(node.attrs)
    BY <2>3, TeiAttrsAre
  <2>5. IsAttrs(attrs) /\ ~Has(attrs, "data-graph-id") /\ ~Has(attrs, "data-dpt")
    BY <2>4, HasIs DEF KeysIn
  <2> HIDE DEF name, attrs
  <2>6. IsEvent(Open(name, attrs))
    BY <2>2, <2>5, OpenEvent
  <2>7. QED
    BY <2>1, <2>4, <2>6, WrapOk DEF NodeOk
<1>2. CASE ~(node.tag = "span" /\ dpt \in DOMAIN DptToTei)
  <2>1. RenderForward(node, closer) = Verbatim(node)
    BY <1>2, Zenon DEF RenderForward
  <2>2. QED
    BY <2>1, WrapOk DEF NodeOk, Verbatim
<1>3. QED
  BY <1>1, <1>2

\* An element of the reverse converter names only its own ids.
LEMMA RenderedReverse ==
  ASSUME NEW ids, NEW node, NodeOk(node, ids), NEW closer
  PROVE  Writes(RenderReverse(node, closer), ids)
<1> DEFINE dpt == CHOOSE d \in TeiToDpt(node.tag) : TRUE
           attrs == DptAttrs(node.attrs, dpt)
<1>1. CASE TeiToDpt(node.tag) # {}
  <2>1. RenderReverse(node, closer) = <<Open("span", attrs)>> \o node.parts \o <<Close("span")>>
    BY <1>1, Zenon DEF RenderReverse
  <2> HIDE DEF dpt
  <2>3. IsAttrs(node.attrs)
    BY EventIds DEF NodeOk, Open
  <2>4. /\ KeysIn(attrs, {"data-dpt", "data-dpt-cat", "data-dpt-type", "data-dpt-src", "data-graph-id"})
        /\ Has(attrs, "data-dpt") /\ AttrIds(attrs) \subseteq AttrIds(node.attrs)
    BY <2>3, DptAttrsAre
  <2>5. IsAttrs(attrs) /\ ~Has(attrs, "corresp")
    BY <2>4, HasIs DEF KeysIn
  <2> HIDE DEF attrs
  <2>6. IsEvent(Open("span", attrs))
    BY <2>4, <2>5, OpenEvent
  <2>7. QED
    BY <2>1, <2>4, <2>6, WrapOk DEF NodeOk
<1>2. CASE TeiToDpt(node.tag) = {}
  <2>1. RenderReverse(node, closer) = Verbatim(node)
    BY <1>2, Zenon DEF RenderReverse
  <2>2. QED
    BY <2>1, WrapOk DEF NodeOk, Verbatim
<1>3. QED
  BY <1>1, <1>2

\* One event that passes, and the text of one.
LEMMA PassedOn ==
  ASSUME NEW ids, NEW stack, StackOk(stack, ids), NEW t, IsEvent(t),
         IsStart(t) => AttrIds(t.attrs) \subseteq ids
  PROVE  /\ StackOk(Grown(stack, <<t>>), ids)
         /\ StackOk([Grown(stack, <<t>>) EXCEPT ![Len(stack)].own = Append(@, t.name)], ids)
<1>1. Writes(<<t>>, ids)
  BY WritesOne
<1>2. StackOk(Grown(stack, <<t>>), ids) /\ Len(Grown(stack, <<t>>)) = Len(stack)
  BY <1>1, GrownOk
<1> DEFINE new == Grown(stack, <<t>>)
           n == Len(stack)
<1>3. n \in DOMAIN new
  <2>1. IsSeq(new) /\ Len(new) > 0 /\ Len(new) = n
    BY <1>2 DEF StackOk
  <2> HIDE DEF new, n
  <2>2. n \in Nat /\ DOMAIN new = 1 .. n
    BY <2>1, SeqLen
  <2>3. QED
    BY <2>1, <2>2
<1> HIDE DEF new, n
<1>4. StackOk(new, ids)
  BY <1>2 DEF new
<1>5. StackOk([new EXCEPT ![n].own = Append(@, t.name)], ids)
  BY <1>3, <1>4, TextOk
<1>6. QED
  BY <1>4, <1>5 DEF new, n

\* A step forward keeps to the ids read so far.
LEMMA StepForward ==
  ASSUME NEW ids, NEW stack, StackOk(stack, ids), NEW t, IsEvent(t),
         IsStart(t) => AttrIds(t.attrs) \subseteq ids
  PROVE  StackOk(ForwardStep(stack, t), ids)
<1> DEFINE new == ForwardStep(stack, t)
<1>1. CASE t.ev = "start" /\ t.name \notin VoidElements
  <2>1. new = Append(stack, Node(t))
    BY <1>1 DEF ForwardStep, Fed
  <2>2. QED
    BY <1>1, <2>1, PushOk DEF IsStart
<1>2. CASE t.ev = "end"
  <2>1. CASE Len(stack) = 1
    BY <1>2, <2>1 DEF ForwardStep, Fed
  <2>2. CASE Len(stack) # 1
    <3>1. new = Grown(Front(stack), RenderForward(Last(stack), Lower(t.name)))
      BY <1>2, <2>2 DEF ForwardStep, Fed
    <3>2. StackOk(Front(stack), ids) /\ NodeOk(Last(stack), ids)
      BY <2>2, FrontOk
    <3>3. QED
      BY <3>1, <3>2, GrownOk, RenderedForward
  <2>3. QED
    BY <2>1, <2>2
<1>3. CASE t.ev = "data"
  <2>1. new = [Grown(stack, <<t>>) EXCEPT ![Len(stack)].own = Append(@, t.name)]
    BY <1>3 DEF ForwardStep, Fed
  <2>2. StackOk([Grown(stack, <<t>>) EXCEPT ![Len(stack)].own = Append(@, t.name)], ids)
    BY PassedOn, Zenon
  <2> HIDE DEF new
  <2>3. QED
    BY <2>1, <2>2, Zenon DEF new
<1>4. CASE t.ev = "entity"
  <2>1. new = Grown(stack, <<Decoded(t)>>)
    BY <1>4 DEF ForwardStep, Fed
  <2>2. IsEvent(Decoded(t)) /\ ~IsStart(Decoded(t))
    BY <1>4, PlainEvents DEF Decoded, IsStart
  <2>3. QED
    BY <2>1, <2>2, PassedOn
<1>5. CASE /\ ~(t.ev = "start" /\ t.name \notin VoidElements)
           /\ t.ev # "end" /\ t.ev # "data" /\ t.ev # "entity"
  <2>1. new = Grown(stack, <<t>>)
    BY <1>5 DEF ForwardStep, Fed
  <2>2. QED
    BY <2>1, PassedOn
<1>6. QED
  BY <1>1, <1>2, <1>3, <1>4, <1>5

\* A step back keeps to the ids read so far.
LEMMA StepReverse ==
  ASSUME NEW ids, NEW stack, StackOk(stack, ids), NEW t, IsEvent(t),
         IsStart(t) => AttrIds(t.attrs) \subseteq ids
  PROVE  StackOk(ReverseStep(stack, t), ids)
<1> DEFINE new == ReverseStep(stack, t)
<1>1. CASE t.ev = "start" /\ t.name \notin VoidElements
  <2>1. new = Append(stack, Node(t))
    BY <1>1 DEF ReverseStep, Fed
  <2>2. QED
    BY <1>1, <2>1, PushOk DEF IsStart
<1>2. CASE t.ev = "end"
  <2>1. CASE Len(stack) = 1
    BY <1>2, <2>1 DEF ReverseStep, Fed
  <2>2. CASE Len(stack) # 1
    <3>1. new = Grown(Front(stack), RenderReverse(Last(stack), Lower(t.name)))
      BY <1>2, <2>2 DEF ReverseStep, Fed
    <3>2. StackOk(Front(stack), ids) /\ NodeOk(Last(stack), ids)
      BY <2>2, FrontOk
    <3>3. QED
      BY <3>1, <3>2, GrownOk, RenderedReverse
  <2>3. QED
    BY <2>1, <2>2
<1>3. CASE t.ev = "data"
  <2>1. new = [Grown(stack, <<t>>) EXCEPT ![Len(stack)].own = Append(@, t.name)]
    BY <1>3 DEF ReverseStep, Fed
  <2>2. StackOk([Grown(stack, <<t>>) EXCEPT ![Len(stack)].own = Append(@, t.name)], ids)
    BY PassedOn, Zenon
  <2> HIDE DEF new
  <2>3. QED
    BY <2>1, <2>2, Zenon DEF new
<1>4. CASE t.ev = "entity"
  <2>1. new = Grown(stack, <<t>>)
    BY <1>4 DEF ReverseStep, Fed, Same
  <2>2. QED
    BY <2>1, PassedOn
<1>5. CASE /\ ~(t.ev = "start" /\ t.name \notin VoidElements)
           /\ t.ev # "end" /\ t.ev # "data" /\ t.ev # "entity"
  <2>1. new = Grown(stack, <<t>>)
    BY <1>5 DEF ReverseStep, Fed
  <2>2. QED
    BY <2>1, PassedOn
<1>6. QED
  BY <1>1, <1>2, <1>3, <1>4, <1>5

\* The whole text forward keeps to the ids of the text.
LEMMA StackForward ==
  ASSUME NEW text, IsMarkup(text)
  PROVE  StackOk(FoldLeft(ForwardStep, Root, text), AllIds(text))
<1> DEFINE ids == AllIds(text)
           n == Len(text)
           stack == FoldLeft(ForwardStep, Root, text)
<1>0. IsSeq(text) /\ Writes(text, ids)
  BY MarkupWrites DEF IsMarkup
<1>1. PICK c : ForwardChain(c, text, stack)
  BY <1>0, ChainForward
<1> HIDE DEF stack
<1>2. n \in Nat /\ DOMAIN text = 1 .. n
  BY <1>0, SeqLen
<1> DEFINE P == {i \in Nat : i <= n => StackOk(c[i], ids)}
<1>3. 0 \in P
  BY <1>1, RootOk DEF ForwardChain
<1>4. ASSUME NEW i \in Nat, i \in P PROVE i + 1 \in P
  <2> SUFFICES ASSUME i + 1 <= n PROVE StackOk(c[i + 1], ids)
    OBVIOUS
  <2>1. StackOk(c[i], ids) /\ i + 1 \in 1 .. n /\ (i + 1) - 1 = i
    BY <1>2, <1>4
  <2>2. c[i + 1] = ForwardStep(c[i], text[i + 1])
    BY <1>1, <2>1 DEF ForwardChain
  <2>3. text[i + 1] \in ToSet(text)
    BY <1>2, <2>1, InSet
  <2>4. QED
    BY <1>0, <2>1, <2>2, <2>3, StepForward DEF Writes
<1> HIDE DEF P
<1>5. n \in P
  BY <1>2, <1>3, <1>4, Forward!Induction
<1>6. QED
  BY <1>1, <1>2, <1>5 DEF P, ForwardChain, stack

\* The whole text back keeps to the ids of the text.
LEMMA StackReverse ==
  ASSUME NEW text, IsMarkup(text)
  PROVE  StackOk(FoldLeft(ReverseStep, Root, text), AllIds(text))
<1> DEFINE ids == AllIds(text)
           n == Len(text)
           stack == FoldLeft(ReverseStep, Root, text)
<1>0. IsSeq(text) /\ Writes(text, ids)
  BY MarkupWrites DEF IsMarkup
<1>1. PICK c : ReverseChain(c, text, stack)
  BY <1>0, ChainReverse
<1> HIDE DEF stack
<1>2. n \in Nat /\ DOMAIN text = 1 .. n
  BY <1>0, SeqLen
<1> DEFINE P == {i \in Nat : i <= n => StackOk(c[i], ids)}
<1>3. 0 \in P
  BY <1>1, RootOk DEF ReverseChain
<1>4. ASSUME NEW i \in Nat, i \in P PROVE i + 1 \in P
  <2> SUFFICES ASSUME i + 1 <= n PROVE StackOk(c[i + 1], ids)
    OBVIOUS
  <2>1. StackOk(c[i], ids) /\ i + 1 \in 1 .. n /\ (i + 1) - 1 = i
    BY <1>2, <1>4
  <2>2. c[i + 1] = ReverseStep(c[i], text[i + 1])
    BY <1>1, <2>1 DEF ReverseChain
  <2>3. text[i + 1] \in ToSet(text)
    BY <1>2, <2>1, InSet
  <2>4. QED
    BY <1>0, <2>1, <2>2, <2>3, StepReverse DEF Writes
<1> HIDE DEF P
<1>5. n \in P
  BY <1>2, <1>3, <1>4, Forward!Induction
<1>6. QED
  BY <1>1, <1>2, <1>5 DEF P, ReverseChain, stack

\* The converters write markup again, and no id that is not there.
LEMMA ForwardWrites ==
  ASSUME NEW text, IsMarkup(text)
  PROVE  Writes(DataDptToTei(text), AllIds(text))
<1> DEFINE ids == AllIds(text)
           stack == FoldLeft(ForwardStep, Root, text)
           Unclosed(i) == <<Open(stack[i].tag, stack[i].attrs)>> \o stack[i].parts
           rest == [i \in 1..(Len(stack) - 1) |-> Unclosed(i + 1)]
<1>1. DataDptToTei(text) = stack[1].parts \o FlattenSeq(rest)
  BY Zenon DEF DataDptToTei
<1>2. StackOk(stack, ids)
  BY StackForward
<1> HIDE DEF stack, ids
<1> DEFINE m == Len(stack) - 1
<1>3. m \in Nat /\ m + 1 = Len(stack) /\ DOMAIN stack = 1 .. m + 1 /\ 1 \in DOMAIN stack
  <2>1. IsSeq(stack) /\ Len(stack) > 0
    BY <1>2 DEF StackOk
  <2>2. Len(stack) \in Nat /\ DOMAIN stack = 1 .. Len(stack)
    BY <2>1, SeqLen
  <2>3. QED
    BY <2>1, <2>2
<1>4. \A i \in DOMAIN stack : NodeOk(stack[i], ids)
  BY <1>2 DEF StackOk
<1>5. ASSUME NEW i \in DOMAIN stack PROVE Writes(Unclosed(i), ids)
  <2>1. NodeOk(stack[i], ids)
    BY <1>4
  <2> DEFINE tag == Open(stack[i].tag, stack[i].attrs)
  <2>2. tag.attrs = stack[i].attrs /\ IsEvent(tag) /\ AttrIds(stack[i].attrs) \subseteq ids
        /\ Writes(stack[i].parts, ids)
    BY <2>1 DEF NodeOk, Open
  <2> HIDE DEF tag
  <2>3. Writes(<<tag>>, ids)
    BY <2>2, WritesOne
  <2>4. Writes(<<tag>> \o stack[i].parts, ids)
    BY <2>2, <2>3, WritesPlus
  <2>5. QED
    BY <2>4 DEF tag
<1>6. rest = [i \in 1 .. m |-> rest[i]] /\ \A i \in 1 .. m : rest[i] = Unclosed(i + 1)
  OBVIOUS
<1> HIDE DEF Unclosed, rest, m
<1>7. IsSeq(rest) /\ DOMAIN rest = 1 .. m
  BY <1>3, <1>6, SeqMap, SeqLen
<1>8. \A i \in DOMAIN rest : Writes(rest[i], ids)
  BY <1>3, <1>5, <1>6, <1>7
<1>9. \A i \in DOMAIN rest : IsSeq(rest[i])
  BY <1>8 DEF Writes
<1>10. /\ IsSeq(FlattenSeq(rest))
       /\ \A x \in ToSet(FlattenSeq(rest)) : \E i \in DOMAIN rest : x \in ToSet(rest[i])
  BY <1>7, <1>9, FlatIs
<1>11. Writes(FlattenSeq(rest), ids)
  BY <1>8, <1>10 DEF Writes
<1>12. Writes(stack[1].parts, ids)
  BY <1>3, <1>4 DEF NodeOk
<1>13. Writes(stack[1].parts \o FlattenSeq(rest), ids)
  BY <1>11, <1>12, WritesPlus
<1>14. QED
  BY <1>1, <1>13 DEF ids

\* tei_to_data_dpt writes no id that the text did not have.
LEMMA ReverseWrites ==
  ASSUME NEW text, IsMarkup(text)
  PROVE  Writes(TeiToDataDpt(text), AllIds(text))
<1> DEFINE stack == FoldLeft(ReverseStep, Root, text)
<1>1. StackOk(stack, AllIds(text))
  BY StackReverse
<1>2. TeiToDataDpt(text) = stack[1].parts
  BY Zenon DEF TeiToDataDpt
<1> HIDE DEF stack
<1>3. 1 \in DOMAIN stack
  <2>1. IsSeq(stack) /\ Len(stack) > 0
    BY <1>1 DEF StackOk
  <2>2. Len(stack) \in Nat /\ DOMAIN stack = 1 .. Len(stack)
    BY <2>1, SeqLen
  <2>3. QED
    BY <2>1, <2>2
<1>4. QED
  BY <1>1, <1>2, <1>3 DEF StackOk, NodeOk

\* Entities are no tags.
LEMMA CanonicalIds ==
  ASSUME NEW text
  PROVE  AllIds(Canonical(text)) = AllIds(text)
<1> DEFINE new == [i \in DOMAIN text |-> IF text[i].ev = "entity" THEN Data(text[i].name)
                                            ELSE text[i]]
<1>1. Canonical(text) = new
  BY DEF Canonical, Mapped
<1>2. DOMAIN new = DOMAIN text
      /\ \A i \in DOMAIN text : new[i] = IF text[i].ev = "entity" THEN Data(text[i].name)
                                            ELSE text[i]
  OBVIOUS
<1> HIDE DEF new
<1>3. \A i \in DOMAIN text : text[i].ev = "entity" => ~IsStart(text[i]) /\ ~IsStart(new[i])
  BY <1>2, PlainEvents DEF IsStart
<1>4. \A i \in DOMAIN text : text[i].ev # "entity" => text[i] = new[i]
  BY <1>2
<1>5. \A x : x \in AllIds(new) <=> \E i \in DOMAIN text : IsStart(new[i]) /\ x \in AttrIds(new[i].attrs)
  BY <1>2 DEF AllIds
<1>6. \A x : x \in AllIds(text) <=>
               \E i \in DOMAIN text : IsStart(text[i]) /\ x \in AttrIds(text[i].attrs)
  BY DEF AllIds
<1>7. \A x : x \in AllIds(new) <=> x \in AllIds(text)
  BY <1>3, <1>4, <1>5, <1>6
<1>8. QED
  BY <1>1, <1>7

\* What passes the round trip keeps its links, migrated or rolled back.
LEMMA ConvertsKeeps ==
  ASSUME NEW text, IsMarkup(text), Converts(text)
  PROVE  /\ IsMarkup(DataDptToTei(text))
         /\ ReferencedIds(DataDptToTei(text)) = ReferencedIds(text)
<1> DEFINE tei == DataDptToTei(text)
           back == TeiToDataDpt(tei)
<1>1. IsMarkup(tei) /\ AllIds(tei) \subseteq AllIds(text)
  BY ForwardWrites, WritesMarkup
<1>2. IsMarkup(back) /\ AllIds(back) \subseteq AllIds(tei)
  <2> HIDE DEF tei
  <2>1. QED
    BY <1>1, ReverseWrites, WritesMarkup
<1>3. Canonical(back) = Canonical(text)
  BY DEF Converts
<1> HIDE DEF back, tei
<1>4. AllIds(back) = AllIds(text)
  BY <1>3, CanonicalIds
<1>5. AllIds(tei) = AllIds(text)
  BY <1>1, <1>2, <1>4
<1>6. ReferencedIds(tei) = ReferencedIds(text)
  BY <1>1, <1>5, RefsAre
<1>7. QED
  BY <1>1, <1>6 DEF tei

-----------------------------------------------------------------------------
(* What is kept of two sequences side by side.                              *)

\* Sequences that agree on what to keep keep as many.
LEMMA KeptAlike ==
  ASSUME NEW a, NEW b, IsSeq(a), IsSeq(b), NEW S, NEW T, NEW n \in Nat, n <= Len(a), n <= Len(b),
         \A i \in 1 .. n : a[i] \in S <=> b[i] \in T,
         NEW ka, NEW kb, Keeps(ka, a, S), Keeps(kb, b, T)
  PROVE  \A i \in 0 .. n : Len(ka[i]) = Len(kb[i])
<1> DEFINE P == {i \in Nat : i <= n => Len(ka[i]) = Len(kb[i])}
<1>0. Len(a) \in Nat /\ Len(b) \in Nat
  BY SeqLen
<1>1. 0 \in P
  BY DEF Keeps
<1>2. ASSUME NEW i \in Nat, i \in P PROVE i + 1 \in P
  <2> SUFFICES ASSUME i + 1 <= n PROVE Len(ka[i + 1]) = Len(kb[i + 1])
    OBVIOUS
  <2>1. i + 1 \in 1 .. n /\ i + 1 \in 1 .. Len(a) /\ i + 1 \in 1 .. Len(b) /\ (i + 1) - 1 = i
        /\ i \in 0 .. Len(a) /\ i \in 0 .. Len(b)
    BY <1>0
  <2>2. Len(ka[i]) = Len(kb[i])
    BY <1>2
  <2>3. ka[i + 1] = IF a[i + 1] \in S THEN Append(ka[i], a[i + 1]) ELSE ka[i]
    BY <2>1 DEF Keeps
  <2>4. kb[i + 1] = IF b[i + 1] \in T THEN Append(kb[i], b[i + 1]) ELSE kb[i]
    BY <2>1 DEF Keeps
  <2>5. IsSeq(ka[i]) /\ IsSeq(kb[i])
    BY <2>1, KeptMeans DEF KeptSoFar
  <2>6. Len(Append(ka[i], a[i + 1])) = Len(ka[i]) + 1 /\ Len(Append(kb[i], b[i + 1])) = Len(kb[i]) + 1
    BY <2>5, SeqAppend
  <2>7. a[i + 1] \in S <=> b[i + 1] \in T
    BY <2>1
  <2>8. QED
    BY <2>2, <2>3, <2>4, <2>6, <2>7
<1> HIDE DEF P
<1>3. Nat \subseteq P
  BY <1>1, <1>2, Forward!Induction
<1>4. \A i \in 0 .. n : i \in P /\ i <= n
  BY <1>3
<1>5. QED
  BY <1>4 DEF P

\* When what they keep is the same at each place, they keep the same.
LEMMA KeptSame ==
  ASSUME NEW a, NEW b, NEW S, NEW T, NEW n \in Nat,
         Len(a) \in Nat, Len(b) \in Nat, n <= Len(a), n <= Len(b),
         \A i \in 1 .. n : a[i] \in S <=> b[i] \in T,
         \A i \in 1 .. n : a[i] \in S => a[i] = b[i],
         NEW ka, NEW kb, Keeps(ka, a, S), Keeps(kb, b, T)
  PROVE  ka[n] = kb[n]
<1> DEFINE P == {i \in Nat : i <= n => ka[i] = kb[i]}
<1>1. 0 \in P
  BY DEF Keeps
<1>2. ASSUME NEW i \in Nat, i \in P PROVE i + 1 \in P
  <2> SUFFICES ASSUME i + 1 <= n PROVE ka[i + 1] = kb[i + 1]
    OBVIOUS
  <2>1. i + 1 \in 1 .. n /\ i + 1 \in 1 .. Len(a) /\ i + 1 \in 1 .. Len(b) /\ (i + 1) - 1 = i
    OBVIOUS
  <2>2. ka[i] = kb[i]
    BY <1>2
  <2>3. ka[i + 1] = IF a[i + 1] \in S THEN Append(ka[i], a[i + 1]) ELSE ka[i]
    BY <2>1 DEF Keeps
  <2>4. kb[i + 1] = IF b[i + 1] \in T THEN Append(kb[i], b[i + 1]) ELSE kb[i]
    BY <2>1 DEF Keeps
  <2>5. (a[i + 1] \in S <=> b[i + 1] \in T) /\ (a[i + 1] \in S => a[i + 1] = b[i + 1])
    BY <2>1
  <2>6. QED
    BY <2>2, <2>3, <2>4, <2>5
<1> HIDE DEF P
<1>3. n \in P
  BY <1>1, <1>2, Forward!Induction
<1>4. QED
  BY <1>3 DEF P

\* Elements that are kept at the same places come out in pairs.
\* Two sequences agree on what to keep; and their elements by twos.
SamePlaces(a, S, b, T) == \A i \in DOMAIN a : a[i] \in S <=> b[i] \in T
Paired(a, S, b, T, k) ==
  /\ Len(Only(a, S)) = Len(Only(b, T))
  /\ \A m \in DOMAIN Only(a, S) : \E i \in DOMAIN a :
       a[i] \in S /\ Len(k[i - 1]) = m - 1 /\ Only(a, S)[m] = a[i] /\ Only(b, T)[m] = b[i]

\* Each element of one is at the place of its fellow in the other.
LEMMA OnlyPairs ==
  ASSUME NEW a, NEW b, IsSeq(a), IsSeq(b), Len(a) = Len(b), NEW S, NEW T,
         SamePlaces(a, S, b, T), NEW k, Keeps(k, a, S)
  PROVE  Paired(a, S, b, T, k)
<1> DEFINE n == Len(a)
<1>0. n \in Nat /\ DOMAIN a = 1 .. n /\ DOMAIN b = 1 .. n
  BY SeqLen
<1>1. PICK kb : Keeps(kb, b, T)
  BY OnlyKeeps
<1>2. Only(a, S) = k[n] /\ Only(b, T) = kb[n]
  BY <1>1 DEF Keeps
<1>3. \A i \in 0 .. n : Len(k[i]) = Len(kb[i])
  <2>1. n <= Len(a) /\ n <= Len(b)
    BY <1>0
  <2> HIDE DEF n
  <2>2. QED
    BY <1>0, <1>1, <2>1, KeptAlike DEF SamePlaces
<1>4. n \in 0 .. n
  BY <1>0
<1>5. KeptSoFar(k, a, S, n) /\ KeptSoFar(kb, b, T, n)
  BY <1>1, <1>4, KeptMeans
<1>6. DOMAIN Only(a, S) = 1 .. Len(k[n])
  BY <1>2, <1>5, SeqLen DEF KeptSoFar
<1>7. ASSUME NEW m \in DOMAIN Only(a, S)
      PROVE  \E i \in DOMAIN a : a[i] \in S /\ Len(k[i - 1]) = m - 1
                                 /\ Only(a, S)[m] = a[i] /\ Only(b, T)[m] = b[i]
  <2>1. m \in 1 .. Len(k[n])
    BY <1>6
  <2>2. PICK i \in 1 .. n : a[i] \in S /\ Len(k[i - 1]) = m - 1 /\ k[n][m] = a[i]
    BY <1>5, <2>1 DEF KeptSoFar
  <2>3. i - 1 \in 0 .. n /\ b[i] \in T
    BY <1>0, <2>2 DEF SamePlaces
  <2>4. Len(kb[i - 1]) = m - 1
    BY <1>3, <2>2, <2>3
  <2>5. kb[n][Len(kb[i - 1]) + 1] = b[i]
    BY <1>5, <2>3 DEF KeptSoFar
  <2>6. Len(k[n]) \in Nat /\ m \in Nat
    BY <1>5, <2>1, SeqLen DEF KeptSoFar
  <2>7. (m - 1) + 1 = m
    BY <2>6
  <2>8. QED
    BY <1>0, <1>2, <2>2, <2>4, <2>5, <2>7
<1>8. QED
  BY <1>2, <1>3, <1>4, <1>7 DEF Paired

\* Only, of sequences that agree on what to keep.
LEMMA OnlySame ==
  ASSUME NEW a, NEW b, IsSeq(a), IsSeq(b), Len(a) = Len(b), NEW S, NEW T,
         \A i \in DOMAIN a : a[i] \in S <=> b[i] \in T,
         \A i \in DOMAIN a : a[i] \in S => a[i] = b[i]
  PROVE  Only(a, S) = Only(b, T)
<1> DEFINE n == Len(a)
<1>0. n \in Nat /\ DOMAIN a = 1 .. n /\ n <= Len(a) /\ n <= Len(b) /\ n \in 0 .. n
  BY SeqLen
<1>1. PICK ka, kb : Keeps(ka, a, S) /\ Keeps(kb, b, T)
  BY OnlyKeeps
<1>2. Only(a, S) = ka[n] /\ Only(b, T) = kb[n]
  BY <1>1 DEF Keeps
<1> HIDE DEF n
<1>3. ka[n] = kb[n]
  <2>1. \A i \in 1 .. n : a[i] \in S <=> b[i] \in T
    BY <1>0
  <2>2. \A i \in 1 .. n : a[i] \in S => a[i] = b[i]
    BY <1>0
  <2>3. Len(a) \in Nat /\ Len(b) \in Nat
    BY SeqLen
  <2>4. QED
    BY <1>0, <1>1, <2>1, <2>2, <2>3, KeptSame
<1>4. QED
  BY <1>2, <1>3

\* Only of a beginning.
LEMMA OnlyPrefix ==
  ASSUME NEW seq, IsSeq(seq), NEW S, NEW k, Keeps(k, seq, S), NEW m \in Nat, m <= Len(seq),
         NEW sub, IsSeq(sub), Len(sub) = m, \A i \in 1 .. m : sub[i] = seq[i],
         NEW T, \A i \in 1 .. m : seq[i] \in S <=> seq[i] \in T
  PROVE  Only(sub, T) = k[m]
<1>1. \A i \in 1 .. m : sub[i] = seq[i]
  OBVIOUS
<1>2. IsSeq(sub) /\ Len(sub) = m
  OBVIOUS
<1>3. PICK ks : Keeps(ks, sub, T)
  BY OnlyKeeps
<1>4. \A i \in 1 .. m : seq[i] \in S <=> sub[i] \in T
  BY <1>1
<1>5. \A i \in 1 .. m : seq[i] \in S => seq[i] = sub[i]
  BY <1>1
<1>6. m \in 0 .. m /\ m <= Len(sub)
  BY <1>2
<1>7. k[m] = ks[m]
  <2>1. Len(seq) \in Nat /\ Len(sub) \in Nat
    BY <1>2, SeqLen
  <2>2. QED
    BY <1>3, <1>4, <1>5, <1>6, <2>1, KeptSame
<1>8. QED
  BY <1>2, <1>3, <1>7 DEF Keeps

-----------------------------------------------------------------------------
(* Naming a region on the n-th linkable element, and forgetting one.        *)

\* The linkable tags of a content.
LinkableIn(text) == {t \in ToSet(text) : Linkable(t)}

\* Linkables is Only of the linkable tags.
LEMMA LinkablesAre == ASSUME NEW text PROVE Linkables(text) = Only(text, LinkableIn(text))
BY DEF Linkables, LinkableIn

\* How many linkable tags are before a place.
LEMMA LinkablesBefore ==
  ASSUME NEW text, IsSeq(text), NEW k, Keeps(k, text, LinkableIn(text)),
         NEW i \in DOMAIN text
  PROVE  LinkableCount(SubSeq(text, 1, i - 1)) = Len(k[i - 1])
<1> DEFINE S == LinkableIn(text)
           m == i - 1
           sub == SubSeq(text, 1, m)
           T == LinkableIn(sub)
<1>1. Len(text) \in Nat /\ DOMAIN text = 1 .. Len(text)
  BY SeqLen
<1>2. m \in Nat /\ m <= Len(text)
  BY <1>1
<1>3. sub = [j \in 1 .. m |-> text[j]]
  <2>1. text \in Seq(ToSet(text))
    BY DEF IsSeq
  <2> HIDE DEF m
  <2>2. QED
    BY <1>2, <2>1
<1> HIDE DEF m, sub
<1>4. sub = [j \in 1 .. m |-> sub[j]] /\ \A j \in 1 .. m : sub[j] = text[j]
  BY <1>3
<1>5. IsSeq(sub) /\ Len(sub) = m /\ DOMAIN sub = 1 .. m
  BY <1>2, <1>4, SeqMap, SeqLen
<1>6. \A j \in 1 .. m : text[j] \in S <=> text[j] \in T
  <2> SUFFICES ASSUME NEW j \in 1 .. m PROVE text[j] \in S <=> text[j] \in T
    OBVIOUS
  <2>1. j \in DOMAIN text /\ j \in DOMAIN sub /\ sub[j] = text[j]
    BY <1>1, <1>2, <1>4, <1>5
  <2>2. text[j] \in ToSet(text) /\ text[j] \in ToSet(sub)
    BY <2>1, InSet
  <2>3. QED
    BY <2>2 DEF LinkableIn
<1> HIDE DEF S, T
<1>7. Only(sub, T) = k[m]
  BY <1>2, <1>4, <1>5, <1>6, OnlyPrefix DEF S
<1>8. QED
  BY <1>7, LinkablesAre DEF LinkableCount, T, sub, m

\* The n-th linkable tag is the one with n before it.
LEMMA PositionsAre ==
  ASSUME NEW text, IsSeq(text), NEW k, Keeps(k, text, LinkableIn(text)), NEW n
  PROVE  \A i \in DOMAIN text : i \in Positions(text, n) <=> Linkable(text[i]) /\ Len(k[i - 1]) = n
BY LinkablesBefore DEF Positions

\* Each element that can be addressed is there.
LEMMA PositionThere ==
  ASSUME NEW text, IsSeq(text), NEW n \in Nat, n < LinkableCount(text)
  PROVE  \E i \in DOMAIN text : i \in Positions(text, n)
<1> DEFINE S == LinkableIn(text)
           m == Len(text)
<1>1. PICK k : Keeps(k, text, S)
  BY OnlyKeeps
<1> HIDE DEF S
<1>2. m \in Nat /\ DOMAIN text = 1 .. m /\ m \in 0 .. m
  BY SeqLen
<1>3. KeptSoFar(k, text, S, m)
  BY <1>1, <1>2, KeptMeans
<1>4. LinkableCount(text) = Len(k[m])
  BY <1>1, LinkablesAre DEF LinkableCount, S, Keeps
<1>5. Len(k[m]) \in Nat
  BY <1>3, SeqLen DEF KeptSoFar
<1>6. n + 1 \in 1 .. Len(k[m]) /\ (n + 1) - 1 = n
  BY <1>4, <1>5
<1>7. PICK i \in 1 .. m : text[i] \in S /\ Len(k[i - 1]) = n
  BY <1>3, <1>6 DEF KeptSoFar
<1>8. Linkable(text[i])
  BY <1>7 DEF S, LinkableIn
<1>9. QED
  BY <1>1, <1>2, <1>7, <1>8, PositionsAre DEF S

\* An end tag gets its name back; a start tag is as it was.
LEMMA ReclosedIs ==
  ASSUME NEW t, IsEvent(t)
  PROVE  /\ IsEvent(Reclosed(t)) /\ (IsStart(Reclosed(t)) <=> IsStart(t))
         /\ IsStart(t) => Reclosed(t) = t
BY PlainEvents DEF Reclosed, IsStart

\* add_graph_ref adds the region to the ids of the text, and no other.
LEMMA AddGraphRefIs ==
  ASSUME NEW text, IsMarkup(text), NEW n \in Nat, n < LinkableCount(text), NEW g
  PROVE  /\ IsMarkup(AddGraphRef(text, n, g))
         /\ AllIds(AddGraphRef(text, n, g)) = AllIds(text) \cup {g}
<1> DEFINE new == AddGraphRef(text, n, g)
           P == Positions(text, n)
<1>1. new = [i \in DOMAIN text |-> IF i \in P THEN WithRef(text[i], g) ELSE Reclosed(text[i])]
  BY DEF AddGraphRef
<1>2. IsSeq(text) /\ \A i \in DOMAIN text : IsEvent(text[i])
  BY DEF IsMarkup
<1>3. PICK p \in DOMAIN text : p \in P
  BY <1>2, PositionThere
<1>4. \A i \in P : Linkable(text[i])
  BY DEF Positions
<1> HIDE DEF new, P
<1>5. new = [i \in DOMAIN text |-> new[i]]
      /\ \A i \in DOMAIN text : new[i] = IF i \in P THEN WithRef(text[i], g)
                                            ELSE Reclosed(text[i])
  BY <1>1
<1>6. IsSeq(new) /\ DOMAIN new = DOMAIN text
  BY <1>2, <1>5, MapIs
<1>7. ASSUME NEW i \in DOMAIN text
      PROVE  /\ IsEvent(new[i]) /\ (IsStart(new[i]) <=> IsStart(text[i]))
             /\ i \in P => IsStart(text[i]) /\ AttrIds(new[i].attrs) = AttrIds(text[i].attrs) \cup {g}
             /\ i \notin P /\ IsStart(text[i]) => new[i] = text[i]
  <2>1. IsEvent(text[i])
    BY <1>2
  <2>2. CASE i \in P
    <3> DEFINE e == WithRef(text[i], g)
    <3>1. /\ IsEvent(e) /\ e.ev = text[i].ev
          /\ AttrIds(e.attrs) = AttrIds(text[i].attrs) \cup {g}
      BY <2>1, WithRefIs
    <3>2. new[i] = e
      BY <1>5, <2>2
    <3> HIDE DEF e
    <3>3. QED
      BY <1>4, <2>2, <3>1, <3>2 DEF Linkable, IsStart
  <2>3. CASE i \notin P
    BY <1>5, <2>1, <2>3, ReclosedIs
  <2>4. QED
    BY <2>2, <2>3
<1>8. \A x : x \in AllIds(new) <=> \E i \in DOMAIN text : IsStart(new[i]) /\ x \in AttrIds(new[i].attrs)
  BY <1>6 DEF AllIds
<1>9. \A x : x \in AllIds(text) <=>
              \E i \in DOMAIN text : IsStart(text[i]) /\ x \in AttrIds(text[i].attrs)
  BY DEF AllIds
<1>10. \A x : x \in AllIds(new) <=> x \in AllIds(text) \/ x = g
  <2>1. ASSUME NEW x, x \in AllIds(new) PROVE x \in AllIds(text) \/ x = g
    BY <1>7, <1>8, <1>9, <2>1
  <2>2. ASSUME NEW x, x \in AllIds(text) PROVE x \in AllIds(new)
    <3>1. PICK i \in DOMAIN text : IsStart(text[i]) /\ x \in AttrIds(text[i].attrs)
      BY <1>9, <2>2
    <3>2. IsStart(new[i]) /\ x \in AttrIds(new[i].attrs)
      BY <1>7, <3>1
    <3>3. QED
      BY <1>8, <3>2
  <2>3. g \in AllIds(new)
    <3>1. IsStart(new[p]) /\ g \in AttrIds(new[p].attrs)
      BY <1>3, <1>7
    <3>2. QED
      BY <1>8, <3>1
  <2>4. QED
    BY <2>1, <2>2, <2>3
<1>11. IsMarkup(new) /\ AllIds(new) = AllIds(text) \cup {g}
  BY <1>6, <1>7, <1>10 DEF IsMarkup
<1>12. QED
  BY <1>11 DEF new

\* remove_graph_ref takes the region from the ids, and no other.
LEMMA RemoveGraphRefIs ==
  ASSUME NEW text, IsMarkup(text), NEW g
  PROVE  /\ IsMarkup(RemoveGraphRef(text, g))
         /\ AllIds(RemoveGraphRef(text, g)) = AllIds(text) \ {g}
<1> DEFINE new == RemoveGraphRef(text, g)
<1>1. new = [i \in DOMAIN text |-> IF IsStart(text[i]) THEN WithoutRef(text[i], g)
                                      ELSE Reclosed(text[i])]
  BY DEF RemoveGraphRef, Mapped
<1>2. IsSeq(text) /\ \A i \in DOMAIN text : IsEvent(text[i])
  BY DEF IsMarkup
<1> HIDE DEF new
<1>5. new = [i \in DOMAIN text |-> new[i]]
      /\ \A i \in DOMAIN text : new[i] = IF IsStart(text[i]) THEN WithoutRef(text[i], g)
                                            ELSE Reclosed(text[i])
  BY <1>1
<1>6. IsSeq(new) /\ DOMAIN new = DOMAIN text
  BY <1>2, <1>5, MapIs
<1>7. ASSUME NEW i \in DOMAIN text
      PROVE  /\ IsEvent(new[i]) /\ (IsStart(new[i]) <=> IsStart(text[i]))
             /\ IsStart(text[i]) => AttrIds(new[i].attrs) = AttrIds(text[i].attrs) \ {g}
  <2>1. IsEvent(text[i])
    BY <1>2
  <2>2. CASE IsStart(text[i])
    <3> DEFINE e == WithoutRef(text[i], g)
    <3>1. /\ IsEvent(e) /\ e.ev = text[i].ev
          /\ AttrIds(e.attrs) = AttrIds(text[i].attrs) \ {g}
      BY <2>1, WithoutRefIs
    <3>2. new[i] = e
      BY <1>5, <2>2
    <3> HIDE DEF e
    <3>3. QED
      BY <2>2, <3>1, <3>2 DEF IsStart
  <2>3. CASE ~IsStart(text[i])
    BY <1>5, <2>1, <2>3, ReclosedIs
  <2>4. QED
    BY <2>2, <2>3
<1>8. \A x : x \in AllIds(new) <=> \E i \in DOMAIN text : IsStart(new[i]) /\ x \in AttrIds(new[i].attrs)
  BY <1>6 DEF AllIds
<1>9. \A x : x \in AllIds(text) <=>
              \E i \in DOMAIN text : IsStart(text[i]) /\ x \in AttrIds(text[i].attrs)
  BY DEF AllIds
<1>10. \A x : x \in AllIds(new) <=> x \in AllIds(text) /\ x # g
  BY <1>7, <1>8, <1>9
<1>11. IsMarkup(new) /\ AllIds(new) = AllIds(text) \ {g}
  BY <1>6, <1>7, <1>10 DEF IsMarkup
<1>12. QED
  BY <1>11 DEF new

-----------------------------------------------------------------------------
(* Embedding the id of a region.                                            *)

\* x is named by what has been read and not been closed, or by its parts.
Collects(stack, x) ==
  \E i \in DOMAIN stack : x \in AllIds(stack[i].parts) \/ (i > 1 /\ x \in AttrIds(stack[i].attrs))

\* What has been read stays in the stack when an element is opened.
LEMMA PushCollects ==
  ASSUME NEW stack, NEW ids, StackOk(stack, ids), NEW t, NEW x,
         Collects(stack, x) \/ x \in AttrIds(t.attrs)
  PROVE  Collects(Append(stack, Node(t)), x)
<1> DEFINE n == Len(stack)
           node == Node(t)
           new == Append(stack, node)
<1>1. node.attrs = t.attrs
  BY DEF Node
<1> HIDE DEF node
<1>2. /\ IsSeq(new) /\ Len(new) = n + 1
      /\ \A i \in 1 .. n : new[i] = stack[i]
      /\ new[n + 1] = node
  BY SeqAppend DEF StackOk
<1>3. n \in Nat /\ DOMAIN stack = 1 .. n
  BY SeqLen DEF StackOk
<1>a. n > 0
  BY DEF StackOk
<1>b. DOMAIN new = 1 .. n + 1
  BY <1>2, SeqLen
<1> HIDE DEF n, new
<1>4. CASE Collects(stack, x)
  <2>1. PICK i \in DOMAIN stack : x \in AllIds(stack[i].parts) \/ (i > 1 /\ x \in AttrIds(stack[i].attrs))
    BY <1>4 DEF Collects
  <2>2. i \in DOMAIN new /\ new[i] = stack[i]
    BY <1>2, <1>3, <1>b
  <2>3. QED
    BY <2>1, <2>2 DEF Collects, new, node
<1>5. CASE x \in AttrIds(t.attrs)
  <2>1. n + 1 \in DOMAIN new /\ n + 1 > 1
    BY <1>3, <1>a, <1>b
  <2>2. x \in AttrIds(new[n + 1].attrs)
    BY <1>1, <1>2, <1>5
  <2>3. QED
    BY <2>1, <2>2 DEF Collects, new, node
<1>6. QED
  BY <1>4, <1>5

\* It stays when the element on top takes parts in.
LEMMA GrownCollects ==
  ASSUME NEW stack, NEW ids, StackOk(stack, ids), NEW parts, IsSeq(parts), NEW x,
         Collects(stack, x) \/ x \in AllIds(parts)
  PROVE  Collects(Grown(stack, parts), x)
<1> DEFINE n == Len(stack)
           new == Grown(stack, parts)
<1>1. /\ IsSeq(new) /\ Len(new) = n /\ DOMAIN new = DOMAIN stack /\ n \in DOMAIN stack
      /\ \A i \in DOMAIN stack : i # n => new[i] = stack[i]
      /\ new[n] = [tag |-> stack[n].tag, attrs |-> stack[n].attrs,
                   parts |-> stack[n].parts \o parts, own |-> stack[n].own]
  <2>1. \A i \in DOMAIN stack : stack[i] = [tag |-> stack[i].tag, attrs |-> stack[i].attrs,
                                            parts |-> stack[i].parts, own |-> stack[i].own]
    BY DEF StackOk, NodeOk
  <2>2. QED
    BY <2>1, GrownIs DEF StackOk
<1> HIDE DEF n, new
<1>2. IsSeq(stack[n].parts)
  BY <1>1 DEF StackOk, NodeOk, Writes
<1>3. AllIds(new[n].parts) = AllIds(stack[n].parts) \cup AllIds(parts)
  <2>1. new[n].parts = stack[n].parts \o parts
    BY <1>1
  <2>2. QED
    BY <1>2, <2>1, IdsPlus
<1>4. new[n].attrs = stack[n].attrs
  BY <1>1
<1>5. CASE Collects(stack, x)
  <2>1. PICK i \in DOMAIN stack : x \in AllIds(stack[i].parts) \/ (i > 1 /\ x \in AttrIds(stack[i].attrs))
    BY <1>5 DEF Collects
  <2>2. x \in AllIds(new[i].parts) \/ (i > 1 /\ x \in AttrIds(new[i].attrs))
    BY <1>1, <1>3, <1>4, <2>1
  <2>3. QED
    BY <1>1, <2>2 DEF Collects, new
<1>6. CASE x \in AllIds(parts)
  BY <1>1, <1>3, <1>6 DEF Collects, new
<1>7. QED
  BY <1>5, <1>6

\* It stays when an element takes text of its own.
LEMMA TextCollects ==
  ASSUME NEW stack, NEW ids, StackOk(stack, ids), NEW n \in DOMAIN stack, NEW text, NEW x,
         Collects(stack, x)
  PROVE  Collects([stack EXCEPT ![n].own = Append(@, text)], x)
<1> DEFINE new == [stack EXCEPT ![n].own = Append(@, text)]
<1>1. /\ IsSeq(new) /\ Len(new) = Len(stack) /\ DOMAIN new = DOMAIN stack
      /\ \A i \in DOMAIN stack : i # n => new[i] = stack[i]
      /\ new[n] = [tag |-> stack[n].tag, attrs |-> stack[n].attrs,
                   parts |-> stack[n].parts, own |-> Append(stack[n].own, text)]
  <2>1. \A i \in DOMAIN stack : stack[i] = [tag |-> stack[i].tag, attrs |-> stack[i].attrs,
                                            parts |-> stack[i].parts, own |-> stack[i].own]
    BY DEF StackOk, NodeOk
  <2>2. QED
    BY <2>1, TextIs DEF StackOk
<1> HIDE DEF new
<1>2. \A i \in DOMAIN stack : new[i].parts = stack[i].parts /\ new[i].attrs = stack[i].attrs
  BY <1>1
<1>3. PICK i \in DOMAIN stack : x \in AllIds(stack[i].parts) \/ (i > 1 /\ x \in AttrIds(stack[i].attrs))
  BY DEF Collects
<1>4. QED
  BY <1>1, <1>2, <1>3 DEF Collects, new

\* It stays, with the ids of the tag, when a tag is passed through.
LEMMA PassedCollects ==
  ASSUME NEW ids, NEW stack, StackOk(stack, ids), NEW t, IsEvent(t),
         IsStart(t) => AttrIds(t.attrs) \subseteq ids, NEW x,
         Collects(stack, x) \/ (IsStart(t) /\ x \in AttrIds(t.attrs))
  PROVE  /\ Collects(Grown(stack, <<t>>), x)
         /\ Collects([Grown(stack, <<t>>) EXCEPT ![Len(stack)].own = Append(@, t.name)], x)
<1> DEFINE new == Grown(stack, <<t>>)
           n == Len(stack)
<1>1. Writes(<<t>>, ids)
  BY WritesOne
<1>2. StackOk(new, ids) /\ Len(new) = n
  BY <1>1, GrownOk
<1>3. Collects(new, x)
  BY IdsOne, OneSet, GrownCollects
<1> HIDE DEF new, n
<1>4. n \in DOMAIN new
  <2>1. IsSeq(new) /\ Len(new) > 0 /\ Len(new) = n
    BY <1>2 DEF StackOk
  <2>2. n \in Nat /\ DOMAIN new = 1 .. n
    BY <2>1, SeqLen
  <2>3. QED
    BY <2>1, <2>2
<1>5. Collects([new EXCEPT ![n].own = Append(@, t.name)], x)
  BY <1>2, <1>3, <1>4, TextCollects
<1>6. QED
  BY <1>3, <1>5 DEF new, n

\* The element on top is closed and becomes part of the next one.
LEMMA PopCollects ==
  ASSUME NEW stack, NEW ids, StackOk(stack, ids), Len(stack) # 1, NEW parts, IsSeq(parts), NEW x,
         Collects(stack, x),
         AllIds(Last(stack).parts) \subseteq AllIds(parts), AttrIds(Last(stack).attrs) \subseteq AllIds(parts)
  PROVE  Collects(Grown(Front(stack), parts), x)
<1> DEFINE new == Front(stack)
           n == Len(stack)
<1>1. StackOk(new, ids)
  BY FrontOk
<1>2. n \in Nat /\ n > 1 /\ DOMAIN stack = 1 .. n
  <2>1. IsSeq(stack) /\ n > 0 /\ n # 1
    BY DEF StackOk
  <2>2. n \in Nat /\ DOMAIN stack = 1 .. n
    BY <2>1, SeqLen
  <2> HIDE DEF n
  <2>3. QED
    BY <2>1, <2>2
<1>3. DOMAIN new = 1 .. n - 1 /\ \A i \in 1 .. n - 1 : new[i] = stack[i]
  BY <1>2, FrontIs DEF StackOk
<1>4. Last(stack) = stack[n]
  BY DEF Last
<1> HIDE DEF new, n
<1>5. PICK i \in DOMAIN stack : x \in AllIds(stack[i].parts) \/ (i > 1 /\ x \in AttrIds(stack[i].attrs))
  BY DEF Collects
<1>6. CASE i = n
  <2>1. x \in AllIds(parts)
    BY <1>4, <1>5, <1>6
  <2>2. QED
    BY <1>1, <2>1, GrownCollects DEF new
<1>7. CASE i # n
  <2>1. i \in 1 .. n - 1
    BY <1>2, <1>7
  <2>2. Collects(new, x)
    BY <1>3, <1>5, <2>1 DEF Collects
  <2>3. QED
    BY <1>1, <2>2, GrownCollects DEF new
<1>8. QED
  BY <1>6, <1>7

\* What embed makes of one element: its attributes, and its tags and parts.
EmbedAttrs(node, spec, g) == IF Matches(node, spec) THEN Embedded(node.attrs, g) ELSE node.attrs
EmbedRender(node, closer, spec, g) ==
  <<Open(node.tag, EmbedAttrs(node, spec, g))>> \o node.parts \o <<Close(closer)>>

\* What embed does to the attributes of one element: it may add the id.
LEMMA EmbedAttrsAre ==
  ASSUME NEW ids, NEW node, NodeOk(node, ids), NEW spec, spec.tag # "", NEW g, g \in ids
  PROVE  LET attrs == EmbedAttrs(node, spec, g)
         IN /\ IsEvent(Open(node.tag, attrs)) /\ AttrIds(attrs) \subseteq ids
            /\ AttrIds(node.attrs) \subseteq AttrIds(attrs)
            /\ Matches(node, spec) => g \in AttrIds(attrs)
<1> DEFINE t == Open(node.tag, node.attrs)
           attrs == EmbedAttrs(node, spec, g)
<1>1. t.ev = "start" /\ t.name = node.tag /\ t.attrs = node.attrs /\ IsEvent(t)
      /\ AttrIds(node.attrs) \subseteq ids
  BY DEF Open, NodeOk
<1>2. CASE Matches(node, spec)
  <2>0. Get(node.attrs, "data-dpt", "") = spec.tag /\ node.tag = "span"
    BY <1>2, Zenon DEF Matches
  <2>1. Has(node.attrs, "data-dpt") /\ node.tag = "span"
    BY <2>0, NotFound
  <2>2. DptSpan(t)
    BY <1>1, <2>1 DEF DptSpan
  <2> HIDE DEF t
  <2>3. IsEvent([ev |-> t.ev, name |-> t.name, attrs |-> Embedded(t.attrs, g)])
        /\ AttrIds(Embedded(t.attrs, g)) = AttrIds(t.attrs) \cup {g}
    BY <1>1, <2>2, EmbeddedIs
  <2>4. attrs = Embedded(t.attrs, g)
    BY <1>1, <1>2 DEF EmbedAttrs
  <2> HIDE DEF attrs
  <2>5. Open(node.tag, attrs) = [ev |-> t.ev, name |-> t.name, attrs |-> Embedded(t.attrs, g)]
    BY <1>1, <2>4 DEF Open
  <2>6. QED
    BY <1>1, <2>3, <2>4, <2>5 DEF attrs
<1>3. CASE ~Matches(node, spec)
  BY <1>1, <1>3 DEF EmbedAttrs
<1>4. QED
  BY <1>2, <1>3

\* An element that embed writes has all it had, and the id if it matches.
LEMMA RenderedEmbed ==
  ASSUME NEW ids, NEW node, NodeOk(node, ids), NEW closer, NEW spec, spec.tag # "", NEW g, g \in ids
  PROVE  LET parts == EmbedRender(node, closer, spec, g)
         IN /\ Writes(parts, ids)
            /\ AllIds(node.parts) \subseteq AllIds(parts) /\ AttrIds(node.attrs) \subseteq AllIds(parts)
            /\ Matches(node, spec) => g \in AllIds(parts)
<1> DEFINE attrs == EmbedAttrs(node, spec, g)
           open == Open(node.tag, attrs)
           close == Close(closer)
<1>1. /\ IsEvent(open) /\ AttrIds(attrs) \subseteq ids
      /\ AttrIds(node.attrs) \subseteq AttrIds(attrs)
      /\ Matches(node, spec) => g \in AttrIds(attrs)
  BY EmbedAttrsAre
<1>2. Writes(node.parts, ids)
  BY DEF NodeOk
<1>3. open.attrs = attrs /\ IsStart(open)
  BY DEF Open, IsStart
<1> HIDE DEF attrs
<1>4. Writes(<<open>> \o node.parts \o <<close>>, ids)
  BY <1>1, <1>2, WrapOk
<1> HIDE DEF open, close
<1>5. IsSeq(<<open>>) /\ IsSeq(<<close>>) /\ IsSeq(node.parts)
  BY <1>2, OneSet DEF Writes
<1>6. IsSeq(<<open>> \o node.parts) /\ AllIds(<<open>> \o node.parts) = AllIds(<<open>>) \cup AllIds(node.parts)
  BY <1>5, PlusSet, IdsPlus
<1>7. AllIds(<<open>> \o node.parts \o <<close>>) = AllIds(<<open>> \o node.parts) \cup AllIds(<<close>>)
  BY <1>5, <1>6, IdsPlus
<1>8. AllIds(<<open>>) = AttrIds(attrs)
  BY <1>3, IdsOne
<1>9. QED
  BY <1>1, <1>4, <1>6, <1>7, <1>8 DEF EmbedRender, open, close, attrs

\* The fold of embed, its steps one by one, and the states it goes through.
Embedding == INSTANCE SequenceFolds WITH Step <- EmbedStep

\* embed's fold, in the terms of SequenceFolds.
LEMMA FoldsEmbed ==
  \A base, seq : FoldLeft(EmbedStep, base, seq) = Embedding!Folded(base, seq)
BY Zenon DEF FoldLeft, MapThenFoldSet, Embedding!Folded, Embedding!FoldLeft, Embedding!MapThenFoldSet,
             Max, Embedding!Max

EmbedChain(c, base, text, end) ==
  c[0] = base /\ c[Len(text)] = end
  /\ \A i \in 1 .. Len(text) : c[i] = EmbedStep(c[i - 1], text[i])

\* embed, step after step.
LEMMA ChainEmbed ==
  ASSUME NEW text, IsSeq(text), NEW base
  PROVE  \E c : EmbedChain(c, base, text, FoldLeft(EmbedStep, base, text))
<1> DEFINE n == Len(text)
<1>1. n \in Nat /\ DOMAIN text = 1 .. n
  BY SeqLen
<1>2. PICK c : Embedding!Makes(c, base, text, n)
  <2> HIDE DEF n
  <2>1. QED
    BY <1>1, Embedding!FoldChain
<1>3. EmbedChain(c, base, text, FoldLeft(EmbedStep, base, text))
  BY <1>2, FoldsEmbed, Zenon DEF Embedding!Makes, EmbedChain
<1>4. QED
  BY <1>3, Zenon

\* The stack that a step leaves.
EmbedStack(stack, t, spec, g) ==
  IF t.ev = "start" THEN Append(stack, Node(t))
  ELSE IF t.ev = "end"
       THEN IF Len(stack) = 1 THEN stack
            ELSE Grown(Front(stack), EmbedRender(Last(stack), Lower(t.name), spec, g))
  ELSE IF t.ev = "data" THEN [Grown(stack, <<t>>) EXCEPT ![Len(stack)].own = Append(@, t.name)]
  ELSE Grown(stack, <<t>>)

EmbedState(s, spec, g) ==
  s = [stack |-> s.stack, changed |-> s.changed, spec |-> spec, id |-> g]

\* An element that the selector describes and that does not name the region.
Misses(node, spec, g) ==
  Matches(node, spec) /\ g \notin ToSet(Get(node.attrs, "data-graph-id", <<>>))

\* One step of embed: on the stack, and on what it says has changed.
LEMMA EmbedStepIs ==
  ASSUME NEW s, NEW spec, NEW g, EmbedState(s, spec, g), NEW t
  PROVE  LET new == EmbedStep(s, t)
         IN /\ EmbedState(new, spec, g) /\ new.stack = EmbedStack(s.stack, t, spec, g)
            /\ new.changed = (s.changed \/ (t.ev = "end" /\ Len(s.stack) > 1
                                               /\ Misses(Last(s.stack), spec, g)))
            /\ new.changed => \/ s.changed
                              \/ t.ev = "end" /\ Len(s.stack) > 1 /\ Matches(Last(s.stack), spec)
<1> DEFINE matched(node) == Matches(node, s.spec)
           Render(node, closer) ==
             <<Open(node.tag, IF matched(node) THEN Embedded(node.attrs, s.id) ELSE node.attrs)>>
             \o node.parts \o <<Close(closer)>>
           lacks(node) == s.id \notin ToSet(Get(node.attrs, "data-graph-id", <<>>))
           stack == Fed(s.stack, t, {}, Render, Same)
           changed == \/ s.changed
                      \/ /\ t.ev = "end" /\ Len(s.stack) > 1
                         /\ matched(Last(s.stack)) /\ lacks(Last(s.stack))
           new == EmbedStep(s, t)
<1>1. new = [s EXCEPT !.stack = stack, !.changed = changed]
  BY Zenon DEF EmbedStep
<1>2. s.spec = spec /\ s.id = g
  BY DEF EmbedState
<1>3. stack = EmbedStack(s.stack, t, spec, g)
  BY <1>2 DEF EmbedStack, EmbedRender, EmbedAttrs, Fed, Same
<1>4. changed => \/ s.changed
                 \/ t.ev = "end" /\ Len(s.stack) > 1 /\ Matches(Last(s.stack), spec)
  BY <1>2
<1>a. changed = (s.changed \/ (t.ev = "end" /\ Len(s.stack) > 1 /\ Misses(Last(s.stack), spec, g)))
  BY <1>2, Zenon DEF Misses
<1> HIDE DEF stack, changed, new
<1>5. new = [stack |-> stack, changed |-> changed, spec |-> spec, id |-> g]
  <2>1. PICK a, b : s = [stack |-> a, changed |-> b, spec |-> spec, id |-> g]
    BY DEF EmbedState
  <2>2. new = [[stack |-> a, changed |-> b, spec |-> spec, id |-> g]
               EXCEPT !.stack = stack, !.changed = changed]
    BY <1>1, <2>1, Zenon
  <2>3. QED
    BY <2>2
<1>6. new.stack = stack /\ new.changed = changed /\ EmbedState(new, spec, g)
  BY <1>5 DEF EmbedState
<1>7. QED
  BY <1>3, <1>4, <1>6, <1>a DEF new

\* A selector that says which element it is for.
Tagged(spec) == spec.tag # ""

\* A stack with only the root has nothing to close.
LEMMA OneIsLeast == \A m : m = 1 => ~(m > 1)
OBVIOUS

\* A step keeps what was read, and an element that matches gets the id.
LEMMA EmbedStackIs ==
  ASSUME NEW ids, NEW stack, StackOk(stack, ids), NEW t, IsEvent(t),
         IsStart(t) => AttrIds(t.attrs) \subseteq ids,
         NEW spec, Tagged(spec), NEW g, g \in ids
  PROVE  LET new == EmbedStack(stack, t, spec, g)
         IN /\ StackOk(new, ids)
            /\ \A x : Collects(stack, x) \/ (IsStart(t) /\ x \in AttrIds(t.attrs)) => Collects(new, x)
            /\ t.ev = "end" /\ Len(stack) > 1 /\ Matches(Last(stack), spec) => Collects(new, g)
<1> DEFINE new == EmbedStack(stack, t, spec, g)
<1>1. CASE t.ev = "start"
  <2>1. new = Append(stack, Node(t))
    BY <1>1 DEF EmbedStack
  <2>2. StackOk(Append(stack, Node(t)), ids)
    BY <1>1, PushOk DEF IsStart
  <2>3. \A x : Collects(stack, x) \/ x \in AttrIds(t.attrs) => Collects(Append(stack, Node(t)), x)
    BY PushCollects
  <2>4. QED
    BY <1>1, <2>1, <2>2, <2>3
<1>2. CASE t.ev = "end" /\ Len(stack) = 1
  <2>1. new = stack /\ ~IsStart(t)
    BY <1>2 DEF EmbedStack, IsStart
  <2>2. ~(Len(stack) > 1)
    BY <1>2, OneIsLeast, Zenon
  <2>3. QED
    BY <2>1, <2>2
<1>3. CASE t.ev = "end" /\ Len(stack) # 1
  <2> DEFINE parts == EmbedRender(Last(stack), Lower(t.name), spec, g)
  <2>1. new = Grown(Front(stack), parts) /\ ~IsStart(t)
    BY <1>3 DEF EmbedStack, IsStart
  <2>2. StackOk(Front(stack), ids) /\ NodeOk(Last(stack), ids)
    BY <1>3, FrontOk
  <2>3. /\ Writes(parts, ids)
        /\ AllIds(Last(stack).parts) \subseteq AllIds(parts)
        /\ AttrIds(Last(stack).attrs) \subseteq AllIds(parts)
        /\ Matches(Last(stack), spec) => g \in AllIds(parts)
    BY <2>2, RenderedEmbed DEF Tagged
  <2> HIDE DEF parts
  <2>4. StackOk(Grown(Front(stack), parts), ids)
    BY <2>2, <2>3, GrownOk
  <2>5. IsSeq(parts)
    BY <2>3 DEF Writes
  <2>6. \A x : Collects(stack, x) => Collects(Grown(Front(stack), parts), x)
    BY <1>3, <2>3, <2>5, PopCollects
  <2>7. \A x : x \in AllIds(parts) => Collects(Grown(Front(stack), parts), x)
    BY <2>2, <2>5, GrownCollects
  <2> HIDE DEF new
  <2>8. QED
    BY <2>1, <2>3, <2>4, <2>6, <2>7 DEF new
<1>4. CASE t.ev = "data"
  <2> DEFINE more == [Grown(stack, <<t>>) EXCEPT ![Len(stack)].own = Append(@, t.name)]
  <2>1. new = more
    BY <1>4 DEF EmbedStack
  <2>2. StackOk(more, ids)
    BY PassedOn, Zenon
  <2>3. \A x : Collects(stack, x) \/ (IsStart(t) /\ x \in AttrIds(t.attrs)) => Collects(more, x)
    BY PassedCollects, Zenon
  <2> HIDE DEF new, more
  <2>4. QED
    BY <1>4, <2>1, <2>2, <2>3 DEF new
<1>5. CASE t.ev # "start" /\ t.ev # "end" /\ t.ev # "data"
  <2>1. new = Grown(stack, <<t>>)
    BY <1>5 DEF EmbedStack
  <2>2. StackOk(Grown(stack, <<t>>), ids)
    BY PassedOn
  <2>3. \A x : Collects(stack, x) \/ (IsStart(t) /\ x \in AttrIds(t.attrs))
                 => Collects(Grown(stack, <<t>>), x)
    BY PassedCollects
  <2> HIDE DEF new
  <2>4. QED
    BY <1>5, <2>1, <2>2, <2>3 DEF new
<1>6. QED
  BY <1>1, <1>2, <1>3, <1>4, <1>5

\* After the first i events.
EmbedSoFar(s, text, i, spec, g, ids) ==
  /\ EmbedState(s, spec, g) /\ StackOk(s.stack, ids)
  /\ \A j \in 1 .. i : IsStart(text[j]) => \A x \in AttrIds(text[j].attrs) : Collects(s.stack, x)
  /\ s.changed => Collects(s.stack, g)

\* embed over the whole text.
LEMMA EmbedParsedIs ==
  ASSUME NEW text, IsMarkup(text), NEW spec, Tagged(spec), NEW g
  PROVE  EmbedSoFar(EmbedParsed(text, spec, g), text, Len(text), spec, g,
                    AllIds(text) \cup {g})
<1> DEFINE ids == AllIds(text) \cup {g}
           n == Len(text)
           base == [stack |-> Root, changed |-> FALSE, spec |-> spec, id |-> g]
           end == EmbedParsed(text, spec, g)
           Holds(s, i) == EmbedSoFar(s, text, i, spec, g, ids)
<1>0. IsSeq(text) /\ Writes(text, AllIds(text))
  BY MarkupWrites DEF IsMarkup
<1>a. Writes(text, ids) /\ g \in ids
  BY <1>0 DEF Writes
<1> HIDE DEF ids
<1>1. PICK c : EmbedChain(c, base, text, end)
  <2>1. end = FoldLeft(EmbedStep, base, text)
    BY Zenon DEF EmbedParsed
  <2> HIDE DEF end, base
  <2>2. QED
    BY <1>0, <2>1, ChainEmbed
<1>2. n \in Nat /\ DOMAIN text = 1 .. n
  BY <1>0, SeqLen
<1> HIDE DEF n
<1>3. Holds(base, 0)
  <2>1. base.stack = Root /\ base.changed = FALSE /\ EmbedState(base, spec, g)
    BY DEF EmbedState
  <2> HIDE DEF base
  <2>2. StackOk(base.stack, ids)
    BY <2>1, RootOk
  <2>3. \A j \in 1 .. 0 : FALSE
    OBVIOUS
  <2>4. QED
    BY <2>1, <2>2, <2>3, Zenon DEF EmbedSoFar
<1> HIDE DEF base, end
<1> DEFINE P == {i \in Nat : i <= n => Holds(c[i], i)}
<1>4. 0 \in P
  <2>1. c[0] = base
    BY <1>1 DEF EmbedChain
  <2> HIDE DEF Holds
  <2>2. QED
    BY <1>3, <2>1
<1>5. ASSUME NEW i \in Nat, i \in P PROVE i + 1 \in P
  <2>0. i + 1 \in Nat
    OBVIOUS
  <2> SUFFICES ASSUME i + 1 <= n PROVE Holds(c[i + 1], i + 1)
    BY <2>0, Zenon
  <2> DEFINE s == c[i]
             t == text[i + 1]
             new == c[i + 1]
  <2>a. i <= n /\ i + 1 \in 1 .. n /\ (i + 1) - 1 = i
    BY <1>2
  <2>1. Holds(s, i)
    BY <1>5, <2>a, Zenon
  <2>2. new = EmbedStep(s, t)
    BY <1>1, <2>a, Zenon DEF EmbedChain, n
  <2>3. IsEvent(t) /\ (IsStart(t) => AttrIds(t.attrs) \subseteq ids)
    <3>1. t \in ToSet(text)
      BY <1>2, <2>a, InSet
    <3> HIDE DEF t
    <3>2. QED
      BY <1>a, <3>1 DEF Writes
  <2> HIDE DEF s, new
  <2>4. /\ EmbedState(s, spec, g) /\ StackOk(s.stack, ids)
        /\ \A j \in 1 .. i : IsStart(text[j]) => \A x \in AttrIds(text[j].attrs) : Collects(s.stack, x)
        /\ s.changed => Collects(s.stack, g)
    BY <2>1, Zenon DEF EmbedSoFar
  <2> HIDE DEF t
  <2>5. /\ EmbedState(new, spec, g) /\ new.stack = EmbedStack(s.stack, t, spec, g)
        /\ new.changed => \/ s.changed
                          \/ t.ev = "end" /\ Len(s.stack) > 1 /\ Matches(Last(s.stack), spec)
    BY <2>2, <2>4, EmbedStepIs
  <2> DEFINE more == EmbedStack(s.stack, t, spec, g)
             stack == s.stack
  <2>6. /\ StackOk(more, ids)
        /\ \A x : Collects(stack, x) \/ (IsStart(t) /\ x \in AttrIds(t.attrs)) => Collects(more, x)
        /\ t.ev = "end" /\ Len(stack) > 1 /\ Matches(Last(stack), spec) => Collects(more, g)
    <3>1. StackOk(stack, ids)
      BY <2>4
    <3> HIDE DEF stack
    <3>2. LET after == EmbedStack(stack, t, spec, g)
          IN /\ StackOk(after, ids)
             /\ \A x : Collects(stack, x) \/ (IsStart(t) /\ x \in AttrIds(t.attrs)) => Collects(after, x)
             /\ t.ev = "end" /\ Len(stack) > 1 /\ Matches(Last(stack), spec) => Collects(after, g)
      BY <1>a, <2>3, <3>1, EmbedStackIs
    <3>3. QED
      BY <3>2, Zenon DEF stack
  <2>7. new.changed => Collects(more, g)
    BY <2>4, <2>5, <2>6
  <2>8. \A j \in 1 .. i + 1 : IsStart(text[j]) => \A x \in AttrIds(text[j].attrs) : Collects(more, x)
    <3> SUFFICES ASSUME NEW j \in 1 .. i + 1, IsStart(text[j]), NEW x \in AttrIds(text[j].attrs)
                 PROVE  Collects(more, x)
      OBVIOUS
    <3>1. CASE j = i + 1
      BY <2>6, <3>1 DEF t
    <3>2. CASE j # i + 1
      <4>1. j \in 1 .. i
        BY <3>2
      <4>2. Collects(stack, x)
        BY <2>4, <4>1
      <4>3. QED
        BY <2>6, <4>2
    <3>3. QED
      BY <3>1, <3>2
  <2> HIDE DEF more
  <2>9. QED
    BY <2>5, <2>6, <2>7, <2>8 DEF EmbedSoFar, new, more
<1> HIDE DEF P, Holds
<1>6. n \in P
  BY <1>2, <1>4, <1>5, Forward!Induction
<1>7. c[n] = end
  BY <1>1, Zenon DEF EmbedChain, n
<1>8. Holds(end, n)
  <2>1. n <= n
    BY <1>2
  <2>2. QED
    BY <1>6, <1>7, <2>1, Zenon DEF P
<1>9. QED
  BY <1>8, Zenon DEF Holds, end, ids, n

\* What embedding names.
LEMMA EmbedIdIs ==
  ASSUME NEW text, IsMarkup(text), NEW spec, Tagged(spec), NEW g
  PROVE  LET new == EmbedId(text, spec, g)
         IN /\ IsMarkup(new) /\ AllIds(new) \subseteq AllIds(text) \cup {g}
            /\ Closes(text, spec, g) => AllIds(text) \subseteq AllIds(new)
            /\ Closes(text, spec, g) /\ EmbedChanges(text, spec, g) => g \in AllIds(new)
<1> DEFINE ids == AllIds(text) \cup {g}
           s == EmbedParsed(text, spec, g)
           n == Len(text)
<1>1. EmbedSoFar(s, text, n, spec, g, ids)
  BY EmbedParsedIs
<1>2. /\ EmbedId(text, spec, g) = s.stack[1].parts
      /\ Closes(text, spec, g) <=> Len(s.stack) = 1
      /\ EmbedChanges(text, spec, g) = s.changed
  BY DEF EmbedId, Closes, EmbedChanges
<1> HIDE DEF s, ids
<1> DEFINE stack == s.stack
           new == stack[1].parts
<1>3. /\ StackOk(stack, ids)
      /\ \A j \in 1 .. n : IsStart(text[j]) => \A x \in AttrIds(text[j].attrs) : Collects(stack, x)
      /\ s.changed => Collects(stack, g)
  BY <1>1 DEF EmbedSoFar
<1> HIDE DEF stack
<1>4. IsSeq(stack) /\ Len(stack) > 0 /\ Len(stack) \in Nat /\ DOMAIN stack = 1 .. Len(stack)
  <2>1. IsSeq(stack) /\ Len(stack) > 0
    BY <1>3 DEF StackOk
  <2>2. QED
    BY <2>1, SeqLen
<1>5. 1 \in DOMAIN stack
  <2>1. \A m \in Nat : m > 0 => 1 \in 1 .. m
    OBVIOUS
  <2>2. QED
    BY <1>4, <2>1, Zenon
<1>6. Writes(new, ids)
  BY <1>3, <1>5 DEF StackOk, NodeOk
<1>7. IsMarkup(new) /\ AllIds(new) \subseteq ids
  BY <1>6, WritesMarkup
<1>8. ASSUME Len(stack) = 1, NEW x, Collects(stack, x) PROVE x \in AllIds(new)
  <2>a. \A i \in 1 .. 1 : i = 1 /\ ~(i > 1)
    OBVIOUS
  <2>1. \A i \in DOMAIN stack : i = 1 /\ ~(i > 1)
    BY <1>4, <1>8, <2>a, Zenon
  <2>2. PICK i \in DOMAIN stack : x \in AllIds(stack[i].parts) \/ (i > 1 /\ x \in AttrIds(stack[i].attrs))
    BY <1>8 DEF Collects
  <2>3. QED
    BY <2>1, <2>2
<1>9. ASSUME Len(stack) = 1, NEW x \in AllIds(text) PROVE x \in AllIds(new)
  <2>1. PICK j \in DOMAIN text : IsStart(text[j]) /\ x \in AttrIds(text[j].attrs)
    BY DEF AllIds
  <2>2. j \in 1 .. n
    BY SeqLen DEF IsMarkup
  <2>3. Collects(stack, x)
    BY <1>3, <2>1, <2>2
  <2>4. QED
    BY <1>8, <1>9, <2>3
<1> HIDE DEF new
<1>10. QED
  BY <1>2, <1>3, <1>7, <1>8, <1>9 DEF new, stack, ids

-----------------------------------------------------------------------------
(* Embedding part after part.                                               *)

\* Sequences are the same when their elements are.
LEMMA SeqSame ==
  ASSUME NEW s, IsSeq(s), NEW t, IsSeq(t), Len(s) = Len(t), \A i \in 1 .. Len(s) : s[i] = t[i]
  PROVE  s = t
<1> DEFINE n == Len(s)
<1>1. s = [i \in 1 .. n |-> s[i]] /\ t = [i \in 1 .. n |-> t[i]]
  BY SeqLen
<1> HIDE DEF n
<1>2. [i \in 1 .. n |-> s[i]] = [i \in 1 .. n |-> t[i]]
  BY DEF n
<1>3. QED
  BY <1>1, <1>2

\* Nothing in front, nothing behind.
LEMMA SeqNone ==
  ASSUME NEW s, IsSeq(s)
  PROVE  s \o <<>> = s /\ <<>> \o s = s
<1> DEFINE S == ToSet(s)
<1>1. s \in Seq(S)
  BY DEF IsSeq
<1> HIDE DEF S
<1>2. QED
  BY <1>1

\* One more element is a part of one.
LEMMA SeqLast ==
  ASSUME NEW s, IsSeq(s), NEW e
  PROVE  Append(s, e) = s \o <<e>>
<1> DEFINE S == ToSet(s) \cup {e}
<1>1. s \in Seq(S) /\ e \in S
  BY DEF IsSeq
<1> HIDE DEF S
<1>2. QED
  BY <1>1

\* A chain is decided by its base.
LEMMA EmbedChainOne ==
  ASSUME NEW p, IsSeq(p), NEW base, NEW c, NEW end, EmbedChain(c, base, p, end)
  PROVE  end = FoldLeft(EmbedStep, base, p)
<1> DEFINE n == Len(p)
<1>1. n \in Nat /\ DOMAIN p = 1 .. n
  BY SeqLen
<1>2. PICK d : EmbedChain(d, base, p, FoldLeft(EmbedStep, base, p))
  BY ChainEmbed
<1>3. /\ c[0] = base /\ d[0] = base /\ c[n] = end /\ d[n] = FoldLeft(EmbedStep, base, p)
      /\ \A i \in 1 .. n : c[i] = EmbedStep(c[i - 1], p[i]) /\ d[i] = EmbedStep(d[i - 1], p[i])
  BY <1>2, Zenon DEF EmbedChain
<1> HIDE DEF n
<1> DEFINE P == {i \in Nat : i <= n => c[i] = d[i]}
<1>4. 0 \in P
  BY <1>3
<1>5. ASSUME NEW i \in Nat, i \in P PROVE i + 1 \in P
  <2>0. i + 1 \in Nat
    OBVIOUS
  <2> SUFFICES ASSUME i + 1 <= n PROVE c[i + 1] = d[i + 1]
    BY <2>0, Zenon
  <2>1. i <= n /\ i + 1 \in 1 .. n /\ (i + 1) - 1 = i
    BY <1>1
  <2>2. c[i] = d[i]
    BY <1>5, <2>1
  <2>3. c[i + 1] = EmbedStep(c[i], p[i + 1]) /\ d[i + 1] = EmbedStep(d[i], p[i + 1])
    BY <1>3, <2>1
  <2>4. QED
    BY <2>2, <2>3
<1> HIDE DEF P
<1>6. n \in P
  BY <1>1, <1>4, <1>5, Forward!Induction
<1>7. c[n] = d[n]
  <2>1. n <= n
    BY <1>1
  <2>2. QED
    BY <1>6, <2>1 DEF P
<1>8. QED
  BY <1>3, <1>7

\* embed over nothing.
LEMMA EmbedNothing == ASSUME NEW base PROVE FoldLeft(EmbedStep, base, <<>>) = base
<1>1. IsSeq(<<>>) /\ Len(<<>>) = 0
  BY SeqEmpty
<1>2. PICK c : EmbedChain(c, base, <<>>, FoldLeft(EmbedStep, base, <<>>))
  BY <1>1, ChainEmbed
<1>3. c[0] = base /\ c[Len(<<>>)] = FoldLeft(EmbedStep, base, <<>>)
  BY <1>2, Zenon DEF EmbedChain
<1>4. QED
  BY <1>1, <1>3

\* embed over one event.
LEMMA EmbedOne == ASSUME NEW base, NEW t PROVE FoldLeft(EmbedStep, base, <<t>>) = EmbedStep(base, t)
<1> DEFINE p == <<t>>
<1>1. IsSeq(p) /\ Len(p) = 1 /\ p[1] = t
  BY SeqOne
<1> HIDE DEF p
<1>2. PICK c : EmbedChain(c, base, p, FoldLeft(EmbedStep, base, p))
  BY <1>1, ChainEmbed
<1>3. /\ c[0] = base /\ c[Len(p)] = FoldLeft(EmbedStep, base, p)
      /\ \A i \in 1 .. Len(p) : c[i] = EmbedStep(c[i - 1], p[i])
  BY <1>2, Zenon DEF EmbedChain
<1>4. 1 \in 1 .. Len(p) /\ 1 - 1 = 0
  BY <1>1
<1>5. c[1] = EmbedStep(c[0], p[1])
  BY <1>3, <1>4
<1>6. QED
  BY <1>1, <1>3, <1>5 DEF p

\* Reading one part and then the other.
LEMMA EmbedPlus ==
  ASSUME NEW p, IsSeq(p), NEW q, IsSeq(q), NEW base
  PROVE  FoldLeft(EmbedStep, base, p \o q) = FoldLeft(EmbedStep, FoldLeft(EmbedStep, base, p), q)
<1> DEFINE m == Len(p)
           n == Len(q)
           both == p \o q
           middle == FoldLeft(EmbedStep, base, p)
           end == FoldLeft(EmbedStep, middle, q)
<1>1. m \in Nat /\ n \in Nat
  BY SeqLen
<1>2. IsSeq(both) /\ Len(both) = m + n
      /\ (\A i \in 1 .. m : both[i] = p[i]) /\ \A i \in 1 .. n : both[m + i] = q[i]
  BY SeqPlus
<1>3. PICK c : EmbedChain(c, base, p, middle)
  BY ChainEmbed
<1>4. PICK d : EmbedChain(d, middle, q, end)
  BY ChainEmbed
<1>5. /\ c[0] = base /\ c[m] = middle /\ d[0] = middle /\ d[n] = end
      /\ \A i \in 1 .. m : c[i] = EmbedStep(c[i - 1], p[i])
      /\ \A i \in 1 .. n : d[i] = EmbedStep(d[i - 1], q[i])
  BY <1>3, <1>4, Zenon DEF EmbedChain
<1> HIDE DEF m, n, both, middle, end
<1> DEFINE e == [i \in 0 .. m + n |-> IF i <= m THEN c[i] ELSE d[i - m]]
<1>6. e[0] = base
  BY <1>1, <1>5
<1>7. e[m + n] = end
  <2>1. CASE n = 0
    <3>1. m + n = m /\ m + n \in 0 .. m + n
      BY <1>1, <2>1
    <3>2. QED
      BY <1>1, <1>5, <2>1, <3>1
  <2>2. CASE n # 0
    <3>1. ~(m + n <= m) /\ m + n \in 0 .. m + n /\ (m + n) - m = n
      BY <1>1, <2>2
    <3>2. QED
      BY <1>5, <3>1
  <2>3. QED
    BY <2>1, <2>2
<1>8. ASSUME NEW i \in 1 .. m + n PROVE e[i] = EmbedStep(e[i - 1], both[i])
  <2>1. CASE i <= m
    <3>1. i \in 1 .. m /\ i \in 0 .. m + n /\ i - 1 \in 0 .. m + n /\ i - 1 <= m
      BY <1>1, <2>1
    <3>2. e[i] = c[i] /\ e[i - 1] = c[i - 1]
      BY <2>1, <3>1
    <3>3. both[i] = p[i] /\ c[i] = EmbedStep(c[i - 1], p[i])
      BY <1>2, <1>5, <3>1
    <3>4. QED
      BY <3>2, <3>3
  <2>2. CASE i > m
    <3> DEFINE j == i - m
    <3>1. j \in 1 .. n /\ i = m + j /\ i \in 0 .. m + n /\ i - 1 \in 0 .. m + n /\ ~(i <= m)
      BY <1>1, <2>2
    <3>2. e[i] = d[j]
      BY <3>1
    <3>3. e[i - 1] = d[j - 1]
      <4>1. CASE j = 1
        <5>1. i - 1 = m /\ i - 1 <= m /\ j - 1 = 0
          BY <1>1, <4>1
        <5>2. QED
          BY <1>5, <3>1, <5>1
      <4>2. CASE j # 1
        <5>1. ~(i - 1 <= m) /\ (i - 1) - m = j - 1
          BY <1>1, <3>1, <4>2
        <5>2. QED
          BY <3>1, <5>1
      <4>3. QED
        BY <4>1, <4>2
    <3> HIDE DEF j
    <3>4. both[i] = q[j] /\ d[j] = EmbedStep(d[j - 1], q[j])
      BY <1>2, <1>5, <3>1
    <3>5. QED
      BY <3>2, <3>3, <3>4
  <2>3. QED
    BY <1>1, <2>1, <2>2
<1> HIDE DEF e
<1>9. EmbedChain(e, base, both, end)
  BY <1>2, <1>6, <1>7, <1>8 DEF EmbedChain
<1>10. end = FoldLeft(EmbedStep, base, both)
  BY <1>2, <1>9, EmbedChainOne
<1>11. QED
  BY <1>10 DEF end, middle, both

-----------------------------------------------------------------------------
(* What the element on top takes in.                                        *)

\* Elements with attributes among A; an element that takes parts and words in,
\* alone and on top of a stack.
NodeShape(node, A) ==
  /\ node = [tag |-> node.tag, attrs |-> node.attrs, parts |-> node.parts, own |-> node.own]
  /\ IsSeq(node.parts) /\ IsSeq(node.own) /\ node.attrs \in A /\ Lower(node.tag) = node.tag
Shaped(stack, A) ==
  IsSeq(stack) /\ Len(stack) > 0 /\ \A i \in DOMAIN stack : NodeShape(stack[i], A)

Fuller(node, parts, words) ==
  [tag |-> node.tag, attrs |-> node.attrs, parts |-> node.parts \o parts, own |-> node.own \o words]
Absorbed(stack, parts, words) ==
  [i \in DOMAIN stack |-> IF i = Len(stack) THEN Fuller(stack[i], parts, words) ELSE stack[i]]

IsFuller(new, node, parts, words, A) ==
  /\ NodeShape(new, A) /\ new.tag = node.tag /\ new.attrs = node.attrs
  /\ new.parts = node.parts \o parts /\ new.own = node.own \o words
IsAbsorbed(new, stack, parts, words, A) ==
  /\ Shaped(new, A) /\ IsSeq(new) /\ Len(new) = Len(stack) /\ DOMAIN new = DOMAIN stack
  /\ Len(stack) \in DOMAIN stack /\ Len(stack) \in Nat /\ Len(stack) > 0
  /\ DOMAIN stack = 1 .. Len(stack)
  /\ \A i \in DOMAIN stack : i # Len(stack) => new[i] = stack[i]
  /\ new[Len(stack)] = Fuller(stack[Len(stack)], parts, words)
  /\ IsFuller(new[Len(stack)], stack[Len(stack)], parts, words, A)

\* An element with more in it.
LEMMA FullerIs ==
  ASSUME NEW A, NEW node, NodeShape(node, A), NEW parts, IsSeq(parts), NEW words, IsSeq(words)
  PROVE  IsFuller(Fuller(node, parts, words), node, parts, words, A)
<1>1. IsSeq(node.parts \o parts) /\ IsSeq(node.own \o words)
  BY SeqPlus DEF NodeShape
<1>2. QED
  BY <1>1 DEF NodeShape, Fuller, IsFuller

\* The stack whose top has more in it.
LEMMA AbsorbedIs ==
  ASSUME NEW A, NEW stack, Shaped(stack, A), NEW parts, IsSeq(parts), NEW words, IsSeq(words)
  PROVE  IsAbsorbed(Absorbed(stack, parts, words), stack, parts, words, A)
<1> DEFINE new == Absorbed(stack, parts, words)
           n == Len(stack)
<1>1. n \in Nat /\ DOMAIN stack = 1 .. n /\ n > 0
  BY SeqLen DEF Shaped
<1>2. new = [i \in DOMAIN stack |-> IF i = n THEN Fuller(stack[i], parts, words) ELSE stack[i]]
  BY DEF Absorbed
<1> HIDE DEF new, n
<1>3. n \in DOMAIN stack
  BY <1>1
<1>4. /\ \A i \in DOMAIN stack : i # n => new[i] = stack[i]
      /\ new[n] = Fuller(stack[n], parts, words)
      /\ new = [i \in 1 .. n |-> new[i]]
  BY <1>1, <1>2, <1>3
<1>5. IsSeq(new) /\ Len(new) = n /\ DOMAIN new = DOMAIN stack
  BY <1>1, <1>4, SeqMap, SeqLen
<1>6. \A i \in DOMAIN stack : NodeShape(stack[i], A)
  BY DEF Shaped
<1>7. IsFuller(new[n], stack[n], parts, words, A) /\ NodeShape(new[n], A)
  <2>1. NodeShape(stack[n], A)
    BY <1>3, <1>6
  <2>2. IsFuller(Fuller(stack[n], parts, words), stack[n], parts, words, A)
    BY <2>1, FullerIs
  <2>3. QED
    BY <1>4, <2>2 DEF IsFuller
<1>8. Shaped(new, A)
  BY <1>1, <1>4, <1>5, <1>6, <1>7 DEF Shaped
<1>9. QED
  BY <1>1, <1>3, <1>4, <1>5, <1>7, <1>8, Zenon DEF IsAbsorbed, new, n

\* A top that takes in nothing stays.
LEMMA AbsorbedNone ==
  ASSUME NEW A, NEW stack, Shaped(stack, A)
  PROVE  Absorbed(stack, <<>>, <<>>) = stack
<1> DEFINE new == Absorbed(stack, <<>>, <<>>)
           n == Len(stack)
<1>1. IsSeq(<<>>)
  BY SeqEmpty
<1>2. /\ Shaped(new, A) /\ Len(new) = n
      /\ n \in DOMAIN stack /\ DOMAIN stack = 1 .. n
      /\ \A i \in DOMAIN stack : i # n => new[i] = stack[i]
      /\ new[n] = Fuller(stack[n], <<>>, <<>>)
  BY <1>1, AbsorbedIs DEF IsAbsorbed
<1> HIDE DEF new, n
<1>3. NodeShape(stack[n], A)
  BY <1>2 DEF Shaped
<1>4. stack[n].parts \o <<>> = stack[n].parts /\ stack[n].own \o <<>> = stack[n].own
  BY <1>3, SeqNone DEF NodeShape
<1>5. Fuller(stack[n], <<>>, <<>>) = stack[n]
  BY <1>3, <1>4, Zenon DEF NodeShape, Fuller
<1>6. \A i \in 1 .. n : new[i] = stack[i]
  BY <1>2, <1>5
<1>7. IsSeq(new) /\ IsSeq(stack)
  BY <1>2 DEF Shaped
<1>8. Len(stack) = n
  BY DEF n
<1>9. new = stack
  BY <1>2, <1>6, <1>7, <1>8, SeqSame
<1>10. QED
  BY <1>9 DEF new

\* Taking in twice is taking in both at once.
LEMMA AbsorbedTwice ==
  ASSUME NEW A, NEW stack, Shaped(stack, A), NEW p, IsSeq(p), NEW a, IsSeq(a),
         NEW q, IsSeq(q), NEW b, IsSeq(b)
  PROVE  Absorbed(Absorbed(stack, p, a), q, b) = Absorbed(stack, p \o q, a \o b)
<1> DEFINE one == Absorbed(stack, p, a)
           two == Absorbed(one, q, b)
           all == Absorbed(stack, p \o q, a \o b)
           n == Len(stack)
<1>1. IsSeq(p \o q) /\ IsSeq(a \o b)
  BY SeqPlus
<1>2. /\ Shaped(one, A) /\ Len(one) = n /\ DOMAIN one = DOMAIN stack
      /\ n \in DOMAIN stack /\ DOMAIN stack = 1 .. n
      /\ \A i \in DOMAIN stack : i # n => one[i] = stack[i]
      /\ one[n] = Fuller(stack[n], p, a) /\ IsFuller(one[n], stack[n], p, a, A)
  BY AbsorbedIs DEF IsAbsorbed
<1>3. /\ Shaped(all, A) /\ Len(all) = n
      /\ \A i \in DOMAIN stack : i # n => all[i] = stack[i]
      /\ all[n] = Fuller(stack[n], p \o q, a \o b)
  BY <1>1, AbsorbedIs DEF IsAbsorbed
<1> HIDE DEF one, all
<1>4. /\ Shaped(two, A) /\ Len(two) = Len(one)
      /\ \A i \in DOMAIN one : i # Len(one) => two[i] = one[i]
      /\ two[Len(one)] = Fuller(one[Len(one)], q, b)
  <2>1. Shaped(one, A)
    BY <1>2
  <2>2. IsAbsorbed(two, one, q, b, A)
    BY <2>1, AbsorbedIs
  <2>3. QED
    BY <2>2, Zenon DEF IsAbsorbed
<1> HIDE DEF two, n
<1>5. NodeShape(stack[n], A)
  BY <1>2 DEF Shaped
<1>6. /\ one[n].tag = stack[n].tag /\ one[n].attrs = stack[n].attrs
      /\ one[n].parts = stack[n].parts \o p /\ one[n].own = stack[n].own \o a
  BY <1>2 DEF IsFuller
<1>7. /\ (stack[n].parts \o p) \o q = stack[n].parts \o (p \o q)
      /\ (stack[n].own \o a) \o b = stack[n].own \o (a \o b)
  <2>1. IsSeq(stack[n].parts) /\ IsSeq(stack[n].own)
    BY <1>5, Zenon DEF NodeShape
  <2>2. PICK x, y : x = stack[n].parts /\ y = stack[n].own
    OBVIOUS
  <2>3. (x \o p) \o q = x \o (p \o q) /\ (y \o a) \o b = y \o (a \o b)
    <3> DEFINE S == ToSet(x) \cup ToSet(p) \cup ToSet(q)
               T == ToSet(y) \cup ToSet(a) \cup ToSet(b)
    <3>1. x \in Seq(S) /\ p \in Seq(S) /\ q \in Seq(S)
      BY <2>1, <2>2 DEF IsSeq
    <3>2. y \in Seq(T) /\ a \in Seq(T) /\ b \in Seq(T)
      BY <2>1, <2>2 DEF IsSeq
    <3> HIDE DEF S, T
    <3>3. (x \o p) \o q = x \o (p \o q)
      BY <3>1
    <3>4. (y \o a) \o b = y \o (a \o b)
      BY <3>2
    <3>5. QED
      BY <3>3, <3>4
  <2>4. QED
    BY <2>2, <2>3, Zenon
<1>8. Fuller(one[n], q, b) = Fuller(stack[n], p \o q, a \o b)
  BY <1>6, <1>7, Zenon DEF Fuller
<1>9. \A i \in 1 .. n : two[i] = all[i]
  BY <1>2, <1>3, <1>4, <1>8
<1>10. IsSeq(two) /\ IsSeq(all) /\ Len(two) = n /\ Len(all) = n
  BY <1>2, <1>3, <1>4 DEF Shaped
<1>11. two = all
  BY <1>9, <1>10, SeqSame
<1>12. QED
  BY <1>11 DEF two, one, all

\* Growing is taking in parts, and words with the data.
LEMMA GrownAbsorbs ==
  ASSUME NEW A, NEW stack, Shaped(stack, A), NEW parts, IsSeq(parts), NEW text
  PROVE  /\ Grown(stack, parts) = Absorbed(stack, parts, <<>>)
         /\ [Grown(stack, parts) EXCEPT ![Len(stack)].own = Append(@, text)]
              = Absorbed(stack, parts, <<text>>)
<1> DEFINE n == Len(stack)
           new == Grown(stack, parts)
           told == [new EXCEPT ![n].own = Append(@, text)]
           one == Absorbed(stack, parts, <<>>)
           two == Absorbed(stack, parts, <<text>>)
<1>0. IsSeq(stack) /\ Len(stack) > 0 /\ \A i \in DOMAIN stack : NodeShape(stack[i], A)
  BY DEF Shaped
<1>1. /\ IsSeq(new) /\ Len(new) = n /\ DOMAIN new = DOMAIN stack /\ n \in DOMAIN stack
      /\ \A i \in DOMAIN stack : i # n => new[i] = stack[i]
      /\ new[n] = [tag |-> stack[n].tag, attrs |-> stack[n].attrs,
                   parts |-> stack[n].parts \o parts, own |-> stack[n].own]
  <2>1. \A i \in DOMAIN stack : stack[i] = [tag |-> stack[i].tag, attrs |-> stack[i].attrs,
                                            parts |-> stack[i].parts, own |-> stack[i].own]
    BY <1>0, Zenon DEF NodeShape
  <2>2. QED
    BY <1>0, <2>1, GrownIs
<1>2. IsSeq(<<>>) /\ IsSeq(<<text>>)
  BY SeqEmpty, SeqOne
<1>3. /\ Shaped(one, A) /\ Len(one) = n /\ DOMAIN stack = 1 .. n
      /\ \A i \in DOMAIN stack : i # n => one[i] = stack[i]
      /\ one[n] = Fuller(stack[n], parts, <<>>)
  BY <1>2, AbsorbedIs DEF IsAbsorbed
<1>4. /\ Shaped(two, A) /\ Len(two) = n
      /\ \A i \in DOMAIN stack : i # n => two[i] = stack[i]
      /\ two[n] = Fuller(stack[n], parts, <<text>>)
  <2>1. IsAbsorbed(two, stack, parts, <<text>>, A)
    BY <1>2, AbsorbedIs
  <2>2. QED
    BY <2>1 DEF IsAbsorbed
<1> HIDE DEF new, one, two, n
<1>5. stack[n].own \o <<>> = stack[n].own /\ Append(stack[n].own, text) = stack[n].own \o <<text>>
  BY <1>0, <1>1, SeqNone, SeqLast DEF NodeShape
<1>6. new = one
  <2>1. new[n] = one[n]
    BY <1>1, <1>3, <1>5, Zenon DEF Fuller
  <2>2. \A i \in 1 .. n : new[i] = one[i]
    BY <1>1, <1>3, <2>1
  <2>3. QED
    BY <1>1, <1>3, <2>2, SeqSame DEF Shaped
<1>7. told = two
  <2>1. n \in DOMAIN new /\ IsSeq(new)
    BY <1>1
  <2>2. \A i \in DOMAIN new : new[i] = [tag |-> new[i].tag, attrs |-> new[i].attrs,
                                        parts |-> new[i].parts, own |-> new[i].own]
    <3>1. Shaped(new, A)
      BY <1>3, <1>6
    <3>2. QED
      BY <3>1, Zenon DEF Shaped, NodeShape
  <2>3. /\ IsSeq(told) /\ Len(told) = Len(new) /\ DOMAIN told = DOMAIN new
        /\ \A i \in DOMAIN new : i # n => told[i] = new[i]
        /\ told[n] = [tag |-> new[n].tag, attrs |-> new[n].attrs,
                      parts |-> new[n].parts, own |-> Append(new[n].own, text)]
    BY <2>1, <2>2, TextIs
  <2> HIDE DEF told
  <2>4. /\ new[n].tag = stack[n].tag /\ new[n].attrs = stack[n].attrs
        /\ new[n].parts = stack[n].parts \o parts /\ new[n].own = stack[n].own
    BY <1>1
  <2>5. told[n] = two[n]
    BY <1>4, <1>5, <2>3, <2>4, Zenon DEF Fuller
  <2>6. \A i \in 1 .. n : told[i] = two[i]
    BY <1>1, <1>3, <1>4, <2>3, <2>5
  <2>7. QED
    BY <1>1, <1>4, <2>3, <2>6, SeqSame DEF Shaped
<1>8. QED
  BY <1>6, <1>7 DEF told, new, one, two, n

\* A step as a change of the stack: an element is opened, closed, or takes in
\* what is passed on.
Steps(new, stack, t, spec, g) ==
  /\ t.ev = "start" => new = Append(stack, Node(t))
  /\ t.ev = "end" /\ Len(stack) = 1 => new = stack
  /\ t.ev = "end" /\ Len(stack) > 1
       => new = Absorbed(Front(stack), EmbedRender(Last(stack), Lower(t.name), spec, g), <<>>)
  /\ t.ev = "data" => new = Absorbed(stack, <<t>>, <<t.name>>)
  /\ t.ev \notin {"start", "end", "data"} => new = Absorbed(stack, <<t>>, <<>>)

\* The stack under the top.
LEMMA FrontShaped ==
  ASSUME NEW A, NEW stack, Shaped(stack, A), Len(stack) > 1
  PROVE  Shaped(Front(stack), A) /\ NodeShape(Last(stack), A)
<1> DEFINE new == Front(stack)
           n == Len(stack)
<1>1. IsSeq(stack) /\ n \in Nat
  BY SeqLen DEF Shaped
<1>2. /\ IsSeq(new) /\ Len(new) = n - 1 /\ DOMAIN new = 1 .. n - 1
      /\ \A i \in 1 .. n - 1 : new[i] = stack[i] /\ i \in DOMAIN stack
      /\ n \in DOMAIN stack
  BY <1>1, FrontIs
<1> HIDE DEF new, n
<1>3. n - 1 > 0
  BY <1>1 DEF n
<1>4. \A i \in DOMAIN new : NodeShape(new[i], A)
  BY <1>2 DEF Shaped
<1>5. Last(stack) = stack[n]
  BY DEF Last, n
<1>6. NodeShape(stack[n], A)
  BY <1>2 DEF Shaped
<1>7. QED
  BY <1>2, <1>3, <1>4, <1>5, <1>6 DEF Shaped, new

\* The sequences an element is written as.
LEMMA RenderSeq ==
  ASSUME NEW e, NEW parts, IsSeq(parts), NEW f
  PROVE  IsSeq(<<e>> \o parts) /\ IsSeq(<<e>> \o parts \o <<f>>)
<1>1. IsSeq(<<e>>) /\ IsSeq(<<f>>)
  BY SeqOne
<1>2. IsSeq(<<e>> \o parts)
  BY <1>1, SeqPlus
<1>3. QED
  BY <1>1, <1>2, SeqPlus

\* The cases of a step of embed.
LEMMA EmbedStackSteps ==
  ASSUME NEW A, NEW stack, Shaped(stack, A), NEW t, NEW spec, NEW g
  PROVE  Steps(EmbedStack(stack, t, spec, g), stack, t, spec, g)
<1> DEFINE new == EmbedStack(stack, t, spec, g)
           render == EmbedRender(Last(stack), Lower(t.name), spec, g)
<1>1. IsSeq(<<t>>)
  BY SeqOne
<1>2. /\ Grown(stack, <<t>>) = Absorbed(stack, <<t>>, <<>>)
      /\ [Grown(stack, <<t>>) EXCEPT ![Len(stack)].own = Append(@, t.name)]
           = Absorbed(stack, <<t>>, <<t.name>>)
  BY <1>1, GrownAbsorbs
<1>3. ASSUME Len(stack) > 1 PROVE Grown(Front(stack), render) = Absorbed(Front(stack), render, <<>>)
  <2>1. Shaped(Front(stack), A) /\ NodeShape(Last(stack), A)
    BY <1>3, FrontShaped
  <2>2. IsSeq(render)
    BY <2>1, RenderSeq DEF NodeShape, EmbedRender
  <2> HIDE DEF render
  <2>3. QED
    BY <2>1, <2>2, GrownAbsorbs
<1>4. CASE t.ev = "start"
  BY <1>4 DEF Steps, EmbedStack
<1>5. CASE t.ev = "end"
  <2>1. Len(stack) > 1 => Len(stack) # 1
    BY OneIsLeast, Zenon
  <2>2. CASE Len(stack) = 1
    <3>1. ~(Len(stack) > 1)
      BY <2>2, OneIsLeast, Zenon
    <3>2. QED
      BY <1>5, <2>2, <3>1 DEF Steps, EmbedStack
  <2>3. CASE Len(stack) # 1
    <3>1. new = Grown(Front(stack), render)
      BY <1>5, <2>3 DEF EmbedStack
    <3>2. QED
      BY <1>3, <1>5, <2>3, <3>1 DEF Steps
  <2>4. QED
    BY <2>2, <2>3
<1>6. CASE t.ev = "data"
  <2>1. new = [Grown(stack, <<t>>) EXCEPT ![Len(stack)].own = Append(@, t.name)]
    BY <1>6 DEF EmbedStack
  <2>2. QED
    BY <1>2, <1>6, <2>1 DEF Steps
<1>7. CASE t.ev \notin {"start", "end", "data"}
  <2>1. new = Grown(stack, <<t>>)
    BY <1>7 DEF EmbedStack
  <2>2. QED
    BY <1>2, <1>7, <2>1 DEF Steps
<1>8. QED
  BY <1>4, <1>5, <1>6, <1>7

\* An element that has just been opened has the shape.
LEMMA NodeShaped ==
  ASSUME NEW A, NEW t, t.attrs \in A
  PROVE  NodeShape(Node(t), A) /\ Node(t).parts = <<>> /\ Node(t).own = <<>>
         /\ Node(t).tag = Lower(t.name) /\ Node(t).attrs = t.attrs
<1>1. IsSeq(<<>>) /\ Lower(Lower(t.name)) = Lower(t.name)
  BY SeqEmpty, TagNames
<1>2. QED
  BY <1>1 DEF Node, NodeShape

\* It goes on top of a stack of that shape.
LEMMA PushShaped ==
  ASSUME NEW A, NEW stack, Shaped(stack, A), NEW t, t.attrs \in A
  PROVE  LET new == Append(stack, Node(t))
             n == Len(stack)
         IN /\ Shaped(new, A) /\ Len(new) = n + 1 /\ n \in Nat /\ n > 0
            /\ DOMAIN stack = 1 .. n /\ DOMAIN new = 1 .. n + 1
            /\ \A i \in 1 .. n : new[i] = stack[i]
            /\ new[n + 1] = Node(t)
<1> DEFINE node == Node(t)
           n == Len(stack)
           new == Append(stack, node)
<1>1. NodeShape(node, A)
  BY NodeShaped
<1> HIDE DEF node
<1>2. /\ IsSeq(new) /\ Len(new) = n + 1
      /\ \A i \in 1 .. n : new[i] = stack[i]
      /\ new[n + 1] = node
  BY SeqAppend DEF Shaped
<1>3. n \in Nat /\ DOMAIN stack = 1 .. n /\ n > 0
  BY SeqLen DEF Shaped
<1>4. DOMAIN new = 1 .. n + 1
  BY <1>2, SeqLen
<1> HIDE DEF n, new
<1>5. \A i \in 1 .. n + 1 : i \in 1 .. n \/ i = n + 1
  BY <1>3
<1>6. \A i \in DOMAIN new : NodeShape(new[i], A)
  BY <1>1, <1>2, <1>3, <1>4, <1>5 DEF Shaped
<1>7. n + 1 > 0
  BY <1>3
<1>8. QED
  BY <1>2, <1>3, <1>4, <1>6, <1>7 DEF Shaped, new, n, node

\* A step of embed keeps the shape of the stack.
LEMMA StepShaped ==
  ASSUME NEW A, NEW stack, Shaped(stack, A), NEW t, t.attrs \in A, NEW spec, NEW g
  PROVE  Shaped(EmbedStack(stack, t, spec, g), A)
<1> DEFINE new == EmbedStack(stack, t, spec, g)
<1>1. Steps(new, stack, t, spec, g)
  BY EmbedStackSteps
<1> HIDE DEF new
<1>2. IsSeq(<<t>>) /\ IsSeq(<<t.name>>) /\ IsSeq(<<>>)
  BY SeqOne, SeqEmpty
<1>3. CASE t.ev = "start"
  <2>1. new = Append(stack, Node(t))
    BY <1>1, <1>3 DEF Steps
  <2>2. QED
    BY <2>1, PushShaped DEF new
<1>4. CASE t.ev = "end" /\ Len(stack) = 1
  BY <1>1, <1>4 DEF Steps, new
<1>5. CASE t.ev = "end" /\ Len(stack) > 1
  <2> DEFINE render == EmbedRender(Last(stack), Lower(t.name), spec, g)
  <2>1. Shaped(Front(stack), A) /\ NodeShape(Last(stack), A)
    BY <1>5, FrontShaped
  <2>2. IsSeq(render)
    BY <2>1, RenderSeq DEF NodeShape, EmbedRender
  <2>3. new = Absorbed(Front(stack), render, <<>>)
    BY <1>1, <1>5 DEF Steps
  <2> HIDE DEF render
  <2>4. IsAbsorbed(new, Front(stack), render, <<>>, A)
    BY <1>2, <2>1, <2>2, <2>3, AbsorbedIs
  <2>5. QED
    BY <2>4 DEF IsAbsorbed, new
<1>6. CASE t.ev = "data"
  <2>1. new = Absorbed(stack, <<t>>, <<t.name>>)
    BY <1>1, <1>6 DEF Steps
  <2>2. IsAbsorbed(new, stack, <<t>>, <<t.name>>, A)
    BY <1>2, <2>1, AbsorbedIs
  <2>3. QED
    BY <2>2 DEF IsAbsorbed, new
<1>7. CASE t.ev \notin {"start", "end", "data"}
  <2>1. new = Absorbed(stack, <<t>>, <<>>)
    BY <1>1, <1>7 DEF Steps
  <2>2. IsAbsorbed(new, stack, <<t>>, <<>>, A)
    BY <1>2, <2>1, AbsorbedIs
  <2>3. QED
    BY <2>2 DEF IsAbsorbed, new
<1>8. Len(stack) = 1 \/ Len(stack) > 1
  <2>1. Len(stack) \in Nat /\ Len(stack) > 0
    BY SeqLen DEF Shaped
  <2>2. \A m \in Nat : m > 0 => m = 1 \/ m > 1
    OBVIOUS
  <2>3. QED
    BY <2>1, <2>2, Zenon
<1>9. QED
  BY <1>3, <1>4, <1>5, <1>6, <1>7, <1>8

\* The stack embed begins with has the shape.
LEMMA RootShaped == ASSUME NEW A, <<>> \in A PROVE Shaped(Root, A) /\ Len(Root) = 1
<1> DEFINE t == Open("", <<>>)
           node == Node(t)
<1>1. t.attrs = <<>>
  BY DEF Open
<1>2. NodeShape(node, A)
  BY <1>1, NodeShaped
<1> HIDE DEF node
<1>3. IsSeq(<<node>>) /\ Len(<<node>>) = 1 /\ <<node>>[1] = node /\ DOMAIN <<node>> = {1}
  BY SeqOne
<1>4. Root = <<node>>
  BY DEF Root, node
<1>5. \A i \in DOMAIN <<node>> : NodeShape(<<node>>[i], A)
  BY <1>2, <1>3
<1>6. QED
  BY <1>3, <1>4, <1>5 DEF Shaped

\* The state of a reading that has embedded nothing yet.
Quiet(stack, spec, g) == [stack |-> stack, changed |-> FALSE, spec |-> spec, id |-> g]
Overlooks(stack, t, spec, g) == t.ev = "end" /\ Len(stack) > 1 /\ Misses(Last(stack), spec, g)

\* A step that overlooks no element changes nothing.
LEMMA QuietStep ==
  ASSUME NEW stack, NEW t, NEW spec, NEW g, ~Overlooks(stack, t, spec, g)
  PROVE  EmbedStep(Quiet(stack, spec, g), t) = Quiet(EmbedStack(stack, t, spec, g), spec, g)
<1> DEFINE s == Quiet(stack, spec, g)
           new == EmbedStep(s, t)
<1>1. EmbedState(s, spec, g) /\ s.stack = stack /\ s.changed = FALSE
  BY DEF Quiet, EmbedState
<1> HIDE DEF s, new
<1>2. /\ EmbedState(new, spec, g) /\ new.stack = EmbedStack(s.stack, t, spec, g)
      /\ new.changed = (s.changed \/ (t.ev = "end" /\ Len(s.stack) > 1
                                        /\ Misses(Last(s.stack), spec, g)))
  BY <1>1, EmbedStepIs DEF new
<1>3. new.changed = FALSE
  BY <1>1, <1>2, Zenon DEF Overlooks
<1>4. new = Quiet(EmbedStack(stack, t, spec, g), spec, g)
  BY <1>1, <1>2, <1>3, Zenon DEF EmbedState, Quiet
<1>5. QED
  BY <1>4 DEF new, s

\* Parts in which every element that the selector describes names the region:
\* read again, they come out as they are.
Settles(parts, words, spec, g) ==
  /\ IsSeq(parts) /\ IsSeq(words)
  /\ \A A, stack : Shaped(stack, A) =>
       FoldLeft(EmbedStep, Quiet(stack, spec, g), parts) = Quiet(Absorbed(stack, parts, words), spec, g)

\* Nothing settles.
LEMMA SettlesNothing == ASSUME NEW spec, NEW g PROVE Settles(<<>>, <<>>, spec, g)
<1>1. IsSeq(<<>>)
  BY SeqEmpty
<1>2. ASSUME NEW A, NEW stack, Shaped(stack, A)
      PROVE  FoldLeft(EmbedStep, Quiet(stack, spec, g), <<>>) = Quiet(Absorbed(stack, <<>>, <<>>), spec, g)
  <2>1. Absorbed(stack, <<>>, <<>>) = stack
    BY <1>2, AbsorbedNone
  <2>2. FoldLeft(EmbedStep, Quiet(stack, spec, g), <<>>) = Quiet(stack, spec, g)
    BY EmbedNothing
  <2>3. QED
    BY <2>1, <2>2
<1>3. QED
  BY <1>1, <1>2, Zenon DEF Settles

\* Parts that settle, one after the other, settle.
LEMMA SettlesPlus ==
  ASSUME NEW spec, NEW g, NEW p, NEW a, Settles(p, a, spec, g), NEW q, NEW b, Settles(q, b, spec, g)
  PROVE  Settles(p \o q, a \o b, spec, g)
<1>1. IsSeq(p) /\ IsSeq(a) /\ IsSeq(q) /\ IsSeq(b)
  BY Zenon DEF Settles
<1>2. IsSeq(p \o q) /\ IsSeq(a \o b)
  BY <1>1, SeqPlus
<1>3. ASSUME NEW A, NEW stack, Shaped(stack, A)
      PROVE  FoldLeft(EmbedStep, Quiet(stack, spec, g), p \o q)
               = Quiet(Absorbed(stack, p \o q, a \o b), spec, g)
  <2> DEFINE s == Quiet(stack, spec, g)
             one == Absorbed(stack, p, a)
  <2>1. FoldLeft(EmbedStep, s, p \o q) = FoldLeft(EmbedStep, FoldLeft(EmbedStep, s, p), q)
    BY <1>1, EmbedPlus
  <2>2. FoldLeft(EmbedStep, s, p) = Quiet(one, spec, g)
    BY <1>3, Zenon DEF Settles
  <2>3. Shaped(one, A)
    BY <1>1, <1>3, AbsorbedIs DEF IsAbsorbed
  <2>4. FoldLeft(EmbedStep, Quiet(one, spec, g), q) = Quiet(Absorbed(one, q, b), spec, g)
    BY <2>3, Zenon DEF Settles
  <2>5. Absorbed(one, q, b) = Absorbed(stack, p \o q, a \o b)
    BY <1>1, <1>3, AbsorbedTwice
  <2> HIDE DEF s, one
  <2>6. FoldLeft(EmbedStep, s, p \o q) = Quiet(Absorbed(stack, p \o q, a \o b), spec, g)
    BY <2>1, <2>2, <2>4, <2>5, Zenon
  <2>7. QED
    BY <2>6 DEF s
<1>4. QED
  BY <1>2, <1>3, Zenon DEF Settles

\* What is passed on.
LEMMA SettlesPassed ==
  ASSUME NEW spec, NEW g, NEW t
  PROVE  /\ t.ev = "data" => Settles(<<t>>, <<t.name>>, spec, g)
         /\ t.ev \notin {"start", "end", "data"} => Settles(<<t>>, <<>>, spec, g)
<1>1. IsSeq(<<t>>) /\ IsSeq(<<t.name>>) /\ IsSeq(<<>>)
  BY SeqOne, SeqEmpty
<1>2. ASSUME t.ev # "end", NEW A, NEW stack, Shaped(stack, A)
      PROVE  /\ FoldLeft(EmbedStep, Quiet(stack, spec, g), <<t>>)
                  = Quiet(EmbedStack(stack, t, spec, g), spec, g)
             /\ Steps(EmbedStack(stack, t, spec, g), stack, t, spec, g)
  <2>1. ~Overlooks(stack, t, spec, g)
    BY <1>2 DEF Overlooks
  <2>2. EmbedStep(Quiet(stack, spec, g), t) = Quiet(EmbedStack(stack, t, spec, g), spec, g)
    BY <2>1, QuietStep
  <2>3. FoldLeft(EmbedStep, Quiet(stack, spec, g), <<t>>) = EmbedStep(Quiet(stack, spec, g), t)
    BY EmbedOne
  <2>4. QED
    BY <1>2, <2>2, <2>3, EmbedStackSteps
<1>3. CASE t.ev = "data"
  <2>1. ASSUME NEW A, NEW stack, Shaped(stack, A)
        PROVE  FoldLeft(EmbedStep, Quiet(stack, spec, g), <<t>>)
                 = Quiet(Absorbed(stack, <<t>>, <<t.name>>), spec, g)
    <3>1. EmbedStack(stack, t, spec, g) = Absorbed(stack, <<t>>, <<t.name>>)
      BY <1>2, <1>3, <2>1 DEF Steps
    <3>2. FoldLeft(EmbedStep, Quiet(stack, spec, g), <<t>>)
            = Quiet(EmbedStack(stack, t, spec, g), spec, g)
      BY <1>2, <1>3, <2>1
    <3>3. QED
      BY <3>1, <3>2
  <2>2. Settles(<<t>>, <<t.name>>, spec, g)
    BY <1>1, <2>1, Zenon DEF Settles
  <2>3. QED
    BY <1>3, <2>2
<1>4. CASE t.ev \notin {"start", "end", "data"}
  <2>1. ASSUME NEW A, NEW stack, Shaped(stack, A)
        PROVE  FoldLeft(EmbedStep, Quiet(stack, spec, g), <<t>>)
                 = Quiet(Absorbed(stack, <<t>>, <<>>), spec, g)
    <3>1. EmbedStack(stack, t, spec, g) = Absorbed(stack, <<t>>, <<>>)
      BY <1>2, <1>4, <2>1 DEF Steps
    <3>2. FoldLeft(EmbedStep, Quiet(stack, spec, g), <<t>>)
            = Quiet(EmbedStack(stack, t, spec, g), spec, g)
      BY <1>2, <1>4, <2>1
    <3>3. QED
      BY <3>1, <3>2
  <2>2. Settles(<<t>>, <<>>, spec, g)
    BY <1>1, <2>1, Zenon DEF Settles
  <2>3. QED
    BY <1>4, <2>2
<1>5. QED
  BY <1>3, <1>4

\* Elements with attributes of a set have attributes of a larger one.
LEMMA ShapedMore ==
  ASSUME NEW A, NEW B, A \subseteq B, NEW stack, Shaped(stack, A)
  PROVE  Shaped(stack, B)
BY DEF Shaped, NodeShape

\* An element is opened and closed again.
OnTop(top, stack, e, parts, words) ==
  /\ Len(top) > 1 /\ Front(top) = stack
  /\ Last(top) = [tag |-> Lower(e.name), attrs |-> e.attrs, parts |-> parts, own |-> words]

\* An element that is opened and has taken its parts in is on top.
LEMMA PushPop ==
  ASSUME NEW A, NEW stack, Shaped(stack, A), NEW e, e.attrs \in A, NEW parts, IsSeq(parts),
         NEW words, IsSeq(words)
  PROVE  OnTop(Absorbed(Append(stack, Node(e)), parts, words), stack, e, parts, words)
<1> DEFINE node == Node(e)
           one == Append(stack, node)
           top == Absorbed(one, parts, words)
           n == Len(stack)
<1>1. /\ Shaped(one, A) /\ Len(one) = n + 1 /\ n \in Nat /\ n > 0
      /\ DOMAIN stack = 1 .. n /\ DOMAIN one = 1 .. n + 1
      /\ \A i \in 1 .. n : one[i] = stack[i]
      /\ one[n + 1] = node
  BY PushShaped
<1>2. node.parts = <<>> /\ node.own = <<>> /\ node.tag = Lower(e.name) /\ node.attrs = e.attrs
  BY NodeShaped
<1> HIDE DEF node, one
<1>3. IsAbsorbed(top, one, parts, words, A)
  BY <1>1, AbsorbedIs
<1> HIDE DEF top
<1>4. /\ Shaped(top, A) /\ IsSeq(top) /\ Len(top) = n + 1
      /\ \A i \in 1 .. n + 1 : i # n + 1 => top[i] = one[i]
      /\ top[n + 1] = Fuller(node, parts, words)
  BY <1>1, <1>3 DEF IsAbsorbed
<1>5. Len(top) > 1
  <2> HIDE DEF n
  <2>1. QED
    BY <1>1, <1>4
<1>6. /\ IsSeq(Front(top)) /\ Len(Front(top)) = Len(top) - 1
      /\ \A i \in 1 .. Len(top) - 1 : Front(top)[i] = top[i]
  BY <1>4, <1>5, FrontIs
<1>7. Front(top) = stack
  <2>1. IsSeq(stack) /\ Len(stack) = n
    BY DEF Shaped
  <2> HIDE DEF n
  <2>2. Len(Front(top)) = n /\ Len(top) - 1 = n
    BY <1>1, <1>4, <1>6
  <2>3. \A i \in 1 .. n : i \in 1 .. n + 1 /\ i # n + 1
    BY <1>1
  <2>4. \A i \in 1 .. n : Front(top)[i] = stack[i]
    BY <1>1, <1>4, <1>6, <2>2, <2>3
  <2>5. QED
    BY <1>6, <2>1, <2>2, <2>4, SeqSame
<1>8. Last(top) = Fuller(node, parts, words)
  BY <1>4 DEF Last
<1>9. <<>> \o parts = parts /\ <<>> \o words = words
  BY SeqNone
<1>10. Fuller(node, parts, words)
         = [tag |-> Lower(e.name), attrs |-> e.attrs, parts |-> parts, own |-> words]
  BY <1>2, <1>9, Zenon DEF Fuller
<1>11. QED
  BY <1>5, <1>7, <1>8, <1>10 DEF OnTop, top, one, node

\* An element whose parts settle and that embed does not miss settles.
LEMMA SettlesElement ==
  ASSUME NEW spec, NEW g, NEW node,
         NEW B, NodeShape(node, B), Settles(node.parts, node.own, spec, g),
         ~Misses(node, spec, g), NEW closer, Lower(closer) = closer
  PROVE  Settles(<<Open(node.tag, node.attrs)>> \o node.parts \o <<Close(closer)>>, <<>>, spec, g)
<1> DEFINE open == Open(node.tag, node.attrs)
           close == Close(closer)
           p == node.parts
           all == <<open>> \o p \o <<close>>
<1>1. IsSeq(p) /\ IsSeq(node.own) /\ IsSeq(<<>>) /\ IsSeq(<<open>>) /\ IsSeq(<<close>>)
  BY SeqEmpty, SeqOne, Zenon DEF Settles
<1>2. IsSeq(<<open>> \o p) /\ IsSeq(all)
  BY <1>1, RenderSeq
<1>3. open.ev = "start" /\ open.name = node.tag /\ open.attrs = node.attrs
      /\ close.ev = "end" /\ close.name = closer
  BY DEF Open, Close
<1>4. EmbedRender(node, closer, spec, g) = all
  <2>1. EmbedAttrs(node, spec, g) = node.attrs
    BY DEF EmbedAttrs, Embedded, Misses
  <2>2. QED
    BY <2>1 DEF EmbedRender
<1> HIDE DEF open, close, all
<1>5. ASSUME NEW C, NEW stack, Shaped(stack, C)
      PROVE  FoldLeft(EmbedStep, Quiet(stack, spec, g), all) = Quiet(Absorbed(stack, all, <<>>), spec, g)
  <2> DEFINE A == C \cup {node.attrs}
             s == Quiet(stack, spec, g)
             one == Append(stack, Node(open))
             two == Absorbed(one, p, node.own)
  <2>1. Shaped(stack, A) /\ open.attrs \in A
    BY <1>3, <1>5, ShapedMore
  <2>2. FoldLeft(EmbedStep, s, all)
          = FoldLeft(EmbedStep, FoldLeft(EmbedStep, FoldLeft(EmbedStep, s, <<open>>), p), <<close>>)
    <3>1. FoldLeft(EmbedStep, s, <<open>> \o p) = FoldLeft(EmbedStep, FoldLeft(EmbedStep, s, <<open>>), p)
      BY <1>1, EmbedPlus
    <3>2. FoldLeft(EmbedStep, s, all) = FoldLeft(EmbedStep, FoldLeft(EmbedStep, s, <<open>> \o p), <<close>>)
      <4> DEFINE front == <<open>> \o p
      <4>1. all = front \o <<close>> /\ IsSeq(front)
        BY <1>2 DEF all
      <4> HIDE DEF front
      <4>2. FoldLeft(EmbedStep, s, all) = FoldLeft(EmbedStep, FoldLeft(EmbedStep, s, front), <<close>>)
        BY <1>1, <4>1, EmbedPlus
      <4>3. QED
        BY <4>2 DEF front
    <3>3. QED
      BY <3>1, <3>2
  <2>3. FoldLeft(EmbedStep, s, <<open>>) = Quiet(one, spec, g)
    <3>1. FoldLeft(EmbedStep, s, <<open>>) = EmbedStep(s, open)
      BY EmbedOne
    <3>2. ~Overlooks(stack, open, spec, g)
      BY <1>3 DEF Overlooks
    <3>3. EmbedStep(s, open) = Quiet(EmbedStack(stack, open, spec, g), spec, g)
      BY <3>2, QuietStep
    <3>4. EmbedStack(stack, open, spec, g) = one
      BY <1>3 DEF EmbedStack
    <3>5. QED
      BY <3>1, <3>3, <3>4
  <2>4. Shaped(one, A)
    BY <2>1, PushShaped
  <2>5. FoldLeft(EmbedStep, Quiet(one, spec, g), p) = Quiet(two, spec, g)
    BY <2>4, Zenon DEF Settles
  <2>6. Shaped(two, A)
    BY <1>1, <2>4, AbsorbedIs DEF IsAbsorbed
  <2>7. /\ Len(two) > 1 /\ Front(two) = stack
        /\ Last(two) = [tag |-> Lower(open.name), attrs |-> open.attrs, parts |-> p, own |-> node.own]
    <3>1. OnTop(two, stack, open, p, node.own)
      BY <1>1, <2>1, PushPop
    <3>2. QED
      BY <3>1, Zenon DEF OnTop
  <2>8. Last(two) = node
    BY <1>3, <2>7, Zenon DEF NodeShape
  <2> HIDE DEF two, one, s, A
  <2>9. ~Overlooks(two, close, spec, g)
    BY <2>8 DEF Overlooks
  <2>10. FoldLeft(EmbedStep, Quiet(two, spec, g), <<close>>)
           = Quiet(EmbedStack(two, close, spec, g), spec, g)
    <3>1. EmbedStep(Quiet(two, spec, g), close) = Quiet(EmbedStack(two, close, spec, g), spec, g)
      BY <2>9, QuietStep
    <3>2. QED
      BY <3>1, EmbedOne
  <2>11. EmbedStack(two, close, spec, g)
           = Absorbed(Front(two), EmbedRender(Last(two), Lower(close.name), spec, g), <<>>)
    <3>1. Steps(EmbedStack(two, close, spec, g), two, close, spec, g)
      BY <2>6, EmbedStackSteps
    <3>2. QED
      BY <1>3, <2>7, <3>1, Zenon DEF Steps
  <2>12. EmbedStack(two, close, spec, g) = Absorbed(stack, all, <<>>)
    BY <1>3, <1>4, <2>7, <2>8, <2>11, Zenon
  <2>13. FoldLeft(EmbedStep, s, all) = Quiet(Absorbed(stack, all, <<>>), spec, g)
    BY <2>2, <2>3, <2>5, <2>10, <2>12, Zenon
  <2>14. QED
    BY <2>13 DEF s
<1>6. Settles(all, <<>>, spec, g)
  BY <1>1, <1>2, <1>5, Zenon DEF Settles
<1>7. QED
  BY <1>6 DEF all, open, close

\* Embedding an id leaves the other attributes and the other ids alone.
LEMMA EmbeddedKeeps ==
  ASSUME NEW attrs, IsAttrs(attrs), NEW g
  PROVE  /\ \A key, default : key # "data-graph-id" =>
              Get(Embedded(attrs, g), key, default) = Get(attrs, key, default)
         /\ g \in ToSet(Get(Embedded(attrs, g), "data-graph-id", <<>>))
         /\ ToSet(Get(attrs, "data-graph-id", <<>>))
              \subseteq ToSet(Get(Embedded(attrs, g), "data-graph-id", <<>>))
<1> DEFINE ids == Get(attrs, "data-graph-id", <<>>)
           new == Embedded(attrs, g)
<1>1. CASE g \in ToSet(ids)
  <2>1. new = attrs
    BY <1>1 DEF Embedded
  <2>2. QED
    BY <1>1, <2>1
<1>2. CASE g \notin ToSet(ids)
  <2> DEFINE value == Append(ids, g)
             pair == <<"data-graph-id", value>>
  <2>1. new = Put(attrs, "data-graph-id", value)
    BY <1>2 DEF Embedded
  <2>2. IsSeq(ids)
    BY MayHave
  <2> HIDE DEF ids
  <2>3. IsSeq(value) /\ ToSet(value) = ToSet(ids) \cup {g}
    BY <1>2, <2>2, OneMore
  <2> HIDE DEF value
  <2>4. IsValue("data-graph-id", value)
    BY <2>3 DEF IsValue
  <2>5. IsAttrs(new) /\ ToSet(new) = {p \in ToSet(attrs) : p[1] # "data-graph-id"} \cup {pair}
    BY <2>1, <2>4, PutIs
  <2>6. pair[1] = "data-graph-id" /\ pair[2] = value /\ pair \in ToSet(new)
    BY <2>5
  <2> HIDE DEF new, pair
  <2>7. Get(new, pair[1], <<>>) = pair[2]
    BY <2>5, <2>6, GetIs
  <2>8. ASSUME NEW key, NEW default, key # "data-graph-id"
        PROVE  Get(new, key, default) = Get(attrs, key, default)
    <3>1. \A p : p[1] = key => (p \in ToSet(new) <=> p \in ToSet(attrs))
      BY <2>5, <2>6, <2>8
    <3>2. QED
      BY <2>5, <3>1, SamePairs
  <2>9. QED
    BY <2>3, <2>6, <2>7, <2>8 DEF new, ids
<1>3. QED
  BY <1>1, <1>2

\* An element as it is written again.
Rendered(node, spec, g) ==
  [tag |-> node.tag, attrs |-> EmbedAttrs(node, spec, g), parts |-> node.parts, own |-> node.own]

\* What embed has written matches nothing new, and names what it did.
LEMMA RenderedMatches ==
  ASSUME NEW node, IsAttrs(node.attrs), NEW spec, NEW g, NEW other
  PROVE  /\ Matches(Rendered(node, spec, g), other) => Matches(node, other)
         /\ ToSet(Get(node.attrs, "data-graph-id", <<>>))
              \subseteq ToSet(Get(Rendered(node, spec, g).attrs, "data-graph-id", <<>>))
         /\ ~Misses(Rendered(node, spec, g), spec, g)
<1> DEFINE new == Rendered(node, spec, g)
<1>1. new.tag = node.tag /\ new.own = node.own /\ new.attrs = EmbedAttrs(node, spec, g)
  BY DEF Rendered
<1> HIDE DEF new
<1>2. /\ \A key, default : key # "data-graph-id" =>
           Get(new.attrs, key, default) = Get(node.attrs, key, default)
      /\ ToSet(Get(node.attrs, "data-graph-id", <<>>))
           \subseteq ToSet(Get(new.attrs, "data-graph-id", <<>>))
      /\ Matches(node, spec) => g \in ToSet(Get(new.attrs, "data-graph-id", <<>>))
  <2>1. CASE Matches(node, spec)
    <3>1. new.attrs = Embedded(node.attrs, g)
      BY <1>1, <2>1 DEF EmbedAttrs
    <3>2. QED
      BY <3>1, EmbeddedKeeps
  <2>2. CASE ~Matches(node, spec)
    <3>1. new.attrs = node.attrs
      BY <1>1, <2>2 DEF EmbedAttrs
    <3>2. QED
      BY <2>2, <3>1
  <2>3. QED
    BY <2>1, <2>2
<1>3. /\ Get(new.attrs, "data-dpt", "") = Get(node.attrs, "data-dpt", "")
      /\ Get(new.attrs, "data-dpt-type", "") = Get(node.attrs, "data-dpt-type", "")
  <2>1. "data-dpt" # "data-graph-id" /\ "data-dpt-type" # "data-graph-id"
    OBVIOUS
  <2>2. QED
    BY <1>2, <2>1, Zenon
<1>4. \A x : Matches(new, x) => Matches(node, x)
  BY <1>1, <1>3, Zenon DEF Matches
<1>5. ~Misses(new, spec, g)
  BY <1>2, <1>4 DEF Misses
<1>6. QED
  BY <1>2, <1>4, <1>5 DEF new

-----------------------------------------------------------------------------
(* A stack whose elements all settle.                                       *)

\* Every element of the stack settles.
AllSettled(stack, spec, g) ==
  \A i \in DOMAIN stack : Settles(stack[i].parts, stack[i].own, spec, g)

\* A stack that settles takes in parts that settle.
LEMMA AbsorbedSettles ==
  ASSUME NEW A, NEW stack, Shaped(stack, A), NEW spec, NEW g, AllSettled(stack, spec, g),
         NEW p, NEW a, Settles(p, a, spec, g)
  PROVE  AllSettled(Absorbed(stack, p, a), spec, g)
<1> DEFINE new == Absorbed(stack, p, a)
           n == Len(stack)
<1>1. IsSeq(p) /\ IsSeq(a)
  BY Zenon DEF Settles
<1>2. IsAbsorbed(new, stack, p, a, A)
  BY <1>1, AbsorbedIs
<1> HIDE DEF new
<1>3. /\ DOMAIN new = DOMAIN stack /\ n \in DOMAIN stack
      /\ \A i \in DOMAIN stack : i # n => new[i] = stack[i]
      /\ new[n].parts = stack[n].parts \o p /\ new[n].own = stack[n].own \o a
  BY <1>2, Zenon DEF IsAbsorbed, IsFuller
<1> HIDE DEF n
<1>4. \A i \in DOMAIN stack : Settles(stack[i].parts, stack[i].own, spec, g)
  BY DEF AllSettled
<1>5. Settles(stack[n].parts \o p, stack[n].own \o a, spec, g)
  BY <1>3, <1>4, SettlesPlus
<1>6. \A i \in DOMAIN new : Settles(new[i].parts, new[i].own, spec, g)
  BY <1>3, <1>4, <1>5, Zenon
<1>7. QED
  BY <1>6 DEF AllSettled, new

\* A step of one embed leaves what another would read settled.
LEMMA SettledStep ==
  ASSUME NEW A, NEW stack, Shaped(stack, A), NEW t, t.attrs \in A, NEW spec, NEW g,
         NEW other, NEW h, AllSettled(stack, other, h),
         t.ev = "end" /\ Len(stack) > 1 => ~Misses(Rendered(Last(stack), spec, g), other, h)
  PROVE  AllSettled(EmbedStack(stack, t, spec, g), other, h)
<1> DEFINE new == EmbedStack(stack, t, spec, g)
           n == Len(stack)
<1>1. Steps(new, stack, t, spec, g)
  BY EmbedStackSteps
<1> HIDE DEF new
<1>2. CASE t.ev = "start"
  <2> DEFINE node == Node(t)
             one == Append(stack, node)
  <2>1. new = one
    BY <1>1, <1>2 DEF Steps
  <2>2. /\ n \in Nat /\ DOMAIN stack = 1 .. n /\ DOMAIN one = 1 .. n + 1
        /\ \A i \in 1 .. n : one[i] = stack[i]
        /\ one[n + 1] = node
    BY PushShaped
  <2>3. Settles(node.parts, node.own, other, h)
    BY NodeShaped, SettlesNothing
  <2> HIDE DEF node, one, n
  <2>4. \A i \in 1 .. n + 1 : i \in 1 .. n \/ i = n + 1
    BY <2>2
  <2>5. \A i \in 1 .. n : Settles(stack[i].parts, stack[i].own, other, h)
    BY <2>2 DEF AllSettled
  <2>6. \A i \in 1 .. n + 1 : Settles(one[i].parts, one[i].own, other, h)
    BY <2>2, <2>3, <2>4, <2>5, Zenon
  <2>7. QED
    BY <2>1, <2>2, <2>6 DEF AllSettled, new
<1>3. CASE t.ev = "end" /\ n = 1
  BY <1>1, <1>3 DEF Steps, new
<1>4. CASE t.ev = "end" /\ n > 1
  <2> DEFINE node == Last(stack)
             again == Rendered(node, spec, g)
             render == EmbedRender(node, Lower(t.name), spec, g)
             B == {again.attrs}
  <2>1. new = Absorbed(Front(stack), render, <<>>)
    BY <1>1, <1>4 DEF Steps
  <2>2. Shaped(Front(stack), A) /\ NodeShape(node, A)
    BY <1>4, FrontShaped
  <2>3. /\ DOMAIN Front(stack) = 1 .. n - 1
        /\ \A i \in 1 .. n - 1 : Front(stack)[i] = stack[i] /\ i \in DOMAIN stack
        /\ n \in DOMAIN stack
    BY <1>4, FrontIs DEF Shaped
  <2>4. AllSettled(Front(stack), other, h)
    BY <2>3 DEF AllSettled
  <2>5. node = stack[n]
    BY DEF Last
  <2> HIDE DEF node
  <2>6. Settles(node.parts, node.own, other, h)
    BY <2>3, <2>5 DEF AllSettled
  <2>7. again.tag = node.tag /\ again.parts = node.parts /\ again.own = node.own
        /\ again.attrs = EmbedAttrs(node, spec, g)
    BY DEF Rendered
  <2>8. NodeShape(again, B)
    BY <2>2, <2>7 DEF NodeShape, Rendered
  <2>9. render = <<Open(again.tag, again.attrs)>> \o again.parts \o <<Close(Lower(t.name))>>
    BY <2>7, Zenon DEF EmbedRender
  <2>10. ~Misses(again, other, h)
    BY <1>4 DEF node
  <2>11. Lower(Lower(t.name)) = Lower(t.name)
    BY TagNames
  <2> HIDE DEF again, render, B
  <2>12. Settles(again.parts, again.own, other, h)
    BY <2>6, <2>7
  <2>13. Settles(render, <<>>, other, h)
    BY <2>8, <2>9, <2>10, <2>11, <2>12, SettlesElement
  <2>14. QED
    BY <2>1, <2>2, <2>4, <2>13, AbsorbedSettles DEF new
<1>5. CASE t.ev = "data"
  <2>1. new = Absorbed(stack, <<t>>, <<t.name>>)
    BY <1>1, <1>5 DEF Steps
  <2>2. Settles(<<t>>, <<t.name>>, other, h)
    BY <1>5, SettlesPassed
  <2>3. QED
    BY <2>1, <2>2, AbsorbedSettles DEF new
<1>6. CASE t.ev \notin {"start", "end", "data"}
  <2>1. new = Absorbed(stack, <<t>>, <<>>)
    BY <1>1, <1>6 DEF Steps
  <2>2. Settles(<<t>>, <<>>, other, h)
    BY <1>6, SettlesPassed
  <2>3. QED
    BY <2>1, <2>2, AbsorbedSettles DEF new
<1>7. n = 1 \/ n > 1
  <2>1. n \in Nat /\ n > 0
    BY SeqLen DEF Shaped
  <2>2. \A m \in Nat : m > 0 => m = 1 \/ m > 1
    OBVIOUS
  <2>3. QED
    BY <2>1, <2>2, Zenon
<1>8. QED
  BY <1>2, <1>3, <1>4, <1>5, <1>6, <1>7

-----------------------------------------------------------------------------
(* Embedding twice.                                                         *)

\* The attributes that elements may have while a text is read.
AttrsOf(text) == {<<>>} \cup {text[i].attrs : i \in DOMAIN text}

\* The states that reading a text goes through.
Reads(c, text, spec, g) ==
  /\ c[0] = Quiet(Root, spec, g) /\ c[Len(text)] = EmbedParsed(text, spec, g)
  /\ \A i \in 0 .. Len(text) : EmbedState(c[i], spec, g) /\ Shaped(c[i].stack, AttrsOf(text))
  /\ \A i \in 1 .. Len(text) :
       /\ c[i].stack = EmbedStack(c[i - 1].stack, text[i], spec, g)
       /\ c[i].changed = (c[i - 1].changed \/ Overlooks(c[i - 1].stack, text[i], spec, g))

\* An embed that has changed nothing so far.
LEMMA QuietIs ==
  \A stack, spec, g : /\ EmbedState(Quiet(stack, spec, g), spec, g)
                      /\ Quiet(stack, spec, g).stack = stack
                      /\ Quiet(stack, spec, g).changed = FALSE
BY DEF Quiet, EmbedState

\* What embed has read and written, place by place.
LEMMA EmbedReads ==
  ASSUME NEW text, IsSeq(text), NEW spec, NEW g
  PROVE  \E c : Reads(c, text, spec, g)
<1> DEFINE n == Len(text)
           A == AttrsOf(text)
           base == Quiet(Root, spec, g)
           end == EmbedParsed(text, spec, g)
           Holds(s) == EmbedState(s, spec, g) /\ Shaped(s.stack, A)
<1>1. end = FoldLeft(EmbedStep, base, text)
  BY Zenon DEF EmbedParsed, Quiet
<1>2. EmbedState(base, spec, g) /\ base.stack = Root
  BY QuietIs
<1>3. <<>> \in A /\ \A i \in DOMAIN text : text[i].attrs \in A
  BY DEF AttrsOf
<1> HIDE DEF base, end, A
<1>4. PICK c : EmbedChain(c, base, text, end)
  BY <1>1, ChainEmbed
<1>5. /\ c[0] = base /\ c[n] = end
      /\ \A i \in 1 .. n : c[i] = EmbedStep(c[i - 1], text[i])
  BY <1>4, Zenon DEF EmbedChain
<1>6. n \in Nat /\ DOMAIN text = 1 .. n
  BY SeqLen
<1> HIDE DEF n
<1>7. ASSUME NEW i \in 1 .. n, Holds(c[i - 1])
      PROVE  /\ Holds(c[i]) /\ c[i].stack = EmbedStack(c[i - 1].stack, text[i], spec, g)
             /\ c[i].changed = (c[i - 1].changed \/ Overlooks(c[i - 1].stack, text[i], spec, g))
  <2> DEFINE s == c[i - 1]
             t == text[i]
             new == c[i]
  <2>1. new = EmbedStep(s, t)
    BY <1>5
  <2>2. EmbedState(s, spec, g) /\ Shaped(s.stack, A)
    BY <1>7
  <2>3. t.attrs \in A
    BY <1>3, <1>6
  <2> HIDE DEF s, t, new
  <2>4. /\ EmbedState(new, spec, g) /\ new.stack = EmbedStack(s.stack, t, spec, g)
        /\ new.changed = (s.changed \/ (t.ev = "end" /\ Len(s.stack) > 1
                                          /\ Misses(Last(s.stack), spec, g)))
    BY <2>1, <2>2, EmbedStepIs
  <2>5. Shaped(EmbedStack(s.stack, t, spec, g), A)
    <3> DEFINE stack == s.stack
    <3>1. Shaped(stack, A)
      BY <2>2
    <3> HIDE DEF stack
    <3>2. Shaped(EmbedStack(stack, t, spec, g), A)
      BY <2>3, <3>1, StepShaped
    <3>3. QED
      BY <3>2 DEF stack
  <2>6. Holds(new)
    BY <2>4, <2>5, Zenon
  <2>7. new.changed = (s.changed \/ Overlooks(s.stack, t, spec, g))
    BY <2>4, Zenon DEF Overlooks
  <2>8. QED
    BY <2>4, <2>6, <2>7, Zenon DEF new, s, t
<1> DEFINE P == {i \in Nat : i <= n => Holds(c[i])}
<1>8. 0 \in P
  <2>1. Shaped(Root, A)
    BY <1>3, RootShaped
  <2>2. Holds(c[0])
    BY <1>2, <1>5, <2>1, Zenon
  <2> HIDE DEF Holds
  <2>3. QED
    BY <2>2
<1>9. ASSUME NEW i \in Nat, i \in P PROVE i + 1 \in P
  <2> HIDE DEF Holds
  <2>0. i + 1 \in Nat
    OBVIOUS
  <2> SUFFICES ASSUME i + 1 <= n PROVE Holds(c[i + 1])
    BY <2>0, Zenon
  <2>1. i <= n /\ i + 1 \in 1 .. n /\ (i + 1) - 1 = i
    BY <1>6
  <2>2. Holds(c[(i + 1) - 1])
    BY <1>9, <2>1
  <2>3. QED
    BY <1>7, <2>1, <2>2
<1>10. ASSUME NEW i \in 0 .. n PROVE Holds(c[i])
  <2> HIDE DEF P, Holds
  <2>1. \A k \in Nat : k \in P
    BY <1>8, <1>9, Forward!Induction
  <2>2. i \in P /\ i <= n
    BY <1>6, <2>1
  <2>3. QED
    BY <2>2 DEF P
<1>11. \A i \in 1 .. n : i - 1 \in 0 .. n
  BY <1>6
<1>12. Reads(c, text, spec, g)
  <2> HIDE DEF Holds
  <2>1. \A i \in 1 .. n :
          /\ c[i].stack = EmbedStack(c[i - 1].stack, text[i], spec, g)
          /\ c[i].changed = (c[i - 1].changed \/ Overlooks(c[i - 1].stack, text[i], spec, g))
    BY <1>7, <1>10, <1>11
  <2>2. \A i \in 0 .. n : EmbedState(c[i], spec, g) /\ Shaped(c[i].stack, A)
    BY <1>10 DEF Holds
  <2>3. QED
    BY <1>5, <2>1, <2>2, Zenon DEF Reads, n, A, base, end
<1>13. QED
  BY <1>12

\* Nothing is embedded exactly when no element is missed.
LEMMA QuietReading ==
  ASSUME NEW text, IsSeq(text), NEW spec, NEW g, NEW c, Reads(c, text, spec, g)
  PROVE  ~EmbedChanges(text, spec, g)
           <=> \A i \in 1 .. Len(text) : ~Overlooks(c[i - 1].stack, text[i], spec, g)
<1> DEFINE n == Len(text)
           Miss(i) == Overlooks(c[i - 1].stack, text[i], spec, g)
<1>1. n \in Nat
  BY SeqLen
<1>2. c[0].changed = FALSE
  <2>1. c[0] = Quiet(Root, spec, g)
    BY Zenon DEF Reads
  <2>2. QED
    BY <2>1, QuietIs
<1>3. \A i \in 1 .. n : c[i].changed = (c[i - 1].changed \/ Miss(i))
  BY Zenon DEF Reads
<1>4. EmbedChanges(text, spec, g) = c[n].changed
  BY Zenon DEF Reads, EmbedChanges
<1> HIDE DEF n, Miss
<1> DEFINE P == {k \in Nat : k <= n => (c[k].changed <=> \E i \in 1 .. k : Miss(i))}
<1>5. 0 \in P
  <2>1. ~ \E i \in 1 .. 0 : Miss(i)
    OBVIOUS
  <2>2. QED
    BY <1>2, <2>1
<1>6. ASSUME NEW k \in Nat, k \in P PROVE k + 1 \in P
  <2>0. k + 1 \in Nat
    OBVIOUS
  <2> SUFFICES ASSUME k + 1 <= n PROVE c[k + 1].changed <=> \E i \in 1 .. k + 1 : Miss(i)
    BY <2>0, Zenon
  <2>1. k <= n /\ k + 1 \in 1 .. n /\ (k + 1) - 1 = k
    BY <1>1
  <2>2. c[k].changed <=> \E i \in 1 .. k : Miss(i)
    BY <1>6, <2>1
  <2>3. c[k + 1].changed = (c[k].changed \/ Miss(k + 1))
    BY <1>3, <2>1
  <2>4. \A i : i \in 1 .. k + 1 <=> (i \in 1 .. k \/ i = k + 1)
    OBVIOUS
  <2>5. QED
    BY <2>2, <2>3, <2>4, Zenon
<1> HIDE DEF P
<1>7. n \in P
  BY <1>1, <1>5, <1>6, Forward!Induction
<1>8. c[n].changed <=> \E i \in 1 .. n : Miss(i)
  <2>1. n <= n
    BY <1>1
  <2>2. QED
    BY <1>7, <2>1, Zenon DEF P
<1>9. QED
  BY <1>4, <1>8, Zenon DEF n, Miss

\* A reading whose elements, as they are written again, are not missed by
\* another selector: what it writes settles for that one.
LEMMA SettledReading ==
  ASSUME NEW text, IsSeq(text), NEW spec, NEW g, NEW c, Reads(c, text, spec, g), NEW other, NEW h,
         \A i \in 1 .. Len(text) : text[i].ev = "end" /\ Len(c[i - 1].stack) > 1
            => ~Misses(Rendered(Last(c[i - 1].stack), spec, g), other, h)
  PROVE  ~EmbedChanges(EmbedId(text, spec, g), other, h)
<1> DEFINE n == Len(text)
           A == AttrsOf(text)
           Holds(stack) == AllSettled(stack, other, h)
<1>1. n \in Nat /\ DOMAIN text = 1 .. n
  BY SeqLen
<1>2. \A i \in 1 .. n : text[i].attrs \in A
  BY <1>1 DEF AttrsOf
<1>3. /\ c[0] = Quiet(Root, spec, g) /\ c[n] = EmbedParsed(text, spec, g)
      /\ \A i \in 0 .. n : Shaped(c[i].stack, A)
      /\ \A i \in 1 .. n : c[i].stack = EmbedStack(c[i - 1].stack, text[i], spec, g)
  BY Zenon DEF Reads
<1>4. c[0].stack = Root
  BY <1>3, QuietIs
<1>a. \A i \in 1 .. n : text[i].ev = "end" /\ Len(c[i - 1].stack) > 1
            => ~Misses(Rendered(Last(c[i - 1].stack), spec, g), other, h)
  OBVIOUS
<1> HIDE DEF n, A
<1> DEFINE P == {i \in Nat : i <= n => Holds(c[i].stack)}
<1>5. 0 \in P
  <2> DEFINE t == Open("", <<>>)
             node == Node(t)
  <2>1. t.attrs \in {<<>>}
    BY DEF Open
  <2>2. node.parts = <<>> /\ node.own = <<>>
    BY DEF Node
  <2>3. Settles(node.parts, node.own, other, h)
    BY <2>2, SettlesNothing
  <2> HIDE DEF node
  <2>4. Root = <<node>> /\ DOMAIN <<node>> = {1} /\ <<node>>[1] = node
    BY SeqOne DEF Root, node
  <2>5. AllSettled(Root, other, h)
    BY <2>3, <2>4 DEF AllSettled
  <2>6. Holds(c[0].stack)
    BY <1>4, <2>5
  <2> HIDE DEF Holds
  <2>7. QED
    BY <2>6
<1>6. ASSUME NEW i \in Nat, i \in P PROVE i + 1 \in P
  <2> HIDE DEF Holds
  <2>0. i + 1 \in Nat
    OBVIOUS
  <2> SUFFICES ASSUME i + 1 <= n PROVE Holds(c[i + 1].stack)
    BY <2>0, Zenon
  <2>1. i <= n /\ i \in 0 .. n /\ i + 1 \in 1 .. n /\ (i + 1) - 1 = i
    BY <1>1
  <2>2. Holds(c[i].stack)
    BY <1>6, <2>1
  <2> DEFINE stack == c[i].stack
             t == text[i + 1]
  <2>3. Shaped(stack, A) /\ t.attrs \in A
    BY <1>2, <1>3, <2>1
  <2>4. AllSettled(stack, other, h)
    BY <2>2 DEF Holds
  <2>5. t.ev = "end" /\ Len(stack) > 1 => ~Misses(Rendered(Last(stack), spec, g), other, h)
    BY <1>a, <2>1
  <2>6. c[i + 1].stack = EmbedStack(stack, t, spec, g)
    BY <1>3, <2>1
  <2> HIDE DEF stack, t
  <2>7. AllSettled(EmbedStack(stack, t, spec, g), other, h)
    BY <2>3, <2>4, <2>5, SettledStep
  <2>8. QED
    BY <2>6, <2>7 DEF Holds
<1> HIDE DEF P, Holds
<1>7. n \in P
  BY <1>1, <1>5, <1>6, Forward!Induction
<1>8. Holds(c[n].stack)
  <2>1. n <= n
    BY <1>1
  <2>2. QED
    BY <1>7, <2>1, Zenon DEF P
<1> DEFINE stack == c[n].stack
           p == stack[1].parts
           a == stack[1].own
<1>9. n \in 0 .. n
  BY <1>1
<1>10. Shaped(stack, A) /\ EmbedId(text, spec, g) = p
  BY <1>3, <1>9 DEF EmbedId
<1> HIDE DEF stack
<1>11. 1 \in DOMAIN stack
  <2>1. Len(stack) > 0 /\ Len(stack) \in Nat /\ DOMAIN stack = 1 .. Len(stack)
    BY <1>10, SeqLen DEF Shaped
  <2>2. \A m \in Nat : m > 0 => 1 \in 1 .. m
    OBVIOUS
  <2>3. QED
    BY <2>1, <2>2, Zenon
<1>12. Settles(p, a, other, h)
  BY <1>8, <1>11 DEF Holds, AllSettled, stack
<1> HIDE DEF p, a
<1>13. <<>> \in {<<>>} /\ Shaped(Root, {<<>>})
  BY RootShaped
<1>14. FoldLeft(EmbedStep, Quiet(Root, other, h), p) = Quiet(Absorbed(Root, p, a), other, h)
  BY <1>12, <1>13, Zenon DEF Settles
<1>15. EmbedParsed(p, other, h) = Quiet(Absorbed(Root, p, a), other, h)
  BY <1>14, Zenon DEF EmbedParsed, Quiet
<1>16. EmbedChanges(p, other, h) = FALSE
  BY <1>15, QuietIs DEF EmbedChanges
<1>17. QED
  BY <1>10, <1>16 DEF p, stack

\* Stacks of the same elements: what is written of an element never decides
\* which element is described.
SameOpen(a, b) ==
  /\ Len(a) = Len(b) /\ DOMAIN a = DOMAIN b
  /\ \A i \in DOMAIN a : a[i].tag = b[i].tag /\ a[i].attrs = b[i].attrs /\ a[i].own = b[i].own

\* What the last element of alike stacks has in common.
LEMMA AlikeLast ==
  ASSUME NEW A, NEW a, Shaped(a, A), NEW b, Shaped(b, A), SameOpen(a, b), Len(a) > 1,
         NEW spec, NEW g
  PROVE  /\ Last(a).attrs = Last(b).attrs /\ Last(a).attrs \in A
         /\ (Matches(Last(a), spec) <=> Matches(Last(b), spec))
         /\ (Misses(Last(a), spec, g) <=> Misses(Last(b), spec, g))
<1> DEFINE x == Last(a)
           y == Last(b)
           n == Len(a)
<1>1. n \in Nat /\ n > 0 /\ DOMAIN a = 1 .. n
  BY SeqLen DEF Shaped
<1>2. x = a[n] /\ y = b[n]
  BY DEF Last, SameOpen
<1> HIDE DEF n, x, y
<1>3. n \in DOMAIN a
  BY <1>1
<1>4. x.tag = y.tag /\ x.attrs = y.attrs /\ x.own = y.own
  BY <1>2, <1>3 DEF SameOpen
<1>5. NodeShape(x, A)
  BY <1>2, <1>3 DEF Shaped
<1>6. Matches(x, spec) <=> Matches(y, spec)
  BY <1>4, Zenon DEF Matches
<1>7. Misses(x, spec, g) <=> Misses(y, spec, g)
  BY <1>4, <1>6, Zenon DEF Misses
<1>8. x.attrs \in A
  BY <1>5 DEF NodeShape
<1>9. QED
  BY <1>4, <1>6, <1>7, <1>8 DEF x, y

\* Stacks with the same open elements take the same text in.
LEMMA AlikeAbsorbed ==
  ASSUME NEW A, NEW a, Shaped(a, A), NEW b, Shaped(b, A), SameOpen(a, b),
         NEW p, IsSeq(p), NEW q, IsSeq(q), NEW own, IsSeq(own)
  PROVE  SameOpen(Absorbed(a, p, own), Absorbed(b, q, own))
<1> DEFINE x == Absorbed(a, p, own)
           y == Absorbed(b, q, own)
           n == Len(a)
<1>1. IsAbsorbed(x, a, p, own, A) /\ IsAbsorbed(y, b, q, own, A)
  BY AbsorbedIs
<1>2. Len(b) = n /\ DOMAIN a = DOMAIN b
  BY DEF SameOpen
<1> HIDE DEF x, y
<1>3. /\ Len(x) = n /\ DOMAIN x = DOMAIN a /\ \A i \in DOMAIN a : i # n => x[i] = a[i]
      /\ IsFuller(x[n], a[n], p, own, A) /\ n \in DOMAIN a
  BY <1>1 DEF IsAbsorbed
<1>4. /\ Len(y) = n /\ DOMAIN y = DOMAIN a /\ \A i \in DOMAIN a : i # n => y[i] = b[i]
      /\ IsFuller(y[n], b[n], q, own, A)
  BY <1>1, <1>2 DEF IsAbsorbed
<1> HIDE DEF n
<1>5. x[n].tag = y[n].tag /\ x[n].attrs = y[n].attrs /\ x[n].own = y[n].own
  BY <1>3, <1>4 DEF IsFuller, SameOpen
<1>6. \A i \in DOMAIN x : x[i].tag = y[i].tag /\ x[i].attrs = y[i].attrs /\ x[i].own = y[i].own
  BY <1>3, <1>4, <1>5 DEF SameOpen
<1>7. QED
  BY <1>3, <1>4, <1>6 DEF SameOpen, x, y

\* They stay the same when the element on top is taken off.
LEMMA AlikeFront ==
  ASSUME NEW A, NEW a, Shaped(a, A), NEW b, Shaped(b, A), SameOpen(a, b), Len(a) > 1
  PROVE  SameOpen(Front(a), Front(b))
<1> DEFINE x == Front(a)
           y == Front(b)
           n == Len(a)
<1>1. IsSeq(a) /\ IsSeq(b) /\ Len(b) = n
  BY DEF Shaped, SameOpen
<1>2. /\ Len(x) = n - 1 /\ DOMAIN x = 1 .. n - 1
      /\ \A i \in 1 .. n - 1 : x[i] = a[i] /\ i \in DOMAIN a
  BY <1>1, FrontIs
<1>3. Len(y) = n - 1 /\ DOMAIN y = 1 .. n - 1 /\ \A i \in 1 .. n - 1 : y[i] = b[i]
  <2>1. Len(b) > 1
    BY <1>1
  <2>2. QED
    BY <1>1, <2>1, FrontIs
<1> HIDE DEF x, y, n
<1>4. QED
  BY <1>2, <1>3 DEF SameOpen, x, y

\* Whatever two selectors describe and write, the same events open and close
\* the same elements.
LEMMA AlikeStep ==
  ASSUME NEW A, NEW a, Shaped(a, A), NEW b, Shaped(b, A), SameOpen(a, b), NEW t, t.attrs \in A,
         NEW spec, NEW g, NEW other, NEW h
  PROVE  SameOpen(EmbedStack(a, t, spec, g), EmbedStack(b, t, other, h))
<1> DEFINE x == EmbedStack(a, t, spec, g)
           y == EmbedStack(b, t, other, h)
           n == Len(a)
<1>1. Steps(x, a, t, spec, g) /\ Steps(y, b, t, other, h)
  BY EmbedStackSteps
<1> HIDE DEF x, y
<1>2. IsSeq(<<t>>) /\ IsSeq(<<t.name>>) /\ IsSeq(<<>>)
  BY SeqOne, SeqEmpty
<1>3. Len(b) = n /\ n \in Nat /\ n > 0 /\ DOMAIN a = 1 .. n /\ DOMAIN b = 1 .. n
  BY SeqLen DEF Shaped, SameOpen
<1> HIDE DEF n
<1>4. CASE t.ev = "start"
  <2> DEFINE node == Node(t)
             one == Append(a, node)
             two == Append(b, node)
  <2>1. x = one /\ y = two
    BY <1>1, <1>4 DEF Steps
  <2>2. /\ Len(one) = n + 1 /\ DOMAIN one = 1 .. n + 1 /\ one[n + 1] = node
        /\ \A i \in 1 .. n : one[i] = a[i]
    BY PushShaped DEF n
  <2>3. /\ Len(two) = n + 1 /\ DOMAIN two = 1 .. n + 1 /\ two[n + 1] = node
        /\ \A i \in 1 .. n : two[i] = b[i]
    BY <1>3, PushShaped
  <2> HIDE DEF node, one, two
  <2>4. \A i \in 1 .. n + 1 : i \in 1 .. n \/ i = n + 1
    BY <1>3
  <2>5. \A i \in 1 .. n : a[i].tag = b[i].tag /\ a[i].attrs = b[i].attrs /\ a[i].own = b[i].own
    BY <1>3 DEF SameOpen
  <2>6. \A i \in 1 .. n + 1 : /\ one[i].tag = two[i].tag /\ one[i].attrs = two[i].attrs
                              /\ one[i].own = two[i].own
    BY <2>2, <2>3, <2>4, <2>5
  <2>7. QED
    BY <2>1, <2>2, <2>3, <2>6 DEF SameOpen, x, y
<1>5. CASE t.ev = "end" /\ n = 1
  <2>1. x = a /\ y = b
    BY <1>1, <1>3, <1>5 DEF Steps, n
  <2>2. QED
    BY <2>1 DEF x, y
<1>6. CASE t.ev = "end" /\ n > 1
  <2> DEFINE p == EmbedRender(Last(a), Lower(t.name), spec, g)
             q == EmbedRender(Last(b), Lower(t.name), other, h)
  <2>1. x = Absorbed(Front(a), p, <<>>) /\ y = Absorbed(Front(b), q, <<>>)
    BY <1>1, <1>3, <1>6 DEF Steps, n
  <2>2. Shaped(Front(a), A) /\ NodeShape(Last(a), A) /\ Shaped(Front(b), A) /\ NodeShape(Last(b), A)
    BY <1>3, <1>6, FrontShaped DEF n
  <2>3. IsSeq(p) /\ IsSeq(q)
    BY <2>2, RenderSeq DEF NodeShape, EmbedRender
  <2>4. SameOpen(Front(a), Front(b))
    BY <1>6, AlikeFront DEF n
  <2> HIDE DEF p, q
  <2>5. SameOpen(Absorbed(Front(a), p, <<>>), Absorbed(Front(b), q, <<>>))
    BY <1>2, <2>2, <2>3, <2>4, AlikeAbsorbed
  <2>6. QED
    BY <2>1, <2>5 DEF x, y
<1>7. CASE t.ev = "data"
  <2>1. x = Absorbed(a, <<t>>, <<t.name>>) /\ y = Absorbed(b, <<t>>, <<t.name>>)
    BY <1>1, <1>7 DEF Steps
  <2>2. QED
    BY <1>2, <2>1, AlikeAbsorbed DEF x, y
<1>8. CASE t.ev \notin {"start", "end", "data"}
  <2>1. x = Absorbed(a, <<t>>, <<>>) /\ y = Absorbed(b, <<t>>, <<>>)
    BY <1>1, <1>8 DEF Steps
  <2>2. QED
    BY <1>2, <2>1, AlikeAbsorbed DEF x, y
<1>9. n = 1 \/ n > 1
  BY <1>3
<1>10. QED
  BY <1>4, <1>5, <1>6, <1>7, <1>8, <1>9

\* Two selectors read the same elements in the same order.
LEMMA AlikeReadings ==
  ASSUME NEW text, IsSeq(text), NEW spec, NEW g, NEW c, Reads(c, text, spec, g),
         NEW other, NEW h, NEW d, Reads(d, text, other, h)
  PROVE  \A i \in 0 .. Len(text) : SameOpen(c[i].stack, d[i].stack)
<1> DEFINE n == Len(text)
           A == AttrsOf(text)
<1>1. n \in Nat /\ DOMAIN text = 1 .. n
  BY SeqLen
<1>2. \A i \in 1 .. n : text[i].attrs \in A
  BY <1>1 DEF AttrsOf
<1>3. /\ c[0] = Quiet(Root, spec, g)
      /\ \A i \in 0 .. n : Shaped(c[i].stack, A)
      /\ \A i \in 1 .. n : c[i].stack = EmbedStack(c[i - 1].stack, text[i], spec, g)
  BY Zenon DEF Reads
<1>4. /\ d[0] = Quiet(Root, other, h)
      /\ \A i \in 0 .. n : Shaped(d[i].stack, A)
      /\ \A i \in 1 .. n : d[i].stack = EmbedStack(d[i - 1].stack, text[i], other, h)
  BY Zenon DEF Reads
<1> HIDE DEF n, A
<1> DEFINE P == {i \in Nat : i <= n => SameOpen(c[i].stack, d[i].stack)}
<1>5. 0 \in P
  <2>1. c[0].stack = Root /\ d[0].stack = Root
    BY <1>3, <1>4, QuietIs
  <2>2. SameOpen(Root, Root)
    BY DEF SameOpen
  <2>3. QED
    BY <2>1, <2>2
<1>6. ASSUME NEW i \in Nat, i \in P PROVE i + 1 \in P
  <2>0. i + 1 \in Nat
    OBVIOUS
  <2> SUFFICES ASSUME i + 1 <= n PROVE SameOpen(c[i + 1].stack, d[i + 1].stack)
    BY <2>0, Zenon
  <2>1. i <= n /\ i \in 0 .. n /\ i + 1 \in 1 .. n /\ (i + 1) - 1 = i
    BY <1>1
  <2> DEFINE a == c[i].stack
             b == d[i].stack
             t == text[i + 1]
  <2>2. SameOpen(a, b) /\ Shaped(a, A) /\ Shaped(b, A) /\ t.attrs \in A
    BY <1>2, <1>3, <1>4, <1>6, <2>1
  <2>3. /\ c[i + 1].stack = EmbedStack(a, t, spec, g)
        /\ d[i + 1].stack = EmbedStack(b, t, other, h)
    BY <1>3, <1>4, <2>1
  <2> HIDE DEF a, b, t
  <2>4. QED
    BY <2>2, <2>3, AlikeStep
<1>7. \A k \in Nat : k \in P
  <2> HIDE DEF P
  <2>1. QED
    BY <1>5, <1>6, Forward!Induction
<1>8. \A i \in 0 .. n : SameOpen(c[i].stack, d[i].stack)
  BY <1>1, <1>7
<1>9. QED
  BY <1>8 DEF n

\* The element that an end tag closes: it has attributes of the text.
LEMMA ClosedElement ==
  ASSUME NEW text, IsMarkup(text), NEW spec, NEW g, NEW c, Reads(c, text, spec, g),
         NEW i \in 1 .. Len(text), Len(c[i - 1].stack) > 1
  PROVE  LET node == Last(c[i - 1].stack)
         IN IsAttrs(node.attrs) /\ node.attrs \in AttrsOf(text)
<1> DEFINE A == AttrsOf(text)
           stack == c[i - 1].stack
           node == Last(stack)
           n == Len(text)
<1>1. IsSeq(text) /\ n \in Nat
  BY SeqLen DEF IsMarkup
<1> HIDE DEF n
<1>2. i - 1 \in 0 .. n
  BY <1>1 DEF n
<1>3. Shaped(stack, A)
  BY <1>2, Zenon DEF Reads, n
<1>4. NodeShape(node, A)
  <2> HIDE DEF stack
  <2>1. Len(stack) > 1
    BY DEF stack
  <2>2. QED
    BY <1>3, <2>1, FrontShaped
<1> HIDE DEF node
<1>5. node.attrs \in A
  BY <1>4 DEF NodeShape
<1>6. \A attrs \in A : IsAttrs(attrs)
  <2>1. IsAttrs(<<>>)
    BY SeqEmpty DEF IsAttrs
  <2>2. \A j \in DOMAIN text : IsAttrs(text[j].attrs)
    BY DEF IsMarkup, IsEvent
  <2>3. QED
    BY <2>1, <2>2 DEF AttrsOf
<1>7. QED
  BY <1>5, <1>6 DEF node

\* Embedding an id a second time changes nothing.
LEMMA EmbedTwice ==
  ASSUME NEW text, IsMarkup(text), NEW spec, NEW g
  PROVE  ~EmbedChanges(EmbedId(text, spec, g), spec, g)
<1>1. IsSeq(text)
  BY DEF IsMarkup
<1>2. PICK c : Reads(c, text, spec, g)
  BY <1>1, EmbedReads
<1>3. ASSUME NEW i \in 1 .. Len(text), text[i].ev = "end" /\ Len(c[i - 1].stack) > 1
      PROVE  ~Misses(Rendered(Last(c[i - 1].stack), spec, g), spec, g)
  <2> DEFINE node == Last(c[i - 1].stack)
  <2>1. IsAttrs(node.attrs)
    BY <1>2, <1>3, ClosedElement
  <2> HIDE DEF node
  <2>2. ~Misses(Rendered(node, spec, g), spec, g)
    BY <2>1, RenderedMatches
  <2>3. QED
    BY <2>2 DEF node
<1>4. QED
  BY <1>1, <1>2, <1>3, SettledReading

\* A text in which one selector is embedded keeps it embedded when another is.
LEMMA EmbedKeeps ==
  ASSUME NEW text, IsMarkup(text), NEW spec, NEW g, NEW other, NEW h, ~EmbedChanges(text, other, h)
  PROVE  ~EmbedChanges(EmbedId(text, spec, g), other, h)
<1> DEFINE n == Len(text)
<1>1. IsSeq(text) /\ n \in Nat
  BY SeqLen DEF IsMarkup
<1>2. PICK c : Reads(c, text, spec, g)
  BY <1>1, EmbedReads
<1>3. PICK d : Reads(d, text, other, h)
  BY <1>1, EmbedReads
<1>4. \A i \in 1 .. n : ~Overlooks(d[i - 1].stack, text[i], other, h)
  BY <1>1, <1>3, QuietReading
<1>5. \A i \in 0 .. n : SameOpen(c[i].stack, d[i].stack)
  BY <1>1, <1>2, <1>3, AlikeReadings
<1>6. (\A i \in 0 .. n : Shaped(c[i].stack, AttrsOf(text)))
      /\ \A i \in 0 .. n : Shaped(d[i].stack, AttrsOf(text))
  BY <1>2, <1>3, Zenon DEF Reads
<1>7. ASSUME NEW i \in 1 .. n, text[i].ev = "end" /\ Len(c[i - 1].stack) > 1
      PROVE  ~Misses(Rendered(Last(c[i - 1].stack), spec, g), other, h)
  <2> DEFINE a == c[i - 1].stack
             b == d[i - 1].stack
             node == Last(a)
  <2>1. i - 1 \in 0 .. n
    BY <1>1
  <2>2. SameOpen(a, b) /\ Shaped(a, AttrsOf(text)) /\ Shaped(b, AttrsOf(text))
    BY <1>5, <1>6, <2>1
  <2>3. Len(a) > 1 /\ text[i].ev = "end"
    BY <1>7
  <2>4. IsAttrs(node.attrs)
    BY <1>2, <1>7, ClosedElement
  <2>5. ~Overlooks(b, text[i], other, h)
    BY <1>4
  <2> HIDE DEF a, b
  <2>6. Len(b) = Len(a)
    BY <2>2 DEF SameOpen
  <2>7. ~Misses(Last(b), other, h)
    BY <2>3, <2>5, <2>6 DEF Overlooks
  <2>8. ~Misses(node, other, h)
    BY <2>2, <2>3, <2>7, AlikeLast
  <2> HIDE DEF node
  <2> DEFINE new == Rendered(node, spec, g)
  <2>9. /\ Matches(new, other) => Matches(node, other)
        /\ ToSet(Get(node.attrs, "data-graph-id", <<>>))
             \subseteq ToSet(Get(new.attrs, "data-graph-id", <<>>))
    BY <2>4, RenderedMatches
  <2> HIDE DEF new
  <2>10. ~Misses(new, other, h)
    BY <2>8, <2>9 DEF Misses
  <2>11. QED
    BY <2>10 DEF new, node, a
<1> HIDE DEF n
<1>8. QED
  BY <1>1, <1>2, <1>7, SettledReading DEF n

\* No selector describes an element of a text that is TEI.
LEMMA EmbedTei ==
  ASSUME NEW text, IsMarkup(text), LooksLikeTei(text), NEW spec, Tagged(spec), NEW g
  PROVE  ~EmbedChanges(text, spec, g)
<1> DEFINE n == Len(text)
<1>1. IsSeq(text) /\ n \in Nat
  BY SeqLen DEF IsMarkup
<1>2. PICK c : Reads(c, text, spec, g)
  BY <1>1, EmbedReads
<1>3. \A attrs \in AttrsOf(text) : ~Has(attrs, "data-dpt")
  <2>1. ~Has(<<>>, "data-dpt")
    BY SeqEmpty DEF Has
  <2>2. \A i \in DOMAIN text : ~Has(text[i].attrs, "data-dpt")
    BY DEF LooksLikeTei
  <2>3. QED
    BY <2>1, <2>2 DEF AttrsOf
<1>4. ASSUME NEW i \in 1 .. n PROVE ~Overlooks(c[i - 1].stack, text[i], spec, g)
  <2> SUFFICES ASSUME Len(c[i - 1].stack) > 1 PROVE ~Misses(Last(c[i - 1].stack), spec, g)
    BY DEF Overlooks
  <2> DEFINE node == Last(c[i - 1].stack)
  <2>1. node.attrs \in AttrsOf(text)
    BY <1>2, ClosedElement
  <2> HIDE DEF node
  <2>2. Get(node.attrs, "data-dpt", "") = ""
    BY <1>3, <2>1 DEF Get
  <2>3. ~Misses(node, spec, g)
    BY <2>2 DEF Misses, Matches, Tagged
  <2>4. QED
    BY <2>3 DEF node
<1>5. QED
  BY <1>1, <1>2, <1>4, QuietReading


\* Of a text that held the contents S: --reverse, or the column content as
\* long as there is nothing to reverse, gives one of them.
KeptIn(S, c, l) == IF l = Null THEN c \in S ELSE l \in S
KeptRow(row) == row.key \in Texts /\ KeptIn(stored[row.key], row.content, row.legacy)

\* The selector of g is where it was, or put aside; an editor may have left it
\* out, and then there is none.
KeptSelector(bare, g, new, old) ==
  /\ old \in {Absent, JsonNull, Selector[g]}
  /\ old = Absent => new \in {Absent, Selector[g]}
  /\ g \in bare \/ Kept(g, new, old)

\* Every row of the tables keeps something that its text, or its graph, had.
TableInv ==
  /\ DOMAIN content = Texts /\ DOMAIN legacy = Texts /\ DOMAIN stored = Texts
  /\ DOMAIN elementid = Graphs /\ DOMAIN oldElementid = Graphs
  /\ texts \subseteq Texts /\ graphs \subseteq Graphs
  /\ \A t \in Texts : KeptIn(stored[t], content[t], legacy[t])
  /\ \A g \in Graphs : KeptSelector(stripped, g, elementid[g], oldElementid[g])

\* What a command has read and not written yet was kept as well.
JobInv ==
  /\ job = [phase |-> job.phase, todo |-> job.todo, found |-> job.found,
            graph |-> job.graph, texts |-> job.texts]
  /\ \A row \in job.texts : KeptRow(row)
  /\ Command \in {"apply", "reverse"} => \A row \in job.todo : KeptRow(row)
  /\ Command = "reverse" => \A row \in job.todo : row.legacy # Null
  /\ Command \in {"reencode", "restore"} =>
       \A row \in job.todo : row.key \in Graphs /\ KeptSelector(stripped, row.key, row.elementid, row.old)
  /\ Command \notin {"apply", "reverse", "reencode", "restore", "embed"} => job = Idle

\* The tables, and what the command at work has in hand.
Inv == TableInv /\ JobInv

\* What was once stored stays known; a step that leaves the tables.
Grows == stripped \subseteq stripped' /\ \A t \in Texts : stored[t] \subseteq stored'[t]
TablesStay == UNCHANGED <<content, legacy, texts, graphs, elementid, oldElementid, stored, stripped>>

\* What is kept of a graph stays kept.
LEMMA KeptStays ==
  ASSUME Grows, NEW g, NEW new, NEW old, KeptSelector(stripped, g, new, old)
  PROVE  KeptSelector(stripped', g, new, old)
BY DEF KeptSelector, Kept, Grows

-----------------------------------------------------------------------------
(* The command at work.                                                     *)

\* No command at work.
LEMMA IdleInv == ASSUME job = Idle PROVE JobInv
BY DEF JobInv, Idle

\* No command at work after the step.
LEMMA IdleNext == ASSUME job' = Idle PROVE JobInv'
BY DEF JobInv, Idle

\* Rows go, rows of texts may come, and what texts held is not forgotten.
LEMMA RowsGo ==
  ASSUME JobInv, Grows, UNCHANGED <<plan, at>>,
         NEW todo, NEW rows, NEW graph, todo \subseteq job.todo,
         \A row \in rows : row \in job.texts \/ KeptRow(row),
         job' = [phase |-> job.phase, todo |-> todo, found |-> job.found,
                 graph |-> graph, texts |-> rows],
         job # Idle
  PROVE  JobInv'
<1>1. Command' = Command
  BY DEF Command
<1>2. Command \in {"apply", "reverse", "reencode", "restore", "embed"}
  BY DEF JobInv
<1>3. /\ job' = [phase |-> job'.phase, todo |-> job'.todo, found |-> job'.found,
                 graph |-> job'.graph, texts |-> job'.texts]
      /\ job'.todo = todo /\ job'.texts = rows
  OBVIOUS
<1>4. \A row : KeptRow(row) => KeptRow(row)'
  BY DEF KeptRow, KeptIn, Grows
<1>5. QED
  BY <1>1, <1>2, <1>3, <1>4, KeptStays DEF JobInv

\* A row of a text, and of a graph, as it is read.
LEMMA ReadRow == ASSUME TableInv, NEW t \in texts PROVE KeptRow(Row(t))
BY DEF TableInv, KeptRow, Row

\* A row read from the graphs has one of the selectors of its graph.
LEMMA ReadGraphRow ==
  ASSUME TableInv, NEW g \in graphs
  PROVE  /\ GraphRow(g).key \in Graphs
         /\ KeptSelector(stripped, GraphRow(g).key, GraphRow(g).elementid, GraphRow(g).old)
BY DEF TableInv, GraphRow

-----------------------------------------------------------------------------
(* What a step does to the tables and to the command at work.               *)

\* The tables stay.
LEMMA StayingTables == ASSUME TableInv, TablesStay PROVE TableInv' /\ Grows
BY DEF TableInv, TablesStay, KeptSelector, Grows

\* The command at work stays, and no table loses what it keeps.
LEMMA StayingJob == ASSUME JobInv, Grows, UNCHANGED <<plan, at, job>> PROVE JobInv'
<1>1. Command' = Command /\ Idle' = Idle
  BY DEF Command, Idle
<1>2. \A row : KeptRow(row) => KeptRow(row)'
  BY DEF KeptRow, KeptIn, Grows
<1>3. QED
  BY <1>1, <1>2, KeptStays DEF JobInv

\* A step on nothing leaves the tables.
LEMMA NothingStays == OnNothing => TablesStay
BY DEF OnNothing, OnTexts, TablesStay

\* One row less to do.
LEMMA WithoutRow ==
  ASSUME JobInv, Grows, NEW row \in job.todo, Without(row)
  PROVE  JobInv'
<1>1. job' = [phase |-> job.phase, todo |-> job.todo \ {row}, found |-> job.found,
              graph |-> job.graph, texts |-> job.texts]
  BY DEF JobInv, Without
<1>2. job # Idle
  BY DEF Idle
<1>3. QED
  BY <1>1, <1>2, RowsGo DEF Without

\* A text that is written by a command.
LEMMA WrittenText ==
  ASSUME TableInv, NEW t \in Texts, NEW c, NEW l,
         content' = [content EXCEPT ![t] = c], legacy' = [legacy EXCEPT ![t] = l],
         DOMAIN stored' = Texts, Grows, KeptIn(stored'[t], c, l),
         texts' \subseteq Texts, UNCHANGED <<graphs, elementid, oldElementid>>
  PROVE  TableInv'
<1>1. ASSUME NEW u \in Texts PROVE KeptIn(stored'[u], content'[u], legacy'[u])
  <2>1. CASE u = t
    BY <2>1 DEF TableInv
  <2>2. CASE u # t
    <3>1. content'[u] = content[u] /\ legacy'[u] = legacy[u]
      BY <2>2 DEF TableInv
    <3>2. QED
      BY <3>1 DEF TableInv, KeptIn, Grows
  <2>3. QED
    BY <2>1, <2>2
<1>2. QED
  BY <1>1, KeptStays DEF TableInv

\* A graph that is written by a command.
LEMMA WrittenGraph ==
  ASSUME TableInv, NEW row, NEW new, NEW old,
         WriteAnnotation(row, new, old), row.key \in Graphs, KeptSelector(stripped, row.key, new, old)
  PROVE  TableInv' /\ Grows
BY DEF TableInv, WriteAnnotation, OnGraphs, KeptSelector, Grows

\* An editor's request.
LEMMA EditedTexts ==
  ASSUME Inv, NEW new, NEW links, Rewrite(new, links), Edits, DOMAIN new = Texts,
         texts' \subseteq texts, graphs' \subseteq graphs
  PROVE  Inv'
<1>1. TableInv' /\ Grows
  BY DEF Inv, TableInv, Rewrite, Edits, Request, KeptIn, KeptSelector, Grows
<1>2. UNCHANGED <<plan, at, job>>
  BY DEF Edits, Request, progress
<1>3. QED
  BY <1>1, <1>2, StayingJob DEF Inv

-----------------------------------------------------------------------------
(* Steps of the commands.                                                   *)

\* A command that has ended.
LEMMA DoneStep ==
  ASSUME Inv, TableInv', job' = Idle
  PROVE  Inv'
BY IdleNext DEF Inv

\* A command that is done, or stops, is no longer at work.
LEMMA StopsIdle == Done \/ Stop => job' = Idle
BY DEF Done, Stop

\* Rows are read that are kept.
LEMMA Reading ==
  ASSUME Inv, TablesStay, UNCHANGED <<plan, at>>,
         NEW phase, NEW todo, NEW found,
         job' = [job EXCEPT !.phase = phase, !.todo = todo, !.found = found],
         Command \in {"apply", "reverse", "reencode", "restore", "embed"},
         Command \in {"apply", "reverse"} => \A row \in todo : KeptRow(row),
         Command = "reverse" => \A row \in todo : row.legacy # Null,
         Command \in {"reencode", "restore"} =>
           \A row \in todo : row.key \in Graphs /\ KeptSelector(stripped, row.key, row.elementid, row.old)
  PROVE  Inv'
<1>1. TableInv' /\ Grows
  BY StayingTables DEF Inv
<1>2. Command' = Command
  BY DEF Command
<1>3. /\ job' = [phase |-> job'.phase, todo |-> job'.todo, found |-> job'.found,
                 graph |-> job'.graph, texts |-> job'.texts]
      /\ job'.todo = todo /\ job'.texts = job.texts
  BY DEF Inv, JobInv
<1>4. \A row : KeptRow(row) => KeptRow(row)'
  BY <1>1 DEF KeptRow, KeptIn, Grows
<1>5. JobInv'
  BY <1>1, <1>2, <1>3, <1>4, KeptStays DEF Inv, JobInv
<1>6. QED
  BY <1>1, <1>5 DEF Inv

\* A command reads its rows.
LEMMA ReadingSteps ==
  ASSUME Inv, ReadForApply \/ ReadForReverse \/ ReadReferences \/ ReadGraphs \/ ReadSelectors
  PROVE  Inv'
<1>1. TablesStay /\ UNCHANGED <<plan, at>>
  BY NothingStays DEF ReadForApply, ReadForReverse, ReadReferences, ReadGraphs, ReadSelectors, Read
<1>2. job = [phase |-> job.phase, todo |-> job.todo, found |-> job.found,
             graph |-> job.graph, texts |-> job.texts]
  BY DEF Inv, JobInv
<1>3. CASE ReadForApply
  <2>1. job' = [job EXCEPT !.phase = "rows", !.todo = {Row(t) : t \in texts}, !.found = job.found]
    BY <1>2, <1>3 DEF ReadForApply, Read
  <2>2. \A row \in {Row(t) : t \in texts} : KeptRow(row)
    BY ReadRow DEF Inv
  <2>3. QED
    BY <1>1, <1>3, <2>1, <2>2, Reading DEF ReadForApply
<1>4. CASE ReadForReverse
  <2> DEFINE todo == {Row(t) : t \in {u \in texts : legacy[u] # Null}}
  <2>1. job' = [job EXCEPT !.phase = "rows", !.todo = todo, !.found = job.found]
    BY <1>2, <1>4 DEF ReadForReverse, Read
  <2>2. \A row \in todo : KeptRow(row)
    BY ReadRow DEF Inv
  <2>3. \A row \in todo : row.legacy # Null
    BY DEF Row
  <2>4. QED
    BY <1>1, <1>4, <2>1, <2>2, <2>3, Reading DEF ReadForReverse
<1>5. CASE ReadReferences
  <2>1. job' = [job EXCEPT !.phase = "graphs", !.todo = {}, !.found = [g \in Graphs |-> References(g)]]
    BY <1>2, <1>5 DEF ReadReferences, Idle
  <2>2. Command = "reencode"
    BY <1>5 DEF ReadReferences
  <2> DEFINE found == [g \in Graphs |-> References(g)]
  <2> HIDE DEF found
  <2>3. job' = [job EXCEPT !.phase = "graphs", !.todo = {}, !.found = found]
    BY <2>1 DEF found
  <2>4. QED
    BY <1>1, <2>2, <2>3, Reading
<1>6. CASE ReadGraphs
  <2> DEFINE todo == {GraphRow(g) : g \in TextGraphs}
  <2>1. job' = [job EXCEPT !.phase = "rows", !.todo = todo, !.found = job.found]
    BY <1>2, <1>6 DEF ReadGraphs, Read
  <2>2. \A row \in todo : row.key \in Graphs /\ KeptSelector(stripped, row.key, row.elementid, row.old)
    BY ReadGraphRow DEF Inv, TextGraphs
  <2>3. Command \in {"reencode", "restore"}
    BY <1>6 DEF ReadGraphs
  <2> HIDE DEF todo
  <2>4. QED
    BY <1>1, <2>1, <2>2, <2>3, Reading
<1>7. CASE ReadSelectors
  <2> DEFINE todo == {GraphRow(g) : g \in {h \in graphs : elementid[h] # Absent}}
  <2>1. job' = [job EXCEPT !.phase = "rows", !.todo = todo, !.found = job.found]
    BY <1>2, <1>7 DEF ReadSelectors, Read
  <2>2. Command = "embed"
    BY <1>7 DEF ReadSelectors
  <2> HIDE DEF todo
  <2>3. QED
    BY <1>1, <2>1, <2>2, Reading
<1>8. QED
  BY <1>3, <1>4, <1>5, <1>6, <1>7

\* Nothing is written.
LEMMA IdleSteps ==
  ASSUME Inv, Gate \/ Dump \/ Crash \/ Finish
  PROVE  Inv'
<1>1. TableInv'
  BY NothingStays, StayingTables DEF Inv, Gate, Dump, Crash, Finish
<1>2. CASE Dump
  <2>1. job = Idle
    BY <1>2 DEF Inv, JobInv, Dump
  <2>2. QED
    BY <1>1, <1>2, <2>1, DoneStep DEF Dump
<1>3. CASE Gate \/ Crash \/ Finish
  BY <1>1, <1>3, StopsIdle, DoneStep DEF Gate, Crash, Finish
<1>4. QED
  BY <1>2, <1>3

\* A row that is passed over, or is gone.
LEMMA PassingSteps ==
  ASSUME Inv, NEW row \in job.todo,
         SkipUnconverted(row) \/ RowGone(row) \/ SkipGraph(row) \/ GraphGone(row) \/ SkipSelector(row)
  PROVE  Inv'
<1>1. TableInv' /\ Grows
  BY NothingStays, StayingTables
  DEF Inv, SkipUnconverted, RowGone, SkipGraph, GraphGone, SkipSelector
<1>2. CASE RowGone(row) \/ GraphGone(row)
  BY <1>1, <1>2, StopsIdle, DoneStep DEF RowGone, GraphGone
<1>3. CASE Without(row)
  BY <1>1, <1>3, WithoutRow DEF Inv
<1>4. QED
  BY <1>2, <1>3 DEF SkipUnconverted, SkipGraph, SkipSelector

\* apply converts a text.
LEMMA ApplyStep == ASSUME Inv, NEW row \in job.todo, ApplyRow(row) PROVE Inv'
<1>1. KeptRow(row) /\ row.key \in Texts
  BY DEF ApplyRow, Inv, JobInv, KeptRow
<1>2. Source(row) \in stored[row.key]
  BY <1>1 DEF KeptRow, KeptIn, Source
<1>3. KeptIn(stored[row.key], DataDptToTei(Source(row)), Source(row))
  BY <1>2, NullAssumption DEF KeptIn
<1>4. TableInv' /\ Grows
  BY <1>1, <1>3, WrittenText DEF ApplyRow, OnTexts, Inv, TableInv, Grows
<1>5. JobInv'
  BY <1>4, WithoutRow DEF ApplyRow, Inv
<1>6. QED
  BY <1>4, <1>5 DEF Inv

\* reverse brings a text back.
LEMMA ReverseRowStep == ASSUME Inv, NEW row \in job.todo, ReverseRow(row) PROVE Inv'
<1>1. KeptRow(row) /\ row.key \in Texts /\ row.legacy # Null
  BY DEF ReverseRow, Inv, JobInv, KeptRow
<1>2. KeptIn(stored[row.key], row.legacy, Null)
  BY <1>1 DEF KeptRow, KeptIn
<1>3. TableInv' /\ Grows
  BY <1>1, <1>2, WrittenText DEF ReverseRow, OnTexts, Inv, TableInv, Grows
<1>4. JobInv'
  BY <1>3, WithoutRow DEF ReverseRow, Inv
<1>5. QED
  BY <1>3, <1>4 DEF Inv

\* The selector is put aside once, and taken back from where it was put.
LEMMA GraphStep ==
  ASSUME Inv, NEW row \in job.todo, ReencodeGraph(row) \/ RestoreGraph(row)
  PROVE  Inv'
<1>1. row.key \in Graphs /\ KeptSelector(stripped, row.key, row.elementid, row.old)
  BY DEF ReencodeGraph, RestoreGraph, Inv, JobInv
<1>2. Absent # JsonNull /\ \A value : OrNull(value) # Absent
  BY DEF Absent, JsonNull, OrNull
<1>3. CASE ReencodeGraph(row)
  <2> DEFINE old == IF row.old = Absent THEN OrNull(row.elementid) ELSE row.old
             new == <<"refs", job.found[row.key]>>
  <2>1. WriteAnnotation(row, new, old)
    BY <1>3 DEF ReencodeGraph
  <2>2. KeptSelector(stripped, row.key, new, old)
    BY <1>1, <1>2 DEF KeptSelector, Kept, OrNull
  <2> HIDE DEF old, new
  <2>3. TableInv' /\ Grows
    BY <1>1, <2>1, <2>2, WrittenGraph DEF Inv
  <2>4. JobInv'
    BY <2>1, <2>3, WithoutRow DEF WriteAnnotation, Inv
  <2>5. QED
    BY <2>3, <2>4 DEF Inv
<1>4. CASE RestoreGraph(row)
  <2> DEFINE new == IF row.old = JsonNull THEN Absent ELSE row.old
  <2>1. WriteAnnotation(row, new, Absent)
    BY <1>4 DEF RestoreGraph
  <2>2. /\ row.old \in {JsonNull, Selector[row.key]} /\ Selector[row.key] # JsonNull
        /\ row.key \in stripped \/ row.old = OrNull(Selector[row.key])
    BY <1>1, <1>4, SelectorAssumption DEF RestoreGraph, KeptSelector, Kept
  <2>3. KeptSelector(stripped, row.key, new, Absent)
    BY <2>2 DEF KeptSelector, Kept, OrNull
  <2> HIDE DEF new
  <2>4. TableInv' /\ Grows
    BY <1>1, <2>1, <2>3, WrittenGraph DEF Inv
  <2>5. JobInv'
    BY <2>1, <2>4, WithoutRow DEF WriteAnnotation, Inv
  <2>6. QED
    BY <2>4, <2>5 DEF Inv
<1>5. QED
  BY <1>3, <1>4

\* embed reads the texts of an image, and writes those that change with what
\* it read of the legacy column.
LEMMA ReadTextsStep == ASSUME Inv, NEW row \in job.todo, ReadTexts(row) PROVE Inv'
<1> DEFINE rows == {Row(t) : t \in {u \in texts : ImageOf[u] = ImageOf[row.key]}}
<1>1. TableInv' /\ Grows
  BY NothingStays, StayingTables DEF Inv, ReadTexts
<1>2. \A r \in rows : KeptRow(r)
  BY ReadRow DEF Inv
<1>3. job' = [phase |-> job.phase, todo |-> job.todo \ {row}, found |-> job.found,
              graph |-> row, texts |-> rows]
  BY DEF ReadTexts, Inv, JobInv
<1>4. job # Idle /\ UNCHANGED <<plan, at>>
  BY DEF Idle, ReadTexts
<1> HIDE DEF rows
<1>5. JobInv'
  BY <1>1, <1>2, <1>3, <1>4, RowsGo DEF Inv
<1>6. QED
  BY <1>1, <1>5 DEF Inv

\* embed names a region in a text.
LEMMA EmbedTextStep == ASSUME Inv, NEW row \in job.texts, EmbedText(row) PROVE Inv'
<1>1. KeptRow(row) /\ row.key \in Texts
  BY DEF Inv, JobInv, KeptRow
<1>2. job' = [phase |-> job.phase, todo |-> job.todo, found |-> job.found,
              graph |-> job.graph, texts |-> job.texts \ {row}]
  BY DEF EmbedText, Inv, JobInv
<1>3. job # Idle /\ UNCHANGED <<plan, at>>
  BY DEF Idle, EmbedText
<1>4. TableInv' /\ Grows
  <2>1. CASE WriteEmbedded(row) /\ OnTexts
    <3>1. stored' = [stored EXCEPT ![row.key] = stored[row.key] \cup {Embed(row)}]
      BY <2>1 DEF WriteEmbedded
    <3>2. DOMAIN stored' = Texts /\ Grows
      BY <1>1, <2>1, <3>1 DEF OnTexts, Inv, TableInv, Grows
    <3>3. KeptIn(stored'[row.key], Embed(row), row.legacy)
      BY <1>1, <3>1 DEF Inv, TableInv, KeptIn, KeptRow
    <3>4. QED
      BY <1>1, <2>1, <3>2, <3>3, WrittenText DEF WriteEmbedded, OnTexts, Inv, TableInv
  <2>2. CASE OnNothing
    BY <2>2, NothingStays, StayingTables DEF Inv
  <2>3. QED
    BY <2>1, <2>2 DEF EmbedText
<1>5. JobInv'
  BY <1>2, <1>3, <1>4, RowsGo DEF Inv
<1>6. QED
  BY <1>4, <1>5 DEF Inv

\* Each step of a command keeps the invariant.
LEMMA CommandSteps == ASSUME Inv, CommandStep PROVE Inv'
<1>1. ASSUME NEW row \in job.todo,
             \/ ApplyRow(row) \/ SkipUnconverted(row) \/ RowGone(row) \/ ReverseRow(row)
             \/ ReencodeGraph(row) \/ RestoreGraph(row) \/ SkipGraph(row) \/ GraphGone(row)
             \/ ReadTexts(row) \/ SkipSelector(row)
      PROVE  Inv'
  BY <1>1, ApplyStep, ReverseRowStep, GraphStep, PassingSteps, ReadTextsStep
<1>2. QED
  BY <1>1, ReadingSteps, IdleSteps, EmbedTextStep DEF CommandStep

-----------------------------------------------------------------------------
(* Steps of the editors.                                                    *)

\* An editor links a region.
LEMMA LinkStep == ASSUME Inv, NEW t, NEW n, NEW g, LinkRegion(t, n, g) PROVE Inv'
<1> DEFINE new == [content EXCEPT ![t] = AddGraphRef(content[t], n, g)]
           links == [wanted EXCEPT ![t] = wanted[t] \cup {g}]
<1>1. Rewrite(new, links) /\ Edits /\ UNCHANGED <<texts, graphs>>
  BY DEF LinkRegion
<1>2. DOMAIN new = Texts
  BY DEF Inv, TableInv
<1> HIDE DEF new, links
<1>3. QED
  BY <1>1, <1>2, EditedTexts

\* An editor unlinks a region.
LEMMA UnlinkStep == ASSUME Inv, NEW g, UnlinkRegion(g) PROVE Inv'
<1> DEFINE new == [t \in Texts |-> IF t \in texts /\ ImageOf[t] = ImageOf[g]
                                  THEN RemoveGraphRef(content[t], g) ELSE content[t]]
           links == [t \in Texts |-> IF ImageOf[t] = ImageOf[g] THEN wanted[t] \ {g} ELSE wanted[t]]
<1>1. Rewrite(new, links) /\ Edits /\ texts' = texts /\ graphs' \subseteq graphs
  BY DEF UnlinkRegion
<1>2. DOMAIN new = Texts
  OBVIOUS
<1> HIDE DEF new, links
<1>3. QED
  BY <1>1, <1>2, EditedTexts

\* An editor writes a text.
LEMMA WriteStep == ASSUME Inv, NEW t, NEW c, WriteText(t, c) PROVE Inv'
<1>1. DOMAIN [content EXCEPT ![t] = c] = Texts
  BY DEF Inv, TableInv
<1>2. QED
  BY <1>1, EditedTexts DEF WriteText

\* An editor deletes a text.
LEMMA DeleteStep == ASSUME Inv, NEW t, DeleteText(t) PROVE Inv'
<1>1. TableInv' /\ Grows
  BY DEF Inv, TableInv, DeleteText, Edits, Request, KeptSelector, Grows
<1>2. UNCHANGED <<plan, at, job>>
  BY DEF DeleteText, Edits, Request, progress
<1>3. QED
  BY <1>1, <1>2, StayingJob DEF Inv

\* An annotation that an editor replaces keeps the selector, or is recorded as
\* having lost it.
LEMMA ReplaceStep ==
  ASSUME Inv, NEW g \in Graphs, NEW new, NEW old, Replace(g, new, old),
         stripped \subseteq stripped', KeptSelector(stripped', g, new, old)
  PROVE  Inv'
<1>1. Grows
  BY DEF Replace, Grows
<1>2. /\ elementid' = [elementid EXCEPT ![g] = new] /\ oldElementid' = [oldElementid EXCEPT ![g] = old]
      /\ UNCHANGED <<content, legacy, texts, graphs, stored, plan, at, job>>
  BY DEF Replace, Request, progress
<1>3. \A h \in Graphs : KeptSelector(stripped', h, elementid'[h], oldElementid'[h])
  <2> SUFFICES ASSUME NEW h \in Graphs PROVE KeptSelector(stripped', h, elementid'[h], oldElementid'[h])
    OBVIOUS
  <2>1. CASE h = g
    BY <1>2, <2>1 DEF Inv, TableInv
  <2>2. CASE h # g
    <3>1. elementid'[h] = elementid[h] /\ oldElementid'[h] = oldElementid[h]
      BY <1>2, <2>2 DEF Inv, TableInv
    <3>2. KeptSelector(stripped, h, elementid[h], oldElementid[h])
      BY DEF Inv, TableInv
    <3>3. QED
      BY <1>1, <3>1, <3>2, KeptStays
  <2>3. QED
    BY <2>1, <2>2
<1>4. TableInv'
  BY <1>2, <1>3 DEF Inv, TableInv
<1>5. QED
  BY <1>1, <1>2, <1>4, StayingJob DEF Inv

\* An editor redraws a region, with the properties of its annotation or without.
LEMMA RedrawStep == ASSUME Inv, NEW g \in Graphs, Redraw(g) \/ RedrawBare(g) PROVE Inv'
<1>1. CASE Redraw(g)
  <2>1. KeptSelector(stripped, g, elementid[g], oldElementid[g])
    BY DEF Inv, TableInv
  <2>2. KeptSelector(stripped, g, Selector[g], Absent)
    BY DEF KeptSelector, Kept
  <2>3. QED
    BY <1>1, <2>1, <2>2, ReplaceStep DEF Redraw, KeptSelector, Kept
<1>2. CASE RedrawBare(g)
  BY <1>2, ReplaceStep DEF RedrawBare, KeptSelector
<1>3. QED
  BY <1>1, <1>2

-----------------------------------------------------------------------------
\* The invariant holds at first.
LEMMA InitInv == Init => Inv
<1> SUFFICES ASSUME Init PROVE Inv
  OBVIOUS
<1>1. JobInv
  BY IdleInv DEF Init
<1>2. TableInv
  BY DomainsAssumption DEF Init, TableInv, KeptIn, KeptSelector, Kept
<1>3. QED
  BY <1>1, <1>2 DEF Inv

\* Every step keeps it.
LEMMA NextInv == Inv /\ [Next]_vars => Inv'
<1> SUFFICES ASSUME Inv, [Next]_vars PROVE Inv'
  OBVIOUS
<1>1. CASE CommandStep
  BY <1>1, CommandSteps
<1>2. CASE \E t \in Texts, g \in Graphs, n \in 0..2 : LinkRegion(t, n, g)
  BY <1>2, LinkStep
<1>3. CASE \E g \in Graphs : UnlinkRegion(g) \/ Redraw(g) \/ RedrawBare(g)
  BY <1>3, UnlinkStep, RedrawStep
<1>4. CASE \E t \in Texts : DeleteText(t) \/ \E c \in Typed : WriteText(t, c)
  BY <1>4, DeleteStep, WriteStep
<1>5. CASE UNCHANGED vars
  <2>1. TablesStay /\ UNCHANGED <<plan, at, job>>
    BY <1>5 DEF vars, progress, TablesStay
  <2>2. QED
    BY <2>1, StayingTables, StayingJob DEF Inv
<1>6. QED
  BY <1>1, <1>2, <1>3, <1>4, <1>5 DEF Next

\* Whatever runs, dies and is run again, and whatever editors do meanwhile:
\* --reverse brings back a content that the text once had, and no selector but
\* the imported one; and that one a graph only loses to an editor whose request
\* left it out, never to a command.
THEOREM NothingIsLost == Spec => []Recoverable
<1>1. Inv => Recoverable
  BY DEF Inv, TableInv, KeptIn, KeptSelector, Kept, Recoverable
<1>2. QED
  BY <1>1, InitInv, NextInv, PTL DEF Spec
-----------------------------------------------------------------------------
(* Redrawings.                                                              *)

\* The shape of a graph is the one that was drawn, unless a stale write overran it.
ShapesInv == DOMAIN shape = Graphs /\ DOMAIN drawn = Graphs /\ DrawingsSurvive

\* Every graph begins with the shape that was drawn.
LEMMA ShapesInit == Init => ShapesInv
BY DEF Init, ShapesInv, DrawingsSurvive

\* A step that leaves the shapes.
LEMMA ShapesStay ==
  ASSUME ShapesInv, UNCHANGED <<shape, drawn>>, graphs' \subseteq graphs, overrun \subseteq overrun'
  PROVE  ShapesInv'
BY DEF ShapesInv, DrawingsSurvive

\* A geometry other than the one that was read is overrun.
LEMMA ShapesWritten ==
  ASSUME ShapesInv, NEW row, NEW new, NEW old, WriteAnnotation(row, new, old)
  PROVE  ShapesInv'
<1>1. /\ shape' = [shape EXCEPT ![row.key] = row.shape] /\ UNCHANGED <<drawn, graphs>>
      /\ overrun' = IF shape[row.key] # row.shape THEN overrun \cup {row.key} ELSE overrun
  BY DEF WriteAnnotation, OnGraphs, Overrun
<1>2. ASSUME NEW g \in graphs \ overrun' PROVE shape'[g] = shape[g]
  BY <1>1, <1>2 DEF ShapesInv
<1>3. \A g \in graphs \ overrun' : g \notin overrun
  BY <1>1
<1>4. QED
  BY <1>1, <1>2, <1>3 DEF ShapesInv, DrawingsSurvive

\* Every step keeps the shapes of the graphs.
LEMMA ShapesNext == Inv /\ ShapesInv /\ [Next]_vars => ShapesInv'
<1> SUFFICES ASSUME Inv, ShapesInv, [Next]_vars PROVE ShapesInv'
  OBVIOUS
<1>1. ASSUME UNCHANGED <<shape, drawn, graphs, overrun>> PROVE ShapesInv'
  BY <1>1, ShapesStay
<1>2. ASSUME OnNothing PROVE ShapesInv'
  BY <1>1, <1>2 DEF OnNothing, OnTexts
<1>3. ASSUME NEW key, NEW stale, Overrun(key, stale), OnTexts PROVE ShapesInv'
  BY <1>3, ShapesStay DEF Overrun, OnTexts
<1>4. ASSUME NEW row, ApplyRow(row) \/ ReverseRow(row) PROVE ShapesInv'
  BY <1>3, <1>4 DEF ApplyRow, ReverseRow
<1>5. ASSUME NEW row, ReencodeGraph(row) \/ RestoreGraph(row) PROVE ShapesInv'
  BY <1>5, ShapesWritten DEF ReencodeGraph, RestoreGraph
<1>6. ASSUME NEW row, EmbedText(row) PROVE ShapesInv'
  BY <1>2, <1>3, <1>6 DEF EmbedText, WriteEmbedded
<1>7. ASSUME NEW row, \/ SkipUnconverted(row) \/ RowGone(row) \/ SkipGraph(row) \/ GraphGone(row)
                      \/ ReadTexts(row) \/ SkipSelector(row)
      PROVE  ShapesInv'
  BY <1>2, <1>7 DEF SkipUnconverted, RowGone, SkipGraph, GraphGone, ReadTexts, SkipSelector
<1>8. CASE CommandStep
  BY <1>2, <1>4, <1>5, <1>6, <1>7, <1>8
  DEF CommandStep, ReadForApply, ReadForReverse, ReadReferences, ReadGraphs, ReadSelectors,
      Gate, Dump, Crash, Finish
<1>9. ASSUME NEW t, NEW n, NEW g, LinkRegion(t, n, g) PROVE ShapesInv'
  BY <1>1, <1>9 DEF LinkRegion, Rewrite, Edits, Request
<1>10. ASSUME NEW g, UnlinkRegion(g) PROVE ShapesInv'
  BY <1>10, ShapesStay DEF UnlinkRegion, Rewrite, Edits, Request
<1>11. ASSUME NEW g \in Graphs, Redraw(g) \/ RedrawBare(g) PROVE ShapesInv'
  <2>1. PICK new, old : Replace(g, new, old)
    BY <1>11 DEF Redraw, RedrawBare
  <2>2. /\ shape' = [shape EXCEPT ![g] = shape[g] + 1] /\ drawn' = [drawn EXCEPT ![g] = shape[g] + 1]
        /\ UNCHANGED <<graphs, overrun>>
    BY <2>1 DEF Replace, Request
  <2>3. QED
    BY <2>2 DEF ShapesInv, DrawingsSurvive
<1>12. ASSUME NEW t, NEW c, WriteText(t, c) PROVE ShapesInv'
  BY <1>1, <1>12 DEF WriteText, Rewrite, Edits, Request
<1>13. ASSUME NEW t, DeleteText(t) PROVE ShapesInv'
  BY <1>1, <1>13 DEF DeleteText, Edits, Request
<1>14. CASE UNCHANGED vars
  BY <1>1, <1>14 DEF vars
<1>15. QED
  BY <1>8, <1>9, <1>10, <1>11, <1>12, <1>13, <1>14 DEF Next

-----------------------------------------------------------------------------
(* The backup script.                                                       *)

\* How far reencode has come.
DescribedSoFar ==
  /\ job = Idle \/ job.phase \in {"graphs", "rows"}
  /\ job # Idle => \A g \in Graphs : job.found[g] = References(g)
  /\ job.phase = "rows" =>
       \A g \in TextGraphs :
          \/ References(g) = {} \/ elementid[g] = <<"refs", References(g)>>
          \/ \E row \in job.todo : row.key = g

\* What a dump must say, and how much of it the script has established where.
Sound == LinksResolve /\ AllWellFormed /\ LinksDescribed

ScriptInv ==
  /\ plan \in Plans /\ at \in Nat \ {0}
  /\ dumped => Script /\ at = Len(plan) + 1 /\ Sound
  /\ Script =>
       /\ at = Len(plan) - 3 => DescribedSoFar
       /\ at \in Len(plan) - 2 .. Len(plan) => LinksDescribed
       /\ at \in Len(plan) - 1 .. Len(plan) => LinksResolve
       /\ at = Len(plan) => AllWellFormed

\* The last steps of the script.
LEMMA ScriptSteps ==
  ASSUME plan \in Plans, Script, at \in Nat \ {0}
  PROVE  /\ Len(plan) \in Nat /\ Len(plan) > 3
         /\ at = Len(plan) - 3 => Command = "reencode"
         /\ at = Len(plan) - 2 => Command = "check"
         /\ at = Len(plan) - 1 => Command = "verify"
         /\ at = Len(plan) => Command = "dump"
         /\ at > Len(plan) => Command = "none"
         /\ at < Len(plan) => Command # "dump"
<1>1. plan \in Seq(Range(plan)) /\ DOMAIN plan = 1 .. Len(plan) /\ Len(plan) \in Nat \ {0}
  BY PlansAssumption DEF Script
<1>2. Len(plan) \in DOMAIN plan /\ plan[Len(plan)] = "dump"
  BY <1>1 DEF Script, Last
<1>3. /\ Len(plan) > 3 /\ plan[Len(plan) - 3] = "reencode" /\ plan[Len(plan) - 2] = "check"
      /\ plan[Len(plan) - 1] = "verify"
  BY <1>2, PlansAssumption
<1>4. \A i \in DOMAIN plan : plan[i] = "dump" => i = Len(plan)
  BY PlansAssumption
<1>5. (at > Len(plan) => Command = "none") /\ (at <= Len(plan) => Command = plan[at])
  BY <1>1 DEF Command
<1>6. at < Len(plan) => Command # "dump"
  <2>1. SUFFICES ASSUME at < Len(plan) PROVE plan[at] # "dump"
    BY <1>1, <1>5
  <2>2. at \in DOMAIN plan /\ at # Len(plan)
    <3> DEFINE n == Len(plan)
    <3>1. n \in Nat /\ DOMAIN plan = 1 .. n /\ at < n
      BY <1>1, <2>1
    <3> HIDE DEF n
    <3>2. at \in DOMAIN plan /\ at # n
      BY <3>1
    <3>3. QED
      BY <3>2 DEF n
  <2>3. QED
    BY <1>4, <2>2
<1>7. /\ at = Len(plan) - 3 => Command = "reencode"
      /\ at = Len(plan) - 2 => Command = "check"
      /\ at = Len(plan) - 1 => Command = "verify"
      /\ at = Len(plan) => Command = "dump"
  <2> DEFINE n == Len(plan)
  <2>1. n \in Nat /\ (at <= n => Command = plan[at])
    BY <1>1, <1>5
  <2>2. plan[n] = "dump" /\ plan[n - 3] = "reencode" /\ plan[n - 2] = "check" /\ plan[n - 1] = "verify"
    BY <1>2, <1>3
  <2> HIDE DEF n
  <2>3. /\ at = n - 3 => at <= n
        /\ at = n - 2 => at <= n
        /\ at = n - 1 => at <= n
        /\ at = n => at <= n
    BY <2>1
  <2>4. /\ at = n - 3 => Command = "reencode"
        /\ at = n - 2 => Command = "check"
        /\ at = n - 1 => Command = "verify"
        /\ at = n => Command = "dump"
    BY <2>1, <2>2, <2>3
  <2>5. QED
    BY <2>4 DEF n
<1>8. QED
  BY <1>1, <1>3, <1>5, <1>6, <1>7

\* Only the script dumps.
LEMMA DumpOfScript ==
  ASSUME plan \in Plans, at \in Nat \ {0}, Command = "dump"
  PROVE  Script /\ at = Len(plan)
<1>1. plan \in Seq(Range(plan)) /\ DOMAIN plan = 1 .. Len(plan) /\ Len(plan) \in Nat
  BY PlansAssumption
<1>2. at \in DOMAIN plan /\ plan[at] = "dump"
  BY <1>1 DEF Command
<1>3. at = Len(plan)
  BY <1>2, PlansAssumption
<1>4. QED
  BY <1>1, <1>2, <1>3 DEF Script, Last

\* Where a step takes the plan.
LEMMA PlanMoves ==
  ASSUME CommandStep
  PROVE  \/ UNCHANGED <<plan, at, dumped>>
         \/ Done \/ Stop
         \/ Command = "dump" /\ Dump
<1>1. ASSUME NEW row PROVE Without(row) => UNCHANGED <<plan, at, dumped>>
  BY DEF Without
<1>2. ASSUME NEW row, ApplyRow(row) \/ ReverseRow(row) \/ SkipUnconverted(row) \/ SkipGraph(row)
                      \/ SkipSelector(row) \/ ReencodeGraph(row) \/ RestoreGraph(row)
      PROVE  Without(row)
  BY <1>2 DEF ApplyRow, ReverseRow, SkipUnconverted, SkipGraph, SkipSelector, ReencodeGraph,
     RestoreGraph, WriteAnnotation
<1>3. ASSUME NEW row, RowGone(row) \/ GraphGone(row) PROVE Stop
  BY <1>3 DEF RowGone, GraphGone
<1>4. ASSUME NEW row, ReadTexts(row) \/ EmbedText(row) PROVE UNCHANGED <<plan, at, dumped>>
  BY <1>4 DEF ReadTexts, EmbedText
<1>5. ASSUME ReadForApply \/ ReadForReverse \/ ReadReferences \/ ReadGraphs \/ ReadSelectors
      PROVE  UNCHANGED <<plan, at, dumped>>
  BY <1>5 DEF ReadForApply, ReadForReverse, ReadReferences, ReadGraphs, ReadSelectors, Read
<1>6. ASSUME Gate \/ Crash \/ Finish PROVE Done \/ Stop
  BY <1>6 DEF Gate, Crash, Finish
<1>7. Dump => Command = "dump"
  BY DEF Dump
<1>8. QED
  BY <1>1, <1>2, <1>3, <1>4, <1>5, <1>6, <1>7 DEF CommandStep

\* What the properties of a backup are about.
Backed == <<content, texts, graphs, elementid>>

\* What the dump says stays as long as what it is about.
LEMMA BackedStays ==
  ASSUME UNCHANGED Backed
  PROVE  /\ LinksResolve => LinksResolve'
         /\ AllWellFormed => AllWellFormed'
         /\ LinksDescribed => LinksDescribed'
         /\ \A g : References(g)' = References(g)
         /\ TextGraphs' = TextGraphs
BY DEF Backed, LinksResolve, AllWellFormed, LinksDescribed, References, TextGraphs

\* A step on nothing leaves all that the dump is about.
LEMMA NothingBacked == ASSUME OnNothing PROVE UNCHANGED Backed
BY DEF OnNothing, OnTexts, Backed

\* reencode at work: its references are those of the texts, and every row of
\* a graph is written or still to come.
LEMMA ReencodeStep ==
  ASSUME Inv, Command = "reencode", DescribedSoFar, CommandStep
  PROVE  \/ UNCHANGED <<plan, at, dumped>> /\ DescribedSoFar'
         \/ Done /\ LinksDescribed'
         \/ Stop
<1>1. \/ ReadReferences \/ ReadGraphs \/ Crash \/ Finish
      \/ \E row \in job.todo : ReencodeGraph(row) \/ SkipGraph(row) \/ GraphGone(row)
  BY DEF CommandStep, ReadForApply, ReadForReverse, ReadSelectors, Gate, Dump, ApplyRow, SkipUnconverted,
         RowGone, ReverseRow, RestoreGraph, ReadTexts, SkipSelector, EmbedText
<1>2. job = [phase |-> job.phase, todo |-> job.todo, found |-> job.found,
             graph |-> job.graph, texts |-> job.texts]
  BY DEF Inv, JobInv
<1>3. TextGraphs \subseteq Graphs
  BY DEF Inv, TableInv, TextGraphs
<1>4. CASE ReadReferences
  <2>1. UNCHANGED Backed
    BY <1>4, NothingBacked DEF ReadReferences
  <2>2. \A g : References(g)' = References(g)
    BY <2>1, BackedStays
  <2>3. job' = [job EXCEPT !.phase = "graphs", !.found = [g \in Graphs |-> References(g)]]
        /\ UNCHANGED <<plan, at, dumped>>
    BY <1>4 DEF ReadReferences
  <2>4. job'.phase = "graphs" /\ \A g \in Graphs : job'.found[g] = References(g)
    BY <1>2, <2>3
  <2>5. QED
    BY <2>2, <2>3, <2>4 DEF DescribedSoFar
<1>5. CASE ReadGraphs
  <2>1. UNCHANGED Backed /\ job.phase = "graphs"
    BY <1>5, NothingBacked DEF ReadGraphs
  <2>2. (\A g : References(g)' = References(g)) /\ TextGraphs' = TextGraphs
    BY <2>1, BackedStays
  <2>3. /\ job' = [job EXCEPT !.phase = "rows", !.todo = {GraphRow(g) : g \in TextGraphs}]
        /\ UNCHANGED <<plan, at, dumped>>
    BY <1>5 DEF ReadGraphs, Read
  <2>4. job'.phase = "rows" /\ job'.todo = {GraphRow(g) : g \in TextGraphs} /\ job'.found = job.found
    BY <1>2, <2>3
  <2>5. \A g \in TextGraphs : \E row \in job'.todo : row.key = g
    <3>1. SUFFICES ASSUME NEW g \in TextGraphs PROVE \E row \in job'.todo : row.key = g
      OBVIOUS
    <3>2. GraphRow(g) \in job'.todo
      BY <2>4, <3>1
    <3>3. GraphRow(g).key = g
      BY DEF GraphRow
    <3>4. QED
      BY <3>2, <3>3
  <2>6. job # Idle
    BY <2>1 DEF Idle
  <2>7. QED
    BY <2>2, <2>3, <2>4, <2>5, <2>6 DEF DescribedSoFar
<1>6. CASE Crash
  BY <1>6 DEF Crash
<1>7. CASE Finish
  <2>1. UNCHANGED Backed /\ job.phase = "rows" /\ job.todo = {} /\ Done
    BY <1>7, NothingBacked DEF Finish
  <2>2. LinksDescribed
    BY <2>1 DEF DescribedSoFar, LinksDescribed
  <2>3. QED
    BY <2>1, <2>2, BackedStays
<1>8. ASSUME NEW row \in job.todo, ReencodeGraph(row) PROVE UNCHANGED <<plan, at, dumped>> /\ DescribedSoFar'
  <2>1. /\ elementid' = [elementid EXCEPT ![row.key] = <<"refs", job.found[row.key]>>]
        /\ UNCHANGED <<content, texts, graphs, plan, at, dumped>> /\ job' = [job EXCEPT !.todo = @ \ {row}]
        /\ job.phase = "rows"
    BY <1>8 DEF ReencodeGraph, WriteAnnotation, OnGraphs, Without
  <2>2. (\A g : References(g)' = References(g)) /\ TextGraphs' = TextGraphs
    BY <2>1 DEF References, TextGraphs
  <2>3. job'.phase = "rows" /\ job'.todo = job.todo \ {row} /\ job'.found = job.found
    BY <1>2, <2>1
  <2>4. job # Idle
    BY <2>1 DEF Idle
  <2>5. row.key \in Graphs /\ DOMAIN elementid = Graphs
    BY DEF Inv, JobInv, TableInv
  <2>6. ASSUME NEW g \in TextGraphs
        PROVE  \/ References(g) = {} \/ elementid'[g] = <<"refs", References(g)>>
               \/ \E r \in job'.todo : r.key = g
    <3>1. CASE g = row.key
      <4>1. elementid'[g] = <<"refs", job.found[g]>>
        BY <2>1, <2>5, <3>1
      <4>2. job.found[g] = References(g)
        BY <1>3, <2>4 DEF DescribedSoFar
      <4>3. QED
        BY <4>1, <4>2
    <3>2. CASE g # row.key
      <4>1. elementid'[g] = elementid[g]
        BY <1>3, <2>1, <2>5, <3>2
      <4>2. \A r \in job.todo : r.key = g => r \in job'.todo
        BY <2>3, <3>2
      <4>3. QED
        BY <2>1, <4>1, <4>2 DEF DescribedSoFar
    <3>3. QED
      BY <3>1, <3>2
  <2>7. QED
    BY <2>1, <2>2, <2>3, <2>4, <2>6 DEF DescribedSoFar
<1>9. ASSUME NEW row \in job.todo, SkipGraph(row) PROVE UNCHANGED <<plan, at, dumped>> /\ DescribedSoFar'
  <2>1. /\ UNCHANGED Backed /\ UNCHANGED <<plan, at, dumped>> /\ job' = [job EXCEPT !.todo = @ \ {row}]
        /\ job.phase = "rows" /\ job.found[row.key] = {}
    BY <1>9, NothingBacked DEF SkipGraph, Untouched, Without
  <2>2. (\A g : References(g)' = References(g)) /\ TextGraphs' = TextGraphs /\ elementid' = elementid
    BY <2>1, BackedStays DEF Backed
  <2>3. job'.phase = "rows" /\ job'.todo = job.todo \ {row} /\ job'.found = job.found
    BY <1>2, <2>1
  <2>4. job # Idle
    BY <2>1 DEF Idle
  <2>5. row.key \in Graphs
    BY DEF Inv, JobInv
  <2>6. References(row.key) = {}
    BY <2>1, <2>4, <2>5 DEF DescribedSoFar
  <2>7. ASSUME NEW g \in TextGraphs
        PROVE  \/ References(g) = {} \/ elementid[g] = <<"refs", References(g)>>
               \/ \E r \in job'.todo : r.key = g
    <3>1. \A r \in job.todo : r.key = g /\ g # row.key => r \in job'.todo
      BY <2>3
    <3>2. QED
      BY <2>1, <2>6, <3>1 DEF DescribedSoFar
  <2>8. QED
    BY <2>1, <2>2, <2>3, <2>4, <2>7 DEF DescribedSoFar
<1>10. ASSUME NEW row, GraphGone(row) PROVE Stop
  BY <1>10 DEF GraphGone
<1>11. QED
  BY <1>1, <1>4, <1>5, <1>6, <1>7, <1>8, <1>9, <1>10

\* A script begins with nothing established and nothing dumped.
LEMMA ScriptInit == Init => ScriptInv
<1> SUFFICES ASSUME Init PROVE ScriptInv
  OBVIOUS
<1>1. plan \in Plans /\ at = 1 /\ dumped = FALSE /\ job = Idle
  BY DEF Init
<1> DEFINE n == Len(plan)
<1>2. Script => n \in Nat /\ n > 3
  BY <1>1, ScriptSteps
<1> HIDE DEF n
<1>3. DescribedSoFar
  BY <1>1 DEF DescribedSoFar, Idle
<1>4. Script => at \notin n - 2 .. n /\ at \notin n - 1 .. n /\ at # n
  BY <1>1, <1>2
<1>5. QED
  BY <1>1, <1>3, <1>4 DEF ScriptInv, n

\* A command of the script.
LEMMA ScriptStep ==
  ASSUME Inv, ScriptInv, Script, CommandStep
  PROVE  ScriptInv'
<1> DEFINE n == Len(plan)
<1>1. plan \in Plans /\ at \in Nat \ {0}
  BY DEF ScriptInv
<1>2. /\ n \in Nat /\ n > 3
      /\ (at = n - 3 => Command = "reencode") /\ (at = n - 2 => Command = "check")
      /\ (at = n - 1 => Command = "verify") /\ (at = n => Command = "dump")
      /\ (at > n => Command = "none") /\ (at < n => Command # "dump")
  BY <1>1, ScriptSteps
<1>3. plan' = plan /\ Script' = Script /\ Len(plan') = n
  BY PlanMoves DEF Done, Stop, Dump, Script
<1> HIDE DEF n
<1>4. at > n - 3 => job = Idle
  <2>1. at > n - 3 => Command \in {"check", "verify", "dump", "none"}
    BY <1>1, <1>2
  <2>2. QED
    BY <2>1 DEF Inv, JobInv
<1>5. ASSUME ~dumped', at' = n + 1 PROVE ScriptInv'
  BY <1>1, <1>2, <1>3, <1>5 DEF ScriptInv
<1>6. ASSUME Stop, ~dumped PROVE ScriptInv'
  BY <1>3, <1>5, <1>6 DEF Stop, n
<1>7. CASE at < n - 3
  <2>1. ~dumped
    BY <1>1, <1>2, <1>7 DEF ScriptInv, n
  <2>2. CASE UNCHANGED <<plan, at, dumped>>
    BY <1>1, <1>2, <1>3, <1>7, <2>1, <2>2 DEF ScriptInv, n
  <2>3. CASE Done
    <3>1. at' = at + 1 /\ job' = Idle /\ dumped' = dumped
      BY <2>3 DEF Done
    <3>2. DescribedSoFar'
      BY <3>1 DEF DescribedSoFar, Idle
    <3>3. QED
      BY <1>1, <1>2, <1>3, <1>7, <2>1, <3>1, <3>2 DEF ScriptInv, n
  <2>4. QED
    BY <1>1, <1>2, <1>6, <1>7, <2>1, <2>2, <2>3, PlanMoves
<1>8. CASE at = n - 3
  <2>1. ~dumped /\ DescribedSoFar /\ Command = "reencode"
    BY <1>1, <1>2, <1>8 DEF ScriptInv, n
  <2>2. CASE UNCHANGED <<plan, at, dumped>> /\ DescribedSoFar'
    BY <1>1, <1>2, <1>3, <1>8, <2>1, <2>2 DEF ScriptInv, n
  <2>3. CASE Done /\ LinksDescribed'
    <3>1. at' = n - 2 /\ dumped' = dumped
      BY <1>1, <1>2, <1>8, <2>3 DEF Done
    <3>2. at' \in Nat \ {0} /\ at' # n - 3 /\ at' \notin n - 1 .. n /\ at' # n /\ ~dumped'
      BY <1>2, <2>1, <3>1
    <3>3. QED
      BY <1>1, <1>3, <2>3, <3>2 DEF ScriptInv
  <2>4. QED
    BY <1>6, <2>1, <2>2, <2>3, ReencodeStep
<1>9. CASE at > n - 3
  <2>1. job = Idle /\ Idle.todo = {} /\ Idle.texts = {} /\ Idle.phase = "idle"
    BY <1>4, <1>9 DEF Idle
  <2>2. Command \in {"check", "verify", "dump", "none"}
    BY <1>1, <1>2, <1>9
  <2>3. Gate \/ Dump
    BY <2>1, <2>2 DEF CommandStep, ReadForApply, ReadForReverse, ReadReferences, ReadGraphs, ReadSelectors,
       Crash, Finish
  <2>4. UNCHANGED Backed
    BY <2>3, NothingBacked DEF Gate, Dump
  <2>5. /\ LinksResolve => LinksResolve'
        /\ AllWellFormed => AllWellFormed'
        /\ LinksDescribed => LinksDescribed'
    BY <2>4, BackedStays
  <2>6. at <= n
    BY <1>1, <1>2, <2>3 DEF Gate, Dump
  <2>7. ~dumped /\ LinksDescribed
    BY <1>1, <1>2, <1>9, <2>6 DEF ScriptInv, n
  <2>8. CASE at = n - 2
    <3>1. Command = "check" /\ Gate
      BY <1>2, <2>3, <2>8 DEF Dump
    <3>2. CASE LinksResolve
      <4>1. at' = n - 1 /\ dumped' = dumped
        BY <1>1, <1>2, <2>8, <3>1, <3>2 DEF Gate, Done
      <4>2. at' \in Nat \ {0} /\ at' # n - 3 /\ at' # n /\ ~dumped'
        BY <1>2, <2>7, <4>1
      <4>3. QED
        BY <1>1, <1>3, <2>5, <2>7, <3>2, <4>2 DEF ScriptInv
    <3>3. CASE ~LinksResolve
      BY <1>6, <2>7, <3>1, <3>3 DEF Gate
    <3>4. QED
      BY <3>2, <3>3
  <2>9. CASE at = n - 1
    <3>1. Command = "verify" /\ Gate /\ LinksResolve
      BY <1>1, <1>2, <2>3, <2>9 DEF Dump, ScriptInv, n
    <3>2. CASE AllWellFormed
      <4>1. at' = n /\ dumped' = dumped
        BY <1>1, <1>2, <2>9, <3>1, <3>2 DEF Gate, Done
      <4>2. QED
        BY <1>1, <1>2, <1>3, <2>5, <2>7, <3>1, <3>2, <4>1 DEF ScriptInv, n
    <3>3. CASE ~AllWellFormed
      BY <1>6, <2>7, <3>1, <3>3 DEF Gate
    <3>4. QED
      BY <3>2, <3>3
  <2>10. CASE at = n
    <3>1. Dump /\ LinksResolve /\ AllWellFormed
      BY <1>1, <1>2, <2>3, <2>10 DEF Gate, ScriptInv, n
    <3>2. at' = n + 1 /\ Sound'
      BY <2>5, <2>7, <2>10, <3>1 DEF Dump, Sound
    <3>3. QED
      BY <1>1, <1>2, <1>3, <3>2 DEF ScriptInv, n
  <2>11. QED
    BY <1>1, <1>2, <1>9, <2>6, <2>8, <2>9, <2>10
<1>10. QED
  BY <1>1, <1>2, <1>7, <1>8, <1>9

\* Every step keeps what the script has established.
LEMMA ScriptNext == Inv /\ ScriptInv /\ [Next]_vars => ScriptInv'
<1> SUFFICES ASSUME Inv, ScriptInv, [Next]_vars PROVE ScriptInv'
  OBVIOUS
<1>1. plan \in Plans /\ at \in Nat \ {0}
  BY DEF ScriptInv
<1>2. ASSUME ~Script, plan' = plan, at' \in {at, at + 1}, dumped' = dumped PROVE ScriptInv'
  <2>1. ~Script' /\ ~dumped'
    BY <1>2 DEF Script, ScriptInv
  <2>2. QED
    BY <1>1, <1>2, <2>1 DEF ScriptInv
<1>3. ASSUME Request PROVE ScriptInv'
  BY <1>2, <1>3 DEF Request, progress
<1>4. CASE CommandStep /\ ~Script
  <2>1. Command # "dump"
    BY <1>1, <1>4, DumpOfScript
  <2>2. plan' = plan /\ at' \in {at, at + 1} /\ dumped' = dumped
    BY <1>4, <2>1, PlanMoves DEF Done, Stop
  <2>3. QED
    BY <1>2, <1>4, <2>2
<1>5. CASE UNCHANGED vars
  <2>1. UNCHANGED <<content, texts, graphs, elementid, plan, at, dumped, job>>
    BY <1>5 DEF vars, progress
  <2>2. UNCHANGED Backed
    BY <2>1 DEF Backed
  <2>3. DescribedSoFar => DescribedSoFar'
    BY <2>1, <2>2, BackedStays DEF DescribedSoFar, Idle
  <2>4. QED
    BY <2>1, <2>2, <2>3, BackedStays DEF ScriptInv, Script, Sound
<1>6. ASSUME Next, ~CommandStep PROVE Request
  BY <1>6
  DEF Next, Edits, LinkRegion, UnlinkRegion, Redraw, RedrawBare, Replace, DeleteText, WriteText
<1>7. QED
  BY <1>3, <1>4, <1>5, <1>6, ScriptStep

\* What the script dumps has passed its gates, and is still as they saw it.
THEOREM DumpIsSound == Spec => []DumpSound
<1>1. ScriptInv => DumpSound
  BY DEF ScriptInv, Sound, DumpSound
<1>2. QED
  BY <1>1, ScriptInit, ScriptNext, InitInv, NextInv, PTL DEF Spec

-----------------------------------------------------------------------------
(* The links of the texts.                                                  *)

\* A content and what is in the legacy column beside it: markup, and a legacy
\* column that was put there because it passed the round trip.
GoodText(c, l) == IsMarkup(c) /\ (l = Null \/ (IsMarkup(l) /\ Converts(l)))
\* A selector that embed uses names a tag.
GoodSelector(e) == e[1] = "tuple" => Tagged(e[2])

\* The texts link what is wanted of them, and all contents are well made.
LinksInv ==
  /\ DOMAIN wanted = Texts
  /\ \A t \in Texts : GoodText(content[t], legacy[t])
  /\ \A g \in Graphs : GoodSelector(elementid[g])
  /\ \A t \in texts \ overrun : ReferencedIds(content[t]) = wanted[t]

\* What the command at work has read is as good.
ReadInv ==
  /\ \A row \in job.texts : GoodText(row.content, row.legacy)
  /\ job.texts # {} => job.graph.key \in Graphs /\ Tagged(job.graph.elementid[2])
  /\ Command \in {"apply", "reverse"} => \A row \in job.todo : GoodText(row.content, row.legacy)
  /\ Command = "embed" => \A row \in job.todo : GoodSelector(row.elementid)

\* Nothing has been read when no command is at work.
LEMMA IdleRead == ASSUME job' = Idle PROVE ReadInv'
BY DEF ReadInv, Idle

\* What has been read stays as it was read.
LEMMA StayingRead == ASSUME ReadInv, UNCHANGED <<plan, at, job>> PROVE ReadInv'
<1>1. Command' = Command
  BY DEF Command
<1>2. QED
  BY <1>1 DEF ReadInv

\* Rows go, and rows of texts come that are good.
LEMMA RowsGoRead ==
  ASSUME JobInv, ReadInv, UNCHANGED <<plan, at>>,
         NEW todo, NEW rows, NEW graph, todo \subseteq job.todo,
         \A row \in rows : row \in job.texts \/ GoodText(row.content, row.legacy),
         rows # {} => graph.key \in Graphs /\ Tagged(graph.elementid[2]),
         job' = [phase |-> job.phase, todo |-> todo, found |-> job.found,
                 graph |-> graph, texts |-> rows]
  PROVE  ReadInv'
<1>1. Command' = Command
  BY DEF Command
<1>2. job'.todo = todo /\ job'.texts = rows /\ job'.graph = graph
  OBVIOUS
<1>3. QED
  BY <1>1, <1>2 DEF ReadInv

\* One row less that has been read.
LEMMA WithoutRead ==
  ASSUME JobInv, ReadInv, NEW row \in job.todo, Without(row)
  PROVE  ReadInv'
<1>1. job' = [phase |-> job.phase, todo |-> job.todo \ {row}, found |-> job.found,
              graph |-> job.graph, texts |-> job.texts] /\ UNCHANGED <<plan, at>>
  BY DEF JobInv, Without
<1>2. job.texts # {} => job.graph.key \in Graphs /\ Tagged(job.graph.elementid[2])
  BY DEF ReadInv
<1>3. QED
  BY <1>1, <1>2, RowsGoRead

\* What is read is good.
LEMMA ReadingGood ==
  ASSUME JobInv, ReadInv, UNCHANGED <<plan, at>>, NEW todo, job'.todo = todo,
         job'.texts = job.texts, job'.graph = job.graph,
         Command \in {"apply", "reverse"} => \A row \in todo : GoodText(row.content, row.legacy),
         Command = "embed" => \A row \in todo : GoodSelector(row.elementid)
  PROVE  ReadInv'
<1>1. Command' = Command
  BY DEF Command
<1>2. QED
  BY <1>1 DEF ReadInv

\* The rows of tables that hold good contents are good.
LEMMA GoodRows ==
  ASSUME TableInv, LinksInv
  PROVE  /\ \A t \in texts : LET row == Row(t) IN GoodText(row.content, row.legacy)
         /\ \A g \in graphs : LET row == GraphRow(g) IN GoodSelector(row.elementid)
<1>1. \A t : Row(t).content = content[t] /\ Row(t).legacy = legacy[t]
  BY DEF Row
<1>2. \A g : GraphRow(g).elementid = elementid[g]
  BY DEF GraphRow
<1>3. QED
  BY <1>1, <1>2 DEF TableInv, LinksInv

\* A command reads rows that are good.
LEMMA ReadingRead ==
  ASSUME Inv, LinksInv, ReadInv,
         ReadForApply \/ ReadForReverse \/ ReadReferences \/ ReadGraphs \/ ReadSelectors
  PROVE  ReadInv'
<1>1. UNCHANGED <<plan, at>>
  BY DEF ReadForApply, ReadForReverse, ReadReferences, ReadGraphs, ReadSelectors, Read
<1>2. job = [phase |-> job.phase, todo |-> job.todo, found |-> job.found,
             graph |-> job.graph, texts |-> job.texts] /\ JobInv
  BY DEF Inv, JobInv
<1>3. /\ \A t \in texts : GoodText(Row(t).content, Row(t).legacy)
      /\ \A g \in graphs : GoodSelector(GraphRow(g).elementid)
  BY GoodRows DEF Inv
<1>4. ASSUME NEW phase, NEW todo, Read(phase, todo)
      PROVE  job'.todo = todo /\ job'.texts = job.texts /\ job'.graph = job.graph
  BY <1>2, <1>4 DEF Read
<1>5. CASE ReadForApply
  <2> DEFINE todo == {Row(t) : t \in texts}
  <2>1. Command = "apply" /\ Read("rows", todo)
    BY <1>5 DEF ReadForApply
  <2>2. \A row \in todo : GoodText(row.content, row.legacy)
    BY <1>3
  <2> HIDE DEF todo
  <2>3. QED
    BY <1>1, <1>2, <1>4, <2>1, <2>2, ReadingGood
<1>6. CASE ReadForReverse
  <2> DEFINE todo == {Row(t) : t \in {u \in texts : legacy[u] # Null}}
  <2>1. Command = "reverse" /\ Read("rows", todo)
    BY <1>6 DEF ReadForReverse
  <2>2. \A row \in todo : GoodText(row.content, row.legacy)
    BY <1>3
  <2> HIDE DEF todo
  <2>3. QED
    BY <1>1, <1>2, <1>4, <2>1, <2>2, ReadingGood
<1>7. CASE ReadReferences
  <2>1. Command = "reencode" /\ job = Idle
    BY <1>7 DEF ReadReferences
  <2>2. job'.todo = job.todo /\ job'.texts = job.texts /\ job'.graph = job.graph
    BY <1>2, <1>7 DEF ReadReferences
  <2>3. QED
    BY <1>1, <1>2, <2>1, <2>2, ReadingGood
<1>8. CASE ReadGraphs
  <2> DEFINE todo == {GraphRow(g) : g \in TextGraphs}
  <2>1. Command \in {"reencode", "restore"} /\ Read("rows", todo)
    BY <1>8 DEF ReadGraphs
  <2> HIDE DEF todo
  <2>2. QED
    BY <1>1, <1>2, <1>4, <2>1, ReadingGood
<1>9. CASE ReadSelectors
  <2> DEFINE todo == {GraphRow(g) : g \in {h \in graphs : elementid[h] # Absent}}
  <2>1. Command = "embed" /\ Read("rows", todo)
    BY <1>9 DEF ReadSelectors
  <2>2. \A row \in todo : GoodSelector(row.elementid)
    BY <1>3
  <2> HIDE DEF todo
  <2>3. QED
    BY <1>1, <1>2, <1>4, <2>1, <2>2, ReadingGood
<1>10. QED
  BY <1>5, <1>6, <1>7, <1>8, <1>9

\* What a command has in hand stays good.
LEMMA CommandRead == ASSUME Inv, LinksInv, ReadInv, CommandStep PROVE ReadInv'
<1>0. JobInv /\ job = [phase |-> job.phase, todo |-> job.todo, found |-> job.found,
                       graph |-> job.graph, texts |-> job.texts]
  BY DEF Inv, JobInv
<1>1. CASE ReadForApply \/ ReadForReverse \/ ReadReferences \/ ReadGraphs \/ ReadSelectors
  BY <1>1, ReadingRead
<1>2. CASE Gate \/ Crash \/ Finish
  BY <1>2, StopsIdle, IdleRead DEF Gate, Crash, Finish
<1>3. CASE Dump
  <2>1. job' = Idle
    BY <1>0, <1>3 DEF JobInv, Dump
  <2>2. QED
    BY <2>1, IdleRead
<1>4. ASSUME NEW row \in job.todo, RowGone(row) \/ GraphGone(row) PROVE ReadInv'
  BY <1>4, StopsIdle, IdleRead DEF RowGone, GraphGone
<1>5. ASSUME NEW row \in job.todo,
             \/ ApplyRow(row) \/ SkipUnconverted(row) \/ ReverseRow(row) \/ ReencodeGraph(row)
             \/ RestoreGraph(row) \/ SkipGraph(row) \/ SkipSelector(row)
      PROVE  ReadInv'
  <2>1. Without(row)
    BY <1>5 DEF ApplyRow, SkipUnconverted, ReverseRow, ReencodeGraph, RestoreGraph, SkipGraph, SkipSelector,
                WriteAnnotation
  <2>2. QED
    BY <1>0, <2>1, WithoutRead
<1>6. ASSUME NEW row \in job.todo, ReadTexts(row) PROVE ReadInv'
  <2> DEFINE rows == {Row(t) : t \in {u \in texts : ImageOf[u] = ImageOf[row.key]}}
  <2>1. job' = [phase |-> job.phase, todo |-> job.todo \ {row}, found |-> job.found,
                graph |-> row, texts |-> rows]
    BY <1>0, <1>6 DEF ReadTexts
  <2>2. UNCHANGED <<plan, at>> /\ Command = "embed" /\ row.elementid[1] = "tuple" /\ row.key \in graphs
    BY <1>6 DEF ReadTexts, Selects
  <2>3. \A r \in rows : GoodText(r.content, r.legacy)
    BY GoodRows DEF Inv
  <2>4. GoodSelector(row.elementid) /\ row.key \in Graphs
    BY <1>6, <2>2 DEF ReadInv, Inv, TableInv
  <2>5. Tagged(row.elementid[2])
    BY <2>2, <2>4 DEF GoodSelector
  <2> HIDE DEF rows
  <2>6. QED
    BY <1>0, <2>1, <2>2, <2>3, <2>4, <2>5, RowsGoRead
<1>7. ASSUME NEW row \in job.texts, EmbedText(row) PROVE ReadInv'
  <2>1. job' = [phase |-> job.phase, todo |-> job.todo, found |-> job.found,
                graph |-> job.graph, texts |-> job.texts \ {row}] /\ UNCHANGED <<plan, at>>
    BY <1>0, <1>7 DEF EmbedText
  <2>2. job.graph.key \in Graphs /\ Tagged(job.graph.elementid[2])
    BY <1>7 DEF ReadInv
  <2>3. QED
    BY <1>0, <2>1, <2>2, RowsGoRead
<1>8. QED
  BY <1>1, <1>2, <1>3, <1>4, <1>5, <1>6, <1>7 DEF CommandStep

\* A text that is written: either it names what is wanted of it, or it is overrun.
LEMMA WrittenLinks ==
  ASSUME TableInv, LinksInv, NEW t \in Texts, NEW c, NEW l, GoodText(c, l),
         content' = [content EXCEPT ![t] = c],
         legacy'[t] = l, \A u \in Texts : u # t => legacy'[u] = legacy[u],
         UNCHANGED elementid, texts' \subseteq texts \cup {t}, overrun \subseteq overrun',
         DOMAIN wanted' = Texts, \A u \in Texts : u # t => wanted'[u] = wanted[u],
         t \notin overrun' => ReferencedIds(c) = wanted'[t]
  PROVE  LinksInv'
<1>1. /\ content'[t] = c /\ legacy'[t] = l
      /\ \A u \in Texts : u # t => content'[u] = content[u] /\ legacy'[u] = legacy[u]
  BY DEF TableInv
<1>2. \A u \in Texts : GoodText(content'[u], legacy'[u])
  BY <1>1 DEF LinksInv
<1>3. \A u \in texts' \ overrun' : ReferencedIds(content'[u]) = wanted'[u]
  <2> SUFFICES ASSUME NEW u \in texts' \ overrun' PROVE ReferencedIds(content'[u]) = wanted'[u]
    OBVIOUS
  <2>1. CASE u = t
    BY <1>1, <2>1
  <2>2. CASE u # t
    <3>1. u \in texts \ overrun /\ u \in Texts
      BY <2>2 DEF TableInv
    <3>2. QED
      BY <1>1, <2>2, <3>1 DEF LinksInv
  <2>3. QED
    BY <2>1, <2>2
<1>4. \A g \in Graphs : GoodSelector(elementid'[g])
  BY DEF LinksInv
<1>5. QED
  BY <1>2, <1>3, <1>4 DEF LinksInv

\* The same of a row that a command writes.
LEMMA WrittenRow ==
  ASSUME TableInv, LinksInv, NEW t \in Texts, NEW c, NEW l, GoodText(c, l),
         content' = [content EXCEPT ![t] = c], legacy' = [legacy EXCEPT ![t] = l],
         UNCHANGED elementid, texts' \subseteq texts \cup {t}, overrun \subseteq overrun',
         DOMAIN wanted' = Texts, \A u \in Texts : u # t => wanted'[u] = wanted[u],
         t \notin overrun' => ReferencedIds(c) = wanted'[t]
  PROVE  LinksInv'
<1>1. legacy'[t] = l /\ \A u \in Texts : u # t => legacy'[u] = legacy[u]
  BY DEF TableInv
<1>2. QED
  BY <1>1, WrittenLinks

\* A step that writes no text and no selector.
LEMMA StayingLinks ==
  ASSUME LinksInv, UNCHANGED <<content, legacy, elementid, wanted>>,
         texts' \subseteq texts, overrun \subseteq overrun'
  PROVE  LinksInv'
BY DEF LinksInv

\* A step on nothing.
LEMMA NothingLinks == ASSUME LinksInv, OnNothing PROVE LinksInv'
<1>1. UNCHANGED <<content, legacy, elementid, wanted>> /\ texts' = texts /\ overrun' = overrun
  BY DEF OnNothing, OnTexts
<1>2. QED
  BY <1>1, StayingLinks

\* What is overrun stays so.
LEMMA OverrunGrows ==
  ASSUME NEW key, NEW stale, Overrun(key, stale)
  PROVE  overrun \subseteq overrun' /\ (key \notin overrun' => ~stale /\ key \notin overrun)
BY DEF Overrun

\* apply writes good contents.
LEMMA ApplyLinks ==
  ASSUME Inv, LinksInv, ReadInv, NEW row \in job.todo, ApplyRow(row)
  PROVE  LinksInv'
<1> DEFINE s == Source(row)
           tei == DataDptToTei(s)
           stale == content[row.key] \notin {s, tei}
<1>1. /\ Command = "apply" /\ Converts(s) /\ row.key \in texts
      /\ content' = [content EXCEPT ![row.key] = tei] /\ legacy' = [legacy EXCEPT ![row.key] = s]
      /\ Overrun(row.key, stale)
      /\ UNCHANGED <<elementid, texts, wanted>>
  BY DEF ApplyRow, OnTexts
<1>2. GoodText(row.content, row.legacy) /\ row.key \in Texts
  BY <1>1 DEF ReadInv, Inv, TableInv
<1>3. IsMarkup(s)
  BY <1>2 DEF GoodText, Source
<1> HIDE DEF s
<1>4. IsMarkup(tei) /\ ReferencedIds(tei) = ReferencedIds(s)
  BY <1>1, <1>3, ConvertsKeeps
<1>5. GoodText(tei, s)
  BY <1>1, <1>3, <1>4 DEF GoodText
<1> HIDE DEF tei
<1>6. overrun \subseteq overrun' /\ (row.key \notin overrun' => ~stale /\ row.key \notin overrun)
  BY <1>1, OverrunGrows
<1>7. row.key \notin overrun' => ReferencedIds(tei) = wanted'[row.key]
  <2>1. ~stale => ReferencedIds(content[row.key]) = ReferencedIds(tei)
    BY <1>4
  <2>2. row.key \notin overrun => ReferencedIds(content[row.key]) = wanted[row.key]
    BY <1>1 DEF LinksInv
  <2>3. QED
    BY <1>1, <1>6, <2>1, <2>2
<1>8. DOMAIN wanted' = Texts /\ \A u \in Texts : u # row.key => wanted'[u] = wanted[u]
  BY <1>1 DEF LinksInv
<1>9. TableInv /\ elementid' = elementid /\ texts' \subseteq texts \cup {row.key}
  BY <1>1 DEF Inv
<1>10. QED
  BY <1>1, <1>2, <1>5, <1>6, <1>7, <1>8, <1>9, WrittenRow

\* reverse writes good contents.
LEMMA ReverseLinks ==
  ASSUME Inv, LinksInv, ReadInv, NEW row \in job.todo, ReverseRow(row)
  PROVE  LinksInv'
<1> DEFINE s == row.legacy
           tei == DataDptToTei(s)
           stale == content[row.key] # tei
<1>1. /\ Command = "reverse" /\ row.key \in texts
      /\ content' = [content EXCEPT ![row.key] = s] /\ legacy' = [legacy EXCEPT ![row.key] = Null]
      /\ Overrun(row.key, stale)
      /\ UNCHANGED <<elementid, texts, wanted>>
  BY DEF ReverseRow, OnTexts
<1>2. GoodText(row.content, row.legacy) /\ row.key \in Texts /\ s # Null
  BY <1>1 DEF ReadInv, Inv, TableInv, JobInv
<1>3. IsMarkup(s) /\ Converts(s)
  BY <1>2 DEF GoodText
<1> HIDE DEF s
<1>4. ReferencedIds(tei) = ReferencedIds(s)
  BY <1>3, ConvertsKeeps
<1>5. GoodText(s, Null)
  BY <1>3 DEF GoodText
<1> HIDE DEF tei
<1>6. overrun \subseteq overrun' /\ (row.key \notin overrun' => ~stale /\ row.key \notin overrun)
  BY <1>1, OverrunGrows
<1>7. row.key \notin overrun' => ReferencedIds(s) = wanted'[row.key]
  <2>1. row.key \notin overrun => ReferencedIds(content[row.key]) = wanted[row.key]
    BY <1>1 DEF LinksInv
  <2>2. QED
    BY <1>1, <1>4, <1>6, <2>1
<1>8. DOMAIN wanted' = Texts /\ \A u \in Texts : u # row.key => wanted'[u] = wanted[u]
  BY <1>1 DEF LinksInv
<1>9. TableInv /\ elementid' = elementid /\ texts' \subseteq texts \cup {row.key}
  BY <1>1 DEF Inv
<1>10. QED
  BY <1>1, <1>2, <1>5, <1>6, <1>7, <1>8, <1>9, WrittenRow

\* Embedding adds the graph to what is wanted, in a text that closes its tags.
LEMMA EmbedLinks ==
  ASSUME Inv, LinksInv, ReadInv, NEW row \in job.texts, WriteEmbedded(row), OnTexts
  PROVE  LinksInv'
<1> DEFINE spec == job.graph.elementid[2]
           g == job.graph.key
           new == EmbedId(row.content, spec, g)
           stale == row # Row(row.key) \/ row.key \notin texts \/ ~Closes(row.content, spec, g)
<1>1. /\ EmbedChanges(row.content, spec, g)
      /\ content' = [content EXCEPT ![row.key] = new] /\ legacy' = [legacy EXCEPT ![row.key] = row.legacy]
      /\ texts' = texts \cup {row.key}
      /\ wanted' = [wanted EXCEPT ![row.key] = wanted[row.key] \cup {g}]
      /\ Overrun(row.key, stale) /\ elementid' = elementid
  BY DEF WriteEmbedded, OnTexts, Embed, Changes, Whole
<1>2. /\ GoodText(row.content, row.legacy) /\ row.key \in Texts
      /\ g \in Graphs /\ Tagged(spec)
  BY DEF ReadInv, Inv, JobInv, KeptRow
<1>3. IsMarkup(row.content) /\ g \in Digits
  BY <1>2, GraphsAssumption DEF GoodText
<1> HIDE DEF spec, g
<1>4. /\ IsMarkup(new) /\ AllIds(new) \subseteq AllIds(row.content) \cup {g}
      /\ Closes(row.content, spec, g) => AllIds(row.content) \subseteq AllIds(new)
      /\ Closes(row.content, spec, g) /\ EmbedChanges(row.content, spec, g) => g \in AllIds(new)
  BY <1>2, <1>3, EmbedIdIs
<1> HIDE DEF new
<1>5. GoodText(new, row.legacy)
  BY <1>2, <1>4 DEF GoodText
<1>6. ReferencedIds(new) = AllIds(new) \cap Digits
      /\ ReferencedIds(row.content) = AllIds(row.content) \cap Digits
  BY <1>3, <1>4, RefsAre
<1>7. Closes(row.content, spec, g) => ReferencedIds(new) = ReferencedIds(row.content) \cup {g}
  BY <1>1, <1>3, <1>4, <1>6
<1>8. overrun \subseteq overrun' /\ (row.key \notin overrun' => ~stale /\ row.key \notin overrun)
  BY <1>1, OverrunGrows
<1>9. DOMAIN wanted' = Texts /\ wanted'[row.key] = wanted[row.key] \cup {g}
      /\ \A u \in Texts : u # row.key => wanted'[u] = wanted[u]
  BY <1>1, <1>2 DEF LinksInv
<1>10. row.key \notin overrun' => ReferencedIds(new) = wanted'[row.key]
  <2> SUFFICES ASSUME row.key \notin overrun' PROVE ReferencedIds(new) = wanted'[row.key]
    OBVIOUS
  <2>1. ~stale /\ row.key \notin overrun
    BY <1>8
  <2>2. row = Row(row.key) /\ row.key \in texts /\ Closes(row.content, spec, g)
    BY <2>1
  <2>3. row.content = content[row.key]
    <3>1. Row(row.key).content = content[row.key]
      BY DEF Row
    <3>2. QED
      BY <2>2, <3>1
  <2>4. ReferencedIds(content[row.key]) = wanted[row.key]
    BY <2>1, <2>2 DEF LinksInv
  <2>5. QED
    BY <1>7, <1>9, <2>2, <2>3, <2>4
<1> HIDE DEF stale
<1>11. TableInv /\ texts' \subseteq texts \cup {row.key}
  BY <1>1 DEF Inv
<1>12. QED
  BY <1>1, <1>2, <1>5, <1>8, <1>9, <1>10, <1>11, WrittenRow

\* No selector and an imported one are good.
LEMMA AbsentIsGood == GoodSelector(Absent)
<1>1. Absent[1] # "tuple"
  BY DEF Absent
<1>2. QED
  BY <1>1 DEF GoodSelector

LEMMA ImportedIsGood == ASSUME NEW g \in Graphs PROVE GoodSelector(Selector[g])
BY MarkupAssumption, Zenon DEF GoodSelector, Tagged

\* A step that writes a good selector and no text.
LEMMA ReplacedLinks ==
  ASSUME LinksInv, DOMAIN elementid = Graphs, NEW g \in Graphs, NEW new, GoodSelector(new),
         elementid' = [elementid EXCEPT ![g] = new],
         UNCHANGED <<content, legacy, texts, wanted>>, overrun \subseteq overrun'
  PROVE  LinksInv'
<1>1. \A h \in Graphs : GoodSelector(elementid'[h])
  BY DEF LinksInv
<1>2. QED
  BY <1>1 DEF LinksInv

\* reencode and restore write good selectors.
LEMMA GraphLinks ==
  ASSUME Inv, LinksInv, NEW row \in job.todo, ReencodeGraph(row) \/ RestoreGraph(row)
  PROVE  LinksInv'
<1>1. row.key \in Graphs /\ KeptSelector(stripped, row.key, row.elementid, row.old) /\ DOMAIN elementid = Graphs
  BY DEF ReencodeGraph, RestoreGraph, Inv, JobInv, TableInv
<1>2. PICK new, old : WriteAnnotation(row, new, old) /\ GoodSelector(new)
  <2>1. CASE ReencodeGraph(row)
    <3> DEFINE new == <<"refs", job.found[row.key]>>
    <3>1. WriteAnnotation(row, new, IF row.old = Absent THEN OrNull(row.elementid) ELSE row.old)
      BY <2>1 DEF ReencodeGraph
    <3>2. new[1] # "tuple"
      OBVIOUS
    <3> HIDE DEF new
    <3>3. GoodSelector(new)
      BY <3>2 DEF GoodSelector
    <3>4. QED
      BY <3>1, <3>3
  <2>2. CASE RestoreGraph(row)
    <3> DEFINE new == IF row.old = JsonNull THEN Absent ELSE row.old
    <3>1. WriteAnnotation(row, new, Absent) /\ row.old # Absent
      BY <2>2 DEF RestoreGraph
    <3>2. row.old \in {JsonNull, Selector[row.key]}
      BY <1>1, <3>1 DEF KeptSelector
    <3>3. new = Absent \/ new = Selector[row.key]
      BY <3>2
    <3> HIDE DEF new
    <3>4. QED
      BY <1>1, <3>1, <3>3, AbsentIsGood, ImportedIsGood
  <2>3. QED
    BY <2>1, <2>2
<1>3. elementid' = [elementid EXCEPT ![row.key] = new] /\ UNCHANGED <<content, legacy, texts, wanted>>
  BY <1>2 DEF WriteAnnotation, OnGraphs
<1>4. overrun \subseteq overrun'
  BY <1>2, OverrunGrows DEF WriteAnnotation
<1>5. QED
  BY <1>1, <1>2, <1>3, <1>4, ReplacedLinks

\* Commands write good contents and selectors.
LEMMA CommandLinks == ASSUME Inv, LinksInv, ReadInv, CommandStep PROVE LinksInv'
<1>1. CASE \/ ReadForApply \/ ReadForReverse \/ ReadReferences \/ ReadGraphs \/ ReadSelectors
           \/ Gate \/ Dump \/ Crash \/ Finish
  <2>1. OnNothing
    BY <1>1 DEF ReadForApply, ReadForReverse, ReadReferences, ReadGraphs, ReadSelectors, Gate, Dump, Crash, Finish
  <2>2. QED
    BY <2>1, NothingLinks
<1>2. ASSUME NEW row \in job.todo,
             \/ SkipUnconverted(row) \/ RowGone(row) \/ SkipGraph(row) \/ GraphGone(row)
             \/ ReadTexts(row) \/ SkipSelector(row)
      PROVE  LinksInv'
  <2>1. OnNothing
    BY <1>2 DEF SkipUnconverted, RowGone, SkipGraph, GraphGone, ReadTexts, SkipSelector
  <2>2. QED
    BY <2>1, NothingLinks
<1>3. ASSUME NEW row \in job.texts, EmbedText(row) PROVE LinksInv'
  BY <1>3, EmbedLinks, NothingLinks DEF EmbedText
<1>4. QED
  BY <1>1, <1>2, <1>3, ApplyLinks, ReverseLinks, GraphLinks DEF CommandStep

\* An editor's link is in the text, and nothing else is.
LEMMA LinkLinks ==
  ASSUME Inv, LinksInv, NEW t \in Texts, NEW n \in 0 .. 2, NEW g \in Graphs, LinkRegion(t, n, g)
  PROVE  LinksInv'
<1> DEFINE new == AddGraphRef(content[t], n, g)
<1>1. /\ n < LinkableCount(content[t]) /\ t \in texts
      /\ content' = [content EXCEPT ![t] = new]
      /\ wanted' = [wanted EXCEPT ![t] = wanted[t] \cup {g}]
      /\ UNCHANGED <<legacy, elementid, texts, overrun>>
  BY DEF LinkRegion, Rewrite, Edits, Request
<1>2. GoodText(content[t], legacy[t]) /\ IsMarkup(content[t]) /\ g \in Digits /\ n \in Nat
  BY GraphsAssumption DEF LinksInv, GoodText
<1>3. IsMarkup(new) /\ AllIds(new) = AllIds(content[t]) \cup {g}
  BY <1>1, <1>2, AddGraphRefIs
<1> HIDE DEF new
<1>4. ReferencedIds(new) = AllIds(new) \cap Digits
      /\ ReferencedIds(content[t]) = AllIds(content[t]) \cap Digits
  BY <1>2, <1>3, RefsAre
<1>5. ReferencedIds(new) = ReferencedIds(content[t]) \cup {g}
  BY <1>2, <1>3, <1>4
<1>6. GoodText(new, legacy[t])
  BY <1>2, <1>3 DEF GoodText
<1>7. /\ DOMAIN wanted' = Texts /\ wanted'[t] = wanted[t] \cup {g}
      /\ \A u \in Texts : u # t => wanted'[u] = wanted[u]
  BY <1>1 DEF LinksInv
<1>8. t \notin overrun' => ReferencedIds(new) = wanted'[t]
  BY <1>1, <1>5, <1>7 DEF LinksInv
<1>9. TableInv /\ legacy' = legacy /\ texts' \subseteq texts \cup {t}
      /\ overrun \subseteq overrun' /\ elementid' = elementid
  BY <1>1 DEF Inv, TableInv
<1>10. QED
  BY <1>1, <1>6, <1>7, <1>8, <1>9, WrittenLinks

\* A text that is typed in names what its author linked.
LEMMA TypedLinks ==
  ASSUME Inv, LinksInv, NEW t \in Texts, NEW c \in Typed, WriteText(t, c)
  PROVE  LinksInv'
<1>1. /\ content' = [content EXCEPT ![t] = c] /\ wanted' = [wanted EXCEPT ![t] = ReferencedIds(c)]
      /\ UNCHANGED <<legacy, elementid, texts, overrun>>
  BY DEF WriteText, Rewrite, Edits, Request
<1>2. IsMarkup(c)
  BY MarkupAssumption, Zenon
<1>3. GoodText(c, legacy[t])
  BY <1>2 DEF LinksInv, GoodText
<1>4. DOMAIN wanted' = Texts /\ wanted'[t] = ReferencedIds(c)
      /\ \A u \in Texts : u # t => wanted'[u] = wanted[u]
  BY <1>1 DEF LinksInv
<1>5. TableInv /\ legacy' = legacy /\ texts' \subseteq texts \cup {t}
      /\ overrun \subseteq overrun' /\ elementid' = elementid
  BY <1>1 DEF Inv, TableInv
<1>6. QED
  BY <1>1, <1>3, <1>4, <1>5, WrittenLinks

\* A region is deleted, and its links with it.
LEMMA UnlinkLinks ==
  ASSUME Inv, LinksInv, NEW g \in Graphs, UnlinkRegion(g)
  PROVE  LinksInv'
<1>1. /\ content' = [t \in Texts |-> IF t \in texts /\ ImageOf[t] = ImageOf[g]
                                     THEN RemoveGraphRef(content[t], g) ELSE content[t]]
      /\ wanted' = [t \in Texts |-> IF ImageOf[t] = ImageOf[g] THEN wanted[t] \ {g} ELSE wanted[t]]
      /\ UNCHANGED <<legacy, elementid, texts, overrun>>
  BY DEF UnlinkRegion, Rewrite, Edits, Request
<1>2. ASSUME NEW t \in Texts
      PROVE  /\ GoodText(content'[t], legacy'[t])
             /\ t \in texts \ overrun => ReferencedIds(content'[t]) = wanted'[t]
  <2>1. GoodText(content[t], legacy[t]) /\ IsMarkup(content[t])
        /\ (t \in texts \ overrun => ReferencedIds(content[t]) = wanted[t])
    BY DEF LinksInv, GoodText
  <2>2. CASE t \in texts /\ ImageOf[t] = ImageOf[g]
    <3> DEFINE new == RemoveGraphRef(content[t], g)
    <3>1. content'[t] = new /\ wanted'[t] = wanted[t] \ {g} /\ legacy'[t] = legacy[t]
      BY <1>1, <2>2
    <3>2. IsMarkup(new) /\ AllIds(new) = AllIds(content[t]) \ {g}
      BY <2>1, RemoveGraphRefIs
    <3> HIDE DEF new
    <3>3. ReferencedIds(new) = AllIds(new) \cap Digits
          /\ ReferencedIds(content[t]) = AllIds(content[t]) \cap Digits
      BY <2>1, <3>2, RefsAre
    <3>4. ReferencedIds(new) = ReferencedIds(content[t]) \ {g}
      BY <3>2, <3>3
    <3>5. QED
      BY <2>1, <3>1, <3>2, <3>4 DEF GoodText
  <2>3. CASE ~(t \in texts /\ ImageOf[t] = ImageOf[g])
    <3>1. content'[t] = content[t] /\ legacy'[t] = legacy[t] /\ (t \in texts => wanted'[t] = wanted[t])
      BY <1>1, <2>3
    <3>2. QED
      BY <2>1, <3>1
  <2>4. QED
    BY <2>2, <2>3
<1>3. DOMAIN wanted' = Texts /\ texts' \ overrun' \subseteq Texts
  BY <1>1 DEF Inv, TableInv
<1>4. QED
  BY <1>1, <1>2, <1>3 DEF LinksInv

\* The contents are good at first.
LEMMA LinksInit == Init => LinksInv /\ ReadInv
<1> SUFFICES ASSUME Init PROVE LinksInv /\ ReadInv
  OBVIOUS
<1>1. /\ job = Idle /\ content \in [Texts -> Corpus] /\ legacy = [t \in Texts |-> Null]
      /\ wanted = [t \in Texts |-> ReferencedIds(content[t])] /\ texts = Texts /\ elementid = Selector
  BY DEF Init
<1>2. ReadInv
  BY <1>1 DEF ReadInv, Idle
<1>3. \A c \in Corpus : IsMarkup(c)
  BY MarkupAssumption, Zenon
<1>4. \A g \in Graphs : GoodSelector(Selector[g])
  BY MarkupAssumption, Zenon DEF GoodSelector, Tagged
<1>5. \A t \in Texts : GoodText(content[t], legacy[t])
  BY <1>1, <1>3 DEF GoodText
<1>6. QED
  BY <1>1, <1>2, <1>4, <1>5 DEF LinksInv

\* Every step keeps them good.
LEMMA LinksNext == Inv /\ LinksInv /\ ReadInv /\ [Next]_vars => LinksInv' /\ ReadInv'
<1> SUFFICES ASSUME Inv, LinksInv, ReadInv, [Next]_vars PROVE LinksInv' /\ ReadInv'
  OBVIOUS
<1>1. CASE CommandStep
  BY <1>1, CommandLinks, CommandRead
<1>2. ASSUME Request PROVE ReadInv'
  BY <1>2, StayingRead DEF Request, progress
<1>3. ASSUME NEW t \in Texts, NEW g \in Graphs, NEW n \in 0..2, LinkRegion(t, n, g)
      PROVE  LinksInv' /\ ReadInv'
  BY <1>2, <1>3, LinkLinks DEF LinkRegion, Edits
<1>4. ASSUME NEW g \in Graphs, UnlinkRegion(g) PROVE LinksInv' /\ ReadInv'
  BY <1>2, <1>4, UnlinkLinks DEF UnlinkRegion, Edits
<1>5. ASSUME NEW g \in Graphs, Redraw(g) \/ RedrawBare(g) PROVE LinksInv' /\ ReadInv'
  <2>1. PICK new, old : Replace(g, new, old) /\ GoodSelector(new)
    BY <1>5, AbsentIsGood, ImportedIsGood DEF Redraw, RedrawBare, LinksInv
  <2>2. ReadInv' /\ overrun' = overrun
    BY <1>2, <2>1 DEF Replace, Request
  <2>3. LinksInv'
    BY <2>1, <2>2, ReplacedLinks DEF Replace, Request, Inv, TableInv
  <2>4. QED
    BY <2>2, <2>3
<1>6. ASSUME NEW t \in Texts, DeleteText(t) PROVE LinksInv' /\ ReadInv'
  <2>1. UNCHANGED <<content, legacy, elementid, wanted>> /\ texts' \subseteq texts
        /\ overrun' = overrun /\ Request
    BY <1>6 DEF DeleteText, Edits, Request
  <2>2. QED
    BY <1>2, <2>1, StayingLinks
<1>7. ASSUME NEW t \in Texts, NEW c \in Typed, WriteText(t, c) PROVE LinksInv' /\ ReadInv'
  BY <1>2, <1>7, TypedLinks DEF WriteText, Edits
<1>8. CASE UNCHANGED vars
  <2>1. UNCHANGED <<content, legacy, elementid, wanted, plan, at, job>> /\ texts' = texts /\ overrun' = overrun
    BY <1>8 DEF vars, progress
  <2>2. QED
    BY <2>1, StayingLinks, StayingRead
<1>9. QED
  BY <1>1, <1>3, <1>4, <1>5, <1>6, <1>7, <1>8 DEF Next

\* Through every command, death and edit: a text that no command wrote on
\* account of an earlier reading names exactly the regions that its editors,
\* and embed, made it name, and no drawing is undone.
THEOREM EditsAlwaysSurvive == Spec => []EditsSurvive
<1>1. LinksInv /\ ShapesInv => EditsSurvive
  BY DEF LinksInv, ShapesInv, EditsSurvive
<1>2. QED
  BY <1>1, InitInv, NextInv, ShapesInit, ShapesNext, LinksInit, LinksNext, PTL DEF Spec

-----------------------------------------------------------------------------
(* Renumbering.                                                             *)

\* The new id of a region: in a token, in a pair, in a tag.
NewId(k, new) == IF k \in DOMAIN new THEN new[k] ELSE k
NewToken(token, new) ==
  IF token[1] = "gid" /\ token[2] \in DOMAIN new THEN <<"gid", new[token[2]]>> ELSE token
NewPair(a, new) ==
  CASE a[1] = "corresp" -> <<a[1], Mapped(a[2], LAMBDA token : NewToken(token, new))>>
    [] a[1] = "data-graph-id" -> <<a[1], Mapped(a[2], LAMBDA id : NewId(id, new))>>
    [] OTHER -> a

\* Renumbering twice is the identity, and keeps apart what is a number.
Swaps(new) ==
  /\ \A k : NewId(NewId(k, new), new) = k
  /\ \A k : k \in Digits <=> NewId(k, new) \in Digits

\* Renumbering goes pair by pair.
LEMMA RenumberedAre ==
  ASSUME NEW attrs, NEW new
  PROVE  Renumbered(attrs, new) = [i \in DOMAIN attrs |-> NewPair(attrs[i], new)]
BY DEF Renumbered, Mapped, NewPair, NewToken, NewId

\* What is mapped twice, and comes back element by element.
LEMMA MapTwice ==
  ASSUME NEW s, IsSeq(s), NEW m, m = [i \in DOMAIN s |-> m[i]], NEW b, b = [i \in DOMAIN m |-> b[i]],
         \A i \in DOMAIN s : b[i] = s[i]
  PROVE  b = s
<1>1. s = [i \in DOMAIN s |-> s[i]]
  BY SeqLen
<1>2. DOMAIN m = DOMAIN s
  OBVIOUS
<1>3. b = [i \in DOMAIN s |-> b[i]]
  BY <1>2
<1>4. QED
  BY <1>1, <1>3

\* A token that is renumbered twice is as it was.
LEMMA NewTokenIs ==
  ASSUME NEW token, IsToken(token), NEW new, Swaps(new)
  PROVE  LET once == NewToken(token, new)
         IN /\ IsToken(once) /\ NewToken(once, new) = token
            /\ \A x \in Digits : once[2] = x <=> token[2] = NewId(x, new)
<1> DEFINE once == NewToken(token, new)
           k == token[2]
<1>0. token = <<token[1], k>>
  BY DEF IsToken, IsPair
<1>1. CASE token[1] = "gid"
  <2>1. token = <<"gid", k>>
    BY <1>0, <1>1
  <2>2. once = <<"gid", NewId(k, new)>>
    BY <1>1, <2>1 DEF NewToken, NewId
  <2>3. NewId(NewId(k, new), new) = k /\ \A x : NewId(NewId(x, new), new) = x
    BY DEF Swaps
  <2> DEFINE r == NewId(k, new)
  <2>4. once = <<"gid", r>> /\ NewId(r, new) = k
    BY <2>2, <2>3
  <2> HIDE DEF once, k, r
  <2>5. once[1] = "gid" /\ once[2] = r /\ once = <<once[1], once[2]>>
    BY <2>4
  <2>6. NewToken(once, new) = <<"gid", NewId(r, new)>>
    BY <2>4, <2>5 DEF NewToken, NewId
  <2>7. \A x : r = x <=> k = NewId(x, new)
    BY <2>3, <2>4 DEF r
  <2>8. IsToken(once) /\ NewToken(once, new) = token /\ \A x \in Digits : once[2] = x <=> k = NewId(x, new)
    BY <2>1, <2>4, <2>5, <2>6, <2>7 DEF IsToken, IsPair
  <2>9. QED
    BY <2>8 DEF once, k
<1>2. CASE token[1] # "gid"
  <2>1. once = token
    BY <1>2 DEF NewToken
  <2>2. k \notin Digits
    BY <1>2 DEF IsToken
  <2> HIDE DEF once, k
  <2>3. \A x \in Digits : NewId(x, new) \in Digits
    BY DEF Swaps
  <2>4. \A x \in Digits : ~(k = x) /\ ~(k = NewId(x, new))
    BY <2>2, <2>3
  <2>5. NewToken(token, new) = token
    BY <1>2 DEF NewToken
  <2>6. QED
    BY <2>1, <2>4, <2>5 DEF once, k
<1>3. QED
  BY <1>1, <1>2

\* What a renumbered attribute is, and what it names.
LEMMA NewPairIs ==
  ASSUME NEW a, a = <<a[1], a[2]>>, IsValue(a[1], a[2]), NEW new, Swaps(new)
  PROVE  LET once == NewPair(a, new)
         IN /\ once = <<once[1], once[2]>> /\ once[1] = a[1] /\ IsValue(once[1], once[2])
            /\ NewPair(once, new) = a
            /\ \A x \in Digits : x \in PairIds(once) <=> NewId(x, new) \in PairIds(a)
<1> DEFINE once == NewPair(a, new)
           s == a[2]
<1>1. CASE a[1] = "corresp"
  <2> DEFINE m == [i \in DOMAIN s |-> NewToken(s[i], new)]
             b == [i \in DOMAIN m |-> NewToken(m[i], new)]
  <2>1. once = <<"corresp", m>>
    BY <1>1 DEF NewPair, Mapped
  <2>2. IsSeq(s) /\ \A i \in DOMAIN s : IsToken(s[i])
    BY <1>1 DEF IsValue
  <2>3. NewPair(<<"corresp", m>>, new) = <<"corresp", b>>
    BY DEF NewPair, Mapped
  <2>4. /\ m = [i \in DOMAIN s |-> m[i]] /\ \A i \in DOMAIN s : m[i] = NewToken(s[i], new)
        /\ b = [i \in DOMAIN m |-> b[i]] /\ \A i \in DOMAIN m : b[i] = NewToken(m[i], new)
    OBVIOUS
  <2>a. a = <<"corresp", s>>
    BY <1>1
  <2> HIDE DEF once, s, m, b
  <2>5. IsSeq(m) /\ DOMAIN m = DOMAIN s
    BY <2>2, <2>4, MapIs
  <2>6. \A i \in DOMAIN s : IsToken(m[i]) /\ NewToken(m[i], new) = s[i]
                            /\ \A x \in Digits : m[i][2] = x <=> s[i][2] = NewId(x, new)
    BY <2>2, <2>4, NewTokenIs
  <2>7. b = s
    BY <2>2, <2>4, <2>5, <2>6, MapTwice
  <2>8. IsValue("corresp", m)
    BY <2>5, <2>6 DEF IsValue
  <2>9. PairIds(once) = {q[2] : q \in ToSet(m)} /\ PairIds(a) = {q[2] : q \in ToSet(s)}
    BY <2>1, <2>a DEF PairIds
  <2>10. \A x \in Digits : x \in PairIds(once) <=> NewId(x, new) \in PairIds(a)
    <3> SUFFICES ASSUME NEW x \in Digits PROVE x \in PairIds(once) <=> NewId(x, new) \in PairIds(a)
      OBVIOUS
    <3>1. x \in PairIds(once) <=> \E i \in DOMAIN s : m[i][2] = x
      BY <2>5, <2>9 DEF ToSet
    <3>2. NewId(x, new) \in PairIds(a) <=> \E i \in DOMAIN s : s[i][2] = NewId(x, new)
      BY <2>9 DEF ToSet
    <3>3. QED
      BY <2>6, <3>1, <3>2
  <2>11. once[1] = "corresp" /\ once[2] = m
    BY <2>1
  <2>12. QED
    BY <1>1, <2>1, <2>3, <2>7, <2>8, <2>10, <2>11, <2>a DEF once
<1>2. CASE a[1] = "data-graph-id"
  <2> DEFINE m == [i \in DOMAIN s |-> NewId(s[i], new)]
             b == [i \in DOMAIN m |-> NewId(m[i], new)]
  <2>1. once = <<"data-graph-id", m>>
    BY <1>2 DEF NewPair, Mapped
  <2>2. IsSeq(s)
    BY <1>2 DEF IsValue
  <2>3. NewPair(<<"data-graph-id", m>>, new) = <<"data-graph-id", b>>
    BY DEF NewPair, Mapped
  <2>4. /\ m = [i \in DOMAIN s |-> m[i]] /\ \A i \in DOMAIN s : m[i] = NewId(s[i], new)
        /\ b = [i \in DOMAIN m |-> b[i]] /\ \A i \in DOMAIN m : b[i] = NewId(m[i], new)
    OBVIOUS
  <2>a. a = <<"data-graph-id", s>>
    BY <1>2
  <2> HIDE DEF once, s, m, b
  <2>5. IsSeq(m) /\ DOMAIN m = DOMAIN s
    BY <2>2, <2>4, MapIs
  <2>6. \A x : NewId(NewId(x, new), new) = x
    BY DEF Swaps
  <2>7. b = s
    <3>1. \A i \in DOMAIN s : b[i] = s[i]
      BY <2>4, <2>5, <2>6
    <3>2. QED
      BY <2>2, <2>4, <3>1, MapTwice
  <2>8. IsValue("data-graph-id", m)
    BY <2>5 DEF IsValue
  <2>9. PairIds(once) = ToSet(m) /\ PairIds(a) = ToSet(s)
    BY <2>1, <2>a DEF PairIds
  <2>10. \A x \in Digits : x \in PairIds(once) <=> NewId(x, new) \in PairIds(a)
    <3> SUFFICES ASSUME NEW x \in Digits PROVE x \in PairIds(once) <=> NewId(x, new) \in PairIds(a)
      OBVIOUS
    <3>1. x \in PairIds(once) <=> \E i \in DOMAIN s : x = m[i]
      BY <2>5, <2>9, InSet
    <3>2. NewId(x, new) \in PairIds(a) <=> \E i \in DOMAIN s : NewId(x, new) = s[i]
      BY <2>9, InSet
    <3>3. \A i \in DOMAIN s : x = m[i] <=> NewId(x, new) = s[i]
      BY <2>4, <2>6
    <3>4. QED
      BY <3>1, <3>2, <3>3
  <2>11. once[1] = "data-graph-id" /\ once[2] = m
    BY <2>1
  <2>12. QED
    BY <1>2, <2>1, <2>3, <2>7, <2>8, <2>10, <2>11, <2>a DEF once
<1>3. CASE a[1] # "corresp" /\ a[1] # "data-graph-id"
  <2>1. once = a
    BY <1>3 DEF NewPair
  <2> HIDE DEF once
  <2>2. PairIds(a) = {}
    BY <1>3 DEF PairIds
  <2>3. NewPair(once, new) = a
    BY <2>1 DEF once
  <2>4. QED
    BY <2>1, <2>2, <2>3 DEF once
<1>4. QED
  BY <1>1, <1>2, <1>3

\* A renumbered list of attributes.
LEMMA NewAttrsIs ==
  ASSUME NEW attrs, IsAttrs(attrs), NEW new, Swaps(new)
  PROVE  LET once == Renumbered(attrs, new)
         IN /\ IsAttrs(once) /\ Renumbered(once, new) = attrs
            /\ \A key : Has(once, key) <=> Has(attrs, key)
            /\ \A x \in Digits : x \in AttrIds(once) <=> NewId(x, new) \in AttrIds(attrs)
<1> DEFINE once == Renumbered(attrs, new)
           back == Renumbered(once, new)
<1>1. once = [i \in DOMAIN attrs |-> NewPair(attrs[i], new)]
  BY RenumberedAre
<1> HIDE DEF once
<1>2. back = [i \in DOMAIN once |-> NewPair(once[i], new)]
  BY RenumberedAre
<1> HIDE DEF back
<1>3. /\ once = [i \in DOMAIN attrs |-> once[i]] /\ \A i \in DOMAIN attrs : once[i] = NewPair(attrs[i], new)
      /\ back = [i \in DOMAIN once |-> back[i]] /\ \A i \in DOMAIN once : back[i] = NewPair(once[i], new)
  BY <1>1, <1>2
<1>4. IsSeq(attrs)
  BY DEF IsAttrs
<1>5. IsSeq(once) /\ DOMAIN once = DOMAIN attrs
  BY <1>3, <1>4, MapIs
<1>6. ASSUME NEW i \in DOMAIN attrs
      PROVE  /\ once[i] = <<once[i][1], once[i][2]>> /\ once[i][1] = attrs[i][1]
             /\ IsValue(once[i][1], once[i][2]) /\ back[i] = attrs[i]
             /\ \A x \in Digits : x \in PairIds(once[i]) <=> NewId(x, new) \in PairIds(attrs[i])
  <2> DEFINE a == attrs[i]
  <2>1. a = <<a[1], a[2]>> /\ IsValue(a[1], a[2])
    BY DEF IsAttrs, IsPair
  <2>2. once[i] = NewPair(a, new) /\ back[i] = NewPair(once[i], new)
    BY <1>3, <1>5
  <2> HIDE DEF a
  <2> DEFINE b == NewPair(a, new)
  <2>3. /\ b = <<b[1], b[2]>> /\ b[1] = a[1] /\ IsValue(b[1], b[2])
        /\ NewPair(b, new) = a
        /\ \A x \in Digits : x \in PairIds(b) <=> NewId(x, new) \in PairIds(a)
    BY <2>1, NewPairIs
  <2> HIDE DEF b
  <2>4. QED
    BY <2>2, <2>3 DEF a, b
<1>7. back = attrs
  BY <1>3, <1>4, <1>6, MapTwice
<1>8. IsAttrs(once)
  <2>1. \A i, j \in DOMAIN once : once[i][1] = once[j][1] => i = j
    BY <1>5, <1>6 DEF IsAttrs
  <2>2. QED
    BY <1>5, <1>6, <2>1 DEF IsAttrs, IsPair
<1>9. \A key : Has(once, key) <=> Has(attrs, key)
  BY <1>5, <1>6 DEF Has
<1>10. \A x \in Digits : x \in AttrIds(once) <=> NewId(x, new) \in AttrIds(attrs)
  <2> SUFFICES ASSUME NEW x \in Digits PROVE x \in AttrIds(once) <=> NewId(x, new) \in AttrIds(attrs)
    OBVIOUS
  <2>1. x \in AttrIds(once) <=> \E i \in DOMAIN attrs : x \in PairIds(once[i])
    BY <1>5, InAttrIds DEF ToSet
  <2>2. NewId(x, new) \in AttrIds(attrs) <=> \E i \in DOMAIN attrs : NewId(x, new) \in PairIds(attrs[i])
    BY InAttrIds DEF ToSet
  <2>3. QED
    BY <1>6, <2>1, <2>2
<1>11. QED
  BY <1>7, <1>8, <1>9, <1>10 DEF once, back

\* A renumbered event.
NewEvent(t, new) == [t EXCEPT !.attrs = Renumbered(@, new)]

\* So is a tag.
LEMMA NewEventIs ==
  ASSUME NEW t, IsEvent(t), NEW new, Swaps(new)
  PROVE  LET once == NewEvent(t, new)
         IN /\ IsEvent(once) /\ NewEvent(once, new) = t
            /\ IsStart(once) <=> IsStart(t)
            /\ \A x \in Digits : x \in AttrIds(once.attrs) <=> NewId(x, new) \in AttrIds(t.attrs)
<1> DEFINE once == NewEvent(t, new)
           attrs == Renumbered(t.attrs, new)
<1>1. PICK ev, name, old : t = [ev |-> ev, name |-> name, attrs |-> old]
  BY DEF IsEvent
<1>2. t.ev = ev /\ t.name = name /\ t.attrs = old
  BY <1>1
<1>3. IsAttrs(old)
  BY <1>2 DEF IsEvent
<1>4. /\ IsAttrs(attrs) /\ Renumbered(attrs, new) = old
      /\ \A key : Has(attrs, key) <=> Has(old, key)
      /\ \A x \in Digits : x \in AttrIds(attrs) <=> NewId(x, new) \in AttrIds(old)
  BY <1>2, <1>3, NewAttrsIs
<1>5. once = [ev |-> ev, name |-> name, attrs |-> attrs]
  <2>1. once = [t EXCEPT !.attrs = attrs]
    BY DEF NewEvent
  <2> HIDE DEF attrs, once
  <2>2. QED
    BY <1>1, <2>1
<1> HIDE DEF once, attrs
<1>6. once.ev = ev /\ once.name = name /\ once.attrs = attrs
  BY <1>5
<1>7. NewEvent(once, new) = t
  <2> DEFINE back == Renumbered(once.attrs, new)
  <2>1. NewEvent(once, new) = [once EXCEPT !.attrs = back]
    BY DEF NewEvent
  <2>2. back = old
    BY <1>4, <1>6
  <2> HIDE DEF back
  <2>3. QED
    BY <1>1, <1>5, <2>1, <2>2
<1>8. IsStart(once) <=> IsStart(t)
  BY <1>2, <1>6 DEF IsStart
<1>9. DptSpan(once) <=> DptSpan(t)
  BY <1>2, <1>4, <1>6 DEF DptSpan
<1>10. IsEvent(once)
  BY <1>2, <1>4, <1>5, <1>6, <1>9 DEF IsEvent
<1>11. QED
  BY <1>2, <1>4, <1>6, <1>7, <1>8, <1>10 DEF once

\* So is a text, and its ids are the new ones of those it had.
LEMMA RewrittenIs ==
  ASSUME NEW c, IsMarkup(c), NEW new, Swaps(new)
  PROVE  LET once == RewriteGraphRefs(c, new)
         IN /\ RewriteGraphRefs(once, new) = c
            /\ ReferencedIds(once) = {NewId(k, new) : k \in ReferencedIds(c)}
<1> DEFINE once == RewriteGraphRefs(c, new)
           back == RewriteGraphRefs(once, new)
<1>1. once = [i \in DOMAIN c |-> NewEvent(c[i], new)]
  BY DEF RewriteGraphRefs, Mapped, NewEvent
<1> HIDE DEF once
<1>2. back = [i \in DOMAIN once |-> NewEvent(once[i], new)]
  BY DEF RewriteGraphRefs, Mapped, NewEvent
<1> HIDE DEF back
<1>3. /\ once = [i \in DOMAIN c |-> once[i]] /\ \A i \in DOMAIN c : once[i] = NewEvent(c[i], new)
      /\ back = [i \in DOMAIN once |-> back[i]] /\ \A i \in DOMAIN once : back[i] = NewEvent(once[i], new)
  BY <1>1, <1>2
<1>4. IsSeq(c) /\ \A i \in DOMAIN c : IsEvent(c[i])
  BY DEF IsMarkup
<1>5. IsSeq(once) /\ DOMAIN once = DOMAIN c
  BY <1>3, <1>4, MapIs
<1>6. ASSUME NEW i \in DOMAIN c
      PROVE  /\ IsEvent(once[i]) /\ back[i] = c[i] /\ (IsStart(once[i]) <=> IsStart(c[i]))
             /\ \A x \in Digits : x \in AttrIds(once[i].attrs) <=> NewId(x, new) \in AttrIds(c[i].attrs)
  <2> DEFINE t == c[i]
             e == NewEvent(t, new)
  <2>1. IsEvent(t)
    BY <1>4
  <2>2. once[i] = e /\ back[i] = NewEvent(once[i], new)
    BY <1>3, <1>5
  <2> HIDE DEF t
  <2>3. /\ IsEvent(e) /\ NewEvent(e, new) = t /\ (IsStart(e) <=> IsStart(t))
        /\ \A x \in Digits : x \in AttrIds(e.attrs) <=> NewId(x, new) \in AttrIds(t.attrs)
    BY <2>1, NewEventIs
  <2> HIDE DEF e
  <2>4. QED
    BY <2>2, <2>3 DEF t, e
<1>7. back = c
  BY <1>3, <1>4, <1>6, MapTwice
<1>8. IsMarkup(once)
  BY <1>5, <1>6 DEF IsMarkup
<1>9. \A x \in Digits : x \in AllIds(once) <=> NewId(x, new) \in AllIds(c)
  <2> SUFFICES ASSUME NEW x \in Digits PROVE x \in AllIds(once) <=> NewId(x, new) \in AllIds(c)
    OBVIOUS
  <2>1. x \in AllIds(once) <=> \E i \in DOMAIN c : IsStart(once[i]) /\ x \in AttrIds(once[i].attrs)
    BY <1>5 DEF AllIds
  <2>2. NewId(x, new) \in AllIds(c)
          <=> \E i \in DOMAIN c : IsStart(c[i]) /\ NewId(x, new) \in AttrIds(c[i].attrs)
    BY DEF AllIds
  <2>3. QED
    BY <1>6, <2>1, <2>2
<1>10. ReferencedIds(once) = AllIds(once) \cap Digits /\ ReferencedIds(c) = AllIds(c) \cap Digits
  BY <1>8, RefsAre
<1>11. ReferencedIds(once) = {NewId(k, new) : k \in ReferencedIds(c)}
  <2>1. /\ \A k : NewId(NewId(k, new), new) = k
        /\ \A k : k \in Digits <=> NewId(k, new) \in Digits
    BY DEF Swaps
  <2>2. ASSUME NEW x \in ReferencedIds(once) PROVE \E k \in ReferencedIds(c) : x = NewId(k, new)
    BY <1>9, <1>10, <2>1
  <2>3. ASSUME NEW k \in ReferencedIds(c) PROVE NewId(k, new) \in ReferencedIds(once)
    BY <1>9, <1>10, <2>1
  <2>4. QED
    BY <2>2, <2>3
<1>12. QED
  BY <1>7, <1>11 DEF once, back

\* An exchange of two numbers.
LEMMA ExchangeSwaps ==
  ASSUME NEW g \in Digits, NEW h \in Digits
  PROVE  LET swap == [k \in {g, h} |-> IF k = g THEN h ELSE g]
         IN Swaps(swap) /\ \A k : NewId(k, swap) = IF k \in {g, h} THEN swap[k] ELSE k
<1> DEFINE swap == [k \in {g, h} |-> IF k = g THEN h ELSE g]
<1>1. DOMAIN swap = {g, h} /\ swap[g] = h /\ swap[h] = g
  OBVIOUS
<1> HIDE DEF swap
<1>2. \A k : NewId(k, swap) = IF k \in {g, h} THEN swap[k] ELSE k
  BY <1>1 DEF NewId
<1>3. Swaps(swap)
  BY <1>1, <1>2 DEF Swaps
<1>4. QED
  BY <1>2, <1>3 DEF swap

\* Whatever has been done to the texts: exchanging two regions' numbers in
\* one renames all links at once, and exchanging them back restores the text.
THEOREM RenumberingIsAlwaysExact == Spec => []RenumberingIsExact
<1>1. Inv /\ LinksInv => RenumberingIsExact
  <2> SUFFICES ASSUME Inv, LinksInv, NEW t \in texts, NEW g \in Graphs, NEW h \in Graphs
               PROVE  LET swap == [k \in {g, h} |-> IF k = g THEN h ELSE g]
                          new == RewriteGraphRefs(content[t], swap)
                      IN /\ ReferencedIds(new) = {IF k \in {g, h} THEN swap[k] ELSE k :
                                                    k \in ReferencedIds(content[t])}
                         /\ RewriteGraphRefs(new, swap) = content[t]
    BY DEF RenumberingIsExact
  <2> DEFINE swap == [k \in {g, h} |-> IF k = g THEN h ELSE g]
             c == content[t]
             new == RewriteGraphRefs(c, swap)
  <2>1. g \in Digits /\ h \in Digits
    BY GraphsAssumption
  <2>2. Swaps(swap) /\ \A k : NewId(k, swap) = IF k \in {g, h} THEN swap[k] ELSE k
    BY <2>1, ExchangeSwaps
  <2>3. IsMarkup(c)
    BY DEF Inv, TableInv, LinksInv, GoodText
  <2> HIDE DEF swap, c
  <2>4. RewriteGraphRefs(new, swap) = c /\ ReferencedIds(new) = {NewId(k, swap) : k \in ReferencedIds(c)}
    BY <2>2, <2>3, RewrittenIs
  <2> HIDE DEF new
  <2>5. ReferencedIds(new) = {IF k \in {g, h} THEN swap[k] ELSE k : k \in ReferencedIds(c)}
    BY <2>2, <2>4
  <2>6. QED
    BY <2>4, <2>5 DEF new, swap, c
<1>2. QED
  BY <1>1, InitInv, NextInv, LinksInit, LinksNext, PTL DEF Spec

-----------------------------------------------------------------------------
(* Linking keeps a text well-formed.                                        *)

\* The fold of the well-formedness check, and its steps one by one.
Nesting == INSTANCE SequenceFolds WITH Step <- Nest

\* The fold of the well-formedness check, in the terms of SequenceFolds.
LEMMA FoldsNest ==
  \A base, seq : FoldLeft(Nest, base, seq) = Nesting!Folded(base, seq)
BY Zenon DEF FoldLeft, MapThenFoldSet, Nesting!Folded, Nesting!FoldLeft, Nesting!MapThenFoldSet,
             Max, Nesting!Max

Unread == [open |-> <<>>, error |-> FALSE]

NestChain(c, text, end) ==
  c[0] = Unread /\ c[Len(text)] = end
  /\ \A i \in 1 .. Len(text) : c[i] = Nest(c[i - 1], text[i])

\* The check, step after step.
LEMMA ChainNest ==
  ASSUME NEW text, IsSeq(text)
  PROVE  \E c : NestChain(c, text, FoldLeft(Nest, Unread, text))
<1> DEFINE n == Len(text)
<1>1. n \in Nat /\ DOMAIN text = 1 .. n
  BY SeqLen
<1>2. PICK c : Nesting!Makes(c, Unread, text, n)
  <2> HIDE DEF n
  <2>1. QED
    BY <1>1, Nesting!FoldChain
<1>3. NestChain(c, text, FoldLeft(Nest, Unread, text))
  BY <1>2, FoldsNest, Zenon DEF Nesting!Makes, NestChain
<1>4. QED
  BY <1>3, Zenon

\* The state of the parser as long as there is no error: the names of open
\* elements have their capitals.
Proper(name) == Canon(Lower(name)) = name
NestState(s) ==
  \E open, error : /\ s = [open |-> open, error |-> error] /\ error \in BOOLEAN
                   /\ IsSeq(open) /\ \A x \in ToSet(open) : Proper(x)

\* What one step of the check makes of the state s: new, at the token t.
NestCases(new, s, t, open, error) ==
  /\ t.ev = "start" => new = [open |-> Append(open, t.name), error |-> error]
  /\ t.ev = "end" /\ open # <<>> /\ Last(open) = t.name
       => new = [open |-> Front(open), error |-> error]
  /\ t.ev = "end" /\ ~(open # <<>> /\ Last(open) = t.name)
       => new = [open |-> open, error |-> TRUE]
  /\ t.ev = "entity" /\ t.name \notin XmlSafe => new = [open |-> open, error |-> TRUE]
  /\ t.ev = "entity" /\ t.name \in XmlSafe => new = s
  /\ t.ev \notin {"start", "end", "entity"} => new = s

\* One step of the check.
LEMMA NestIs ==
  ASSUME NEW open, NEW error, NEW s, s = [open |-> open, error |-> error], NEW t
  PROVE  NestCases(Nest(s, t), s, t, open, error)
<1>1. s.open = open /\ s.error = error
  OBVIOUS
<1>2. CASE t.ev = "start"
  BY <1>1, <1>2 DEF Nest, NestCases
<1>3. CASE t.ev = "end"
  BY <1>1, <1>3 DEF Nest, NestCases
<1>4. CASE t.ev = "entity"
  BY <1>1, <1>4 DEF Nest, NestCases
<1>5. CASE t.ev \notin {"start", "end", "entity"}
  BY <1>1, <1>5 DEF Nest, NestCases
<1>6. QED
  BY <1>2, <1>3, <1>4, <1>5

\* The state has two fields, and an error is never taken back.
NestShape(s) == \E open, error : s = [open |-> open, error |-> error] /\ error \in BOOLEAN

\* An error stays.
LEMMA ErrorStays ==
  ASSUME NEW s, NestShape(s), NEW t
  PROVE  NestShape(Nest(s, t)) /\ (~Nest(s, t).error => ~s.error)
<1>1. PICK open, error : s = [open |-> open, error |-> error] /\ error \in BOOLEAN
  BY DEF NestShape
<1>2. s.error = error
  BY <1>1
<1> DEFINE st == Nest(s, t)
<1>3. NestCases(st, s, t, open, error)
  BY <1>1, NestIs
<1> HIDE DEF st
<1>4. \E o : st = [open |-> o, error |-> error] \/ st = [open |-> o, error |-> TRUE]
  BY <1>1, <1>3, Zenon DEF NestCases
<1>5. PICK o : st = [open |-> o, error |-> error] \/ st = [open |-> o, error |-> TRUE]
  BY <1>4
<1>6. CASE st = [open |-> o, error |-> error]
  <2>1. st.error = error
    BY <1>6
  <2>2. NestShape(st)
    BY <1>1, <1>6 DEF NestShape
  <2>3. QED
    BY <1>2, <2>1, <2>2 DEF st
<1>7. CASE st = [open |-> o, error |-> TRUE]
  <2>1. st.error = TRUE
    BY <1>7
  <2>2. NestShape(st)
    BY <1>7 DEF NestShape
  <2>3. QED
    BY <2>1, <2>2 DEF st
<1>8. QED
  BY <1>5, <1>6, <1>7

\* A proper name is opened.
LEMMA ProperPush ==
  ASSUME NEW open, IsSeq(open), \A x \in ToSet(open) : Proper(x), NEW name, Proper(name)
  PROVE  IsSeq(Append(open, name)) /\ \A x \in ToSet(Append(open, name)) : Proper(x)
<1> DEFINE new == Append(open, name)
           n == Len(open)
<1>1. /\ IsSeq(new)
      /\ \A i \in 1 .. n : new[i] = open[i]
      /\ new[n + 1] = name
      /\ \A i \in DOMAIN new : i \in DOMAIN open \/ i = n + 1
  BY SeqAppend
<1>2. DOMAIN open = 1 .. n
  BY SeqLen
<1> HIDE DEF new, n
<1>3. ASSUME NEW x \in ToSet(new) PROVE Proper(x)
  <2>1. PICK i \in DOMAIN new : x = new[i]
    BY InSet
  <2>2. CASE i \in DOMAIN open
    <3>1. x = open[i]
      BY <1>1, <1>2, <2>1, <2>2
    <3>2. x \in ToSet(open)
      BY <2>2, <3>1, InSet
    <3>3. QED
      BY <3>2
  <2>3. QED
    BY <1>1, <2>1, <2>2
<1>4. QED
  BY <1>1, <1>3 DEF new

\* A proper name is closed.
LEMMA ProperPop ==
  ASSUME NEW open, IsSeq(open), \A x \in ToSet(open) : Proper(x), open # <<>>
  PROVE  /\ Proper(Last(open))
         /\ IsSeq(Front(open)) /\ \A x \in ToSet(Front(open)) : Proper(x)
<1> DEFINE n == Len(open)
           new == Front(open)
<1>1. n \in Nat /\ DOMAIN open = 1 .. n
  BY SeqLen
<1>2. n # 0
  <2>1. open \in Seq(ToSet(open))
    BY DEF IsSeq
  <2>2. QED
    BY <2>1
<1>3. n > 0 /\ n \in DOMAIN open
  <2> HIDE DEF n
  <2>1. QED
    BY <1>1, <1>2
<1>4. IsSeq(new) /\ \A i \in DOMAIN new : i \in 1 .. n /\ new[i] = open[i]
  <2>1. CASE n > 1
    <3>1. IsSeq(new) /\ DOMAIN new = 1 .. n - 1 /\ \A i \in 1 .. n - 1 : new[i] = open[i]
      BY <2>1, FrontIs
    <3> HIDE DEF new, n
    <3>2. \A i \in 1 .. n - 1 : i \in 1 .. n
      BY <1>1
    <3>3. QED
      BY <3>1, <3>2
  <2>2. CASE n = 1
    <3>1. new = <<>>
      BY <2>2 DEF Front
    <3>2. IsSeq(new) /\ DOMAIN new = {}
      BY <3>1, SeqEmpty
    <3>3. QED
      BY <3>2
  <2>3. n > 1 \/ n = 1
    <3> HIDE DEF n
    <3>1. QED
      BY <1>1, <1>3
  <2>4. QED
    BY <2>1, <2>2, <2>3
<1>5. Last(open) = open[n]
  BY DEF Last
<1> HIDE DEF n, new
<1>6. Proper(Last(open))
  <2>1. open[n] \in ToSet(open)
    BY <1>3, InSet
  <2>2. QED
    BY <1>5, <2>1
<1>7. ASSUME NEW x \in ToSet(new) PROVE Proper(x)
  <2>1. PICK i \in DOMAIN new : x = new[i]
    BY InSet
  <2>2. i \in DOMAIN open /\ x = open[i]
    BY <1>1, <1>4, <2>1
  <2>3. x \in ToSet(open)
    BY <2>2, InSet
  <2>4. QED
    BY <2>3
<1>8. QED
  BY <1>4, <1>6, <1>7 DEF new

\* The same event after linking: an end tag has its capitals.
Relinked(t, u) ==
  /\ u.ev = t.ev
  /\ t.ev \in {"start", "entity"} => u.name = t.name
  /\ t.ev = "start" => Proper(t.name)
  /\ t.ev = "end" => u.name = Canon(Lower(t.name))

\* The check goes the same way through tags that are relinked.
LEMMA NestAlike ==
  ASSUME NEW s, NestState(s), NEW t, NEW u, Relinked(t, u), ~Nest(s, t).error
  PROVE  ~s.error /\ Nest(s, u) = Nest(s, t) /\ NestState(Nest(s, t))
<1>1. PICK open, error : /\ s = [open |-> open, error |-> error] /\ error \in BOOLEAN
                         /\ IsSeq(open) /\ \A x \in ToSet(open) : Proper(x)
  BY DEF NestState
<1>2. s.error = error
  BY <1>1
<1> DEFINE st == Nest(s, t)
           su == Nest(s, u)
<1>3. NestCases(st, s, t, open, error)
  BY <1>1, NestIs
<1>4. NestCases(su, s, u, open, error)
  BY <1>1, NestIs
<1> HIDE DEF st, su
<1>5. ~st.error
  BY DEF st
<1>6. CASE t.ev = "start"
  <2>1. st = [open |-> Append(open, t.name), error |-> error] /\ su = st /\ Proper(t.name)
    BY <1>3, <1>4, <1>6 DEF Relinked, NestCases
  <2>2. IsSeq(Append(open, t.name)) /\ \A x \in ToSet(Append(open, t.name)) : Proper(x)
    BY <1>1, <2>1, ProperPush
  <2>3. NestState(st)
    BY <1>1, <2>1, <2>2 DEF NestState
  <2>4. ~error
    BY <1>5, <2>1
  <2>5. QED
    BY <1>2, <2>1, <2>3, <2>4 DEF st, su
<1>7. CASE t.ev = "end"
  <2>1. CASE open # <<>> /\ Last(open) = t.name
    <3>1. /\ Proper(Last(open))
          /\ IsSeq(Front(open)) /\ \A x \in ToSet(Front(open)) : Proper(x)
      BY <1>1, <2>1, ProperPop
    <3>2. u.ev = "end" /\ u.name = t.name
      BY <1>7, <2>1, <3>1 DEF Relinked, Proper
    <3>3. st = [open |-> Front(open), error |-> error] /\ su = st
      BY <1>3, <1>4, <1>7, <2>1, <3>2 DEF NestCases
    <3>4. NestState(st)
      BY <1>1, <3>1, <3>3 DEF NestState
    <3>5. ~error
      BY <1>5, <3>3
    <3>6. QED
      BY <1>2, <3>3, <3>4, <3>5 DEF st, su
  <2>2. CASE ~(open # <<>> /\ Last(open) = t.name)
    <3>1. st = [open |-> open, error |-> TRUE]
      BY <1>3, <1>7, <2>2 DEF NestCases
    <3>2. QED
      BY <1>5, <3>1
  <2>3. QED
    BY <2>1, <2>2
<1>8. CASE t.ev = "entity" /\ t.name \notin XmlSafe
  <2>1. st = [open |-> open, error |-> TRUE]
    BY <1>3, <1>8 DEF NestCases
  <2>2. QED
    BY <1>5, <2>1
<1>9. CASE (t.ev = "entity" /\ t.name \in XmlSafe) \/ t.ev \notin {"start", "end", "entity"}
  <2>1. st = s /\ su = s
    BY <1>3, <1>4, <1>9 DEF Relinked, NestCases
  <2>2. QED
    BY <1>5, <2>1 DEF st, su
<1>10. QED
  BY <1>6, <1>7, <1>8, <1>9

\* A text whose tags are relinked stays well-formed.
LEMMA RelinkedWell ==
  ASSUME NEW a, NEW b, IsSeq(a), IsSeq(b), Len(a) = Len(b),
         \A i \in DOMAIN a : Relinked(a[i], b[i]), WellFormed(a)
  PROVE  WellFormed(b)
<1> DEFINE n == Len(a)
<1>1. n \in Nat /\ DOMAIN a = 1 .. n
  BY SeqLen
<1>2. PICK c : NestChain(c, a, FoldLeft(Nest, Unread, a))
  BY ChainNest
<1>3. PICK d : NestChain(d, b, FoldLeft(Nest, Unread, b))
  BY ChainNest
<1>4. /\ c[0] = Unread /\ d[0] = Unread
      /\ c[n] = FoldLeft(Nest, Unread, a) /\ d[n] = FoldLeft(Nest, Unread, b)
      /\ \A i \in 1 .. n : c[i] = Nest(c[i - 1], a[i]) /\ d[i] = Nest(d[i - 1], b[i])
  BY <1>2, <1>3, Zenon DEF NestChain
<1>5. c[n] = Unread
  BY <1>4, Zenon DEF WellFormed, Unread
<1> HIDE DEF n
<1> DEFINE Alike(i) == NestShape(c[i]) /\ (~c[i].error => d[i] = c[i] /\ NestState(c[i]))
           P == {i \in Nat : i <= n => Alike(i)}
<1>6. 0 \in P
  <2>1. IsSeq(<<>>) /\ ToSet(<<>>) = {}
    BY SeqEmpty, SetEmpty
  <2>2. NestState(Unread)
    BY <2>1 DEF NestState, Unread
  <2>3. NestShape(Unread)
    BY DEF NestShape, Unread
  <2>4. NestShape(c[0]) /\ d[0] = c[0] /\ NestState(c[0])
    BY <1>4, <2>2, <2>3, Zenon
  <2>5. 0 \in Nat
    OBVIOUS
  <2>6. QED
    BY <2>4, <2>5, Zenon
<1>7. ASSUME NEW i \in Nat, i \in P PROVE i + 1 \in P
  <2>0. i + 1 \in Nat
    OBVIOUS
  <2> SUFFICES ASSUME i + 1 <= n PROVE Alike(i + 1)
    BY <2>0, Zenon
  <2>1. i <= n /\ i + 1 \in 1 .. n /\ (i + 1) - 1 = i
    BY <1>1
  <2> DEFINE s == c[i]
             t == a[i + 1]
             u == b[i + 1]
  <2>2. Alike(i)
    BY <1>7, <2>1, Zenon
  <2>3. c[i + 1] = Nest(s, t) /\ d[i + 1] = Nest(d[i], u)
    BY <1>4, <2>1
  <2>4. Relinked(t, u)
    BY <1>1, <2>1
  <2>5. NestShape(s) /\ (~s.error => d[i] = s /\ NestState(s))
    BY <2>2
  <2> HIDE DEF s, t, u
  <2>6. ASSUME ~Nest(s, t).error PROVE ~s.error
    BY <2>5, <2>6, ErrorStays
  <2>7. ASSUME ~Nest(s, t).error PROVE d[i + 1] = c[i + 1] /\ NestState(c[i + 1])
    <3>1. d[i] = s /\ NestState(s)
      BY <2>5, <2>6, <2>7
    <3>2. Nest(s, u) = Nest(s, t) /\ NestState(Nest(s, t))
      BY <2>4, <2>7, <3>1, NestAlike
    <3>3. QED
      BY <2>3, <3>1, <3>2
  <2>8. NestShape(c[i + 1])
    BY <2>3, <2>5, ErrorStays
  <2>9. QED
    BY <2>3, <2>7, <2>8
<1> HIDE DEF P, Alike
<1>8. n \in P
  BY <1>1, <1>6, <1>7, Forward!Induction
<1>9. Alike(n)
  <2>1. n <= n
    BY <1>1
  <2>2. QED
    BY <1>8, <2>1, Zenon DEF P
<1>10. ~Unread.error
  BY DEF Unread
<1>11. d[n] = Unread
  BY <1>5, <1>9, <1>10 DEF Alike
<1>12. QED
  BY <1>4, <1>11, Zenon DEF WellFormed, Unread

\* What linking makes of each event.
LEMMA LinkedEvent ==
  ASSUME NEW a, IsMarkup(a), NEW n, NEW g, NEW i \in DOMAIN a
  PROVE  LET new == AddGraphRef(a, n, g)[i]
         IN /\ new.ev = a[i].ev /\ IsEvent(new)
            /\ a[i].ev \notin {"start", "empty", "end"} => new = a[i]
            /\ i \notin Positions(a, n) /\ IsStart(a[i]) => new = a[i]
            /\ i \in Positions(a, n) => /\ IsStart(a[i])
                                        /\ AttrIds(new.attrs) = AttrIds(a[i].attrs) \cup {g}
                                        /\ new.name = Canon(Lower(a[i].name))
            /\ Linkable(new) <=> Linkable(a[i])
            /\ a[i].ev = "end" => new.name = Canon(Lower(a[i].name))
<1> DEFINE t == a[i]
           new == AddGraphRef(a, n, g)[i]
           P == Positions(a, n)
<1>1. IsEvent(t)
  BY DEF IsMarkup
<1>2. new = IF i \in P THEN WithRef(t, g) ELSE Reclosed(t)
  BY DEF AddGraphRef
<1>3. i \in P => Linkable(t)
  BY DEF Positions
<1> HIDE DEF t, new, P
<1>4. CASE i \in P
  <2>1. new = WithRef(t, g) /\ IsStart(t) /\ Linkable(t)
    BY <1>2, <1>3, <1>4 DEF Linkable
  <2>2. /\ IsEvent(new) /\ new.ev = t.ev /\ new.name = Canon(Lower(t.name))
        /\ AttrIds(new.attrs) = AttrIds(t.attrs) \cup {g}
        /\ Linkable(new) <=> Linkable(t)
    BY <1>1, <2>1, WithRefIs
  <2>3. t.ev \in {"start", "empty"}
    BY <2>1 DEF IsStart
  <2>4. QED
    BY <1>4, <2>1, <2>2, <2>3, Zenon DEF t, new, P
<1>5. CASE i \notin P
  <2>1. new = Reclosed(t)
    BY <1>2, <1>5
  <2>2. /\ IsEvent(Reclosed(t)) /\ (IsStart(Reclosed(t)) <=> IsStart(t))
        /\ IsStart(t) => Reclosed(t) = t
    BY <1>1, ReclosedIs
  <2>3. CASE t.ev = "end"
    <3>1. Reclosed(t) = Close(Canon(Lower(t.name)))
      BY <2>3 DEF Reclosed
    <3>2. new.ev = "end" /\ new.name = Canon(Lower(t.name))
      BY <2>1, <3>1 DEF Close
    <3>3. ~IsStart(t) /\ ~IsStart(new)
      BY <2>3, <3>2 DEF IsStart
    <3>4. ~Linkable(t) /\ ~Linkable(new)
      BY <3>3, Zenon DEF Linkable
    <3>5. QED
      BY <1>5, <2>1, <2>2, <2>3, <3>2, <3>3, <3>4 DEF t, new, P
  <2>4. CASE t.ev # "end"
    <3>1. new = t
      BY <2>1, <2>4 DEF Reclosed
    <3>2. QED
      BY <1>1, <1>5, <2>4, <3>1, Zenon DEF t, new, P
  <2>5. QED
    BY <2>3, <2>4
<1>6. QED
  BY <1>4, <1>5

\* Capitals that are there stay.
LEMMA CanonIsProper == ASSUME NEW name PROVE Proper(Canon(Lower(name)))
BY DEF Proper, Canon, Lower

\* A text after a link: the element in question names the graph, every other
\* element what it named; nothing else about it has changed.
LEMMA LinkedText ==
  ASSUME NEW a, IsMarkup(a), NEW n \in Nat, NEW g \in Digits
  PROVE  LET b == AddGraphRef(a, n, g)
             old == Linkables(a)
             new == Linkables(b)
         IN /\ Len(new) = Len(old)
            /\ \A m \in DOMAIN old :
                 ToSet(IdsIn(new[m].attrs)) = ToSet(IdsIn(old[m].attrs))
                                              \cup (IF m = n + 1 THEN {g} ELSE {})
            /\ Capitalised(a) => Capitalised(b) /\ (WellFormed(a) => WellFormed(b))
            /\ PlainText(b) = PlainText(a)
<1> DEFINE b == AddGraphRef(a, n, g)
           old == Linkables(a)
           new == Linkables(b)
           P == Positions(a, n)
<1>1. IsSeq(a) /\ Len(a) \in Nat /\ DOMAIN a = 1 .. Len(a)
  BY SeqLen DEF IsMarkup
<1>2. b = [i \in DOMAIN a |-> IF i \in P THEN WithRef(a[i], g) ELSE Reclosed(a[i])]
  BY DEF AddGraphRef
<1>3. IsSeq(b) /\ Len(b) = Len(a) /\ DOMAIN b = DOMAIN a
  <2> DEFINE f(i) == IF i \in P THEN WithRef(a[i], g) ELSE Reclosed(a[i])
  <2>1. b = [i \in DOMAIN a |-> f(i)]
    BY <1>2
  <2> HIDE DEF f, b
  <2>2. b = [i \in 1 .. Len(a) |-> f(i)]
    BY <1>1, <2>1
  <2>3. QED
    BY <1>1, <2>2, SeqMap
<1>4. ASSUME NEW i \in DOMAIN a
      PROVE  /\ b[i].ev = a[i].ev /\ IsEvent(b[i]) /\ IsEvent(a[i])
             /\ a[i].ev \notin {"start", "empty", "end"} => b[i] = a[i]
             /\ i \notin P /\ IsStart(a[i]) => b[i] = a[i]
             /\ i \in P => /\ IsStart(a[i])
                           /\ AttrIds(b[i].attrs) = AttrIds(a[i].attrs) \cup {g}
                           /\ b[i].name = Canon(Lower(a[i].name))
             /\ Linkable(b[i]) <=> Linkable(a[i])
             /\ a[i].ev = "end" => b[i].name = Canon(Lower(a[i].name))
  BY LinkedEvent DEF IsMarkup
<1> HIDE DEF b, P, new, old
<1>5. PICK k : Keeps(k, a, LinkableIn(a))
  BY <1>1, OnlyKeeps
<1>6. \A i \in DOMAIN a : i \in P <=> Linkable(a[i]) /\ Len(k[i - 1]) = n
  BY <1>1, <1>5, PositionsAre DEF P
<1>7. \A i \in DOMAIN a : /\ a[i] \in LinkableIn(a) <=> Linkable(a[i])
                          /\ b[i] \in LinkableIn(b) <=> Linkable(b[i])
  <2>1. \A i \in DOMAIN a : a[i] \in ToSet(a) /\ b[i] \in ToSet(b)
    BY <1>3, InSet
  <2>2. QED
    BY <2>1 DEF LinkableIn
<1>8. old = Only(a, LinkableIn(a)) /\ new = Only(b, LinkableIn(b))
  BY LinkablesAre DEF old, new
<1>9. /\ Len(old) = Len(new)
      /\ \A m \in DOMAIN old : \E i \in DOMAIN a :
           a[i] \in LinkableIn(a) /\ Len(k[i - 1]) = m - 1 /\ old[m] = a[i] /\ new[m] = b[i]
  <2>1. \A i \in DOMAIN a : a[i] \in LinkableIn(a) <=> b[i] \in LinkableIn(b)
    BY <1>4, <1>7
  <2> DEFINE S == LinkableIn(a)
             T == LinkableIn(b)
  <2>2. Keeps(k, a, S) /\ old = Only(a, S) /\ new = Only(b, T) /\ SamePlaces(a, S, b, T)
    BY <1>5, <1>8, <2>1 DEF SamePlaces
  <2>3. IsSeq(a) /\ IsSeq(b) /\ Len(a) = Len(b)
    BY <1>1, <1>3
  <2> HIDE DEF S, T
  <2>4. Paired(a, S, b, T, k)
    BY <2>2, <2>3, OnlyPairs
  <2>5. QED
    BY <2>2, <2>4 DEF S, Paired
<1>10. ASSUME NEW m \in DOMAIN old
       PROVE  ToSet(IdsIn(new[m].attrs)) = ToSet(IdsIn(old[m].attrs))
                                           \cup (IF m = n + 1 THEN {g} ELSE {})
  <2>1. PICK i \in DOMAIN a :
          a[i] \in LinkableIn(a) /\ Len(k[i - 1]) = m - 1 /\ old[m] = a[i] /\ new[m] = b[i]
    BY <1>9
  <2>2. Linkable(a[i]) /\ IsStart(a[i])
    BY <1>7, <2>1 DEF Linkable
  <2>3. m \in Nat
    <3>1. IsSeq(old)
      BY <1>1, <1>8, OnlyIs
    <3>2. Len(old) \in Nat /\ DOMAIN old = 1 .. Len(old)
      BY <3>1, SeqLen
    <3>3. QED
      BY <3>2
  <2>4. i \in P <=> m = n + 1
    BY <1>6, <2>1, <2>2, <2>3
  <2>5. /\ ToSet(IdsIn(b[i].attrs)) = AttrIds(b[i].attrs) \cap Digits
        /\ ToSet(IdsIn(a[i].attrs)) = AttrIds(a[i].attrs) \cap Digits
    BY <1>4, EventIds
  <2>6. CASE i \in P
    <3>1. AttrIds(b[i].attrs) = AttrIds(a[i].attrs) \cup {g}
      BY <1>4, <2>6
    <3>2. QED
      BY <2>1, <2>4, <2>5, <2>6, <3>1
  <2>7. CASE i \notin P
    <3>1. b[i] = a[i]
      BY <1>4, <2>2, <2>7
    <3>2. QED
      BY <2>1, <2>4, <2>7, <3>1
  <2>8. QED
    BY <2>6, <2>7
<1>11. ASSUME Capitalised(a) PROVE Capitalised(b) /\ (WellFormed(a) => WellFormed(b))
  <2>1. ASSUME NEW i \in DOMAIN a PROVE Relinked(a[i], b[i])
    <3>1. a[i].ev = "start" => Proper(a[i].name)
      BY <1>11 DEF Capitalised, Proper
    <3>2. a[i].ev \in {"start", "entity"} => b[i].name = a[i].name
      <4>1. CASE a[i].ev = "start" /\ i \in P
        <5>1. b[i].name = Canon(Lower(a[i].name))
          BY <1>4, <4>1
        <5>2. QED
          BY <3>1, <4>1, <5>1 DEF Proper
      <4>2. CASE a[i].ev = "start" /\ i \notin P
        <5>1. IsStart(a[i])
          BY <4>2 DEF IsStart
        <5>2. b[i] = a[i]
          BY <1>4, <4>2, <5>1
        <5>3. QED
          BY <5>2
      <4>3. CASE a[i].ev = "entity"
        <5>1. b[i] = a[i]
          BY <1>4, <4>3
        <5>2. QED
          BY <5>1
      <4>4. QED
        BY <4>1, <4>2, <4>3
    <3>3. b[i].ev = a[i].ev /\ (a[i].ev = "end" => b[i].name = Canon(Lower(a[i].name)))
      BY <1>4
    <3>4. QED
      BY <3>1, <3>2, <3>3 DEF Relinked
  <2>2. Capitalised(b)
    <3>1. ASSUME NEW i \in DOMAIN a, b[i].ev = "start" PROVE Proper(b[i].name)
      <4>1. a[i].ev = "start"
        BY <1>4, <3>1
      <4>2. b[i].name = a[i].name /\ Proper(a[i].name)
        BY <2>1, <4>1 DEF Relinked
      <4>3. QED
        BY <4>2
    <3>2. QED
      BY <1>3, <3>1 DEF Capitalised, Proper
  <2>3. WellFormed(a) => WellFormed(b)
    BY <1>1, <1>3, <2>1, RelinkedWell
  <2>4. QED
    BY <2>2, <2>3
<1>12. PlainText(b) = PlainText(a)
  <2> DEFINE B == {Data(x) : x \in Blanks}
             S == {e \in ToSet(a) : e.ev \in {"data", "entity"} /\ e \notin B}
             T == {e \in ToSet(b) : e.ev \in {"data", "entity"} /\ e \notin B}
  <2>1. PlainText(a) = Only(a, S) /\ PlainText(b) = Only(b, T)
    BY DEF PlainText
  <2>2. \A i \in DOMAIN a : a[i] \in ToSet(a) /\ b[i] \in ToSet(b)
    BY <1>3, InSet
  <2> HIDE DEF B
  <2>3. ASSUME NEW i \in DOMAIN a
        PROVE  (a[i] \in S <=> b[i] \in T) /\ (a[i] \in S => a[i] = b[i])
    <3>1. CASE a[i].ev \in {"data", "entity"}
      <4>1. b[i] = a[i]
        BY <1>4, <3>1
      <4>2. QED
        BY <2>2, <4>1
    <3>2. CASE a[i].ev \notin {"data", "entity"}
      <4>1. b[i].ev = a[i].ev
        BY <1>4
      <4>2. QED
        BY <3>2, <4>1
    <3>3. QED
      BY <3>1, <3>2
  <2> HIDE DEF S, T
  <2>4. Only(a, S) = Only(b, T)
    BY <1>1, <1>3, <2>3, OnlySame
  <2>5. QED
    BY <2>1, <2>4
<1>13. QED
  BY <1>9, <1>10, <1>11, <1>12 DEF b, new, old

\* Every link of an editor names its graph on the element that was pointed at
\* and on no other, adds and loses no element, leaves the text as it was to
\* read, and leaves XML well-formed where start tags have their capitals.
THEOREM LinksAreExact == Spec => LinkIsExact
<1>1. ASSUME Inv, LinksInv, NEW t \in Texts, NEW n \in 0..2, NEW g \in Graphs, LinkRegion(t, n, g)
      PROVE  ExactlyLinked(t, n, g)
  <2> DEFINE a == content[t]
             b == AddGraphRef(a, n, g)
  <2>1. t \in texts /\ content' = [content EXCEPT ![t] = b]
    BY <1>1 DEF LinkRegion, Rewrite
  <2>2. content'[t] = b
    BY <1>1, <2>1 DEF Inv, TableInv
  <2>3. IsMarkup(a) /\ n \in Nat /\ g \in Digits
    BY <1>1, GraphsAssumption DEF LinksInv, GoodText
  <2> HIDE DEF a, b
  <2>4. /\ Len(Linkables(b)) = Len(Linkables(a))
        /\ \A m \in DOMAIN Linkables(a) :
             ToSet(IdsIn(Linkables(b)[m].attrs)) = ToSet(IdsIn(Linkables(a)[m].attrs))
                                                   \cup (IF m = n + 1 THEN {g} ELSE {})
        /\ Capitalised(a) => Capitalised(b) /\ (WellFormed(a) => WellFormed(b))
        /\ PlainText(b) = PlainText(a)
    BY <2>3, LinkedText DEF b
  <2>5. QED
    BY <2>2, <2>4 DEF ExactlyLinked, a
<1>2. Inv /\ LinksInv =>
        [\A t \in Texts, n \in 0..2, g \in Graphs :
           LinkRegion(t, n, g) => ExactlyLinked(t, n, g)]_vars
  BY <1>1
<1>3. QED
  BY <1>2, InitInv, NextInv, LinksInit, LinksNext, PTL DEF Spec, LinkIsExact

-----------------------------------------------------------------------------
(* What embed names, through the rest of the script.                        *)

\* What --reverse would bring back, or else what is there.
SourceOf(t) == IF legacy[t] = Null THEN content[t] ELSE legacy[t]
\* The selector of g is meant for the text t, and names all that it describes.
Asked(t, g) == ImageOf[t] = ImageOf[g] /\ Selector[g][1] = "tuple"
Named(t, g) == ~EmbedChanges(SourceOf(t), Selector[g][2], g)
AllNamed == \A t \in Texts, g \in Graphs : Asked(t, g) => Named(t, g)

\* Nobody writes while a script is at work: what it has read is still so.
FreshRows ==
  /\ Command \in {"apply", "reverse"} => \A row \in job.todo : row = Row(row.key)
  /\ \A row \in job.texts : row = Row(row.key)
  /\ Command # "embed" => job.texts = {}

\* How far the embed that a script begins with has come.
BeingNamed(t, g) ==
  \/ GraphRow(g) \in job.todo
  \/ job.graph = GraphRow(g) /\ Row(t) \in job.texts
  \/ Named(t, g)
FirstEmbed ==
  /\ elementid = Selector /\ \A t \in Texts : legacy[t] = Null
  /\ job # Idle => job.phase = "rows"
                   /\ \A t \in Texts, g \in Graphs : Asked(t, g) => BeingNamed(t, g)

\* While a script that begins with embed is at work: what the embed has done so
\* far, and after it that every selector names all it describes.
NamesInv ==
  Script =>
    /\ texts = Texts /\ graphs = Graphs /\ FreshRows
    /\ plan[1] = "embed" =>
         /\ at = 1 => FirstEmbed
         /\ at > 1 /\ (at <= Len(plan) \/ dumped) => AllNamed

\* A row says of its text what the tables say.
LEMMA RowIs ==
  ASSUME NEW t
  PROVE  Row(t).key = t /\ Row(t).content = content[t] /\ Row(t).legacy = legacy[t]
         /\ Source(Row(t)) = SourceOf(t)
BY DEF Row, Source, SourceOf

\* Rows of other texts stay as they were read.
LEMMA RowsStay ==
  ASSUME TableInv, NEW t \in Texts, NEW c, NEW l,
         content' = [content EXCEPT ![t] = c], legacy' = [legacy EXCEPT ![t] = l],
         NEW u \in Texts, u # t
  PROVE  Row(u)' = Row(u) /\ SourceOf(u)' = SourceOf(u)
<1>1. content'[u] = content[u] /\ legacy'[u] = legacy[u]
  BY DEF TableInv
<1>2. QED
  BY <1>1 DEF Row, SourceOf

\* Rows stay when no text is written.
LEMMA RowsUnchanged ==
  ASSUME UNCHANGED <<content, legacy>>, NEW t
  PROVE  Row(t)' = Row(t) /\ SourceOf(t)' = SourceOf(t)
BY DEF Row, SourceOf

\* What the steps of commands leave alone.
LEMMA WritingSteps ==
  ASSUME CommandStep
  PROVE  \/ UNCHANGED <<content, legacy, texts, graphs>>
         \/ \E row \in job.todo : ApplyRow(row) \/ ReverseRow(row)
         \/ \E row \in job.texts : EmbedText(row) /\ WriteEmbedded(row) /\ OnTexts
<1>1. OnNothing => UNCHANGED <<content, legacy, texts, graphs>>
  BY DEF OnNothing, OnTexts
<1>2. ASSUME NEW row, ReencodeGraph(row) \/ RestoreGraph(row)
      PROVE  UNCHANGED <<content, legacy, texts, graphs>>
  BY <1>2 DEF ReencodeGraph, RestoreGraph, WriteAnnotation, OnGraphs
<1>3. ASSUME NEW row, \/ SkipUnconverted(row) \/ RowGone(row) \/ SkipGraph(row) \/ GraphGone(row)
                      \/ ReadTexts(row) \/ SkipSelector(row)
      PROVE  OnNothing
  BY <1>3 DEF SkipUnconverted, RowGone, SkipGraph, GraphGone, ReadTexts, SkipSelector
<1>4. ASSUME NEW row, EmbedText(row) PROVE OnNothing \/ (WriteEmbedded(row) /\ OnTexts)
  BY <1>4 DEF EmbedText
<1>5. ASSUME \/ ReadForApply \/ ReadForReverse \/ ReadReferences \/ ReadGraphs \/ ReadSelectors
             \/ Gate \/ Dump \/ Crash \/ Finish
      PROVE  OnNothing
  BY <1>5 DEF ReadForApply, ReadForReverse, ReadReferences, ReadGraphs, ReadSelectors,
              Gate, Dump, Crash, Finish
<1>6. QED
  BY <1>1, <1>2, <1>3, <1>4, <1>5 DEF CommandStep

\* No step of a command creates or deletes a text or a graph.
LEMMA WrittenNames ==
  ASSUME Inv, CommandStep, texts = Texts, graphs = Graphs
  PROVE  texts' = Texts /\ graphs' = Graphs
<1>1. ASSUME NEW row, ApplyRow(row) \/ ReverseRow(row) PROVE texts' = texts /\ graphs' = graphs
  BY <1>1 DEF ApplyRow, ReverseRow, OnTexts
<1>2. ASSUME NEW row \in job.texts, WriteEmbedded(row) /\ OnTexts PROVE texts' = texts /\ graphs' = graphs
  <2>1. row.key \in Texts
    BY <1>2 DEF Inv, JobInv, KeptRow
  <2>2. QED
    BY <1>2, <2>1 DEF WriteEmbedded, OnTexts
<1>3. QED
  BY <1>1, <1>2, WritingSteps

\* No command changes what a text comes from, but embed, which embeds.
LEMMA SourceStays ==
  ASSUME Inv, LinksInv, FreshRows, CommandStep, NEW t \in Texts
  PROVE  \/ SourceOf(t)' = SourceOf(t)
         \/ /\ IsMarkup(SourceOf(t))
            /\ \E spec, g : SourceOf(t)' = EmbedId(SourceOf(t), spec, g)
<1>1. CASE UNCHANGED <<content, legacy, texts, graphs>>
  BY <1>1, RowsUnchanged
<1>2. ASSUME NEW row \in job.todo, ApplyRow(row) PROVE SourceOf(t)' = SourceOf(t)
  <2> DEFINE s == Source(row)
             tei == DataDptToTei(s)
  <2>1. /\ Command = "apply" /\ content' = [content EXCEPT ![row.key] = tei]
        /\ legacy' = [legacy EXCEPT ![row.key] = s]
    BY <1>2 DEF ApplyRow
  <2>2. row = Row(row.key) /\ row.key \in Texts
    BY <1>2, <2>1 DEF FreshRows, Inv, JobInv, KeptRow
  <2>3. s = SourceOf(row.key)
    BY <2>2, RowIs
  <2>4. s = Null => tei = Null
    BY NullAssumption
  <2> HIDE DEF s, tei
  <2>5. CASE t = row.key
    <3>1. content'[t] = tei /\ legacy'[t] = s
      BY <2>1, <2>5 DEF Inv, TableInv
    <3>2. QED
      BY <2>3, <2>4, <2>5, <3>1 DEF SourceOf
  <2>6. CASE t # row.key
    BY <2>1, <2>2, <2>6, RowsStay DEF Inv
  <2>7. QED
    BY <2>5, <2>6
<1>3. ASSUME NEW row \in job.todo, ReverseRow(row) PROVE SourceOf(t)' = SourceOf(t)
  <2>1. /\ Command = "reverse" /\ content' = [content EXCEPT ![row.key] = row.legacy]
        /\ legacy' = [legacy EXCEPT ![row.key] = Null]
    BY <1>3 DEF ReverseRow
  <2>2. row = Row(row.key) /\ row.key \in Texts /\ row.legacy # Null
    BY <1>3, <2>1 DEF FreshRows, Inv, JobInv, KeptRow
  <2>3. row.legacy = legacy[row.key]
    BY <2>2, RowIs
  <2>4. CASE t = row.key
    <3>1. content'[t] = row.legacy /\ legacy'[t] = Null
      BY <2>1, <2>4 DEF Inv, TableInv
    <3>2. QED
      BY <2>2, <2>3, <2>4, <3>1 DEF SourceOf
  <2>5. CASE t # row.key
    BY <2>1, <2>2, <2>5, RowsStay DEF Inv
  <2>6. QED
    BY <2>4, <2>5
<1>4. ASSUME NEW row \in job.texts, WriteEmbedded(row)
      PROVE  \/ SourceOf(t)' = SourceOf(t)
             \/ /\ IsMarkup(SourceOf(t))
                /\ \E spec, g : SourceOf(t)' = EmbedId(SourceOf(t), spec, g)
  <2> DEFINE new == EmbedId(row.content, job.graph.elementid[2], job.graph.key)
  <2>1. /\ content' = [content EXCEPT ![row.key] = new]
        /\ legacy' = [legacy EXCEPT ![row.key] = row.legacy]
    BY <1>4 DEF WriteEmbedded, Embed
  <2>2. row = Row(row.key) /\ row.key \in Texts
    BY <1>4 DEF FreshRows, Inv, JobInv, KeptRow
  <2>3. row.legacy = legacy[row.key] /\ row.content = content[row.key]
    BY <2>2, RowIs
  <2>4. new = EmbedId(content[row.key], job.graph.elementid[2], job.graph.key)
    BY <2>3
  <2> HIDE DEF new
  <2>5. CASE t = row.key
    <3>1. content'[t] = new /\ legacy'[t] = legacy[t]
      BY <2>1, <2>3, <2>5 DEF Inv, TableInv
    <3>2. IsMarkup(content[t])
      BY DEF LinksInv, GoodText
    <3>3. CASE legacy[t] = Null
      <4>1. SourceOf(t) = content[t] /\ SourceOf(t)' = new
        BY <3>1, <3>3 DEF SourceOf
      <4>2. QED
        BY <2>4, <2>5, <3>2, <4>1
    <3>4. CASE legacy[t] # Null
      BY <3>1, <3>4 DEF SourceOf
    <3>5. QED
      BY <3>3, <3>4
  <2>6. CASE t # row.key
    BY <2>1, <2>2, <2>6, RowsStay DEF Inv
  <2>7. QED
    BY <2>5, <2>6
<1>5. QED
  BY <1>1, <1>2, <1>3, <1>4, WritingSteps

\* What a selector names stays named, whatever a command writes.
LEMMA NamedStays ==
  ASSUME Inv, LinksInv, FreshRows, CommandStep, NEW t \in Texts, NEW g, Named(t, g)
  PROVE  Named(t, g)'
<1> DEFINE other == Selector[g][2]
<1>1. ~EmbedChanges(SourceOf(t), other, g)
  BY DEF Named
<1> DEFINE old == SourceOf(t)
           new == SourceOf(t)'
<1>2. new = old \/ (IsMarkup(old) /\ \E spec, h : new = EmbedId(old, spec, h))
  BY SourceStays
<1> HIDE DEF old, new, other
<1>3. ~EmbedChanges(new, other, g)
  <2>1. CASE new = old
    BY <1>1, <2>1 DEF old
  <2>2. CASE IsMarkup(old) /\ \E spec, h : new = EmbedId(old, spec, h)
    <3>1. PICK spec, h : new = EmbedId(old, spec, h)
      BY <2>2
    <3>2. ~EmbedChanges(old, other, g)
      BY <1>1 DEF old
    <3>3. ~EmbedChanges(EmbedId(old, spec, h), other, g)
      BY <2>2, <3>2, EmbedKeeps
    <3>4. QED
      BY <3>1, <3>3
  <2>3. QED
    BY <1>2, <2>1, <2>2
<1>4. QED
  BY <1>3 DEF Named, new, other

\* No command at work has stale rows.
LEMMA IdleFresh == ASSUME job' = Idle PROVE FreshRows'
BY DEF FreshRows, Idle

\* What a command reads is so.
LEMMA ReadingFresh ==
  ASSUME Inv, FreshRows,
         ReadForApply \/ ReadForReverse \/ ReadReferences \/ ReadGraphs \/ ReadSelectors
  PROVE  FreshRows'
<1>1. UNCHANGED <<plan, at>> /\ OnNothing
  BY DEF ReadForApply, ReadForReverse, ReadReferences, ReadGraphs, ReadSelectors, Read
<1>2. Command' = Command
  BY <1>1 DEF Command
<1>3. \A t : Row(t)' = Row(t)
  BY <1>1, RowsUnchanged DEF OnNothing, OnTexts
<1>4. job'.texts = job.texts
  BY DEF ReadForApply, ReadForReverse, ReadReferences, ReadGraphs, ReadSelectors, Read, Inv, JobInv
<1>5. (\A row \in job'.texts : row = Row(row.key)') /\ (Command' # "embed" => job'.texts = {})
  BY <1>2, <1>3, <1>4 DEF FreshRows
<1>6. \A t : Row(t) = Row(Row(t).key)
  BY RowIs
<1>7. ASSUME Command \in {"apply", "reverse"}
      PROVE  \A row \in job'.todo : row = Row(row.key)'
  <2>1. ReadForApply \/ ReadForReverse
    BY <1>7 DEF ReadReferences, ReadGraphs, ReadSelectors
  <2>2. PICK rows : Read("rows", {Row(t) : t \in rows})
    BY <2>1 DEF ReadForApply, ReadForReverse
  <2>3. job'.todo = {Row(t) : t \in rows}
    BY <2>2 DEF Read, Inv, JobInv
  <2>4. QED
    BY <1>3, <1>6, <2>3
<1>8. QED
  BY <1>2, <1>5, <1>7 DEF FreshRows

\* The rows that are left are still so.
LEMMA WithoutFresh ==
  ASSUME Inv, FreshRows, NEW row \in job.todo, Without(row),
         \A r \in job.todo \ {row} : Command \in {"apply", "reverse"} => Row(r.key)' = Row(r.key),
         \A r \in job.texts : Row(r.key)' = Row(r.key)
  PROVE  FreshRows'
<1>1. job'.todo = job.todo \ {row} /\ job'.texts = job.texts /\ Command' = Command
  BY DEF Without, Inv, JobInv, Command
<1>2. QED
  BY <1>1 DEF FreshRows

\* apply and reverse write only the text of the row they do.
LEMMA WritingFresh ==
  ASSUME Inv, FreshRows, NEW row \in job.todo, ApplyRow(row) \/ ReverseRow(row)
  PROVE  FreshRows'
<1>1. Command \in {"apply", "reverse"} /\ Without(row)
  BY DEF ApplyRow, ReverseRow
<1>2. PICK c, l : content' = [content EXCEPT ![row.key] = c] /\ legacy' = [legacy EXCEPT ![row.key] = l]
  BY DEF ApplyRow, ReverseRow
<1>3. \A r \in job.todo : r = Row(r.key) /\ r.key \in Texts
  BY <1>1 DEF FreshRows, Inv, JobInv, KeptRow
<1>4. ASSUME NEW r \in job.todo \ {row} PROVE Row(r.key)' = Row(r.key)
  <2>1. r.key # row.key
    BY <1>3
  <2>2. r.key \in Texts /\ row.key \in Texts
    BY <1>3
  <2>3. QED
    BY <1>2, <2>1, <2>2, RowsStay DEF Inv
<1>5. job.texts = {}
  BY <1>1 DEF FreshRows
<1>6. QED
  BY <1>1, <1>4, <1>5, WithoutFresh

\* embed writes only the text of the row it does.
LEMMA EmbedFresh ==
  ASSUME Inv, FreshRows, NEW row \in job.texts, EmbedText(row)
  PROVE  FreshRows' /\ \A r \in job.texts \ {row} : Row(r.key)' = Row(r.key)
<1>1. /\ Command = "embed" /\ Command' = Command /\ job'.texts = job.texts \ {row}
  BY DEF EmbedText, Inv, JobInv, Command
<1>2. \A r \in job.texts : r = Row(r.key) /\ r.key \in Texts
  BY DEF FreshRows, Inv, JobInv, KeptRow
<1>3. ASSUME NEW r \in job.texts \ {row} PROVE Row(r.key)' = Row(r.key)
  <2>1. CASE OnNothing
    BY <2>1, RowsUnchanged DEF OnNothing, OnTexts
  <2>2. CASE WriteEmbedded(row)
    <3>1. PICK c, l : /\ content' = [content EXCEPT ![row.key] = c]
                      /\ legacy' = [legacy EXCEPT ![row.key] = l]
      BY <2>2 DEF WriteEmbedded
    <3>2. r.key # row.key /\ r.key \in Texts /\ row.key \in Texts
      BY <1>2
    <3>3. QED
      BY <3>1, <3>2, RowsStay DEF Inv
  <2>3. QED
    BY <2>1, <2>2 DEF EmbedText
<1>4. QED
  BY <1>1, <1>2, <1>3 DEF FreshRows

\* What a command has read stays so while the script is at work.
LEMMA FreshStep == ASSUME Inv, FreshRows, CommandStep PROVE FreshRows'
<1>1. CASE ReadForApply \/ ReadForReverse \/ ReadReferences \/ ReadGraphs \/ ReadSelectors
  BY <1>1, ReadingFresh
<1>2. CASE Gate \/ Crash \/ Finish
  BY <1>2, StopsIdle, IdleFresh DEF Gate, Crash, Finish
<1>3. CASE Dump
  <2>1. job' = Idle
    BY <1>3 DEF Inv, JobInv, Dump
  <2>2. QED
    BY <2>1, IdleFresh
<1>4. ASSUME NEW row \in job.todo, RowGone(row) \/ GraphGone(row) PROVE FreshRows'
  BY <1>4, StopsIdle, IdleFresh DEF RowGone, GraphGone
<1>5. ASSUME NEW row \in job.todo,
             \/ SkipUnconverted(row) \/ ReencodeGraph(row) \/ RestoreGraph(row) \/ SkipGraph(row)
             \/ SkipSelector(row)
      PROVE  FreshRows'
  <2>1. Without(row) /\ UNCHANGED <<content, legacy>>
    BY <1>5 DEF SkipUnconverted, ReencodeGraph, RestoreGraph, SkipGraph, SkipSelector,
                WriteAnnotation, OnNothing, OnGraphs, OnTexts
  <2>2. \A t : Row(t)' = Row(t)
    BY <2>1, RowsUnchanged
  <2>3. QED
    BY <1>5, <2>1, <2>2, WithoutFresh
<1>6. ASSUME NEW row \in job.todo, ReadTexts(row) PROVE FreshRows'
  <2> DEFINE rows == {Row(t) : t \in {u \in texts : ImageOf[u] = ImageOf[row.key]}}
  <2>1. job'.texts = rows /\ Command' = Command /\ Command = "embed" /\ OnNothing
    BY <1>6 DEF ReadTexts, Inv, JobInv, Command
  <2>2. \A t : Row(t)' = Row(t) /\ Row(t) = Row(Row(t).key)
    BY <2>1, RowsUnchanged, RowIs DEF OnNothing, OnTexts
  <2>3. \A r \in rows : r = Row(r.key)'
    BY <2>2
  <2> HIDE DEF rows
  <2>4. QED
    BY <2>1, <2>3 DEF FreshRows
<1>7. QED
  BY <1>1, <1>2, <1>3, <1>4, <1>5, <1>6, WritingFresh, EmbedFresh DEF CommandStep

-----------------------------------------------------------------------------
\* The first embed of a script: a step of it, its end, or its failure.
LEMMA FirstReads ==
  ASSUME Inv, FirstEmbed, texts = Texts, graphs = Graphs, ReadSelectors
  PROVE  FirstEmbed'
<1> DEFINE todo == {GraphRow(g) : g \in {h \in graphs : elementid[h] # Absent}}
<1>1. /\ job' = [job EXCEPT !.phase = "rows", !.todo = todo]
      /\ OnNothing
  BY DEF ReadSelectors, Read
<1>2. job'.phase = "rows" /\ job'.todo = todo
  BY <1>1 DEF Inv, JobInv
<1>3. UNCHANGED <<content, legacy, elementid, oldElementid, shape>>
  BY <1>1 DEF OnNothing, OnTexts
<1>4. \A g : GraphRow(g)' = GraphRow(g)
  BY <1>3 DEF GraphRow
<1>5. ASSUME NEW g \in Graphs, Selector[g][1] = "tuple" PROVE GraphRow(g) \in todo
  <2>1. elementid[g] # Absent
    BY <1>5 DEF FirstEmbed, Absent
  <2>2. QED
    BY <2>1
<1> HIDE DEF todo
<1>6. \A t \in Texts, g \in Graphs : Asked(t, g) => GraphRow(g)' \in job'.todo
  BY <1>2, <1>4, <1>5 DEF Asked
<1>7. QED
  BY <1>2, <1>3, <1>6 DEF FirstEmbed, BeingNamed, Asked

\* The first embed takes up the next selector.
LEMMA FirstGraph ==
  ASSUME Inv, LinksInv, FreshRows, FirstEmbed, texts = Texts, graphs = Graphs, CommandStep,
         NEW row \in job.todo, ReadTexts(row) \/ SkipSelector(row)
  PROVE  FirstEmbed'
<1>1. /\ OnNothing /\ Command = "embed" /\ job.texts = {} /\ job'.phase = job.phase
      /\ job'.todo = job.todo \ {row}
  BY DEF ReadTexts, SkipSelector, Without, Inv, JobInv
<1>2. UNCHANGED <<content, legacy, elementid, oldElementid, shape>>
  BY <1>1 DEF OnNothing, OnTexts
<1>3. /\ \A g : GraphRow(g)' = GraphRow(g)
      /\ \A t : Row(t)' = Row(t)
  BY <1>2, RowsUnchanged DEF GraphRow
<1>4. job # Idle
  BY DEF Idle
<1>5. job.phase = "rows" /\ \A t \in Texts, g \in Graphs : Asked(t, g) => BeingNamed(t, g)
  BY <1>4 DEF FirstEmbed
<1>6. ASSUME NEW t \in Texts, NEW g \in Graphs, Asked(t, g) PROVE BeingNamed(t, g)'
  <2>1. CASE GraphRow(g) \in job.todo /\ GraphRow(g) # row
    <3>1. GraphRow(g)' \in job'.todo
      BY <1>1, <1>3, <2>1
    <3>2. QED
      BY <3>1 DEF BeingNamed
  <2>2. CASE GraphRow(g) = row
    <3>1. row.key = g /\ row.elementid = elementid[g] /\ elementid[g] = Selector[g]
      BY <2>2 DEF GraphRow, FirstEmbed
    <3>2. Selects(row)
      BY <1>6, <3>1 DEF Selects, Asked
    <3>3. ReadTexts(row)
      BY <3>2 DEF SkipSelector
    <3>4. /\ job'.graph = row
          /\ job'.texts = {Row(u) : u \in {v \in texts : ImageOf[v] = ImageOf[row.key]}}
      BY <3>3 DEF ReadTexts, Inv, JobInv
    <3>5. Row(t) \in job'.texts
      BY <1>6, <3>1, <3>4 DEF Asked
    <3>6. job'.graph = GraphRow(g)' /\ Row(t)' \in job'.texts
      BY <1>3, <2>2, <3>4, <3>5
    <3>7. QED
      BY <3>6 DEF BeingNamed
  <2>3. CASE Named(t, g)
    BY <2>3, NamedStays DEF BeingNamed
  <2>4. QED
    BY <1>1, <1>5, <1>6, <2>1, <2>2, <2>3 DEF BeingNamed
<1>7. QED
  BY <1>1, <1>2, <1>5, <1>6 DEF FirstEmbed, Asked

\* The first embed names a region in the next text.
LEMMA FirstText ==
  ASSUME Inv, LinksInv, FreshRows, FirstEmbed, texts = Texts, graphs = Graphs, CommandStep,
         NEW row \in job.texts, EmbedText(row)
  PROVE  FirstEmbed'
<1>1. job'.phase = job.phase /\ job'.todo = job.todo /\ job'.graph = job.graph
      /\ job'.texts = job.texts \ {row}
  BY DEF EmbedText, Inv, JobInv
<1>2. UNCHANGED <<elementid, oldElementid, shape>>
  BY DEF EmbedText, OnNothing, OnTexts
<1>3. \A g : GraphRow(g)' = GraphRow(g)
  BY <1>2 DEF GraphRow
<1>4. job # Idle
  BY DEF Idle
<1>5. job.phase = "rows" /\ \A t \in Texts, g \in Graphs : Asked(t, g) => BeingNamed(t, g)
  BY <1>4 DEF FirstEmbed
<1>6. row = Row(row.key) /\ row.key \in Texts
  BY DEF FreshRows, Inv, JobInv, KeptRow
<1>7. row.content = content[row.key] /\ row.legacy = legacy[row.key] /\ legacy[row.key] = Null
  BY <1>6, RowIs DEF FirstEmbed
<1>8. \A t \in Texts : legacy'[t] = Null
  <2>1. CASE OnNothing
    BY <2>1 DEF OnNothing, OnTexts, FirstEmbed
  <2>2. CASE WriteEmbedded(row)
    <3>1. legacy' = [legacy EXCEPT ![row.key] = Null]
      BY <1>7, <2>2 DEF WriteEmbedded
    <3>2. QED
      BY <3>1 DEF FirstEmbed, Inv, TableInv
  <2>3. QED
    BY <2>1, <2>2 DEF EmbedText
<1>9. ASSUME NEW t \in Texts, NEW g \in Graphs, Asked(t, g) PROVE BeingNamed(t, g)'
  <2>1. CASE GraphRow(g) \in job.todo
    BY <1>1, <1>3, <2>1 DEF BeingNamed
  <2>2. CASE job.graph = GraphRow(g) /\ Row(t) \in job.texts /\ Row(t) # row
    <3>1. Row(t)' = Row(t)
      <4>1. Row(t).key = t
        BY RowIs
      <4>2. \A r \in job.texts \ {row} : Row(r.key)' = Row(r.key)
        BY EmbedFresh
      <4>3. PICK r \in job.texts \ {row} : r = Row(t)
        BY <2>2
      <4>4. Row(r.key)' = Row(r.key)
        BY <4>2
      <4>5. r.key = t /\ (r.key)' = t
        BY <4>1, <4>3
      <4>6. QED
        BY <4>4, <4>5
    <3>2. QED
      BY <1>1, <1>3, <2>2, <3>1 DEF BeingNamed
  <2>3. CASE job.graph = GraphRow(g) /\ Row(t) = row
    <3>1. job.graph.key = g /\ job.graph.elementid = Selector[g]
      BY <2>3 DEF GraphRow, FirstEmbed
    <3>2. row.key = t /\ row.content = content[t]
      BY <1>7, <2>3, RowIs
    <3> DEFINE spec == Selector[g][2]
    <3>3. IsMarkup(content[t])
      BY DEF LinksInv, GoodText
    <3>4. CASE ~Changes(row)
      <4>1. ~EmbedChanges(content[t], spec, g)
        BY <3>1, <3>2, <3>4 DEF Changes
      <4>2. SourceOf(t) = content[t]
        BY DEF SourceOf, FirstEmbed
      <4>3. Named(t, g)
        BY <4>1, <4>2 DEF Named
      <4>4. QED
        BY <4>3, NamedStays DEF BeingNamed
    <3>5. CASE Changes(row)
      <4>1. content' = [content EXCEPT ![t] = EmbedId(content[t], spec, g)]
        BY <3>1, <3>2, <3>5 DEF EmbedText, WriteEmbedded, Embed
      <4>2. content'[t] = EmbedId(content[t], spec, g)
        BY <4>1 DEF Inv, TableInv
      <4>3. SourceOf(t)' = EmbedId(content[t], spec, g)
        BY <1>8, <4>2 DEF SourceOf
      <4> HIDE DEF spec
      <4>4. ~EmbedChanges(EmbedId(content[t], spec, g), spec, g)
        BY <3>3, EmbedTwice
      <4>5. Named(t, g)'
        BY <4>3, <4>4 DEF Named, spec
      <4>6. QED
        BY <4>5 DEF BeingNamed
    <3>6. QED
      BY <3>4, <3>5
  <2>4. CASE Named(t, g)
    BY <2>4, NamedStays DEF BeingNamed
  <2>5. QED
    BY <1>5, <1>9, <2>1, <2>2, <2>3, <2>4 DEF BeingNamed
<1>10. QED
  BY <1>1, <1>2, <1>5, <1>8, <1>9 DEF FirstEmbed, Asked

\* embed at work as the first command.
LEMMA FirstStep ==
  ASSUME Inv, LinksInv, FreshRows, FirstEmbed, texts = Texts, graphs = Graphs, CommandStep,
         Command = "embed"
  PROVE  \/ UNCHANGED <<plan, at, dumped>> /\ FirstEmbed'
         \/ Done /\ AllNamed'
         \/ Stop
<1>1. \/ ReadSelectors \/ Crash \/ Finish
      \/ \E row \in job.todo : ReadTexts(row) \/ SkipSelector(row)
      \/ \E row \in job.texts : EmbedText(row)
  BY DEF CommandStep, ReadForApply, ReadForReverse, ReadReferences, ReadGraphs, Gate, Dump,
         ApplyRow, SkipUnconverted, RowGone, ReverseRow, ReencodeGraph, RestoreGraph, SkipGraph,
         Untouched, GraphGone
<1>2. CASE ReadSelectors
  BY <1>2, FirstReads DEF ReadSelectors, Read
<1>3. CASE Crash
  BY <1>3 DEF Crash
<1>4. CASE Finish
  <2>1. job.phase = "rows" /\ job.todo = {} /\ job.texts = {} /\ Done
    BY <1>4 DEF Finish
  <2>2. job # Idle
    BY <2>1 DEF Idle
  <2>3. \A t \in Texts, g \in Graphs : Asked(t, g) => Named(t, g)
    BY <2>1, <2>2 DEF FirstEmbed, BeingNamed
  <2>4. \A t \in Texts, g \in Graphs : Named(t, g) => Named(t, g)'
    BY NamedStays
  <2>5. QED
    BY <2>1, <2>3, <2>4 DEF AllNamed, Asked
<1>5. ASSUME NEW row \in job.todo, ReadTexts(row) \/ SkipSelector(row)
      PROVE  UNCHANGED <<plan, at, dumped>> /\ FirstEmbed'
  BY <1>5, FirstGraph DEF ReadTexts, SkipSelector, Without
<1>6. ASSUME NEW row \in job.texts, EmbedText(row)
      PROVE  UNCHANGED <<plan, at, dumped>> /\ FirstEmbed'
  BY <1>6, FirstText DEF EmbedText
<1>7. QED
  BY <1>1, <1>2, <1>3, <1>4, <1>5, <1>6

\* A script that has run to its end does nothing more.
LEMMA NotDumped ==
  ASSUME Inv, ScriptInv, Script, CommandStep
  PROVE  ~dumped
<1>1. SUFFICES ASSUME dumped PROVE FALSE
  OBVIOUS
<1>2. plan \in Plans /\ at \in Nat \ {0} /\ at = Len(plan) + 1
  BY <1>1 DEF ScriptInv
<1>3. Len(plan) \in Nat /\ (at > Len(plan) => Command = "none")
  BY <1>2, ScriptSteps
<1> DEFINE n == Len(plan)
<1>4. at > n
  <2>1. n \in Nat /\ at = n + 1
    BY <1>2, <1>3
  <2> HIDE DEF n
  <2>2. QED
    BY <2>1
<1>5. Command = "none"
  BY <1>3, <1>4
<1>6. job = Idle /\ Idle.todo = {} /\ Idle.texts = {} /\ Idle.phase = "idle"
  BY <1>5 DEF Inv, JobInv, Idle
<1>7. QED
  BY <1>5, <1>6 DEF CommandStep, ReadForApply, ReadForReverse, ReadReferences, ReadGraphs, ReadSelectors,
     Gate, Dump, Crash, Finish

\* Each step of the script keeps what has been named.
LEMMA NamesStep ==
  ASSUME Inv, LinksInv, ScriptInv, NamesInv, Script, CommandStep
  PROVE  NamesInv'
<1> DEFINE n == Len(plan)
<1>1. plan \in Plans /\ at \in Nat \ {0}
  BY DEF ScriptInv
<1>2. /\ n \in Nat /\ n > 3
      /\ (at = n => Command = "dump") /\ (at > n => Command = "none")
      /\ (at < n => Command # "dump")
  BY <1>1, ScriptSteps
<1>3. plan' = plan /\ Script' = Script /\ Len(plan') = n
  BY PlanMoves DEF Done, Stop, Dump, Script
<1>4. ~dumped
  BY NotDumped
<1>5. texts = Texts /\ graphs = Graphs /\ FreshRows
  BY DEF NamesInv
<1>6. texts' = Texts /\ graphs' = Graphs /\ FreshRows'
  BY <1>5, WrittenNames, FreshStep
<1> DEFINE Goal == plan[1] = "embed" =>
                     /\ at' = 1 => FirstEmbed'
                     /\ at' > 1 /\ (at' <= n \/ dumped') => AllNamed'
<1>7. Goal => NamesInv'
  BY <1>3, <1>6 DEF NamesInv
<1>8. CASE plan[1] # "embed"
  BY <1>7, <1>8
<1>9. CASE plan[1] = "embed"
  <2>0. Len(plan) = n
    OBVIOUS
  <2>a. plan[1] = "embed" => (at = 1 => FirstEmbed) /\ (at > 1 /\ (at <= n \/ dumped) => AllNamed)
    BY DEF NamesInv
  <2> HIDE DEF n
  <2>1. AllNamed => AllNamed'
    <3>1. \A t \in Texts, g \in Graphs : Named(t, g) => Named(t, g)'
      BY <1>5, NamedStays
    <3>2. QED
      BY <3>1 DEF AllNamed, Asked
  <2>2. CASE Stop
    <3>1. at' = n + 1 /\ ~dumped'
      BY <1>4, <2>2 DEF Stop, n
    <3>2. ~(at' <= n) /\ at' # 1
      BY <1>2, <3>1
    <3>3. QED
      BY <1>7, <3>1, <3>2
  <2>3. CASE at = 1
    <3>1. FirstEmbed
      BY <1>9, <2>a, <2>3
    <3>2. Command = "embed"
      <4>1. ~(at > n)
        BY <1>2, <2>3
      <4>2. QED
        BY <1>9, <2>3, <4>1 DEF Command, n
    <3>3. CASE UNCHANGED <<plan, at, dumped>> /\ FirstEmbed'
      <4>1. ~(at' > 1)
        BY <2>3, <3>3
      <4>2. QED
        BY <1>7, <3>3, <4>1
    <3>4. CASE Done /\ AllNamed'
      <4>1. at' # 1
        BY <2>3, <3>4 DEF Done
      <4>2. QED
        BY <1>7, <3>4, <4>1
    <3>5. QED
      BY <1>5, <2>2, <3>1, <3>2, <3>3, <3>4, FirstStep
  <2>4. CASE at # 1
    <3>1. at > 1
      BY <1>1, <2>4
    <3>2. at <= n => AllNamed'
      BY <1>9, <2>a, <2>1, <3>1
    <3>3. CASE UNCHANGED <<plan, at, dumped>>
      BY <1>4, <1>7, <2>4, <3>2, <3>3
    <3>4. CASE Done
      <4>1. at' = at + 1 /\ ~dumped'
        BY <1>4, <3>4 DEF Done
      <4>2. at' # 1 /\ (at' <= n => at <= n)
        BY <1>1, <1>2, <3>1, <4>1
      <4>3. QED
        BY <1>7, <3>2, <4>1, <4>2
    <3>5. CASE Command = "dump" /\ Dump
      <4>1. at <= n
        <5>1. at > n => Command = "none"
          BY <1>2
        <5>2. ~(at > n)
          BY <3>5, <5>1
        <5>3. QED
          BY <1>1, <1>2, <5>2
      <4>2. at' = at + 1
        BY <3>5 DEF Dump
      <4>3. at' # 1
        BY <1>1, <4>2
      <4>4. QED
        BY <1>7, <3>2, <4>1, <4>3
    <3>6. QED
      BY <2>2, <3>3, <3>4, <3>5, PlanMoves
  <2>5. QED
    BY <2>3, <2>4
<1>10. QED
  BY <1>8, <1>9

\* Nothing is to be named at first.
LEMMA NamesInit == Init => NamesInv
<1> SUFFICES ASSUME Init PROVE NamesInv
  OBVIOUS
<1>1. /\ at = 1 /\ job = Idle /\ legacy = [t \in Texts |-> Null] /\ texts = Texts
      /\ graphs = Graphs /\ elementid = Selector
  BY DEF Init
<1>2. FreshRows
  BY <1>1 DEF FreshRows, Idle
<1>3. FirstEmbed
  BY <1>1 DEF FirstEmbed
<1>4. ~(at > 1)
  BY <1>1
<1>5. QED
  BY <1>1, <1>2, <1>3, <1>4 DEF NamesInv

\* Every step keeps what has been named.
LEMMA NamesNext == Inv /\ LinksInv /\ ScriptInv /\ NamesInv /\ [Next]_vars => NamesInv'
<1> SUFFICES ASSUME Inv, LinksInv, ScriptInv, NamesInv, [Next]_vars PROVE NamesInv'
  OBVIOUS
<1>1. ASSUME ~Script, plan' = plan PROVE NamesInv'
  BY <1>1 DEF NamesInv, Script
<1>2. CASE CommandStep /\ ~Script
  <2>1. plan' = plan
    BY <1>2, PlanMoves DEF Done, Stop, Dump
  <2>2. QED
    BY <1>1, <1>2, <2>1
<1>3. ASSUME Next, ~CommandStep PROVE Request
  BY <1>3
  DEF Next, Edits, LinkRegion, UnlinkRegion, Redraw, RedrawBare, Replace, DeleteText, WriteText
<1>4. CASE Request
  BY <1>1, <1>4 DEF Request, progress
<1>5. CASE UNCHANGED vars
  <2>1. UNCHANGED <<content, legacy, texts, graphs, elementid, oldElementid, shape, plan, at, dumped, job>>
    BY <1>5 DEF vars, progress
  <2>2. /\ Command' = Command /\ Script' = Script /\ Idle' = Idle
        /\ \A t : Row(t)' = Row(t) /\ SourceOf(t)' = SourceOf(t)
        /\ \A g : GraphRow(g)' = GraphRow(g)
    BY <2>1, RowsUnchanged DEF Command, Script, Idle, GraphRow
  <2>3. \A t, g : Named(t, g)' = Named(t, g)
    BY <2>2 DEF Named
  <2>4. \A t, g : BeingNamed(t, g) => BeingNamed(t, g)'
    BY <2>1, <2>2, <2>3 DEF BeingNamed
  <2>5. FreshRows => FreshRows'
    BY <2>1, <2>2 DEF FreshRows
  <2>6. FirstEmbed => FirstEmbed'
    BY <2>1, <2>2, <2>4 DEF FirstEmbed, Asked
  <2>7. AllNamed => AllNamed'
    BY <2>3 DEF AllNamed, Asked
  <2>8. QED
    BY <2>1, <2>2, <2>5, <2>6, <2>7 DEF NamesInv
<1>6. QED
  BY <1>2, <1>3, <1>4, <1>5, NamesStep

\* Embedding a graph is idempotent, names no region but its own and leaves TEI
\* alone, in every text at every time; and a backup whose script begins by
\* embedding leaves out no element that a selector describes.
THEOREM EmbeddingAlwaysSettles == Spec => []EmbeddingSettles
<1>1. ASSUME Inv, LinksInv, ScriptInv, NamesInv PROVE EmbeddingSettles
  <2>1. ASSUME NEW t \in texts, NEW g \in graphs, elementid[g][1] = "tuple"
        PROVE  LET once == EmbedId(content[t], elementid[g][2], g)
               IN /\ ~EmbedChanges(once, elementid[g][2], g)
                  /\ ReferencedIds(once) \subseteq ReferencedIds(content[t]) \cup {g}
                  /\ LooksLikeTei(content[t]) => ~EmbedChanges(content[t], elementid[g][2], g)
    <3> DEFINE text == content[t]
               spec == elementid[g][2]
               once == EmbedId(text, spec, g)
    <3>1. IsMarkup(text) /\ Tagged(spec)
      BY <1>1, <2>1 DEF Inv, TableInv, LinksInv, GoodText, GoodSelector
    <3> HIDE DEF text, spec
    <3>2. IsMarkup(once) /\ AllIds(once) \subseteq AllIds(text) \cup {g}
      BY <3>1, EmbedIdIs
    <3>3. ~EmbedChanges(once, spec, g)
      BY <3>1, EmbedTwice
    <3>4. LooksLikeTei(text) => ~EmbedChanges(text, spec, g)
      BY <3>1, EmbedTei
    <3> HIDE DEF once
    <3>5. ReferencedIds(once) = AllIds(once) \cap Digits
          /\ ReferencedIds(text) = AllIds(text) \cap Digits
      BY <3>1, <3>2, RefsAre
    <3>6. ReferencedIds(once) \subseteq ReferencedIds(text) \cup {g}
      BY <3>2, <3>5
    <3>7. QED
      BY <3>3, <3>4, <3>6 DEF once, text, spec
  <2>2. ASSUME dumped, plan[1] = "embed", NEW t \in Texts, NEW g \in TextGraphs,
               ImageOf[t] = ImageOf[g], Selector[g][1] = "tuple"
        PROVE  ~EmbedChanges(Source(Row(t)), Selector[g][2], g)
    <3>1. Script /\ at = Len(plan) + 1 /\ plan \in Plans /\ at \in Nat \ {0}
      BY <1>1, <2>2 DEF ScriptInv
    <3>2. at > 1
      <4> DEFINE n == Len(plan)
      <4>1. n \in Nat /\ n > 3 /\ at = n + 1
        BY <3>1, ScriptSteps
      <4> HIDE DEF n
      <4>2. QED
        BY <4>1
    <3>3. AllNamed
      BY <1>1, <2>2, <3>1, <3>2 DEF NamesInv
    <3>4. g \in Graphs
      BY <1>1 DEF TextGraphs, Inv, TableInv
    <3>5. Named(t, g)
      BY <2>2, <3>3, <3>4 DEF AllNamed, Asked
    <3>6. Source(Row(t)) = SourceOf(t)
      BY RowIs
    <3>7. QED
      BY <3>5, <3>6 DEF Named
  <2>3. QED
    BY <2>1, <2>2, Zenon DEF EmbeddingSettles
<1>2. QED
  BY <1>1, InitInv, NextInv, LinksInit, LinksNext, ScriptInit, ScriptNext, NamesInit, NamesNext,
     PTL DEF Spec
=============================================================================
