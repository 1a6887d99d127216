--------------------------- MODULE SequenceFolds ---------------------------
(***************************************************************************)
(* What FoldLeft computes: the last of a chain of values, each made from   *)
(* the one before and the next element.  Instantiated once for each        *)
(* operator that a model folds; the proof about that model then reasons    *)
(* along the chain with Induction.  Likewise for the functions that are    *)
(* defined by recursion over trees.                                        *)
(***************************************************************************)
EXTENDS Integers, SequencesExt, WellFoundedInduction, TLAPS

CONSTANT Step(_, _)

-----------------------------------------------------------------------------
LEMMA Below == \A x, y \in Nat : <<x, y>> \in OpToRel(<, Nat) <=> x < y
BY DEF OpToRel

\* Induction, for the set of the numbers that have a property.
THEOREM Induction ==
  ASSUME NEW S, 0 \in S, \A n \in Nat : n \in S => n + 1 \in S
  PROVE  Nat \subseteq S
<1> DEFINE T == Nat \ S
<1> SUFFICES ASSUME T # {} PROVE FALSE
  OBVIOUS
<1>1. T \subseteq Nat
  OBVIOUS
<1>2. PICK x \in T : \A y \in T : ~(<<y, x>> \in OpToRel(<, Nat))
  <2> HIDE DEF T
  <2> QED
    BY <1>1, WFMin, NatLessThanWellFounded
<1>3. \A y \in T : ~(y < x)
  BY <1>2, Below
<1>4. x # 0 /\ x - 1 \in Nat /\ x - 1 < x
  OBVIOUS
<1>5. x - 1 \in S
  BY <1>3, <1>4
<1>6. QED
  BY <1>4, <1>5

\* A set of numbers up to k has a greatest one.
LEMMA Greatest ==
  ASSUME NEW k \in Nat, NEW T, T \subseteq 1 .. k, T # {}
  PROVE  Max(T) \in T /\ \A y \in T : Max(T) >= y
<1> DEFINE Has(U) == \E x \in U : \A y \in U : x >= y
           S == {n \in Nat : \A U \in SUBSET (1 .. n) : U # {} => Has(U)}
<1>1. 0 \in S
  <2>1. \A U \in SUBSET (1 .. 0) : U = {}
    OBVIOUS
  <2>2. QED
    BY <2>1
<1>2. ASSUME NEW n \in Nat, n \in S PROVE n + 1 \in S
  <2> SUFFICES ASSUME NEW U \in SUBSET (1 .. n + 1), U # {} PROVE Has(U)
    OBVIOUS
  <2>1. CASE n + 1 \in U
    <3>1. \A y \in U : n + 1 >= y
      OBVIOUS
    <3>2. QED
      BY <2>1, <3>1
  <2>2. CASE n + 1 \notin U
    <3>1. U \subseteq 1 .. n
      BY <2>2
    <3>2. QED
      BY <1>2, <3>1
  <2>3. QED
    BY <2>1, <2>2
<1> HIDE DEF S
<1>3. Nat \subseteq S
  BY <1>1, <1>2, Induction
<1>4. k \in S
  BY <1>3
<1>5. Has(T)
  BY <1>4 DEF S
<1>6. QED
  BY <1>5 DEF Max

LEMMA GreatestOfAll ==
  ASSUME NEW k \in Nat
  PROVE  Max(1 .. k + 1) = k + 1 /\ (1 .. k + 1) \ {k + 1} = 1 .. k
<1>1. Max(1 .. k + 1) \in 1 .. k + 1 /\ \A y \in 1 .. k + 1 : Max(1 .. k + 1) >= y
  BY Greatest
<1>2. k + 1 \in 1 .. k + 1
  OBVIOUS
<1>3. Max(1 .. k + 1) = k + 1
  BY <1>1, <1>2
<1>4. QED
  BY <1>3

-----------------------------------------------------------------------------
\* The function that FoldLeft is defined with, on the sets of positions.
Folds(it, base, seq, k) ==
  it = [s \in SUBSET (1 .. k) |->
          IF s = {} THEN base ELSE Step(it[s \ {Max(s)}], seq[Max(s)])]

LEMMA FoldsExists ==
  ASSUME NEW base, NEW seq, NEW n \in Nat
  PROVE  \E it : Folds(it, base, seq, n)
<1> DEFINE S == {k \in Nat : \E it : Folds(it, base, seq, k)}
<1>1. 0 \in S
  <2> DEFINE it == [s \in SUBSET (1 .. 0) |-> base]
  <2>1. \A s \in SUBSET (1 .. 0) : s = {}
    OBVIOUS
  <2>2. it = [s \in SUBSET (1 .. 0) |->
               IF s = {} THEN base ELSE Step(it[s \ {Max(s)}], seq[Max(s)])]
    BY <2>1
  <2>3. QED
    BY <2>2 DEF Folds
<1>2. ASSUME NEW k \in Nat, k \in S PROVE k + 1 \in S
  <2>1. PICK it : Folds(it, base, seq, k)
    BY <1>2
  <2> DEFINE more == [s \in SUBSET (1 .. k + 1) |->
                        IF k + 1 \in s THEN Step(it[s \ {k + 1}], seq[k + 1]) ELSE it[s]]
  <2>2. ASSUME NEW s \in SUBSET (1 .. k + 1)
        PROVE  more[s] = IF s = {} THEN base ELSE Step(more[s \ {Max(s)}], seq[Max(s)])
    <3>1. CASE s = {}
      <4>1. s \in SUBSET (1 .. k) /\ it[s] = base
        BY <2>1, <3>1 DEF Folds
      <4>2. QED
        BY <3>1, <4>1
    <3>2. CASE s # {} /\ k + 1 \notin s
      <4>0. \A i \in 1 .. k + 1 : i # k + 1 => i \in 1 .. k
        OBVIOUS
      <4>1. s \in SUBSET (1 .. k) /\ s \ {Max(s)} \in SUBSET (1 .. k)
        <5>1. \A i \in s : i \in 1 .. k
          BY <3>2, <4>0
        <5>2. QED
          BY <5>1
      <4>2. more[s] = it[s] /\ k + 1 \notin s \ {Max(s)}
        BY <3>2
      <4>3. more[s \ {Max(s)}] = it[s \ {Max(s)}]
        <5>1. s \ {Max(s)} \in SUBSET (1 .. k + 1)
          BY <4>1
        <5>2. QED
          BY <4>2, <5>1
      <4>4. it[s] = Step(it[s \ {Max(s)}], seq[Max(s)])
        BY <2>1, <3>2, <4>1 DEF Folds
      <4>5. QED
        BY <3>2, <4>2, <4>3, <4>4
    <3>3. CASE k + 1 \in s
      <4>0. k + 1 \in Nat /\ s \subseteq 1 .. k + 1 /\ s # {}
        BY <3>3
      <4>1. Max(s) \in s /\ \A y \in s : Max(s) >= y
        BY <4>0, Greatest
      <4>2. Max(s) = k + 1
        <5>1. Max(s) >= k + 1 /\ Max(s) \in 1 .. k + 1
          BY <3>3, <4>1
        <5>2. QED
          BY <5>1
      <4>3. s \ {k + 1} \in SUBSET (1 .. k + 1) /\ k + 1 \notin s \ {k + 1}
        OBVIOUS
      <4>4. more[s \ {k + 1}] = it[s \ {k + 1}]
        BY <4>3
      <4>5. more[s] = Step(it[s \ {k + 1}], seq[k + 1])
        BY <3>3
      <4>6. s # {}
        BY <3>3
      <4>7. QED
        BY <4>2, <4>4, <4>5, <4>6
    <3>4. QED
      BY <3>1, <3>2, <3>3
  <2>3. more = [s \in SUBSET (1 .. k + 1) |-> more[s]]
    OBVIOUS
  <2> HIDE DEF more
  <2>4. Folds(more, base, seq, k + 1)
    BY <2>2, <2>3 DEF Folds
  <2>5. QED
    BY <2>4
<1> HIDE DEF S
<1>3. Nat \subseteq S
  BY <1>1, <1>2, Induction
<1>4. n \in S
  BY <1>3
<1>5. QED
  BY <1>4 DEF S

Folded(base, seq) == FoldLeft(Step, base, seq)

\* The values that the folding goes through.
Makes(chain, base, seq, n) ==
  /\ chain[0] = base
  /\ \A i \in 1 .. n : chain[i] = Step(chain[i - 1], seq[i])
  /\ Folded(base, seq) = chain[n]

\* FoldLeft is the end of the chain base, Step(base, seq[1]), and so on.
LEMMA FoldChain ==
  ASSUME NEW n \in Nat, NEW seq, DOMAIN seq = 1 .. n, NEW base
  PROVE  \E chain : Makes(chain, base, seq, n)
<1> DEFINE it == CHOOSE it : Folds(it, base, seq, n)
<1>1. Folds(it, base, seq, n)
  BY FoldsExists
<1>2. Folded(base, seq)
        = (CHOOSE f : f = [s \in SUBSET DOMAIN seq |->
             IF s = {} THEN base ELSE Step(f[s \ {Max(s)}], seq[Max(s)])])[DOMAIN seq]
  BY Zenon DEF Folded, FoldLeft, MapThenFoldSet
<1>3. Folded(base, seq) = it[1 .. n]
  BY <1>2, Zenon DEF Folds
<1> HIDE DEF it
<1> DEFINE chain == [i \in 0 .. n |-> it[1 .. i]]
<1>4. chain[0] = base
  <2>1. 1 .. 0 = {} /\ 1 .. 0 \in SUBSET (1 .. n)
    OBVIOUS
  <2>2. it[1 .. 0] = base
    BY <1>1, <2>1 DEF Folds
  <2>3. QED
    BY <2>2
<1>5. ASSUME NEW i \in 1 .. n PROVE chain[i] = Step(chain[i - 1], seq[i])
  <2>1. i - 1 \in Nat /\ (i - 1) + 1 = i
    OBVIOUS
  <2>2. Max(1 .. (i - 1) + 1) = (i - 1) + 1
        /\ (1 .. (i - 1) + 1) \ {(i - 1) + 1} = 1 .. (i - 1)
    BY <2>1, GreatestOfAll
  <2>3. Max(1 .. i) = i /\ (1 .. i) \ {i} = 1 .. (i - 1)
    BY <2>1, <2>2
  <2>4. 1 .. i \in SUBSET (1 .. n) /\ 1 .. i # {}
    OBVIOUS
  <2>5. it[1 .. i] = Step(it[(1 .. i) \ {Max(1 .. i)}], seq[Max(1 .. i)])
    BY <1>1, <2>4 DEF Folds
  <2>6. it[1 .. i] = Step(it[1 .. (i - 1)], seq[i])
    BY <2>3, <2>5
  <2>7. i \in 0 .. n /\ i - 1 \in 0 .. n
    OBVIOUS
  <2>8. QED
    BY <2>6, <2>7
<1>6. Folded(base, seq) = chain[n]
  BY <1>3
<1> HIDE DEF chain
<1>7. QED
  BY <1>4, <1>5, <1>6 DEF Makes

-----------------------------------------------------------------------------
(* Recursion over trees: Step(<<base, f>>, node) makes the value of a node  *)
(* from those that f has for lower ones.                                    *)

Unfolds(f, base, nodes) == f = [node \in nodes |-> Step(<<base, f>>, node)]

LooksDown(base, nodes, height) ==
  /\ \A node \in nodes : height[node] \in Nat
  /\ \A node \in nodes : \A f, g :
       (\A n \in nodes : height[n] < height[node] => f[n] = g[n])
         => Step(<<base, f>>, node) = Step(<<base, g>>, node)

LowerThan(nodes, height, k) == {node \in nodes : height[node] < k}

\* Up to a height, there is such a function.
LEMMA UnfoldsUpTo ==
  ASSUME NEW base, NEW nodes, NEW height, LooksDown(base, nodes, height), NEW k \in Nat
  PROVE  \E f : Unfolds(f, base, LowerThan(nodes, height, k))
<1> DEFINE S == {j \in Nat : \E f : Unfolds(f, base, LowerThan(nodes, height, j))}
<1>1. 0 \in S
  <2>1. LowerThan(nodes, height, 0) = {}
    BY DEF LooksDown, LowerThan
  <2>2. [node \in {} |-> base] = [node \in {} |-> Step(<<base, [n \in {} |-> base]>>, node)]
    OBVIOUS
  <2>3. QED
    BY <2>1, <2>2, Zenon DEF Unfolds
<1>2. ASSUME NEW j \in Nat, j \in S PROVE j + 1 \in S
  <2>1. PICK f : Unfolds(f, base, LowerThan(nodes, height, j))
    BY <1>2
  <2> DEFINE more == [node \in LowerThan(nodes, height, j + 1) |-> Step(<<base, f>>, node)]
  <2>2. ASSUME NEW node \in LowerThan(nodes, height, j + 1)
        PROVE  more[node] = Step(<<base, more>>, node)
    <3>1. node \in nodes /\ height[node] \in Nat /\ height[node] < j + 1
      BY DEF LowerThan, LooksDown
    <3>2. ASSUME NEW n \in nodes, height[n] < height[node] PROVE more[n] = f[n]
      <4>1. height[n] \in Nat
        BY DEF LooksDown
      <4>2. height[n] < j /\ height[n] < j + 1
        BY <3>1, <3>2, <4>1
      <4>3. n \in LowerThan(nodes, height, j) /\ n \in LowerThan(nodes, height, j + 1)
        BY <4>2 DEF LowerThan
      <4>4. f[n] = Step(<<base, f>>, n)
        BY <2>1, <4>3 DEF Unfolds
      <4>5. QED
        BY <4>3, <4>4
    <3> HIDE DEF more
    <3>3. Step(<<base, more>>, node) = Step(<<base, f>>, node)
      BY <3>1, <3>2, Zenon DEF LooksDown
    <3>4. QED
      BY <3>3 DEF more
  <2>3. more = [node \in LowerThan(nodes, height, j + 1) |-> more[node]]
    OBVIOUS
  <2> HIDE DEF more
  <2>4. Unfolds(more, base, LowerThan(nodes, height, j + 1))
    BY <2>2, <2>3 DEF Unfolds
  <2>5. QED
    BY <2>4
<1> HIDE DEF S
<1>3. k \in S
  BY <1>1, <1>2, Induction
<1>4. QED
  BY <1>3 DEF S

\* Two such functions agree where both are defined.
LEMMA UnfoldsOnce ==
  ASSUME NEW base, NEW nodes, NEW height, LooksDown(base, nodes, height),
         NEW j \in Nat, NEW k \in Nat, NEW f, NEW g,
         Unfolds(f, base, LowerThan(nodes, height, j)), Unfolds(g, base, LowerThan(nodes, height, k)),
         NEW node \in nodes, height[node] < j, height[node] < k
  PROVE  f[node] = g[node]
<1> DEFINE S == {h \in Nat : \A n \in nodes :
                    height[n] < h /\ height[n] < j /\ height[n] < k => f[n] = g[n]}
<1>1. 0 \in S
  BY DEF LooksDown
<1>2. ASSUME NEW h \in Nat, h \in S PROVE h + 1 \in S
  <2> SUFFICES ASSUME NEW n \in nodes, height[n] < h + 1, height[n] < j, height[n] < k
               PROVE  f[n] = g[n]
    OBVIOUS
  <2>1. height[n] \in Nat
    BY DEF LooksDown
  <2>2. ASSUME NEW m \in nodes, height[m] < height[n] PROVE f[m] = g[m]
    <3>1. height[m] \in Nat
      BY DEF LooksDown
    <3>2. height[m] < h /\ height[m] < j /\ height[m] < k
      BY <2>1, <2>2, <3>1
    <3>3. QED
      BY <1>2, <3>2
  <2>3. Step(<<base, f>>, n) = Step(<<base, g>>, n)
    BY <2>2, Zenon DEF LooksDown
  <2>4. n \in LowerThan(nodes, height, j) /\ n \in LowerThan(nodes, height, k)
    BY DEF LowerThan
  <2>5. f[n] = Step(<<base, f>>, n) /\ g[n] = Step(<<base, g>>, n)
    BY <2>4 DEF Unfolds
  <2>6. QED
    BY <2>3, <2>5
<1> HIDE DEF S
<1>3. height[node] + 1 \in Nat /\ height[node] < height[node] + 1
  BY DEF LooksDown
<1>4. height[node] + 1 \in S
  BY <1>1, <1>2, <1>3, Induction
<1>5. QED
  BY <1>3, <1>4 DEF S

\* A value for each node of finite trees, made from those of lower ones.
LEMMA Recursion ==
  ASSUME NEW base, NEW nodes, NEW height, LooksDown(base, nodes, height)
  PROVE  \E f : Unfolds(f, base, nodes)
<1> DEFINE UpTo(k) == CHOOSE f : Unfolds(f, base, LowerThan(nodes, height, k))
           all == [node \in nodes |-> UpTo(height[node] + 1)[node]]
<1>1. \A k \in Nat : Unfolds(UpTo(k), base, LowerThan(nodes, height, k))
  BY UnfoldsUpTo
<1> HIDE DEF UpTo
<1>2. ASSUME NEW node \in nodes PROVE all[node] = Step(<<base, all>>, node)
  <2> DEFINE k == height[node] + 1
             f == UpTo(k)
  <2>1. height[node] \in Nat /\ k \in Nat /\ height[node] < k
    BY DEF LooksDown
  <2>2. ASSUME NEW n \in nodes, height[n] < height[node] PROVE all[n] = f[n]
    <3>1. height[n] \in Nat /\ height[n] + 1 \in Nat /\ height[n] < height[n] + 1
      BY DEF LooksDown
    <3>2. height[n] < k
      BY <2>1, <2>2, <3>1
    <3>3. UpTo(height[n] + 1)[n] = UpTo(k)[n]
      <4> HIDE DEF k
      <4>1. QED
        BY <1>1, <2>1, <3>1, <3>2, UnfoldsOnce
    <3>4. QED
      BY <3>3
  <2>3. node \in LowerThan(nodes, height, k)
    BY <2>1 DEF LowerThan
  <2>4. f[node] = Step(<<base, f>>, node)
    BY <1>1, <2>1, <2>3 DEF Unfolds
  <2>5. all[node] = f[node]
    OBVIOUS
  <2> HIDE DEF all, f
  <2>6. Step(<<base, all>>, node) = Step(<<base, f>>, node)
    BY <2>2, Zenon DEF LooksDown
  <2>7. QED
    BY <2>4, <2>5, <2>6
<1>3. all = [node \in nodes |-> all[node]]
  OBVIOUS
<1> HIDE DEF all
<1>4. Unfolds(all, base, nodes)
  BY <1>2, <1>3 DEF Unfolds
<1>5. QED
  BY <1>4
=============================================================================
